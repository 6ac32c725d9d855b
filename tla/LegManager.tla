----------------------------- MODULE LegManager -----------------------------
(***************************************************************************)
(* strategy/leg_manager.rs: the two-leg state machine of one market.       *)
(*                                                                         *)
(* A LegManager is a record; each method of the Rust type is an operator   *)
(* from the record before the call to the record after it.  The LegAction  *)
(* a method returns is given by a predicate on the record (does the call   *)
(* ask for an order?) and an operator that builds the order.               *)
(*                                                                         *)
(* Money is counted in micro-dollars: fees of 2 % are exact on every price *)
(* the exchange quotes.  A token is the pair (market, side).  An amount of *)
(* shares is named by the Leg1 order whose fill produced it, which is all  *)
(* that the two-leg logic tells apart: it never splits or adds amounts.    *)
(* (The executor floors amounts to 0.01 shares; that remainder is left     *)
(* out.)                                                                   *)
(***************************************************************************)
EXTENDS Integers

CONSTANT MinProfitMargin  \* cfg.min_profit_margin, in micro-dollars

ASSUME MarginAssumption == MinProfitMargin \in Nat

Dollar   == 1000000
Tick     == 10000        \* the exchange's price grid: one cent
Slippage == 10000        \* params.slippage_cents
TakerFee(p) == (2 * p) \div 100

Sides == {"Yes", "No"}
Opposite(side) == IF side = "Yes" THEN "No" ELSE "Yes"

LegStates == {"None", "Idle", "Leg1Pending", "Leg2Pending", "Locked", "ForceClose"}
Filled1   == {"Leg2Pending", "Locked", "ForceClose"}   \* Leg1 fill recorded

(***************************************************************************)
(* market is the market whose tokens the manager holds; state "None" means *)
(* that the asset has no entry in active_markets yet.  A field that the    *)
(* Rust variant of the state does not carry is not read in that state.     *)
(***************************************************************************)
Manager(Markets, Shares) ==
    [market: Markets \cup {0}, state: LegStates, side: Sides,
     fill1: Nat, shares: Shares, target2: Int, fill2: Nat, pnl: Int]

Fresh(market, state) ==
    [market |-> market, state |-> state, side |-> "Yes",
     fill1 |-> 0, shares |-> 0, target2 |-> 0, fill2 |-> 0, pnl |-> 0]

NoManager   == Fresh(0, "None")
New(market) == Fresh(market, "Idle")

(***************************************************************************)
(* The highest Leg2 price for which on_leg1_fill expects a profitable      *)
(* lock, and the profit per share that on_leg2_fill books.  The first one  *)
(* charges the fee on the fill price, the second on fill price + slippage. *)
(***************************************************************************)

\* Mutant: the slippage is left out of the Leg2 limit.
MaxLeg2NoSlippage(p) == Dollar - p - TakerFee(p) - MinProfitMargin

MaxLeg2(p) == Dollar - p - Slippage - TakerFee(p) - MinProfitMargin

LockedPnl(p, q) ==
    LET cost1 == p + Slippage
    IN  Dollar - (cost1 + q + TakerFee(cost1))

-----------------------------------------------------------------------------
\* Mutant: the manager stays Idle while its Leg1 order is in flight.
OnSignalStaysIdle(m, side) == [m EXCEPT !.side = side]

\* PlaceLeg1 is returned, and the state changes, only in Idle.
OnSignal(m, side) ==
    IF m.state = "Idle" THEN [m EXCEPT !.state = "Leg1Pending", !.side = side]
                        ELSE m

\* PlaceLeg2 is returned only in Leg1Pending.
OnLeg1Fill(m, price, shares) ==
    IF m.state = "Leg1Pending"
    THEN [m EXCEPT !.state = "Leg2Pending", !.fill1 = price,
                   !.shares = shares, !.target2 = MaxLeg2(price)]
    ELSE m

\* Mutant: a refused Leg1 order is only logged.
OnLeg1RejectedIgnored(m) == m

\* Whatever the state: there is no guard in the code.
OnLeg1Rejected(m) == New(m.market)

\* Mutant: no guard on the state.
ReplacesLeg2Always(m) == m.state \in Filled1

\* on_leg2_rejected returns PlaceLeg2 in this state and leaves it as it is.
ReplacesLeg2(m) == m.state = "Leg2Pending"

\* Mutant: due only in the exact second.
ForceCloseDueExactly(m, secsToExpiry, forceCloseSecs) ==
    /\ m.state = "Leg2Pending"
    /\ secsToExpiry = forceCloseSecs

\* on_tick: ForceCloseLeg1 is returned when the state changes.
ForceCloseDue(m, secsToExpiry, forceCloseSecs) ==
    /\ m.state = "Leg2Pending"
    /\ secsToExpiry <= forceCloseSecs

\* Mutant: the state is left at Leg2Pending.
OnTickRepeats(m, secsToExpiry, forceCloseSecs) == m

OnTick(m, secsToExpiry, forceCloseSecs) ==
    IF ForceCloseDue(m, secsToExpiry, forceCloseSecs)
    THEN [m EXCEPT !.state = "ForceClose"]
    ELSE m

OnLeg2Fill(m, price) ==
    IF m.state = "Leg2Pending"
    THEN [m EXCEPT !.state = "Locked", !.fill2 = price,
                   !.pnl = LockedPnl(m.fill1, price)]
    ELSE m

=============================================================================
