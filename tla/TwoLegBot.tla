------------------------------ MODULE TwoLegBot ------------------------------
(***************************************************************************)
(* The trading core: the event loop of main.rs with one LegManager per     *)
(* asset and the risk manager's position counts, composed with the order   *)
(* executor of execution/order_builder.rs and the exchange behind it.      *)
(*                                                                         *)
(* Each branch of the tokio select! runs to completion, so one branch is   *)
(* one action.  The executor runs every request in a task of its own:      *)
(* requests reach the exchange in any order, answers come back in any      *)
(* order, and an answer names only the asset and the kind of the order.    *)
(***************************************************************************)
EXTENDS LegManager, FiniteSets

CONSTANTS Assets,        \* cfg.assets
          Quotes,        \* token prices the Polymarket feed may have shown
          Prices,        \* average prices at which a Leg1 order may be filled
          Improvements,  \* amounts by which a Leg2 fill may beat its limit
          MinEntryPrice, MaxEntryPrice,     \* cfg.min_entry_price, max_entry_price
          MaxPositions,  \* cfg.max_concurrent_positions
          Interval,      \* cfg.market_interval_secs, in model time units
          MinEntryTime, MaxEntryTime,       \* params.min/max_entry_time_secs
          ForceCloseSecs,                   \* cfg.force_close_secs
          MaxMarkets,    \* bound: markets activated per asset
          MaxOrders,     \* bound: orders placed per asset, the last one only
                         \* as a force-close
          SignalRoom     \* bound: orders that must be left when a signal fires

ASSUME PriceAssumption == /\ Prices \subseteq Nat /\ Quotes \subseteq Nat
                          /\ Improvements \subseteq Nat
                          /\ MinEntryPrice \in Nat /\ MaxEntryPrice \in Nat
ASSUME TimeAssumption  == /\ Interval \in Nat
                          /\ MinEntryTime \in Nat /\ MaxEntryTime \in Nat
                          /\ ForceCloseSecs \in Nat
ASSUME BoundAssumption == /\ MaxMarkets \in Nat /\ MaxOrders \in Nat
                          /\ MaxPositions \in Nat /\ SignalRoom \in Nat

VARIABLES
    mgr,       \* active_markets: the LegManager of each asset
    age,       \* seconds since the manager's market_open_ts, at most Interval
    open,      \* risk_mgr.open_positions
    orders,    \* every order placed, by asset and order number
    placed,    \* number of orders placed per asset
    redeemTx,  \* markets handed to the redeemer
    polySub    \* markets whose tokens were handed to the Polymarket feed

vars == <<mgr, age, open, orders, placed, redeemTx, polySub>>

Markets  == 1..MaxMarkets
OrderIds == 1..MaxOrders

NoHint == 0       \* no token price seen: the executor fetches the book

(***************************************************************************)
(* An order: the request (kind, token, limit price, shares), what became   *)
(* of it on the exchange (book, price), the OrderResult the executor sends *)
(* back (reply), and the market whose manager got the result (seenBy, 0    *)
(* until then).  The code keeps neither book nor seenBy.  Part: matched    *)
(* for some of its shares, while the rest stays on the book.               *)
(***************************************************************************)
Kinds   == {"Leg1", "Leg2", "ForceClose"}
Replies == {"Filled", "Live", "Rejected", "Err"}
Order   == [kind: Kinds \cup {"None"}, market: Markets \cup {0}, side: Sides,
            limit: Int, shares: OrderIds \cup {0},
            book: {"Unsent", "Filled", "Part", "Resting", "Refused"}, price: Nat,
            reply: Replies \cup {"None"}, seenBy: Markets \cup {0}]

NewOrder(kind, market, side, limit, shares) ==
    [kind |-> kind, market |-> market, side |-> side, limit |-> limit,
     shares |-> shares, book |-> "Unsent", price |-> 0,
     reply |-> "None", seenBy |-> 0]

NoOrder == NewOrder("None", 0, "Yes", 0, 0)

Init ==
    /\ mgr      = [a \in Assets |-> NoManager]
    /\ age      = [a \in Assets |-> 0]
    /\ open     = [a \in Assets |-> 0]
    /\ orders   = [a \in Assets |-> [n \in OrderIds |-> NoOrder]]
    /\ placed   = [a \in Assets |-> 0]
    /\ redeemTx = {}
    /\ polySub  = {}

-----------------------------------------------------------------------------
(* order_builder.rs: one task per request, and the exchange.               *)

\* execute_leg2 floors the price to the grid.  The price is an f64, so that
\* one that lies on the grid may be floored to the tick below.
Ticked(limit) == {(limit \div Tick) * Tick}
                   \cup (IF limit % Tick = 0 THEN {limit - Tick} ELSE {})

\* The prices at which execute_leg2 posts; it fails when there is none.
PostPrices(limit) == {q \in Ticked(limit) : 0 < q /\ q < Dollar}

FillPrices(o) ==
    IF o.kind = "Leg1" THEN {p \in Prices : p <= o.limit}
    ELSE IF o.kind = "Leg2"
         THEN {p \in {q - d : q \in PostPrices(o.limit), d \in Improvements} : p > 0}
         ELSE {0}      \* a sale: its price is only logged

Posted(o) == o.kind # "None" /\ o.book = "Unsent"

Answer(o, book, price, reply) ==
    [o EXCEPT !.book = book, !.price = price, !.reply = reply]

\* Leg1 and the force-close are FOK orders, which are matched for all their
\* shares; Leg2 is a limit order, which may be matched in part.
Matches(o) == IF o.kind = "Leg2" THEN {"Filled", "Part"} ELSE {"Filled"}

\* The exchange took the order, and the executor does not know: the answer was
\* lost (an Err), or its error was misread, the order posted again, and that
\* second post refused.
Unknowing == {"Err", "Rejected"}

\* The order is matched at once.
Fill(a, n) ==
    /\ Posted(orders[a][n])
    /\ \E p \in FillPrices(orders[a][n]), book \in Matches(orders[a][n]),
          r \in {"Filled"} \cup Unknowing :
             orders' = [orders EXCEPT ![a][n] = Answer(@, book, p, r)]
    /\ UNCHANGED <<mgr, age, open, placed, redeemTx, polySub>>

\* Status Live or Delayed: the order is accepted and not matched yet.
Rest(a, n) ==
    /\ Posted(orders[a][n])
    /\ \E p \in FillPrices(orders[a][n]), r \in {"Live"} \cup Unknowing :
          orders' = [orders EXCEPT ![a][n] = Answer(@, "Resting", p, r)]
    /\ UNCHANGED <<mgr, age, open, placed, redeemTx, polySub>>

\* What rests of an order is matched later, all of it or some.  Nothing reports
\* it to the bot.
RestingFill(a, n) ==
    /\ orders[a][n].book \in {"Resting", "Part"}
    /\ \E book \in Matches(orders[a][n]) :
          orders' = [orders EXCEPT ![a][n].book = book]
    /\ UNCHANGED <<mgr, age, open, placed, redeemTx, polySub>>

\* The order is never posted (an Err), or refused, cancelled or unmatched.
Refuse(a, n) ==
    /\ Posted(orders[a][n])
    /\ \E r \in {"Rejected", "Err"} :
          /\ orders[a][n].kind = "Leg2" /\ PostPrices(orders[a][n].limit) = {}
                => r = "Err"
          /\ orders' = [orders EXCEPT ![a][n] = Answer(@, "Refused", 0, r)]
    /\ UNCHANGED <<mgr, age, open, placed, redeemTx, polySub>>

-----------------------------------------------------------------------------
(* main.rs, order results.  The manager that gets a result is the asset's  *)
(* current one, whatever market the order was placed for.                  *)

Answered(a, n, kind, replies) ==
    /\ orders[a][n].kind = kind
    /\ orders[a][n].reply \in replies
    /\ orders[a][n].seenBy = 0

Seen(a, n) == [orders EXCEPT ![a][n] = [@ EXCEPT !.seenBy = mgr[a].market]]

\* order_tx.send after the result of order n has been taken in.
SeenAndPlace(a, n, o) ==
    /\ placed[a] + 1 < MaxOrders
    /\ orders' = [Seen(a, n) EXCEPT ![a][placed[a] + 1] = o]
    /\ placed' = [placed EXCEPT ![a] = @ + 1]

\* Mutant: the Leg2 order buys the token that Leg1 bought.
Leg2OrderSameSide(m) ==
    NewOrder("Leg2", m.market, m.side, m.target2, m.shares)

Leg2Order(m) ==
    NewOrder("Leg2", m.market, Opposite(m.side), m.target2, m.shares)

Leg1Filled(a, n) ==
    LET m == OnLeg1Fill(mgr[a], orders[a][n].price, n)
    IN  /\ Answered(a, n, "Leg1", {"Filled"})
        /\ open' = [open EXCEPT ![a] = @ + 1]
        /\ mgr'  = [mgr EXCEPT ![a] = m]
        /\ IF mgr[a].state = "Leg1Pending"
           THEN SeenAndPlace(a, n, Leg2Order(m))
           ELSE orders' = Seen(a, n) /\ UNCHANGED placed
        /\ UNCHANGED <<age, redeemTx, polySub>>

\* Mutant: a Leg1 order that is Live or Delayed is taken for a refusal.
Leg1RefusedOrLive(a, n) ==
    /\ Answered(a, n, "Leg1", {"Rejected", "Err", "Live"})
    /\ mgr'    = [mgr EXCEPT ![a] = OnLeg1Rejected(@)]
    /\ orders' = Seen(a, n)
    /\ UNCHANGED <<age, open, placed, redeemTx, polySub>>

Leg1Refused(a, n) ==
    /\ Answered(a, n, "Leg1", {"Rejected", "Err"})
    /\ mgr'    = [mgr EXCEPT ![a] = OnLeg1Rejected(@)]
    /\ orders' = Seen(a, n)
    /\ UNCHANGED <<age, open, placed, redeemTx, polySub>>

Leg2Filled(a, n) ==
    /\ Answered(a, n, "Leg2", {"Filled"})
    /\ mgr'    = [mgr EXCEPT ![a] = OnLeg2Fill(@, orders[a][n].price)]
    /\ orders' = Seen(a, n)
    /\ UNCHANGED <<age, open, placed, redeemTx, polySub>>

Leg2Rejected(a, n) ==
    /\ Answered(a, n, "Leg2", {"Rejected"})
    /\ IF ReplacesLeg2(mgr[a])
       THEN SeenAndPlace(a, n, Leg2Order(mgr[a]))
       ELSE orders' = Seen(a, n) /\ UNCHANGED placed
    /\ UNCHANGED <<mgr, age, open, redeemTx, polySub>>

\* Mutant: the fill of a force-close is logged and not counted.
ForceCloseFilledUncounted(a, n) ==
    /\ Answered(a, n, "ForceClose", {"Filled"})
    /\ orders' = Seen(a, n)
    /\ UNCHANGED <<mgr, age, open, placed, redeemTx, polySub>>

ForceCloseFilled(a, n) ==
    /\ Answered(a, n, "ForceClose", {"Filled"})
    /\ open'   = [open EXCEPT ![a] = IF @ = 0 THEN 0 ELSE @ - 1]
    /\ orders' = Seen(a, n)
    /\ UNCHANGED <<mgr, age, placed, redeemTx, polySub>>

\* The results the loop takes and only logs.
Logged(a, n) ==
    /\ \/ Answered(a, n, "Leg1", {"Live"})
       \/ Answered(a, n, "Leg2", {"Live", "Err"})
       \/ Answered(a, n, "ForceClose", {"Live", "Rejected", "Err"})
    /\ orders' = Seen(a, n)
    /\ UNCHANGED <<mgr, age, open, placed, redeemTx, polySub>>

-----------------------------------------------------------------------------
(* main.rs, market rotation and price feeds.                               *)

\* Mutant: the redeemer is not told of a market that seems not to have been traded.
ActivateQuietly(a) ==
    /\ mgr[a].market < MaxMarkets
    /\ redeemTx' = IF mgr[a].state \in {"None", "Idle"} THEN redeemTx
                   ELSE redeemTx \cup {<<a, mgr[a].market>>}
    /\ mgr'     = [mgr EXCEPT ![a] = New(@.market + 1)]
    /\ age'     = [age EXCEPT ![a] = 0]
    /\ polySub' = polySub \cup {<<a, mgr[a].market + 1>>}
    /\ UNCHANGED <<open, orders, placed>>

\* market_rx: the next market replaces the manager, in whatever state it is.
Activate(a) ==
    /\ mgr[a].market < MaxMarkets
    /\ redeemTx' = IF mgr[a].market = 0 THEN redeemTx
                   ELSE redeemTx \cup {<<a, mgr[a].market>>}
    /\ mgr'     = [mgr EXCEPT ![a] = New(@.market + 1)]
    /\ age'     = [age EXCEPT ![a] = 0]
    /\ polySub' = polySub \cup {<<a, mgr[a].market + 1>>}
    /\ UNCHANGED <<open, orders, placed>>

\* Mutant: off by one.
EntryAllowedOneMore(a) == open[a] <= MaxPositions

\* risk_mgr.check_entry: the tracker is never fed and neither halt nor
\* cooldown is ever set, so that only the position limit can veto.
EntryAllowed(a) == open[a] < MaxPositions

\* A token price is missing until the feed has quoted the token; the signal
\* is then evaluated at 0.50.
EntryPrice(hint) == IF hint = NoHint THEN Dollar \div 2 ELSE hint

\* evaluate_entry may yield a signal, for either side: whether the move and
\* the imbalance pass their thresholds is left open.
EvaluateEntry(a, hint) ==
    /\ age[a] \in MinEntryTime..MaxEntryTime
    /\ EntryPrice(hint) \in MinEntryPrice..MaxEntryPrice

\* hl_rx: a book event for which there is a signal for side.
HlSignal(a, side, hint) ==
    /\ mgr[a].state = "Idle"
    /\ EvaluateEntry(a, hint)
    /\ EntryAllowed(a)
    /\ placed[a] + SignalRoom < MaxOrders
    /\ mgr'    = [mgr EXCEPT ![a] = OnSignal(@, side)]
    /\ orders' = [orders EXCEPT ![a][placed[a] + 1] =
                    NewOrder("Leg1", mgr[a].market, side,
                             IF hint = NoHint THEN Dollar ELSE hint, 0)]
    /\ placed' = [placed EXCEPT ![a] = @ + 1]
    /\ UNCHANGED <<age, open, redeemTx, polySub>>

\* poly_rx: a book event with asks for the token opposite to Leg1.
PolyBook(a) ==
    /\ ForceCloseDue(mgr[a], Interval - age[a], ForceCloseSecs)
    /\ placed[a] < MaxOrders
    /\ mgr'    = [mgr EXCEPT ![a] = OnTick(@, Interval - age[a], ForceCloseSecs)]
    /\ orders' = [orders EXCEPT ![a][placed[a] + 1] =
                    NewOrder("ForceClose", mgr[a].market, mgr[a].side,
                             Tick, mgr[a].shares)]
    /\ placed' = [placed EXCEPT ![a] = @ + 1]
    /\ UNCHANGED <<age, open, redeemTx, polySub>>

\* Mutant: secs_to_expiry is not clamped at 0.
ElapseUnclamped ==
    /\ \E a \in Assets : mgr[a].market # 0
    /\ age' = [a \in Assets |-> IF mgr[a].market # 0 THEN age[a] + 1 ELSE age[a]]
    /\ UNCHANGED <<mgr, open, orders, placed, redeemTx, polySub>>

\* Utc::now() advances; secs_to_expiry stays 0 once the interval is over.
Elapse ==
    /\ \E a \in Assets : mgr[a].market # 0 /\ age[a] < Interval
    /\ age' = [a \in Assets |-> IF mgr[a].market # 0 /\ age[a] < Interval
                                THEN age[a] + 1 ELSE age[a]]
    /\ UNCHANGED <<mgr, open, orders, placed, redeemTx, polySub>>

Next ==
    \/ Elapse
    \/ \E a \in Assets :
          \/ Activate(a)
          \/ \E side \in Sides, hint \in Quotes \cup {NoHint} : HlSignal(a, side, hint)
          \/ PolyBook(a)
          \/ \E n \in OrderIds :
                \/ Fill(a, n) \/ Rest(a, n) \/ RestingFill(a, n) \/ Refuse(a, n)
                \/ Leg1Filled(a, n) \/ Leg1Refused(a, n)
                \/ Leg2Filled(a, n) \/ Leg2Rejected(a, n)
                \/ ForceCloseFilled(a, n) \/ Logged(a, n)

Spec == Init /\ [][Next]_vars

(***************************************************************************)
(* Fairness.  Time passes; tokio polls every executor task and every ready *)
(* branch of the select!, so that orders are answered and results taken in *)
(* (all of them in the end, as only finitely many orders are placed).      *)
(*                                                                         *)
(* A force-close waits for an order book of the token opposite to Leg1,    *)
(* which nothing in the code guarantees: BooksKeepComing is the condition  *)
(* under which the liveness properties are stated.                         *)
(***************************************************************************)
Fairness ==
    /\ WF_vars(Elapse)
    /\ \A a \in Assets :
          /\ WF_vars(\E n \in OrderIds : Fill(a, n) \/ Rest(a, n) \/ Refuse(a, n))
          /\ WF_vars(\E n \in OrderIds :
                        \/ Leg1Filled(a, n) \/ Leg1Refused(a, n)
                        \/ Leg2Filled(a, n) \/ Leg2Rejected(a, n)
                        \/ ForceCloseFilled(a, n) \/ Logged(a, n))

BooksKeepComing == \A a \in Assets : WF_vars(PolyBook(a))

FairSpec == Spec /\ Fairness /\ BooksKeepComing

-----------------------------------------------------------------------------
(* Properties.                                                             *)

\* The orders of the market whose manager is current.
Own(a) == {n \in OrderIds : /\ orders[a][n].kind # "None"
                            /\ orders[a][n].market = mgr[a].market}

\* The current manager has been given results of its own market only.
Clean(a) == \A n \in OrderIds :
               /\ orders[a][n].seenBy = mgr[a].market
               /\ orders[a][n].seenBy # 0
               => orders[a][n].market = mgr[a].market

\* Every variable has its type; MaxMarkets and MaxOrders bound the ids.
TypeOK ==
    /\ mgr    \in [Assets -> Manager(Markets, OrderIds \cup {0})]
    /\ age    \in [Assets -> 0..Interval]
    /\ open   \in [Assets -> Nat]
    /\ orders \in [Assets -> [OrderIds -> Order]]
    /\ placed \in [Assets -> 0..MaxOrders]
    /\ redeemTx \subseteq Assets \X Markets
    /\ polySub  \subseteq Assets \X Markets

\* As long as its manager has been given no foreign result, a market has at
\* most one unanswered Leg1 and one unanswered Leg2 order, and a Leg1 order is
\* unanswered only in state Leg1Pending: the select! loop never buys a leg
\* twice because answers are slow or arrive out of order.
OneOrderPerLeg ==
    \A a \in Assets : Clean(a) =>
        \A i \in Own(a) : orders[a][i].seenBy = 0 =>
            /\ orders[a][i].kind = "Leg1" => mgr[a].state = "Leg1Pending"
            /\ \A j \in Own(a) :
                  /\ orders[a][j].seenBy = 0
                  /\ orders[a][j].kind = orders[a][i].kind
                  => i = j

\* What was bought or sold, if only in part.
Matched(o) == o.book \in {"Filled", "Part"}

\* A locked position of a clean market is hedged, at least in part: both legs
\* were matched on the exchange, Leg1 for all its shares, on opposite sides of
\* that market; the Leg2 order was for the shares of Leg1; and the profit booked
\* is that of the two fills.
LockedIsHedged ==
    \A a \in Assets : Clean(a) /\ mgr[a].state = "Locked" =>
        \E i, j \in Own(a) :
           /\ orders[a][i].kind = "Leg1" /\ orders[a][j].kind = "Leg2"
           /\ orders[a][i].book = "Filled" /\ Matched(orders[a][j])
           /\ orders[a][i].side # orders[a][j].side
           /\ orders[a][j].shares = i
           /\ mgr[a].pnl = LockedPnl(orders[a][i].price, orders[a][j].price)

\* The profit per share of a locked position of a clean market is at least
\* the margin less the fee on the slippage, which on_leg2_fill charges and
\* on_leg1_fill left out of the Leg2 limit: every Leg2 order, repeated ones
\* included, carries the limit computed from the fill it hedges.
LockedMargin ==
    \A a \in Assets : Clean(a) /\ mgr[a].state = "Locked" =>
        mgr[a].pnl >= MinProfitMargin - TakerFee(Slippage)

\* A force-close of a clean market sells exactly what a Leg1 order of that
\* market bought (same token, same shares), and sells it once.
ForceCloseSellsLeg1 ==
    \A a \in Assets : Clean(a) =>
        \A f \in Own(a) : orders[a][f].kind = "ForceClose" =>
            /\ \E i \in Own(a) : /\ orders[a][i].kind = "Leg1"
                                 /\ orders[a][i].book = "Filled"
                                 /\ orders[a][i].side = orders[a][f].side
                                 /\ orders[a][f].shares = i
            /\ \A g \in Own(a) : orders[a][g].kind = "ForceClose" => g = f

\* In a clean market a Leg2 order is only ever repeated after its predecessor
\* was reported rejected, and none is placed once the force-close has been:
\* a late rejection never rebuys the opposite leg of a position being sold.
NoSecondHedge ==
    \A a \in Assets : Clean(a) =>
        \A i, j \in Own(a) : i < j /\ orders[a][j].kind = "Leg2" =>
            /\ orders[a][i].kind # "ForceClose"
            /\ orders[a][i].kind = "Leg2" =>
                  orders[a][i].reply = "Rejected" /\ orders[a][i].seenBy # 0

\* If every result so far reached the manager of its own market, the position
\* count never exceeds MAX_CONCURRENT_POSITIONS, although it is checked when
\* the signal fires and raised only when the fill is reported.
PositionLimit ==
    \A a \in Assets :
        (\A n \in OrderIds : orders[a][n].seenBy \in {0, orders[a][n].market})
        => open[a] <= MaxPositions

\* The position count is the number of reported Leg1 fills less the number of
\* reported force-closes, whichever managers got them: the saturating_sub of
\* on_position_closed never hides a missing increment.
PositionAccounting ==
    LET reported(a, kind) == {n \in OrderIds : /\ orders[a][n].kind = kind
                                               /\ orders[a][n].reply = "Filled"
                                               /\ orders[a][n].seenBy # 0}
    IN  \A a \in Assets : open[a] = Cardinality(reported(a, "Leg1"))
                                    - Cardinality(reported(a, "ForceClose"))

\* An idle manager of a clean market holds nothing of that market, unless the
\* executor did not know that an order was matched.
IdleIsFlat ==
    \A a \in Assets : Clean(a) /\ mgr[a].state = "Idle" =>
        \A n \in Own(a) : Matched(orders[a][n]) => orders[a][n].reply \in Unknowing

\* Whatever was bought of a market that is over, also by an order whose answer
\* was lost or that was matched after the rotation, is of a market that was handed
\* to the redeemer; and the current market is not handed over yet.
HoldingsRedeemed ==
    \A a \in Assets :
        /\ <<a, mgr[a].market>> \notin redeemTx
        /\ \A n \in OrderIds : Matched(orders[a][n]) =>
              \/ orders[a][n].market = mgr[a].market
              \/ <<a, orders[a][n].market>> \in redeemTx

-----------------------------------------------------------------------------
(* The abstract specification.                                             *)

\* The current market has an order of the kind; the fill of one was reported.
Ordered(a, kind) == \E n \in OrderIds : /\ orders[a][n].kind = kind
                                        /\ orders[a][n].market = mgr[a].market

Told(a, kind) == \E n \in OrderIds : /\ orders[a][n].kind = kind
                                     /\ orders[a][n].market = mgr[a].market
                                     /\ orders[a][n].reply = "Filled"
                                     /\ orders[a][n].seenBy # 0

\* Its Leg1 order is not answered yet, or live or delayed.
Bidding(a) == \E n \in OrderIds : /\ orders[a][n].kind = "Leg1"
                                  /\ orders[a][n].market = mgr[a].market
                                  /\ orders[a][n].seenBy = 0 \/ orders[a][n].reply = "Live"

\* The stage of the trade, told from the orders and their results alone.
StageOf(a) ==
    IF ~Clean(a) THEN "Mixed"
    ELSE IF Ordered(a, "ForceClose")
         THEN IF Told(a, "ForceClose") THEN "Sold" ELSE "Selling"
    ELSE IF Told(a, "Leg2") THEN "Hedged"
    ELSE IF Told(a, "Leg1") THEN "Exposed"
    ELSE IF Bidding(a) THEN "Buying" ELSE "Flat"

Trade == INSTANCE HedgedTrade WITH trade <- [a \in Assets |-> StageOf(a)]

\* The trading core is a hedged trade: however its managers, the executor's tasks,
\* rotations and the clock interleave, the orders they place and the results they
\* take in make the steps of HedgedTrade and no others.
IsHedgedTrade == Trade!Spec

-----------------------------------------------------------------------------
(* Temporal properties.                                                    *)

\* As long as books of the opposite token keep coming, a position with one leg
\* is eventually locked or force-closed, unless its market is replaced first and
\* handed to the redeemer, or its manager is given a result of another market.
Leg2Resolves ==
    \A a \in Assets, m \in Markets :
        mgr[a].state = "Leg2Pending" /\ mgr[a].market = m ~>
            \/ mgr[a].market = m /\ mgr[a].state \in {"Locked", "ForceClose"}
            \/ <<a, m>> \in redeemTx
            \/ ~Clean(a)

\* As long as books keep coming, a Leg1 order leads back to Idle or to a concluded
\* position, unless the market is replaced first, or the exchange answers the
\* order Live or Delayed.
TradeConcludes ==
    \A a \in Assets, m \in Markets :
        mgr[a].state = "Leg1Pending" /\ mgr[a].market = m ~>
            \/ mgr[a].market = m /\ mgr[a].state \in {"Idle", "Locked", "ForceClose"}
            \/ <<a, m>> \in redeemTx
            \/ \E n \in OrderIds : /\ orders[a][n].kind = "Leg1" /\ orders[a][n].market = m
                                    /\ orders[a][n].reply = "Live"

-----------------------------------------------------------------------------
(* What the repository says and the code does not do.                      *)

\* leg_manager.rs:64: a manager manages "a single market position", so it is
\* given results of its own market only.
ResultsStayInMarket == \A a \in Assets : Clean(a)

\* leg_manager.rs:24: a locked position has "both legs filled" and a "guaranteed
\* payout", so all the shares of its Leg2 order were matched.
LockedIsWhole ==
    \A a \in Assets : Clean(a) /\ mgr[a].state = "Locked" =>
        \E n \in Own(a) : orders[a][n].kind = "Leg2" /\ orders[a][n].book = "Filled"

\* leg_manager.rs:198: a force-close means "Leg2 unfilled near expiry", so no
\* Leg2 order that was reported Live has been matched since.
ForceCloseOnlyUnfilled ==
    [][\A a \in Assets :
          mgr[a].state = "Leg2Pending" /\ mgr'[a].state = "ForceClose"
          => \A n \in Own(a) :
                /\ orders[a][n].kind = "Leg2"
                /\ orders[a][n].reply = "Live" /\ orders[a][n].seenBy # 0
                => ~Matched(orders[a][n])]_vars
=============================================================================
