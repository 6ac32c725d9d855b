----------------------------- MODULE HedgedTrade -----------------------------
(***************************************************************************)
(* What the trading core promises, without managers, orders, clocks and    *)
(* messages: the life of the trade in the current market of each asset, as *)
(* the reported results tell it, and the count of open positions.          *)
(*                                                                         *)
(* A trade is bought once, only while there is room, and is then hedged or *)
(* sold: one that is hedged is not sold, and one that is sold is sold      *)
(* once.  A result of an earlier market spoils the account of the present  *)
(* one until the next rotation, but the count stays that of the reports.   *)
(***************************************************************************)
EXTENDS Integers

CONSTANTS Assets, MaxPositions

VARIABLES trade,   \* the stage of the trade in the asset's current market
          open     \* open positions of the asset

vars == <<trade, open>>

Init == /\ trade = [a \in Assets |-> "Flat"]
        /\ open  = [a \in Assets |-> 0]

Moves(a, from, to) == /\ trade[a] = from
                      /\ trade' = [trade EXCEPT ![a] = to]

Counts(a, d) == /\ open[a] + d >= 0
                /\ open' = [open EXCEPT ![a] = @ + d]

Buy(a)     == /\ open[a] < MaxPositions /\ UNCHANGED open
              /\ Moves(a, "Flat", "Buying")
Refused(a) == UNCHANGED open /\ Moves(a, "Buying", "Flat")
Bought(a)  == Counts(a, 1) /\ Moves(a, "Buying", "Exposed")
Hedge(a)   == UNCHANGED open /\ Moves(a, "Exposed", "Hedged")
Sell(a)    == UNCHANGED open /\ Moves(a, "Exposed", "Selling")
Sold(a)    == Counts(a, -1) /\ Moves(a, "Selling", "Sold")

\* A result that was not of the current market: a fill of Leg1, a fill of a
\* force-close, or one that is not counted.
Stray(a) == /\ \E d \in {-1, 0, 1} : Counts(a, d)
            /\ trade' = [trade EXCEPT ![a] = "Mixed"]

Rotate(a) == /\ UNCHANGED open
             /\ trade' = [trade EXCEPT ![a] = "Flat"]

Next == \E a \in Assets : \/ Stray(a) \/ Rotate(a)
                          \/ Buy(a) \/ Refused(a) \/ Bought(a) \/ Hedge(a)
                          \/ Sell(a) \/ Sold(a)

Spec == Init /\ [][Next]_vars
=============================================================================
