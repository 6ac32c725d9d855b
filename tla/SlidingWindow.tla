---------------------------- MODULE SlidingWindow ----------------------------
(***************************************************************************)
(* What a ring buffer promises: the last Capacity values pushed since it   *)
(* was cleared, oldest first.                                              *)
(***************************************************************************)
EXTENDS Naturals, Sequences

CONSTANTS Values, Capacity

VARIABLE window

Init == window = <<>>

Push(v) == window' = Append(IF Len(window) < Capacity THEN window ELSE Tail(window), v)

Clear == window' = <<>>

Next == Clear \/ \E v \in Values : Push(v)

Spec == Init /\ [][Next]_window
=============================================================================
