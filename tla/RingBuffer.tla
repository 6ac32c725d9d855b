----------------------------- MODULE RingBuffer -----------------------------
(***************************************************************************)
(* utils/ring_buffer.rs, the buffer of the samples that                    *)
(* indicators/momentum.rs looks back over.                                 *)
(*                                                                         *)
(* head is the index the next value goes to.  The readers work out where   *)
(* the oldest value is from head and len, each in its own way.             *)
(***************************************************************************)
EXTENDS Integers, Sequences

CONSTANTS Values,    \* the type T of the elements
          NoValue,   \* None
          Capacity

\* push divides by the capacity; MomentumTracker::new asks for at least 32.
ASSUME CapacityAssumption == Capacity \in Nat \ {0}
ASSUME NoValueAssumption  == NoValue \notin Values

VARIABLES buf, head, len

vars == <<buf, head, len>>

Slots == 0..(Capacity - 1)
Empty == [i \in Slots |-> NoValue]

Init == buf = Empty /\ head = 0 /\ len = 0

\* Mutant: a full buffer starts over.
PushRestarts(v) ==
    /\ buf'  = [buf EXCEPT ![head] = v]
    /\ head' = (head + 1) % Capacity
    /\ len'  = IF len < Capacity THEN len + 1 ELSE 1

Push(v) ==
    /\ buf'  = [buf EXCEPT ![head] = v]
    /\ head' = (head + 1) % Capacity
    /\ len'  = IF len < Capacity THEN len + 1 ELSE len

\* Mutant: head is not reset.
ClearKeepsHead == buf' = Empty /\ head' = head /\ len' = 0

Clear == buf' = Empty /\ head' = 0 /\ len' = 0

Next == Clear \/ \E v \in Values : Push(v)

Spec == Init /\ [][Next]_vars

-----------------------------------------------------------------------------
(* The readers.                                                            *)

Latest ==
    IF len = 0 THEN NoValue
    ELSE buf[IF head = 0 THEN Capacity - 1 ELSE head - 1]

\* Mutant: the first slot is always taken for the oldest.
OldestFirstSlot == IF len = 0 THEN NoValue ELSE buf[0]

Oldest ==
    IF len = 0 THEN NoValue
    ELSE IF len < Capacity THEN buf[0] ELSE buf[head]

Start == IF len < Capacity THEN 0 ELSE head

\* What the iterator yields.
Iter == [i \in 1..len |-> buf[(Start + i - 1) % Capacity]]

-----------------------------------------------------------------------------
(* Properties.                                                             *)

\* Every variable has its type, and head and len are in step: until the buffer
\* is full, head is the number of values in it.
TypeOK ==
    /\ buf  \in [Slots -> Values \cup {NoValue}]
    /\ head \in Slots
    /\ len  \in 0..Capacity
    /\ len < Capacity => head = len

\* latest and oldest name the two ends of what iter yields, also after the
\* buffer has wrapped around, and iter never comes across an empty slot, at
\* which it would end early.
ReadersAgree ==
    /\ \A i \in 1..len : Iter[i] # NoValue
    /\ len # 0 => Oldest = Iter[1] /\ Latest = Iter[len]

\* iter yields the last values pushed, in order: "new values overwrite the
\* oldest entry" (ring_buffer.rs:2).
Window == INSTANCE SlidingWindow WITH window <- Iter

IsSlidingWindow == Window!Spec
=============================================================================
