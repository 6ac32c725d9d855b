-------------------------- MODULE RingBuffer_proofs --------------------------
(***************************************************************************)
(* What TLAPS proves of RingBuffer: for every capacity and every type of   *)
(* elements it is a sliding window.                                        *)
(*                                                                         *)
(* The argument: head and len determine where the oldest value is, and     *)
(* every slot the iterator visits holds a value (RingInv).  A push turns   *)
(* the positions of a full buffer by one, which is what dropping the first *)
(* element of the window and appending one does to its indices.            *)
(***************************************************************************)
EXTENDS RingBuffer, TLAPS

\* The inductive invariant: the slots in use hold values.
RingInv == TypeOK /\ \A i \in 0..(len - 1) : buf[i] \in Values

-----------------------------------------------------------------------------
\* The place of the i-th value when the first is at s.
Turned(s, i) == IF s + i - 1 < Capacity THEN s + i - 1 ELSE s + i - 1 - Capacity

\* Indices wrap around once at most.
LEMMA WrapsAround ==
    \A s \in Slots : \A i \in 1..Capacity :
        (s + i - 1) % Capacity = Turned(s, i) /\ Turned(s, i) \in Slots
<1> TAKE s \in Slots
<1> TAKE i \in 1..Capacity
<1> DEFINE x == s + i - 1
<1>1. x \in 0..(2 * Capacity - 1)
  BY CapacityAssumption DEF Slots
<1>2. x % Capacity = IF x < Capacity THEN x ELSE x - Capacity
  <2> HIDE DEF x
  <2>1. CASE x < Capacity
    BY <1>1, <2>1, CapacityAssumption, SMTT(30)
  <2>2. CASE x >= Capacity
    <3>1. x \in Capacity..(2 * Capacity - 1)
      BY <1>1, <2>2, CapacityAssumption
    <3> QED BY <3>1, <2>2, CapacityAssumption, SMTT(30)
  <2> QED BY <1>1, <2>1, <2>2, CapacityAssumption
<1>3. Turned(s, i) \in Slots
  BY <1>1, CapacityAssumption DEF Turned, Slots
<1>4. Turned(s, i) = IF x < Capacity THEN x ELSE x - Capacity
  <2>1. s \in Int /\ i \in Int /\ Capacity \in Int
    BY CapacityAssumption DEF Slots
  <2> QED BY <2>1 DEF Turned
<1>5. x % Capacity = Turned(s, i)
  <2> HIDE DEF x
  <2> QED BY <1>2, <1>4
<1> QED BY <1>3, <1>5

\* head moves to the next slot, from the last to the first.
LEMMA NextSlot ==
    \A s \in Slots : (s + 1) % Capacity = IF s + 1 < Capacity THEN s + 1 ELSE 0
<1> TAKE s \in Slots
<1>1. CASE s + 1 < Capacity
  BY <1>1, CapacityAssumption, SMTT(30) DEF Slots
<1>2. CASE s + 1 = Capacity
  BY <1>2, CapacityAssumption, SMTT(30)
<1> QED BY <1>1, <1>2, CapacityAssumption DEF Slots

\* Where the iterator finds the i-th value.
LEMMA IterIs ==
    ASSUME TypeOK, NEW i \in 1..len
    PROVE  Iter[i] = buf[Turned(Start, i)]
<1>1. Start \in Slots /\ i \in 1..Capacity
  BY CapacityAssumption DEF TypeOK, Start, Slots
<1>2. (Start + i - 1) % Capacity = Turned(Start, i)
  BY <1>1, WrapsAround
<1> QED BY <1>2 DEF Iter

\* The window has a value at every place up to len.
LEMMA IterType ==
    ASSUME RingInv
    PROVE  /\ Iter \in Seq(Values) /\ Len(Iter) = len
           /\ \A i \in 1..len : Iter[i] \in Values
<1>1. len \in Nat
  BY CapacityAssumption DEF RingInv, TypeOK
<1>2. ASSUME NEW i \in 1..len PROVE Iter[i] \in Values
  <2>1. Iter[i] = buf[Turned(Start, i)]
    BY IterIs DEF RingInv
  <2>2. Turned(Start, i) \in 0..(len - 1)
    BY CapacityAssumption DEF RingInv, TypeOK, Slots, Start, Turned
  <2> QED BY <2>1, <2>2 DEF RingInv
<1>3. Iter \in [1..len -> Values]
  BY <1>2 DEF Iter
<1> QED BY <1>1, <1>2, <1>3

-----------------------------------------------------------------------------
(* The invariant.                                                          *)

\* An empty buffer is consistent.
LEMMA InitRing == Init => RingInv
  BY CapacityAssumption DEF Init, RingInv, TypeOK, Slots, Empty

\* A push fills the one slot that comes into use.
LEMMA PushRing ==
    ASSUME RingInv, NEW v \in Values, Push(v)
    PROVE  RingInv'
<1>1. (head + 1) % Capacity = IF head + 1 < Capacity THEN head + 1 ELSE 0
  BY NextSlot DEF RingInv, TypeOK
<1>2. TypeOK'
  BY <1>1, CapacityAssumption DEF RingInv, TypeOK, Push, Slots
<1>3. ASSUME NEW i \in 0..(len' - 1) PROVE buf'[i] \in Values
  <2>1. i \in Slots
    <3>1. len' \in Nat /\ len' <= Capacity /\ i \in Nat /\ i < len'
      BY CapacityAssumption DEF RingInv, TypeOK, Push
    <3> QED BY <3>1, CapacityAssumption DEF Slots
  <2>2. buf'[i] = IF i = head THEN v ELSE buf[i]
    BY <2>1 DEF RingInv, TypeOK, Push
  <2>3. i # head => i \in 0..(len - 1)
    BY CapacityAssumption DEF RingInv, TypeOK, Slots, Push
  <2> QED BY <2>2, <2>3 DEF RingInv
<1> QED BY <1>2, <1>3 DEF RingInv

\* Every step keeps the invariant.
LEMMA RingStep ==
    ASSUME RingInv, [Next]_vars
    PROVE  RingInv'
<1>1. CASE Clear
  <2>1. buf' = Empty /\ head' = 0 /\ len' = 0
    BY <1>1 DEF Clear
  <2>2. Empty \in [Slots -> Values \cup {NoValue}]
    BY DEF Empty
  <2>3. 0 \in Slots /\ 0 \in 0..Capacity
    BY CapacityAssumption DEF Slots
  <2>4. TypeOK'
    BY <2>1, <2>2, <2>3 DEF TypeOK, Slots
  <2>5. \A i \in 0..(len' - 1) : buf'[i] \in Values
    BY <2>1
  <2> QED BY <2>4, <2>5 DEF RingInv
<1>2. ASSUME NEW v \in Values, Push(v) PROVE RingInv'
  BY <1>2, PushRing
<1>3. CASE UNCHANGED vars
  BY <1>3 DEF RingInv, TypeOK, vars
<1> QED BY <1>1, <1>2, <1>3 DEF Next

\* The slots in use hold values, and every variable keeps its type.
THEOREM RingCorrect == Spec => []RingInv
<1>1. Init => RingInv
  BY InitRing
<1>2. RingInv /\ [Next]_vars => RingInv'
  BY RingStep
<1> QED BY <1>1, <1>2, PTL DEF Spec

-----------------------------------------------------------------------------
\* The buffer keeps its type: head and len stay in range, and until the buffer is
\* full the next slot to be written is the first one that is free (momentum.rs).
THEOREM RingTypeCorrect == Spec => []TypeOK
<1>1. RingInv => TypeOK
  BY DEF RingInv
<1> QED BY <1>1, RingCorrect, PTL

\* latest and oldest are the ends of what iter yields, and iter meets no empty
\* slot, for every capacity.
THEOREM ReadersAgreeHolds == Spec => []ReadersAgree
<1>1. RingInv => ReadersAgree
  <2> SUFFICES ASSUME RingInv PROVE ReadersAgree
    OBVIOUS
  <2>1. \A i \in 1..len : Iter[i] # NoValue
    BY IterType, NoValueAssumption
  <2>2. ASSUME len # 0 PROVE Oldest = Iter[1]
    <3>1. 1 \in 1..len
      BY <2>2, CapacityAssumption DEF RingInv, TypeOK
    <3>2. Iter[1] = buf[Start]
      BY <3>1, IterIs, CapacityAssumption DEF RingInv, TypeOK, Slots, Start, Turned
    <3> QED BY <2>2, <3>2 DEF Oldest, Start
  <2>3. ASSUME len # 0 PROVE Latest = Iter[len]
    <3>1. len \in 1..len
      BY <2>3, CapacityAssumption DEF RingInv, TypeOK
    <3>2. Iter[len] = buf[Turned(Start, len)]
      BY <3>1, IterIs DEF RingInv
    <3>3. Turned(Start, len) = IF head = 0 THEN Capacity - 1 ELSE head - 1
      BY <3>1, CapacityAssumption DEF RingInv, TypeOK, Slots, Start, Turned
    <3> QED BY <2>3, <3>2, <3>3 DEF Latest
  <2> QED BY <2>1, <2>2, <2>3 DEF ReadersAgree
<1> QED BY <1>1, RingCorrect, PTL

-----------------------------------------------------------------------------
(* The refinement.                                                         *)

\* A push appends to the window, which has lost its first value if it was full.
LEMMA PushRefines ==
    ASSUME RingInv, NEW v \in Values, Push(v)
    PROVE  Window!Push(v)
<1> DEFINE kept == IF Len(Iter) < Capacity THEN Iter ELSE Tail(Iter)
           slot(i) == Turned(Start', i)
<1>1. Iter \in Seq(Values) /\ Len(Iter) = len
  BY IterType
<1>3. /\ len' = IF len < Capacity THEN len + 1 ELSE len
      /\ head' = IF head + 1 < Capacity THEN head + 1 ELSE 0
      /\ head \in Slots /\ len \in 0..Capacity /\ (len < Capacity => head = len)
  <2>1. head \in Slots /\ len \in 0..Capacity /\ (len < Capacity => head = len)
    BY DEF RingInv, TypeOK
  <2>2. (head + 1) % Capacity = IF head + 1 < Capacity THEN head + 1 ELSE 0
    BY <2>1, NextSlot
  <2> QED BY <2>1, <2>2 DEF Push
<1>4. kept \in Seq(Values) /\ Len(kept) = len' - 1
  BY <1>1, <1>3, CapacityAssumption
<1>5. Iter' = [i \in 1..len' |-> buf'[slot(i)]]
  <2>1. ASSUME NEW i \in 1..len' PROVE (Start' + i - 1) % Capacity = slot(i)
    <3>1. Start' \in Slots /\ i \in 1..Capacity
      BY <1>3, CapacityAssumption DEF Start, Slots
    <3> QED BY <3>1, WrapsAround
  <2> QED BY <2>1 DEF Iter
<1>6. ASSUME NEW i \in 1..len' PROVE Iter'[i] = Append(kept, v)[i]
  <2>1. CASE i = len'
    <3>1. slot(i) = head
      BY <2>1, <1>3, CapacityAssumption DEF Start, Slots, Turned
    <3>2. buf'[head] = v
      BY <1>3 DEF Push, RingInv, TypeOK
    <3> QED BY <2>1, <3>1, <3>2, <1>4, <1>5
  <2>2. CASE i # len'
    <3>1. i \in 1..(len' - 1)
      BY <2>2, <1>3, CapacityAssumption
    <3>2. slot(i) \in Slots /\ slot(i) # head
      BY <3>1, <1>3, CapacityAssumption DEF Start, Slots, Turned
    <3>3. Iter'[i] = buf[slot(i)]
      BY <3>2, <1>5 DEF Push, RingInv, TypeOK
    <3>4. CASE len < Capacity
      <4>1. i \in 1..len /\ kept = Iter
        BY <3>1, <3>4, <1>1, <1>3, CapacityAssumption
      <4>2. Iter[i] = buf[i - 1] /\ slot(i) = i - 1
        BY <4>1, <3>1, <3>4, <1>3, IterIs, CapacityAssumption DEF RingInv, Start, Slots, Turned
      <4> QED BY <3>1, <3>3, <4>1, <4>2, <1>4
    <3>5. CASE len = Capacity
      <4>1. i + 1 \in 1..len /\ kept = Tail(Iter) /\ kept[i] = Iter[i + 1]
        BY <3>1, <3>5, <1>1, <1>3, CapacityAssumption
      <4>2. Iter[i + 1] = buf[Turned(Start, i + 1)]
        BY <4>1, IterIs DEF RingInv
      <4>3. slot(i) = Turned(Start, i + 1)
        BY <3>1, <3>5, <1>3, CapacityAssumption DEF Start, Slots, Turned
      <4> QED BY <3>1, <3>3, <4>1, <4>2, <4>3, <1>4
    <3>6. len < Capacity \/ len = Capacity
      BY <1>3, CapacityAssumption
    <3> QED BY <3>4, <3>5, <3>6
  <2> QED BY <2>1, <2>2
<1>7. Append(kept, v) = [i \in 1..len' |-> Append(kept, v)[i]]
  <2>1. Append(kept, v) \in Seq(Values) /\ Len(Append(kept, v)) = len'
    BY <1>3, <1>4, CapacityAssumption
  <2> QED BY <2>1
<1>8. Iter' = Append(kept, v)
  BY <1>5, <1>6, <1>7
<1> QED BY <1>8 DEF Window!Push

\* Clearing the buffer empties the window, as does creating it.
LEMMA ClearRefines ==
    ASSUME Clear
    PROVE  Window!Clear
<1>1. len' = 0
  BY DEF Clear
<1>2. Iter' = [i \in 1..0 |-> buf'[(Start' + i - 1) % Capacity]]
  BY <1>1 DEF Iter
<1>3. Iter' = <<>>
  BY <1>2
<1> QED BY <1>3 DEF Window!Clear

\* The ring buffer implements the sliding window, for every capacity.
THEOREM RefinesSlidingWindow == Spec => IsSlidingWindow
<1>1. Init => Window!Init
  <2> SUFFICES ASSUME Init PROVE Iter = <<>>
    BY DEF Window!Init
  <2>1. Iter = [i \in 1..0 |-> buf[(Start + i - 1) % Capacity]]
    BY DEF Init, Iter
  <2> QED BY <2>1
<1>2. RingInv /\ [Next]_vars => [Window!Next]_Iter
  <2> SUFFICES ASSUME RingInv, [Next]_vars PROVE [Window!Next]_Iter
    OBVIOUS
  <2>1. CASE Clear
    BY <2>1, ClearRefines DEF Window!Next
  <2>2. ASSUME NEW v \in Values, Push(v) PROVE Window!Next
    BY <2>2, PushRefines DEF Window!Next
  <2>3. CASE UNCHANGED vars
    BY <2>3 DEF vars, Iter, Start
  <2> QED BY <2>1, <2>2, <2>3 DEF Next
<1> QED BY <1>1, <1>2, RingCorrect, PTL DEF Spec, IsSlidingWindow, Window!Spec
=============================================================================
