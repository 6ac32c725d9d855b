---------------------------- MODULE QueueLemmas ----------------------------
(***************************************************************************)
(* Queues in a row: what they hold when an element passes from one to the  *)
(* other, joins the second or leaves the first; how many of their elements *)
(* match; and what SetToSeq lists.  The channels and queues of the feeds   *)
(* and of the redeemer are reasoned about with these.                      *)
(***************************************************************************)
EXTENDS Integers, SequencesExt, FiniteSetTheorems, SequenceTheorems, TLAPS

\* SetToSeq lists the members of a finite set.
LEMMA SetToSeqLists ==
    ASSUME NEW S, IsFiniteSet(S)
    PROVE  /\ SetToSeq(S) \in Seq(S)
           /\ DOMAIN SetToSeq(S) = 1..Cardinality(S) /\ Cardinality(S) \in Nat
           /\ \A x \in S : \E i \in 1..Cardinality(S) : SetToSeq(S)[i] = x
  <1> DEFINE n == Cardinality(S)   f == SetToSeq(S)
  <1>1. n \in Nat /\ ExistsBijection(1..n, S)
    BY FS_CardinalityType
  <1>2. \E g \in [1..n -> S] : IsInjective(g)
    BY <1>1 DEF ExistsBijection, Bijection, Injection
  <1>3. f \in [1..n -> S] /\ IsInjective(f)
    BY <1>2 DEF SetToSeq
  <1>4. f \in Seq(S)
    BY <1>1, <1>3, SeqDef
  <1>5. \A x \in S : \E i \in 1..n : f[i] = x
    <2>1. IsFiniteSet(1..n) /\ Cardinality(1..n) = n
      BY <1>1, FS_Interval
    <2>2. f \in Injection(1..n, S)
      BY <1>3 DEF Injection
    <2>3. f \in Surjection(1..n, S)
      <3>1. IsFiniteSet(S) => (Cardinality(1..n) = Cardinality(S) <=> f \in Surjection(1..n, S))
        BY <2>2, FS_Injection
      <3> QED BY <3>1, <2>1
    <2> QED BY <2>3 DEF Surjection
  <1> QED BY <1>1, <1>3, <1>4, <1>5

\* The first element of the second queue goes to the end of the first.
LEMMA PassedOn ==
    ASSUME NEW S, NEW s \in Seq(S), NEW t \in Seq(S), t # <<>>
    PROVE  Append(s, Head(t)) \o Tail(t) = s \o t
  <1>1. Head(t) \in S /\ Tail(t) \in Seq(S) /\ Len(Tail(t)) = Len(t) - 1
        /\ Head(t) = t[1] /\ \A i \in 1..Len(Tail(t)) : Tail(t)[i] = t[i + 1]
        /\ Len(t) \in Nat \ {0} /\ Len(s) \in Nat
    BY HeadTailProperties, LenProperties, EmptySeq
  <1> DEFINE u == Append(s, Head(t))
  <1>2. u \in Seq(S) /\ Len(u) = Len(s) + 1 /\ u[Len(s) + 1] = t[1]
        /\ \A i \in 1..Len(s) : u[i] = s[i]
    BY <1>1, AppendProperties
  <1> HIDE DEF u
  <1>3. /\ u \o Tail(t) \in Seq(S) /\ Len(u \o Tail(t)) = Len(u) + Len(Tail(t))
        /\ \A i \in 1..(Len(u) + Len(Tail(t))) :
              (u \o Tail(t))[i] = IF i <= Len(u) THEN u[i] ELSE Tail(t)[i - Len(u)]
    BY <1>1, <1>2, ConcatProperties
  <1>4. /\ s \o t \in Seq(S) /\ Len(s \o t) = Len(s) + Len(t)
        /\ \A i \in 1..(Len(s) + Len(t)) :
              (s \o t)[i] = IF i <= Len(s) THEN s[i] ELSE t[i - Len(s)]
    BY ConcatProperties
  <1>5. Len(u \o Tail(t)) = Len(s \o t)
    BY <1>1, <1>2, <1>3, <1>4
  <1>6. ASSUME NEW i \in 1..Len(s \o t) PROVE (u \o Tail(t))[i] = (s \o t)[i]
    <2>1. CASE i <= Len(s)
      <3>1. (s \o t)[i] = s[i] /\ (u \o Tail(t))[i] = u[i] /\ i \in 1..Len(s)
        BY <1>1, <1>2, <1>3, <1>4, <2>1
      <3> QED BY <3>1, <1>2
    <2>2. CASE i = Len(s) + 1
      <3>1. (s \o t)[i] = t[i - Len(s)] /\ (u \o Tail(t))[i] = u[i] /\ i - Len(s) = 1
        BY <1>1, <1>2, <1>3, <1>4, <2>2
      <3> QED BY <3>1, <1>2, <2>2
    <2>3. CASE i > Len(s) + 1
      <3>1. (s \o t)[i] = t[i - Len(s)]
        BY <1>1, <1>4, <2>3
      <3>2. (u \o Tail(t))[i] = Tail(t)[i - Len(u)] /\ i - Len(u) \in 1..Len(Tail(t))
        BY <1>1, <1>2, <1>3, <1>4, <1>5, <2>3
      <3>3. (i - Len(u)) + 1 = i - Len(s)
        BY <1>1, <1>2
      <3> QED BY <1>1, <3>1, <3>2, <3>3
    <2>4. i <= Len(s) \/ i = Len(s) + 1 \/ i > Len(s) + 1
      <3>1. i \in Int /\ Len(s) \in Int
        BY <1>1, <1>4
      <3> QED BY <3>1
    <2> QED BY <2>1, <2>2, <2>3, <2>4
  <1>7. u \o Tail(t) = s \o t
    BY <1>3, <1>4, <1>5, <1>6, SeqEqual
  <1> QED BY <1>7 DEF u

\* An element joins the second queue.
LEMMA AppendedLast ==
    ASSUME NEW S, NEW s \in Seq(S), NEW t \in Seq(S), NEW e \in S
    PROVE  s \o Append(t, e) = Append(s \o t, e) /\ s \o t \in Seq(S)
  <1>1. <<e>> \in Seq(S) /\ s \o t \in Seq(S)
    OBVIOUS
  <1>2. Append(t, e) = t \o <<e>> /\ Append(s \o t, e) = (s \o t) \o <<e>>
    BY <1>1, AppendIsConcat
  <1> QED BY <1>1, <1>2, ConcatAssociative

\* The first element of the first queue leaves.
LEMMA TakenFirst ==
    ASSUME NEW S, NEW s \in Seq(S), NEW t \in Seq(S), s # <<>>
    PROVE  /\ s \o t \in Seq(S) /\ s \o t # <<>>
           /\ Head(s \o t) = Head(s) /\ Tail(s \o t) = Tail(s) \o t
  <1>1. /\ Tail(s) \in Seq(S) /\ Len(Tail(s)) = Len(s) - 1 /\ Head(s) = s[1]
        /\ \A i \in 1..Len(Tail(s)) : Tail(s)[i] = s[i + 1]
        /\ Len(s) \in Nat \ {0} /\ Len(t) \in Nat
    BY HeadTailProperties, LenProperties, EmptySeq
  <1> DEFINE q == s \o t
  <1>2. /\ q \in Seq(S) /\ Len(q) = Len(s) + Len(t)
        /\ \A i \in 1..(Len(s) + Len(t)) : q[i] = IF i <= Len(s) THEN s[i] ELSE t[i - Len(s)]
    BY ConcatProperties
  <1> HIDE DEF q
  <1>3. q # <<>>
    BY <1>1, <1>2
  <1>4. /\ Head(q) = q[1] /\ Tail(q) \in Seq(S) /\ Len(Tail(q)) = Len(q) - 1
        /\ \A i \in 1..Len(Tail(q)) : Tail(q)[i] = q[i + 1]
    BY <1>2, <1>3, HeadTailProperties
  <1>5. /\ Tail(s) \o t \in Seq(S) /\ Len(Tail(s) \o t) = Len(Tail(s)) + Len(t)
        /\ \A i \in 1..(Len(Tail(s)) + Len(t)) :
              (Tail(s) \o t)[i] = IF i <= Len(Tail(s)) THEN Tail(s)[i] ELSE t[i - Len(Tail(s))]
    BY <1>1, ConcatProperties
  <1>6. ASSUME NEW i \in 1..Len(Tail(q)) PROVE Tail(q)[i] = (Tail(s) \o t)[i]
    <2>1. Tail(q)[i] = q[i + 1] /\ i + 1 \in 1..(Len(s) + Len(t))
      BY <1>1, <1>2, <1>4
    <2>2. CASE i + 1 <= Len(s)
      <3>1. q[i + 1] = s[i + 1] /\ i \in 1..Len(Tail(s))
        BY <1>1, <1>2, <2>1, <2>2
      <3> QED BY <1>1, <1>5, <2>1, <3>1
    <2>3. CASE i + 1 > Len(s)
      <3>1. q[i + 1] = t[(i + 1) - Len(s)] /\ (i + 1) - Len(s) = i - Len(Tail(s))
        BY <1>1, <1>2, <2>1, <2>3
      <3>2. (Tail(s) \o t)[i] = t[i - Len(Tail(s))]
        BY <1>1, <1>2, <1>4, <1>5, <2>3
      <3> QED BY <2>1, <3>1, <3>2
    <2>4. i + 1 <= Len(s) \/ i + 1 > Len(s)
      <3>1. i + 1 \in Int /\ Len(s) \in Int
        BY <1>1, <1>2, <1>4
      <3> QED BY <3>1
    <2> QED BY <2>2, <2>3, <2>4
  <1>7. Tail(q) = Tail(s) \o t
    BY <1>1, <1>2, <1>4, <1>5, <1>6, SeqEqual
  <1>8. Head(q) = Head(s)
    BY <1>1, <1>2, <1>4
  <1> QED BY <1>2, <1>3, <1>7, <1>8 DEF q
-----------------------------------------------------------------------------
\* The places of a queue whose elements are in X, and how many there are.
Places(s, X)  == {i \in DOMAIN s : s[i] \in X}
Matches(s, X) == Cardinality(Places(s, X))

\* They are finitely many.
LEMMA PlacesFinite ==
    ASSUME NEW S, NEW s \in Seq(S), NEW X
    PROVE  /\ Places(s, X) = {i \in 1..Len(s) : s[i] \in X}
           /\ IsFiniteSet(Places(s, X)) /\ Matches(s, X) \in Nat
  <1>1. Len(s) \in Nat /\ DOMAIN s = 1..Len(s)
    BY LenProperties
  <1>2. IsFiniteSet(1..Len(s))
    BY <1>1, FS_Interval
  <1>3. Places(s, X) \subseteq 1..Len(s)
    BY <1>1 DEF Places
  <1>4. IsFiniteSet(Places(s, X))
    BY <1>2, <1>3, FS_Subset
  <1> QED BY <1>1, <1>4, FS_CardinalityType DEF Places, Matches

\* Two queues in a row have the matches of both.
LEMMA MatchesConcat ==
    ASSUME NEW S, NEW s \in Seq(S), NEW t \in Seq(S), NEW X
    PROVE  Matches(s \o t, X) = Matches(s, X) + Matches(t, X)
  <1> DEFINE A == Places(s, X)   B == Places(t, X)   C == Places(s \o t, X)   k == Len(s)
             D == {i \in (k + 1)..(k + Len(t)) : t[i - k] \in X}
             f == [i \in B |-> k + i]
  <1>1. /\ s \o t \in Seq(S) /\ Len(s \o t) = k + Len(t) /\ k \in Nat /\ Len(t) \in Nat
        /\ \A i \in 1..(k + Len(t)) : (s \o t)[i] = IF i <= k THEN s[i] ELSE t[i - k]
    <2>1. k \in Nat /\ Len(t) \in Nat
      BY LenProperties
    <2>2. /\ s \o t \in Seq(S) /\ Len(s \o t) = k + Len(t)
          /\ \A i \in 1..(k + Len(t)) : (s \o t)[i] = IF i <= k THEN s[i] ELSE t[i - k]
      BY ConcatProperties, Zenon
    <2> QED BY <2>1, <2>2
  <1>2. /\ A = {i \in 1..k : s[i] \in X} /\ IsFiniteSet(A) /\ Cardinality(A) \in Nat
        /\ B = {i \in 1..Len(t) : t[i] \in X} /\ IsFiniteSet(B) /\ Cardinality(B) \in Nat
    BY PlacesFinite DEF Matches
  <1>3. C = {i \in 1..(k + Len(t)) : (s \o t)[i] \in X}
    <2>1. C = {i \in 1..Len(s \o t) : (s \o t)[i] \in X}
      BY <1>1, PlacesFinite, Zenon
    <2> QED BY <1>1, <2>1
  <1> HIDE DEF k, A, B, C
  <1>4. C = A \cup D
    <2>1. ASSUME NEW i \in C PROVE i \in A \cup D
      <3>1. i \in 1..(k + Len(t)) /\ (s \o t)[i] \in X
        BY <1>3
      <3>2. CASE i <= k
        <4>1. (s \o t)[i] = s[i] /\ i \in 1..k
          BY <1>1, <3>1, <3>2
        <4> QED BY <1>2, <3>1, <4>1
      <3>3. CASE i > k
        <4>1. (s \o t)[i] = t[i - k] /\ i \in (k + 1)..(k + Len(t))
          BY <1>1, <3>1, <3>3
        <4> QED BY <3>1, <4>1
      <3>4. i <= k \/ i > k
        <4>1. i \in Int /\ k \in Int
          BY <1>1, <3>1
        <4> QED BY <4>1
      <3> QED BY <3>2, <3>3, <3>4
    <2>2. ASSUME NEW i \in A PROVE i \in C
      <3>1. i \in 1..k /\ s[i] \in X
        BY <1>2
      <3>2. i \in 1..(k + Len(t)) /\ (s \o t)[i] = s[i]
        BY <1>1, <3>1
      <3> QED BY <1>3, <3>1, <3>2
    <2>3. ASSUME NEW i \in D PROVE i \in C
      <3>1. i \in (k + 1)..(k + Len(t)) /\ t[i - k] \in X
        OBVIOUS
      <3>2. i \in 1..(k + Len(t)) /\ (s \o t)[i] = t[i - k]
        BY <1>1, <3>1
      <3> QED BY <1>3, <3>1, <3>2
    <2> HIDE DEF D
    <2> QED BY <2>1, <2>2, <2>3
  <1>5. A \cap D = {}
    BY <1>1, <1>2
  <1>6. f \in Bijection(B, D)
    <2>1. ASSUME NEW i \in B PROVE f[i] \in D
      <3>1. i \in 1..Len(t) /\ t[i] \in X
        BY <1>2
      <3>2. k + i \in (k + 1)..(k + Len(t)) /\ (k + i) - k = i
        BY <1>1, <3>1
      <3> QED BY <3>1, <3>2
    <2>2. ASSUME NEW i \in B, NEW j \in B, f[i] = f[j] PROVE i = j
      <3>1. i \in Int /\ j \in Int /\ k \in Int /\ k + i = k + j
        BY <1>1, <1>2, <2>2
      <3> QED BY <3>1
    <2>3. ASSUME NEW d \in D PROVE \E i \in B : f[i] = d
      <3>1. d \in (k + 1)..(k + Len(t)) /\ t[d - k] \in X
        OBVIOUS
      <3>2. d - k \in 1..Len(t) /\ k + (d - k) = d
        BY <1>1, <3>1
      <3>3. d - k \in B
        BY <1>2, <3>1, <3>2
      <3> QED BY <3>2, <3>3
    <2>4. f \in [B -> D]
      <3> HIDE DEF D
      <3> QED BY <2>1
    <2> HIDE DEF f, D
    <2> QED BY <2>2, <2>3, <2>4 DEF Bijection, Injection, Surjection, IsInjective
  <1>7. IsFiniteSet(D) /\ Cardinality(D) = Cardinality(B)
    BY <1>2, <1>6, FS_Bijection DEF ExistsBijection
  <1> HIDE DEF D
  <1>8. Cardinality(A \cup D) = Cardinality(A) + Cardinality(D) - Cardinality(A \cap D)
    BY <1>2, <1>7, FS_Union
  <1>9. Cardinality(A \cap D) = 0
    BY <1>5, FS_EmptySet
  <1>10. Cardinality(C) = Cardinality(A) + Cardinality(B)
    BY <1>2, <1>4, <1>7, <1>8, <1>9
  <1> QED BY <1>10 DEF Matches, A, B, C

\* A queue of one element, the empty queue, a queue with one element more, and a
\* queue without its first element.
LEMMA MatchesOne ==
    ASSUME NEW e, NEW X
    PROVE  Matches(<<e>>, X) = IF e \in X THEN 1 ELSE 0
  <1>1. DOMAIN <<e>> = {1} /\ <<e>>[1] = e
    OBVIOUS
  <1>2. Places(<<e>>, X) = IF e \in X THEN {1} ELSE {}
    BY <1>1 DEF Places
  <1>3. Cardinality({1}) = 1 /\ Cardinality({}) = 0
    BY FS_Singleton, FS_EmptySet
  <1> QED BY <1>2, <1>3 DEF Matches

\* An empty queue has no matches.
LEMMA MatchesEmpty ==
    ASSUME NEW X
    PROVE  Matches(<<>>, X) = 0
  <1>1. Places(<<>>, X) = {}
    BY DEF Places
  <1> QED BY <1>1, FS_EmptySet DEF Matches

\* An element appended to the queue adds at most itself to the matches.
LEMMA MatchesAppend ==
    ASSUME NEW S, NEW s \in Seq(S), NEW e \in S, NEW X
    PROVE  /\ Matches(s, X) \in Nat /\ Matches(Append(s, e), X) \in Nat
           /\ e \in X => Matches(Append(s, e), X) = Matches(s, X) + 1
           /\ e \notin X => Matches(Append(s, e), X) = Matches(s, X)
<1>1. Append(s, e) = s \o <<e>> /\ <<e>> \in Seq(S) /\ Append(s, e) \in Seq(S)
  BY AppendIsConcat, AppendProperties
<1>2. Matches(s \o <<e>>, X) = Matches(s, X) + Matches(<<e>>, X)
  BY <1>1, MatchesConcat
<1>3. Matches(<<e>>, X) = IF e \in X THEN 1 ELSE 0
  BY MatchesOne
<1>4. Matches(s, X) \in Nat /\ Matches(Append(s, e), X) \in Nat
  BY <1>1, PlacesFinite
<1> QED BY <1>1, <1>2, <1>3, <1>4

\* Popping the queue loses its head as a match, if it was one, and no other.
LEMMA MatchesTail ==
    ASSUME NEW S, NEW s \in Seq(S), s # <<>>, NEW X
    PROVE  /\ Matches(s, X) \in Nat /\ Matches(Tail(s), X) \in Nat
           /\ Head(s) \in X => Matches(s, X) = Matches(Tail(s), X) + 1
           /\ Head(s) \notin X => Matches(s, X) = Matches(Tail(s), X)
<1>1. Head(s) \in S /\ Tail(s) \in Seq(S) /\ <<>> \in Seq(S) /\ <<Head(s)>> \in Seq(S)
  BY HeadTailProperties, EmptySeq
<1>2. Append(<<>>, Head(s)) \o Tail(s) = <<>> \o s
  BY <1>1, PassedOn
<1>3. Append(<<>>, Head(s)) = <<Head(s)>> /\ <<>> \o s = s
  BY <1>1, ConcatEmptySeq
<1>4. s = <<Head(s)>> \o Tail(s)
  BY <1>2, <1>3
<1>5. Matches(<<Head(s)>> \o Tail(s), X) = Matches(<<Head(s)>>, X) + Matches(Tail(s), X)
  BY <1>1, MatchesConcat
<1>6. Matches(<<Head(s)>>, X) = IF Head(s) \in X THEN 1 ELSE 0
  BY MatchesOne
<1>7. Matches(s, X) \in Nat /\ Matches(Tail(s), X) \in Nat
  BY <1>1, PlacesFinite
<1>8. Matches(s, X) = Matches(<<Head(s)>>, X) + Matches(Tail(s), X)
  BY <1>4, <1>5
<1>9. CASE Head(s) \in X
  BY <1>6, <1>7, <1>8, <1>9
<1>10. CASE Head(s) \notin X
  BY <1>6, <1>7, <1>8, <1>10
<1> QED BY <1>7, <1>9, <1>10
=============================================================================
