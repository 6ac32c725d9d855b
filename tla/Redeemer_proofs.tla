--------------------------- MODULE Redeemer_proofs ---------------------------
(***************************************************************************)
(* What TLAPS proves of Redeemer, for every set of markets, every delay    *)
(* and every number of attempts.                                           *)
(*                                                                         *)
(* The argument: an entry's redeem_after is never earlier than its number  *)
(* of failures allows.  A failure is only counted in a tick that found the *)
(* entry due, so that the next redeem_after, counted from the reading of   *)
(* the clock at the start of that tick, keeps the bound.  And every step   *)
(* moves a market's one copy between channel, queue, awaited entry and     *)
(* list of retries, or removes it: the copies are counted.  Both together  *)
(* make every step one of Redemption.                                      *)
(***************************************************************************)
EXTENDS Redeemer, QueueLemmas

\* The earliest time of the attempt after k failures.
Earliest(c, k) == Promise!Earliest(c, k)

\* The entries that are not due before the time their failures allow.
PacedEntry == {p \in Pending : p.redeem_after >= Earliest(p.condition_id, p.attempts)}

\* The inductive invariant.
PaceInv ==
    /\ TypeOK
    /\ pending          \in Seq(PacedEntry)
    /\ tick.retry_later \in Seq(PacedEntry)
    /\ tick.awaited     \in Seq(PacedEntry)
    /\ tick.now <= now
    /\ \A i \in 1..Len(tick.awaited) : tick.awaited[i].redeem_after <= tick.now

-----------------------------------------------------------------------------
\* The earliest times are natural numbers, RetryDelay apart.
LEMMA EarliestSteps ==
    ASSUME NEW c \in Conditions, NEW k \in Nat
    PROVE  /\ Earliest(c, k) \in Nat
           /\ Earliest(c, k + 1) = Earliest(c, k) + RetryDelay
<1>1. MarketEnd[c] \in Nat /\ RedeemDelay \in Nat /\ RetryDelay \in Nat
  BY MarketsAssumption, DelayAssumption
<1>2. k * RetryDelay \in Nat /\ (k + 1) * RetryDelay = k * RetryDelay + RetryDelay
  BY <1>1, SMT
<1> QED BY <1>1, <1>2 DEF Earliest, Promise!Earliest

\* The timer moves to a time after the present one.
LEMMA NextTimerType ==
    ASSUME now \in Nat, timer \in Nat, now >= timer
    PROVE  NextTimer \in Nat
<1>1. Period \in Nat /\ Period > 0
  BY DelayAssumption
<1>2. (now - timer) \div Period \in Nat
  BY <1>1, SMT
<1>3. ((now - timer) \div Period + 1) * Period \in Nat
  BY <1>1, <1>2, SMT
<1> QED BY <1>3 DEF NextTimer

\* What a step of a tick changes in its record.
LEMMA TickUpdates ==
    ASSUME NEW t \in Tick, NEW r \in Seq(Pending), NEW w \in Seq(Pending)
    PROVE  /\ t.running \in BOOLEAN /\ t.now \in Nat
           /\ t.retry_later \in Seq(Pending) /\ t.awaited \in Seq(Pending)
           /\ [t EXCEPT !.retry_later = r]
                = [running |-> t.running, now |-> t.now,
                   retry_later |-> r, awaited |-> t.awaited]
           /\ [t EXCEPT !.awaited = w]
                = [running |-> t.running, now |-> t.now,
                   retry_later |-> t.retry_later, awaited |-> w]
<1>1. /\ t.running \in BOOLEAN /\ t.now \in Nat
      /\ t.retry_later \in Seq(Pending) /\ t.awaited \in Seq(Pending)
  BY DEF Tick
<1>2. [t EXCEPT !.retry_later = r] = [running |-> t.running, now |-> t.now,
                                      retry_later |-> r, awaited |-> t.awaited]
  BY SMTT(20) DEF Tick
<1>3. [t EXCEPT !.awaited = w] = [running |-> t.running, now |-> t.now,
                                  retry_later |-> t.retry_later, awaited |-> w]
  BY SMTT(20) DEF Tick
<1> QED BY <1>1, <1>2, <1>3

\* The entry made for the next attempt of a due entry that has attempts left
\* is paced again.
LEMMA RetriedPaced ==
    ASSUME TypeOK, NEW p \in PacedEntry, p.redeem_after <= tick.now, ~LastAttempt(p)
    PROVE  Retried(p) \in PacedEntry
<1> DEFINE c == p.condition_id
           k == p.attempts
<1>1. /\ p \in Pending /\ c \in Conditions /\ k \in Nat /\ p.redeem_after \in Nat
      /\ tick.now \in Nat /\ RetryDelay \in Nat /\ MaxAttempts \in Nat
      /\ p.redeem_after >= Earliest(c, k)
  <2>1. p \in Pending /\ p.redeem_after >= Earliest(c, k)
    BY DEF PacedEntry
  <2>2. c \in Conditions /\ k \in 0..(MaxAttempts - 1) /\ p.redeem_after \in Nat
    BY <2>1 DEF Pending
  <2>3. tick.now \in Nat
    BY DEF TypeOK, Tick
  <2> QED BY <2>1, <2>2, <2>3, DelayAssumption
<1>2. k + 1 \in 0..(MaxAttempts - 1)
  BY <1>1 DEF LastAttempt
<1>3. tick.now + RetryDelay \in Nat
  BY <1>1
<1>4. /\ Retried(p) \in Pending /\ Retried(p).condition_id = c
      /\ Retried(p).attempts = k + 1
      /\ Retried(p).redeem_after = tick.now + RetryDelay
  BY <1>1, <1>2, <1>3 DEF Retried, Pending
<1>5. tick.now + RetryDelay >= Earliest(c, k + 1)
  BY <1>1, EarliestSteps
<1> QED BY <1>4, <1>5 DEF PacedEntry

\* An entry that has just been scheduled is paced.
LEMMA NewPaced ==
    ASSUME NEW c \in Conditions
    PROVE  [condition_id |-> c, redeem_after |-> MarketEnd[c] + RedeemDelay,
            attempts |-> 0] \in PacedEntry
<1>1. MarketEnd[c] \in Nat /\ RedeemDelay \in Nat /\ RetryDelay \in Nat
  BY MarketsAssumption, DelayAssumption
<1>2. Earliest(c, 0) = MarketEnd[c] + RedeemDelay
  BY <1>1 DEF Earliest, Promise!Earliest
<1>3. 0 \in 0..(MaxAttempts - 1)
  BY DelayAssumption
<1> QED BY <1>1, <1>2, <1>3 DEF PacedEntry, Pending

-----------------------------------------------------------------------------
\* The bound holds at the start.
LEMMA PaceInit == Init => PaceInv
<1> SUFFICES ASSUME Init PROVE PaceInv
  OBVIOUS
<1>1. \A S : <<>> \in Seq(S)
  BY EmptySeq
<1>2. TypeOK
  BY <1>1 DEF Init, TypeOK, NoTick, Tick
<1> QED BY <1>1, <1>2 DEF Init, PaceInv, NoTick

\* Every step keeps the bound.
LEMMA PaceStep == PaceInv /\ [Next]_vars => PaceInv'
<1> SUFFICES ASSUME PaceInv, [Next]_vars PROVE PaceInv'
  OBVIOUS
<1>0. /\ now \in Nat /\ timer \in Nat /\ tick.now \in Nat /\ tick \in Tick
      /\ tick.now <= now /\ <<>> \in Seq(Pending) /\ <<>> \in Seq(PacedEntry)
  BY EmptySeq DEF PaceInv, TypeOK, Tick
<1>1. CASE \E c \in Conditions : Schedule(c) \/ Resolve(c)
  <2>1. PICK c \in Conditions : Schedule(c) \/ Resolve(c)
    BY <1>1
  <2>2. CASE Schedule(c)
    <3>1. Append(rx, c) \in Seq(Conditions)
      BY AppendProperties DEF PaceInv, TypeOK
    <3> QED BY <2>2, <3>1 DEF Schedule, PaceInv, TypeOK
  <2>3. CASE Resolve(c)
    BY <2>3 DEF Resolve, PaceInv, TypeOK
  <2> QED BY <2>1, <2>2, <2>3
<1>2. CASE Receive
  <2>1. Head(rx) \in Conditions /\ Tail(rx) \in Seq(Conditions)
    BY <1>2, HeadTailProperties DEF Receive, PaceInv, TypeOK
  <2> DEFINE e == [condition_id |-> Head(rx),
                   redeem_after |-> MarketEnd[Head(rx)] + RedeemDelay,
                   attempts |-> 0]
  <2>2. e \in PacedEntry /\ e \in Pending
    BY <2>1, NewPaced DEF PacedEntry
  <2> HIDE DEF e
  <2>3. Append(pending, e) \in Seq(PacedEntry) /\ Append(pending, e) \in Seq(Pending)
    BY <2>2, AppendProperties DEF PaceInv, TypeOK
  <2>4. pending' \in {pending, Append(pending, e)}
    BY <1>2 DEF Receive, e
  <2> QED BY <1>2, <2>1, <2>3, <2>4 DEF Receive, PaceInv, TypeOK
<1>3. CASE StartTick
  <2>1. NextTimer \in Nat
    BY <1>0, <1>3, NextTimerType DEF StartTick
  <2>2. tick' = [running |-> TRUE, now |-> now, retry_later |-> <<>>, awaited |-> <<>>]
    BY <1>3 DEF StartTick
  <2>3. tick' \in Tick /\ tick'.now = now /\ tick'.retry_later = <<>> /\ tick'.awaited = <<>>
    BY <1>0, <2>2 DEF Tick
  <2>4. TypeOK'
    BY <1>0, <1>3, <2>1, <2>3 DEF StartTick, PaceInv, TypeOK
  <2>5. \A i \in 1..Len(tick'.awaited) : tick'.awaited[i].redeem_after <= tick'.now
    BY <2>3
  <2>6. now' = now
    BY <1>3 DEF StartTick
  <2>7. /\ pending' \in Seq(PacedEntry) /\ tick'.retry_later \in Seq(PacedEntry)
         /\ tick'.awaited \in Seq(PacedEntry)
    BY <1>0, <1>3, <2>1, <2>3 DEF StartTick, PaceInv
  <2>8. tick'.now <= now'
    BY <1>0, <2>6, <2>3
  <2> QED BY <2>4, <2>5, <2>7, <2>8 DEF PaceInv
<1>4. CASE Keep
  <2>1. /\ Head(pending) \in PacedEntry /\ Tail(pending) \in Seq(PacedEntry)
        /\ Head(pending) \in Pending /\ Tail(pending) \in Seq(Pending)
    BY <1>4, HeadTailProperties DEF Keep, PaceInv, TypeOK
  <2>2. /\ Append(tick.retry_later, Head(pending)) \in Seq(PacedEntry)
        /\ Append(tick.retry_later, Head(pending)) \in Seq(Pending)
    BY <2>1, AppendProperties DEF PaceInv, TypeOK, Tick
  <2>3. /\ tick' \in Tick /\ tick'.now = tick.now /\ tick'.awaited = tick.awaited
        /\ tick'.retry_later = Append(tick.retry_later, Head(pending))
    BY <1>0, <1>4, <2>2, TickUpdates DEF Keep, Tick
  <2> QED BY <1>4, <2>1, <2>2, <2>3 DEF Keep, PaceInv, TypeOK
<1>5. CASE Attempt
  <2>1. /\ Head(pending) \in PacedEntry /\ Tail(pending) \in Seq(PacedEntry)
        /\ Head(pending) \in Pending /\ Tail(pending) \in Seq(Pending)
    BY <1>5, HeadTailProperties DEF Attempt, PaceInv, TypeOK
  <2>2. <<Head(pending)>> \in Seq(PacedEntry) /\ <<Head(pending)>> \in Seq(Pending)
    BY <2>1
  <2>3. Head(pending).redeem_after <= tick.now
    BY <1>0, <1>5, <2>1 DEF Attempt, Due, Pending
  <2>4. /\ tick' \in Tick /\ tick'.now = tick.now
        /\ tick'.retry_later = tick.retry_later
        /\ tick'.awaited = <<Head(pending)>>
    BY <1>0, <1>5, <2>2, TickUpdates DEF Attempt, Tick
  <2>5. \A i \in 1..Len(tick'.awaited) : tick'.awaited[i].redeem_after <= tick'.now
    BY <2>3, <2>4
  <2> QED BY <1>5, <2>1, <2>2, <2>4, <2>5 DEF Attempt, PaceInv, TypeOK
<1>6. CASE Redeemed
  <2>1. Head(tick.awaited).condition_id \in Conditions
    BY <1>6, HeadTailProperties DEF Redeemed, PaceInv, TypeOK, Pending
  <2>2. /\ tick' \in Tick /\ tick'.now = tick.now
        /\ tick'.retry_later = tick.retry_later /\ tick'.awaited = <<>>
    BY <1>0, <1>6, TickUpdates DEF Redeemed, Tick
  <2>3. TypeOK'
    BY <1>0, <1>6, <2>1, <2>2 DEF Redeemed, PaceInv, TypeOK
  <2>4. \A i \in 1..Len(tick'.awaited) : tick'.awaited[i].redeem_after <= tick'.now
    BY <2>2
  <2>5. now' = now
    BY <1>6 DEF Redeemed
  <2>6. /\ pending' \in Seq(PacedEntry) /\ tick'.retry_later \in Seq(PacedEntry)
         /\ tick'.awaited \in Seq(PacedEntry)
    BY <1>0, <1>6, <2>1, <2>2 DEF Redeemed, PaceInv
  <2>7. tick'.now <= now'
    BY <1>0, <2>5, <2>2
  <2> QED BY <2>3, <2>4, <2>6, <2>7 DEF PaceInv
<1>7. CASE Failed
  <2> DEFINE p == Head(tick.awaited)
             c == p.condition_id
  <2>1. p \in PacedEntry /\ p \in Pending
    BY <1>7, HeadTailProperties DEF Failed, PaceInv, TypeOK, Tick
  <2>2. p.redeem_after <= tick.now
    <3>1. tick.awaited \in Seq(PacedEntry) /\ tick.awaited # <<>>
      BY <1>7 DEF Failed, PaceInv
    <3>2. 1 \in 1..Len(tick.awaited) /\ p = tick.awaited[1]
      BY <3>1, EmptySeq, LenProperties
    <3> QED BY <3>2 DEF PaceInv
  <2>3. /\ c \in Conditions /\ p.attempts \in 0..(MaxAttempts - 1)
        /\ p.redeem_after \in Nat /\ p.redeem_after >= Earliest(c, p.attempts)
    BY <2>1 DEF PacedEntry, Pending
  <2>4. CASE LastAttempt(p)
    <3>1. /\ tick' \in Tick /\ tick'.now = tick.now
          /\ tick'.retry_later = tick.retry_later /\ tick'.awaited = <<>>
      <4>1. tick' = [tick EXCEPT !.awaited = <<>>]
        BY <1>7, <2>4 DEF Failed
      <4> QED BY <1>0, <4>1, TickUpdates DEF Tick
    <3>2. result' = [result EXCEPT ![c] = "given up"]
      BY <1>7, <2>4 DEF Failed
    <3>3. TypeOK'
      BY <1>0, <1>7, <2>3, <3>1, <3>2 DEF Failed, PaceInv, TypeOK
    <3>4. \A i \in 1..Len(tick'.awaited) : tick'.awaited[i].redeem_after <= tick'.now
      BY <3>1
    <3>5. now' = now
      BY <1>7 DEF Failed
    <3>6. /\ pending' \in Seq(PacedEntry) /\ tick'.retry_later \in Seq(PacedEntry)
           /\ tick'.awaited \in Seq(PacedEntry)
      BY <1>0, <1>7, <2>3, <3>1, <3>2 DEF Failed, PaceInv
    <3>7. tick'.now <= now'
      BY <1>0, <3>5, <3>1
    <3> QED BY <3>3, <3>4, <3>6, <3>7 DEF PaceInv
  <2>5. CASE ~LastAttempt(p)
    <3>1. Retried(p) \in PacedEntry /\ Retried(p) \in Pending
      BY <2>1, <2>2, <2>5, RetriedPaced DEF PaceInv, PacedEntry
    <3>2. /\ Append(tick.retry_later, Retried(p)) \in Seq(PacedEntry)
          /\ Append(tick.retry_later, Retried(p)) \in Seq(Pending)
      BY <3>1, AppendProperties DEF PaceInv, TypeOK, Tick
    <3>3. /\ tick' \in Tick /\ tick'.now = tick.now /\ tick'.awaited = <<>>
          /\ tick'.retry_later = Append(tick.retry_later, Retried(p))
      <4> DEFINE r == Append(tick.retry_later, Retried(p))
      <4>1. tick' = [tick EXCEPT !.awaited = <<>>, !.retry_later = r]
        BY <1>7, <2>5 DEF Failed
      <4> HIDE DEF r
      <4>2. r \in Seq(Pending)
        BY <3>2 DEF r
      <4>3. tick' \in Tick /\ tick'.now = tick.now /\ tick'.retry_later = r /\ tick'.awaited = <<>>
        <5>1. tick' \in Tick
          BY <1>0, <4>1, <4>2 DEF Tick
        <5>2. tick'.now = tick.now /\ tick'.retry_later = r /\ tick'.awaited = <<>>
          BY <1>0, <4>1 DEF Tick
        <5> QED BY <5>1, <5>2
      <4> QED BY <4>3 DEF r
    <3>4. TypeOK'
      BY <1>0, <1>7, <2>3, <2>5, <3>2, <3>3 DEF Failed, PaceInv, TypeOK
    <3>5. \A i \in 1..Len(tick'.awaited) : tick'.awaited[i].redeem_after <= tick'.now
      BY <3>3
    <3>6. now' = now
      BY <1>7 DEF Failed
    <3>7. /\ pending' \in Seq(PacedEntry) /\ tick'.retry_later \in Seq(PacedEntry)
           /\ tick'.awaited \in Seq(PacedEntry)
      BY <1>0, <1>7, <2>3, <2>5, <3>2, <3>3 DEF Failed, PaceInv
    <3>8. tick'.now <= now'
      BY <1>0, <3>6, <3>3
    <3> QED BY <3>4, <3>5, <3>7, <3>8 DEF PaceInv
  <2> QED BY <2>4, <2>5
<1>8. CASE EndTick
  <2>1. tick' \in Tick /\ tick'.now = 0 /\ tick'.retry_later = <<>> /\ tick'.awaited = <<>>
    BY <1>0, <1>8 DEF EndTick, NoTick, Tick
  <2>2. pending' \in Seq(PacedEntry) /\ pending' \in Seq(Pending)
    BY <1>0, <1>8 DEF EndTick, PaceInv, Tick
  <2>3. TypeOK'
    BY <1>0, <1>8, <2>1, <2>2 DEF EndTick, PaceInv, TypeOK
  <2>4. \A i \in 1..Len(tick'.awaited) : tick'.awaited[i].redeem_after <= tick'.now
    BY <2>1
  <2>5. now' = now
    BY <1>8 DEF EndTick
  <2>6. /\ pending' \in Seq(PacedEntry) /\ tick'.retry_later \in Seq(PacedEntry)
         /\ tick'.awaited \in Seq(PacedEntry)
    BY <1>0, <1>8, <2>1, <2>2 DEF EndTick, PaceInv
  <2>7. tick'.now <= now'
    BY <1>0, <2>5, <2>1
  <2> QED BY <2>3, <2>4, <2>6, <2>7 DEF PaceInv
<1>9. CASE Elapse
  <2>1. tick.now <= now /\ now' = now + 1
    BY <1>9 DEF Elapse, PaceInv
  <2>2. now' \in Nat /\ tick.now <= now' /\ now <= now'
    BY <1>0, <2>1
  <2> QED BY <1>9, <2>2 DEF Elapse, PaceInv, TypeOK
<1>10. CASE UNCHANGED vars
  BY <1>10 DEF vars, PaceInv, TypeOK
<1> QED BY <1>1, <1>2, <1>3, <1>4, <1>5, <1>6, <1>7, <1>8, <1>9, <1>10 DEF Next

-----------------------------------------------------------------------------
\* The bound on every entry is kept by every step.
THEOREM PaceCorrect == Spec => []PaceInv
BY PaceInit, PaceStep, PTL DEF Spec

\* Every variable keeps its type: no entry outlives its last attempt.
THEOREM RedeemerTypeCorrect == Spec => []TypeOK
<1>1. PaceInv => TypeOK
  BY DEF PaceInv
<1> QED BY <1>1, PaceCorrect, PTL

-----------------------------------------------------------------------------
(* Every scheduled market is held once.                                    *)

\* The entries of market c.
EntriesOf(c) == {p \in Pending : p.condition_id = c}

\* The copies of market c in a channel, a queue, an awaited entry and a list of
\* retries.
Tally(x, q, w, r, c) == Matches(x, {c}) + Matches(q, EntriesOf(c))
                           + Matches(w, EntriesOf(c)) + Matches(r, EntriesOf(c))

Held(c) == Tally(rx, pending, tick.awaited, tick.retry_later, c)

\* The tick awaits one transaction at most, and has nothing left when it is over.
HeldInv ==
    /\ \A c \in Conditions : Held(c) = IF result[c] = "scheduled" THEN 1 ELSE 0
    /\ tick.awaited # <<>> => tick.awaited = <<Head(tick.awaited)>>
    /\ ~tick.running => tick.awaited = <<>> /\ tick.retry_later = <<>>

\* What the model counts is what HeldInv counts.
LEMMA CountedAlike ==
    ASSUME TypeOK, NEW c \in Conditions
    PROVE  Cardinality(Commands(c)) + Cardinality(Entries(c)) = Held(c)
<1> DEFINE w == tick.awaited   r == tick.retry_later   q == pending \o w   s == q \o r
           X == EntriesOf(c)
<1>1. /\ rx \in Seq(Conditions) /\ pending \in Seq(Pending) /\ w \in Seq(Pending)
      /\ r \in Seq(Pending)
  BY DEF TypeOK, Tick
<1>2. q \in Seq(Pending)
  BY <1>1, ConcatProperties
<1>3. s \in Seq(Pending)
  BY <1>1, <1>2, ConcatProperties
<1>4. Commands(c) = Places(rx, {c})
  BY DEF Commands, Places
<1>5. Entries(c) = Places(s, X)
  <2>1. \A i \in DOMAIN s : s[i] \in Pending
    BY <1>3, LenProperties
  <2>2. \A i \in DOMAIN s : s[i].condition_id = c <=> s[i] \in X
    BY <2>1 DEF EntriesOf
  <2>3. Entries(c) = {i \in DOMAIN s : s[i].condition_id = c}
    BY DEF Entries
  <2> HIDE DEF s, X
  <2> QED BY <2>2, <2>3 DEF Places
<1> HIDE DEF w, r, q, X
<1>6. Matches(s, X) = Matches(q, X) + Matches(r, X)
  BY <1>1, <1>2, MatchesConcat
<1>7. Matches(q, X) = Matches(pending, X) + Matches(w, X)
  <2>1. Matches(pending \o w, X) = Matches(pending, X) + Matches(w, X)
    BY <1>1, MatchesConcat
  <2> QED BY <2>1 DEF q
<1>8. /\ Matches(rx, {c}) \in Nat /\ Matches(pending, X) \in Nat
      /\ Matches(w, X) \in Nat /\ Matches(r, X) \in Nat
  BY <1>1, PlacesFinite
<1>9. /\ Cardinality(Commands(c)) = Matches(rx, {c})
      /\ Cardinality(Entries(c)) = Matches(s, X)
  BY <1>4, <1>5 DEF Matches
<1> HIDE DEF s
<1> QED BY <1>6, <1>7, <1>8, <1>9 DEF Held, Tally, w, r, X

\* A market that is in a queue matches there.
LEMMA MatchesQueued ==
    ASSUME NEW c \in Conditions, pending \in Seq(Pending), Queued(pending, c)
    PROVE  Matches(pending, EntriesOf(c)) # 0
<1>1. PICK i \in 1..Len(pending) : pending[i].condition_id = c
  BY LenProperties DEF Queued
<1>2. pending[i] \in Pending
  BY <1>1, LenProperties
<1>3. i \in Places(pending, EntriesOf(c))
  BY <1>1, <1>2, PlacesFinite DEF EntriesOf
<1>4. IsFiniteSet(Places(pending, EntriesOf(c)))
  BY PlacesFinite
<1> QED BY <1>3, <1>4, FS_EmptySet DEF Matches

\* The counts are natural numbers.
LEMMA TallyTypes ==
    ASSUME NEW x \in Seq(Conditions), NEW q \in Seq(Pending), NEW w \in Seq(Pending),
           NEW r \in Seq(Pending), NEW c
    PROVE  /\ Matches(x, {c}) \in Nat /\ Matches(q, EntriesOf(c)) \in Nat
           /\ Matches(w, EntriesOf(c)) \in Nat /\ Matches(r, EntriesOf(c)) \in Nat
           /\ Matches(<<>>, EntriesOf(c)) = 0
<1> QED BY PlacesFinite, MatchesEmpty

\* A market is commanded.
LEMMA TallySent ==
    ASSUME NEW x \in Seq(Conditions), NEW q \in Seq(Pending), NEW w \in Seq(Pending),
           NEW r \in Seq(Pending), NEW d \in Conditions, NEW c \in Conditions
    PROVE  Tally(Append(x, d), q, w, r, c)
             = Tally(x, q, w, r, c) + (IF c = d THEN 1 ELSE 0)
<1>1. /\ Matches(Append(x, d), {c}) = Matches(x, {c}) + (IF c = d THEN 1 ELSE 0)
      /\ Matches(x, {c}) \in Nat
  BY MatchesAppend
<1> QED BY <1>1, TallyTypes DEF Tally

\* MatchesAppend for the queues of entries.
LEMMA AppendedTo ==
    ASSUME NEW q \in Seq(Pending), NEW e \in Pending, NEW c
    PROVE  /\ Matches(Append(q, e), EntriesOf(c))
                = Matches(q, EntriesOf(c)) + (IF e \in EntriesOf(c) THEN 1 ELSE 0)
           /\ Matches(q, EntriesOf(c)) \in Nat
<1> DEFINE X == EntriesOf(c)
<1> HIDE DEF X
<1>1. /\ Matches(q, X) \in Nat
      /\ e \in X => Matches(Append(q, e), X) = Matches(q, X) + 1
      /\ e \notin X => Matches(Append(q, e), X) = Matches(q, X)
  BY MatchesAppend
<1>2. /\ Matches(Append(q, e), X) = Matches(q, X) + (IF e \in X THEN 1 ELSE 0)
      /\ Matches(q, X) \in Nat
  BY <1>1
<1> QED BY <1>2 DEF X

\* A command becomes an entry.
LEMMA TallyReceived ==
    ASSUME NEW x \in Seq(Conditions), NEW q \in Seq(Pending), NEW w \in Seq(Pending),
           NEW r \in Seq(Pending), NEW c \in Conditions, x # <<>>,
           NEW e \in Pending, e.condition_id = Head(x)
    PROVE  Tally(Tail(x), Append(q, e), w, r, c) = Tally(x, q, w, r, c)
<1>1. Head(x) \in Conditions
  BY HeadTailProperties
<1>2. /\ Matches(x, {c}) = Matches(Tail(x), {c}) + (IF Head(x) = c THEN 1 ELSE 0)
      /\ Matches(x, {c}) \in Nat /\ Matches(Tail(x), {c}) \in Nat
  <2>1. Head(x) \in {c} <=> Head(x) = c
    OBVIOUS
  <2> QED BY <1>1, <2>1, MatchesTail
<1>3. e \in EntriesOf(c) <=> Head(x) = c
  BY DEF EntriesOf
<1>4. /\ Matches(Append(q, e), EntriesOf(c))
           = Matches(q, EntriesOf(c)) + (IF Head(x) = c THEN 1 ELSE 0)
      /\ Matches(q, EntriesOf(c)) \in Nat
  BY <1>3, AppendedTo
<1> QED BY <1>2, <1>4, TallyTypes DEF Tally

\* The entry at the head of the queue is kept for later, or awaited.
LEMMA TallyTaken ==
    ASSUME NEW x \in Seq(Conditions), NEW q \in Seq(Pending), q # <<>>,
           NEW r \in Seq(Pending), NEW c \in Conditions
    PROVE  /\ Tally(x, Tail(q), <<>>, Append(r, Head(q)), c) = Tally(x, q, <<>>, r, c)
           /\ Tally(x, Tail(q), <<Head(q)>>, r, c) = Tally(x, q, <<>>, r, c)
<1>1. Head(q) \in Pending /\ Tail(q) \in Seq(Pending)
  BY HeadTailProperties
<1> DEFINE k == IF Head(q) \in EntriesOf(c) THEN 1 ELSE 0
<1>2. /\ Matches(q, EntriesOf(c)) = Matches(Tail(q), EntriesOf(c)) + k
      /\ Matches(q, EntriesOf(c)) \in Nat /\ Matches(Tail(q), EntriesOf(c)) \in Nat
  BY MatchesTail
<1>3. /\ Matches(Append(r, Head(q)), EntriesOf(c)) = Matches(r, EntriesOf(c)) + k
      /\ Matches(r, EntriesOf(c)) \in Nat
  BY <1>1, AppendedTo
<1>4. Matches(<<Head(q)>>, EntriesOf(c)) = k
  BY MatchesOne
<1>5. Matches(<<>>, EntriesOf(c)) = 0 /\ Matches(x, {c}) \in Nat /\ k \in Nat
  BY MatchesEmpty, PlacesFinite
<1> HIDE DEF k
<1> QED BY <1>2, <1>3, <1>4, <1>5 DEF Tally

\* The awaited entry is concluded, or put back.
LEMMA TallyAnswered ==
    ASSUME NEW x \in Seq(Conditions), NEW q \in Seq(Pending), NEW r \in Seq(Pending),
           NEW p \in Pending, NEW e \in Pending, e.condition_id = p.condition_id,
           NEW c \in Conditions
    PROVE  /\ Tally(x, q, <<p>>, r, c)
                = Tally(x, q, <<>>, r, c) + (IF c = p.condition_id THEN 1 ELSE 0)
           /\ Tally(x, q, <<>>, Append(r, e), c) = Tally(x, q, <<p>>, r, c)
           /\ Tally(x, q, <<>>, r, c) \in Nat
<1> DEFINE k == IF c = p.condition_id THEN 1 ELSE 0
<1>1. (e \in EntriesOf(c) <=> c = p.condition_id) /\ (p \in EntriesOf(c) <=> c = p.condition_id)
  BY DEF EntriesOf
<1>2. /\ Matches(Append(r, e), EntriesOf(c)) = Matches(r, EntriesOf(c)) + k
      /\ Matches(r, EntriesOf(c)) \in Nat
  BY <1>1, AppendedTo
<1>3. Matches(<<p>>, EntriesOf(c)) = k
  BY <1>1, MatchesOne
<1>4. /\ Matches(<<>>, EntriesOf(c)) = 0 /\ Matches(x, {c}) \in Nat
      /\ Matches(q, EntriesOf(c)) \in Nat /\ k \in Nat
  BY MatchesEmpty, PlacesFinite
<1> HIDE DEF k
<1> QED
  <2>1. /\ Tally(x, q, <<p>>, r, c) = Tally(x, q, <<>>, r, c) + k
        /\ Tally(x, q, <<>>, Append(r, e), c) = Tally(x, q, <<p>>, r, c)
        /\ Tally(x, q, <<>>, r, c) \in Nat
    BY <1>2, <1>3, <1>4 DEF Tally
  <2> QED BY <2>1 DEF k

\* A tick ends: what was put back is the queue.
LEMMA TallyEnded ==
    ASSUME NEW x \in Seq(Conditions), NEW r \in Seq(Pending), NEW c \in Conditions
    PROVE  Tally(x, r, <<>>, <<>>, c) = Tally(x, <<>>, <<>>, r, c)
<1>1. /\ Matches(<<>>, EntriesOf(c)) = 0 /\ Matches(x, {c}) \in Nat
      /\ Matches(r, EntriesOf(c)) \in Nat
  BY MatchesEmpty, PlacesFinite
<1> QED BY <1>1 DEF Tally

\* A market that is commanded, or awaited, is not in the queue as well.
LEMMA NotTwice ==
    ASSUME TypeOK, HeldInv, NEW c \in Conditions
    PROVE  /\ rx # <<>> /\ Head(rx) = c => ~Queued(pending, c)
           /\ tick.awaited # <<>> /\ Head(tick.awaited).condition_id = c
                 => result[c] = "scheduled"
<1> DEFINE w == tick.awaited   r == tick.retry_later
<1>1. /\ rx \in Seq(Conditions) /\ pending \in Seq(Pending) /\ w \in Seq(Pending)
      /\ r \in Seq(Pending)
  BY DEF TypeOK, Tick
<1>2. Tally(rx, pending, w, r, c) = IF result[c] = "scheduled" THEN 1 ELSE 0
  BY DEF HeldInv, Held
<1> HIDE DEF w, r
<1>3. /\ Matches(rx, {c}) \in Nat /\ Matches(pending, EntriesOf(c)) \in Nat
      /\ Matches(w, EntriesOf(c)) \in Nat /\ Matches(r, EntriesOf(c)) \in Nat
  BY <1>1, TallyTypes
<1>4. ASSUME rx # <<>>, Head(rx) = c PROVE ~Queued(pending, c)
  <2>1. Matches(rx, {c}) = Matches(Tail(rx), {c}) + 1 /\ Matches(Tail(rx), {c}) \in Nat
    BY <1>1, <1>4, MatchesTail
  <2>2. Matches(pending, EntriesOf(c)) = 0
    BY <1>2, <1>3, <2>1 DEF Tally
  <2> QED BY <1>1, <2>2, MatchesQueued
<1>5. ASSUME w # <<>>, Head(w).condition_id = c PROVE result[c] = "scheduled"
  <2>1. Head(w) \in EntriesOf(c)
    BY <1>1, <1>5, HeadTailProperties DEF EntriesOf
  <2>2. /\ Matches(w, EntriesOf(c)) = Matches(Tail(w), EntriesOf(c)) + 1
        /\ Matches(Tail(w), EntriesOf(c)) \in Nat
    BY <1>1, <1>5, <2>1, MatchesTail
  <2> QED BY <1>2, <1>3, <2>2 DEF Tally
<1> QED BY <1>4, <1>5 DEF w

\* Every step keeps the count.
LEMMA HeldStep ==
    ASSUME TypeOK, HeldInv, [Next]_vars
    PROVE  HeldInv'
<1> DEFINE w == tick.awaited   r == tick.retry_later
<1>1. /\ rx \in Seq(Conditions) /\ pending \in Seq(Pending) /\ tick \in Tick
      /\ w \in Seq(Pending) /\ r \in Seq(Pending)
      /\ result \in [Conditions -> {"unscheduled", "scheduled", "redeemed", "given up"}]
  BY DEF TypeOK, Tick
<1>2. \A c \in Conditions : Tally(rx, pending, w, r, c) = IF result[c] = "scheduled" THEN 1 ELSE 0
  BY DEF HeldInv, Held
<1>3. CASE UNCHANGED <<rx, pending, tick, result>>
  BY <1>3 DEF HeldInv, Held
<1>4. ASSUME NEW d \in Conditions, Schedule(d) PROVE HeldInv'
  <2>1. /\ rx' = Append(rx, d) /\ pending' = pending /\ tick' = tick
        /\ result[d] = "unscheduled"
        /\ \A c \in Conditions : result'[c] = IF c = d THEN "scheduled" ELSE result[c]
    BY <1>1, <1>4 DEF Schedule
  <2>2. \A c \in Conditions : Held(c)' = Tally(rx, pending, w, r, c) + (IF c = d THEN 1 ELSE 0)
    <3>1. \A c \in Conditions : Held(c)' = Tally(Append(rx, d), pending, w, r, c)
      BY <2>1 DEF Held
    <3>0. rx \in Seq(Conditions) /\ pending \in Seq(Pending)
          /\ w \in Seq(Pending) /\ r \in Seq(Pending)
      BY <1>1
    <3> HIDE DEF w, r
    <3>2. \A c \in Conditions : Tally(Append(rx, d), pending, w, r, c)
                                   = Tally(rx, pending, w, r, c) + (IF c = d THEN 1 ELSE 0)
      BY <3>0, TallySent
    <3> QED BY <3>1, <3>2
  <2>3. \A c \in Conditions : Held(c)' = IF result'[c] = "scheduled" THEN 1 ELSE 0
    <3> HIDE DEF w, r
    <3> QED BY <1>2, <2>1, <2>2
  <2> QED BY <2>1, <2>3 DEF HeldInv
<1>5. CASE Receive
  <2> DEFINE d == Head(rx)
             e == [condition_id |-> d, redeem_after |-> MarketEnd[d] + RedeemDelay, attempts |-> 0]
  <2>1. /\ rx # <<>> /\ rx' = Tail(rx) /\ tick' = tick /\ result' = result /\ d \in Conditions
    BY <1>1, <1>5, HeadTailProperties DEF Receive
  <2>2. ~Queued(pending, d)
    BY <2>1, NotTwice
  <2>3. pending' = Append(pending, e)
    BY <1>5, <2>2 DEF Receive
  <2>4. e \in Pending /\ e.condition_id = Head(rx)
    BY <2>1, MarketsAssumption, DelayAssumption DEF Pending
  <2> HIDE DEF e
  <2>5. \A c \in Conditions : Held(c)' = Tally(Tail(rx), Append(pending, e), w, r, c)
    BY <2>1, <2>3 DEF Held
  <2>6. \A c \in Conditions : Held(c)' = Tally(rx, pending, w, r, c)
    <3>0. rx \in Seq(Conditions) /\ pending \in Seq(Pending) /\ rx # <<>>
          /\ w \in Seq(Pending) /\ r \in Seq(Pending)
      BY <1>1, <2>1
    <3> HIDE DEF w, r
    <3>1. \A c \in Conditions : Tally(Tail(rx), Append(pending, e), w, r, c)
                                   = Tally(rx, pending, w, r, c)
      BY <3>0, <2>4, TallyReceived
    <3> QED BY <2>5, <3>1
  <2> QED BY <1>2, <2>1, <2>6 DEF HeldInv
<1>6. CASE StartTick
  <2>1. /\ w = <<>> /\ r = <<>> /\ rx' = rx /\ pending' = pending /\ result' = result
        /\ tick'.awaited = <<>> /\ tick'.retry_later = <<>> /\ tick'.running
    BY <1>6 DEF StartTick, HeldInv
  <2> QED BY <2>1 DEF HeldInv, Held
\* An entry leaves the queue: it is kept for later, or its transaction awaited.
<1>7. CASE Keep \/ Attempt
  <2>1. /\ pending # <<>> /\ pending' = Tail(pending) /\ rx' = rx /\ result' = result
        /\ w = <<>> /\ tick.running
    BY <1>7 DEF Keep, Attempt, Idling
  <2>2. \/ tick'.awaited = <<>> /\ tick'.retry_later = Append(r, Head(pending))
        \/ tick'.awaited = <<Head(pending)>> /\ tick'.retry_later = r
    BY <1>1, <1>7, <2>1 DEF Keep, Attempt, Tick
  <2>3. tick'.running
    BY <1>1, <1>7, <2>1 DEF Keep, Attempt, Tick
  <2>4. \A c \in Conditions : Held(c)' = Tally(rx, pending, w, r, c)
    <3>1. \A c \in Conditions :
             \/ Held(c)' = Tally(rx, Tail(pending), <<>>, Append(r, Head(pending)), c)
             \/ Held(c)' = Tally(rx, Tail(pending), <<Head(pending)>>, r, c)
      BY <2>1, <2>2 DEF Held
    <3>2. \A c \in Conditions : Held(c)' = Tally(rx, pending, <<>>, r, c)
      <4> HIDE DEF r
      <4> QED BY <1>1, <2>1, <3>1, TallyTaken
    <3> QED BY <2>1, <3>2
  <2>5. tick'.awaited # <<>> => tick'.awaited = <<Head(tick'.awaited)>>
    BY <2>2
  <2> QED BY <1>2, <2>1, <2>3, <2>4, <2>5 DEF HeldInv
\* The answer of a transaction: its market is concluded, or its entry put back.
<1>8. CASE Redeemed \/ Failed
  <2> DEFINE p == Head(w)   d == p.condition_id
  <2>1. /\ w # <<>> /\ tick.running /\ rx' = rx /\ pending' = pending /\ p \in Pending
        /\ w = <<p>>
    BY <1>1, <1>8, HeadTailProperties DEF Redeemed, Failed, HeldInv
  <2>2. d \in Conditions /\ result[d] = "scheduled"
    BY <2>1, NotTwice DEF Pending
  <2>3. \A c \in Conditions :
           /\ Tally(rx, pending, <<p>>, r, c)
                = Tally(rx, pending, <<>>, r, c) + (IF c = d THEN 1 ELSE 0)
           /\ Tally(rx, pending, <<>>, r, c) \in Nat
    <3>1. rx \in Seq(Conditions) /\ pending \in Seq(Pending) /\ r \in Seq(Pending)
          /\ p \in Pending
      BY <1>1, <2>1
    <3> HIDE DEF r, p
    <3> QED BY <3>1, TallyAnswered, SMTT(20) DEF d
  <2>4. CASE /\ tick'.awaited = <<>> /\ tick'.retry_later = r /\ tick'.running
             /\ result'[d] # "scheduled"
             /\ \A c \in Conditions \ {d} : result'[c] = result[c]
    <3>1. \A c \in Conditions : Held(c)' = Tally(rx, pending, <<>>, r, c)
      BY <2>1, <2>4 DEF Held
    <3>2. \A c \in Conditions :
             Tally(rx, pending, <<p>>, r, c) = IF result[c] = "scheduled" THEN 1 ELSE 0
      BY <1>2, <2>1
    <3>3. \A c \in Conditions : Held(c)' = IF result'[c] = "scheduled" THEN 1 ELSE 0
      <4> HIDE DEF r, p, d
      <4> QED BY <2>2, <2>3, <2>4, <3>1, <3>2
    <3> QED BY <2>4, <3>3 DEF HeldInv
  <2>5. CASE Redeemed \/ (Failed /\ LastAttempt(p))
    <3>1. /\ tick'.awaited = <<>> /\ tick'.retry_later = r /\ tick'.running
          /\ \/ result' = [result EXCEPT ![d] = "redeemed"]
             \/ result' = [result EXCEPT ![d] = "given up"]
      BY <1>1, <2>1, <2>5 DEF Redeemed, Failed, Tick
    <3>2. result'[d] # "scheduled" /\ \A c \in Conditions \ {d} : result'[c] = result[c]
      BY <1>1, <2>2, <3>1
    <3> QED BY <2>4, <3>1, <3>2
  <2>6. CASE Failed /\ ~LastAttempt(p)
    <3> DEFINE e == Retried(p)
    <3>1. /\ tick'.awaited = <<>> /\ tick'.running /\ tick'.retry_later = Append(r, e)
          /\ result' = result
      BY <1>1, <2>1, <2>6 DEF Failed, Tick
    <3>2. e \in Pending /\ e.condition_id = d
      <4>1. tick.now + RetryDelay \in Nat
        <5>1. tick.now \in Nat /\ RetryDelay \in Nat
          BY <1>1, DelayAssumption DEF Tick
        <5> QED BY <5>1
      <4>2. p.attempts + 1 \in 0..(MaxAttempts - 1)
        BY <2>1, <2>6, DelayAssumption DEF LastAttempt, Pending
      <4> QED BY <2>2, <4>1, <4>2 DEF Retried, Pending
    <3> HIDE DEF e
    <3>3. \A c \in Conditions : Held(c)' = Tally(rx, pending, <<>>, Append(r, e), c)
      BY <2>1, <3>1 DEF Held
    <3>4. \A c \in Conditions : Held(c)' = Tally(rx, pending, <<p>>, r, c)
      <4>1. rx \in Seq(Conditions) /\ pending \in Seq(Pending) /\ r \in Seq(Pending)
            /\ p \in Pending /\ e \in Pending /\ e.condition_id = p.condition_id
        BY <1>1, <2>1, <3>2
      <4> HIDE DEF r, p
      <4>2. \A c \in Conditions : Tally(rx, pending, <<>>, Append(r, e), c)
                                     = Tally(rx, pending, <<p>>, r, c)
        BY <4>1, TallyAnswered
      <4> QED BY <3>3, <4>2
    <3> QED BY <1>2, <2>1, <3>1, <3>4 DEF HeldInv
  <2> QED BY <1>8, <2>5, <2>6
<1>9. CASE EndTick
  <2>1. /\ pending = <<>> /\ w = <<>> /\ pending' = r /\ rx' = rx /\ result' = result
        /\ tick'.awaited = <<>> /\ tick'.retry_later = <<>>
    BY <1>9 DEF EndTick, Drained, Idling, NoTick
  <2>2. \A c \in Conditions : Held(c)' = Tally(rx, r, <<>>, <<>>, c)
    BY <2>1 DEF Held
  <2>3. \A c \in Conditions : Held(c)' = Tally(rx, <<>>, <<>>, r, c)
    <3> HIDE DEF r
    <3> QED BY <1>1, <2>2, TallyEnded
  <2> QED BY <1>2, <2>1, <2>3 DEF HeldInv
<1>10. CASE Elapse \/ UNCHANGED vars \/ \E c \in Conditions : Resolve(c)
  BY <1>3, <1>10 DEF Elapse, Resolve, vars
<1> QED BY <1>4, <1>5, <1>6, <1>7, <1>8, <1>9, <1>10 DEF Next

\* The copies of every market are counted right.
THEOREM HeldCorrect == Spec => []HeldInv
<1>1. Init => HeldInv
  <2> SUFFICES ASSUME Init PROVE HeldInv
    OBVIOUS
  <2>1. /\ rx = <<>> /\ pending = <<>> /\ tick.awaited = <<>> /\ tick.retry_later = <<>>
        /\ \A c \in Conditions : result[c] = "unscheduled"
    BY DEF Init, NoTick
  <2>2. \A c : Tally(<<>>, <<>>, <<>>, <<>>, c) = 0
    <3>1. \A c : Matches(<<>>, {c}) = 0 /\ Matches(<<>>, EntriesOf(c)) = 0
      BY MatchesEmpty
    <3> QED BY <3>1 DEF Tally
  <2> QED BY <2>1, <2>2 DEF HeldInv, Held
<1>2. TypeOK /\ HeldInv /\ [Next]_vars => HeldInv'
  BY HeldStep
<1> QED BY <1>1, <1>2, RedeemerTypeCorrect, PTL DEF Spec

\* A scheduled market is held in exactly one place until it is redeemed or given
\* up, for any number of markets and attempts (redeemer.rs:87-169).
THEOREM HeldOnceHolds == Spec => []HeldOnce
<1>1. TypeOK /\ HeldInv => HeldOnce
  BY CountedAlike DEF HeldInv, HeldOnce
<1> QED BY <1>1, RedeemerTypeCorrect, HeldCorrect, PTL

-----------------------------------------------------------------------------
(***************************************************************************)
(* The redeemer keeps the promise of Redemption.  A step of the queue      *)
(* moves entries without changing which there are (EntriesIn), and a       *)
(* market whose transaction is awaited has no entry but the awaited one,   *)
(* because it is held once: its failures are those the entry counts.       *)
(***************************************************************************)

\* The members of a queue with one element more, without its first, with one
\* element and with none.
LEMMA MembersAppend ==
    ASSUME NEW S, NEW s \in Seq(S), NEW e \in S
    PROVE  Members(Append(s, e)) = Members(s) \cup {e}
<1>1. /\ DOMAIN s = 1..Len(s) /\ Len(s) \in Nat
      /\ DOMAIN Append(s, e) = 1..(Len(s) + 1)
      /\ \A i \in 1..Len(s) : Append(s, e)[i] = s[i]
      /\ Append(s, e)[Len(s) + 1] = e
  BY AppendProperties, LenProperties
<1>2. 1..(Len(s) + 1) = 1..Len(s) \cup {Len(s) + 1}
  BY <1>1
<1> QED BY <1>1, <1>2 DEF Members

\* The head of a queue is a member, and the others are those of its tail.
LEMMA MembersTail ==
    ASSUME NEW S, NEW s \in Seq(S), s # <<>>
    PROVE  Members(s) = Members(Tail(s)) \cup {Head(s)}
<1>1. /\ Tail(s) \in Seq(S) /\ Len(Tail(s)) = Len(s) - 1 /\ Head(s) = s[1]
      /\ \A i \in 1..Len(Tail(s)) : Tail(s)[i] = s[i + 1]
      /\ Len(s) \in Nat \ {0} /\ DOMAIN s = 1..Len(s) /\ DOMAIN Tail(s) = 1..Len(Tail(s))
  BY HeadTailProperties, LenProperties, EmptySeq
<1>2. ASSUME NEW x \in Members(s) PROVE x \in Members(Tail(s)) \cup {Head(s)}
  <2>1. PICK i \in 1..Len(s) : x = s[i]
    BY <1>1, <1>2 DEF Members
  <2>2. CASE i = 1
    BY <1>1, <2>1, <2>2
  <2>3. CASE i # 1
    <3>1. i - 1 \in 1..Len(Tail(s)) /\ (i - 1) + 1 = i
      BY <1>1, <2>1, <2>3
    <3>2. Tail(s)[i - 1] = s[i]
      BY <1>1, <3>1
    <3> QED BY <1>1, <2>1, <3>1, <3>2 DEF Members
  <2> QED BY <2>2, <2>3
<1>3. ASSUME NEW x \in Members(Tail(s)) PROVE x \in Members(s)
  <2>1. PICK i \in 1..Len(Tail(s)) : x = s[i + 1]
    BY <1>1, <1>3 DEF Members
  <2>2. i + 1 \in 1..Len(s)
    BY <1>1, <2>1
  <2> QED BY <1>1, <2>1, <2>2 DEF Members
<1>4. Head(s) \in Members(s)
  BY <1>1 DEF Members
<1> QED BY <1>2, <1>3, <1>4

\* A queue of one element has that member, the empty one none.
LEMMA MembersFew ==
    /\ Members(<<>>) = {}
    /\ \A e : Members(<<e>>) = {e}
BY DEF Members

\* No entry has no attempts, one entry its own.
LEMMA AttemptsFew ==
    /\ AttemptsOf({}) = 0
    /\ \A p : AttemptsOf({p}) = p.attempts
<1>1. ASSUME NEW p PROVE AttemptsOf({p}) = p.attempts
  <2>1. (CHOOSE e \in {p} : TRUE) = p
    OBVIOUS
  <2> QED BY <2>1 DEF AttemptsOf
<1> QED BY <1>1 DEF AttemptsOf

\* A queue without a match for market c has no entry of it.
LEMMA NoneHeld ==
    ASSUME NEW q \in Seq(Pending), NEW c, Matches(q, EntriesOf(c)) = 0
    PROVE  \A p \in Members(q) : p.condition_id # c
<1>1. IsFiniteSet(Places(q, EntriesOf(c)))
  BY PlacesFinite
<1>2. Places(q, EntriesOf(c)) = {}
  BY <1>1, FS_EmptySet DEF Matches
<1>3. \A i \in DOMAIN q : q[i] \in Pending
  BY LenProperties
<1> QED BY <1>2, <1>3 DEF Members, Places, EntriesOf

\* A market held once whose entry is awaited has no other one.
LEMMA AwaitedAlone ==
    ASSUME NEW x \in Seq(Conditions), NEW q \in Seq(Pending), NEW r \in Seq(Pending),
           NEW p \in Pending, Tally(x, q, <<p>>, r, p.condition_id) \in {0, 1}
    PROVE  \A e \in Members(q) \cup Members(r) : e.condition_id # p.condition_id
<1> DEFINE X == EntriesOf(p.condition_id)
<1>1. Matches(<<p>>, X) = 1
  BY MatchesOne DEF EntriesOf
<1>2. Matches(x, {p.condition_id}) \in Nat /\ Matches(q, X) \in Nat /\ Matches(r, X) \in Nat
  <2>1. <<p>> \in Seq(Pending)
    OBVIOUS
  <2> QED BY <2>1, TallyTypes
<1> HIDE DEF X
<1>3. Tally(x, q, <<p>>, r, p.condition_id)
        = Matches(x, {p.condition_id}) + Matches(q, X) + 1 + Matches(r, X)
  BY <1>1 DEF Tally, X
<1>4. Matches(q, X) = 0 /\ Matches(r, X) = 0
  BY <1>2, <1>3
<1> QED BY <1>4, NoneHeld DEF X

\* What holds of the market whose transaction is awaited: it is scheduled, and
\* counts the failures of its entry.
LEMMA AwaitedEntry ==
    ASSUME TypeOK, HeldInv, tick.awaited # <<>>
    PROVE  LET p == Head(tick.awaited)
           IN  /\ p \in Pending /\ tick.awaited = <<p>> /\ p.condition_id \in Conditions
               /\ p.attempts \in 0..(MaxAttempts - 1)
               /\ result[p.condition_id] = "scheduled"
               /\ EntriesIn(p.condition_id) = {p}
               /\ \A e \in Members(pending) \cup Members(tick.retry_later) :
                     e.condition_id # p.condition_id
               /\ FailuresOf(p.condition_id) = p.attempts
               /\ StatusOf(p.condition_id) = "attempting"
<1> DEFINE p == Head(tick.awaited)   c == p.condition_id
<1>1. /\ rx \in Seq(Conditions) /\ pending \in Seq(Pending)
      /\ tick.awaited \in Seq(Pending) /\ tick.retry_later \in Seq(Pending)
  BY DEF TypeOK, Tick
<1>2. p \in Pending /\ tick.awaited = <<p>>
  BY <1>1, HeadTailProperties DEF HeldInv
<1>3. c \in Conditions /\ p.attempts \in 0..(MaxAttempts - 1)
  BY <1>2 DEF Pending
<1>4. result[c] = "scheduled"
  BY <1>3, NotTwice
<1>5. Tally(rx, pending, <<p>>, tick.retry_later, c) \in {0, 1}
  BY <1>2, <1>3 DEF HeldInv, Held
<1>6. \A e \in Members(pending) \cup Members(tick.retry_later) : e.condition_id # c
  <2> HIDE DEF p
  <2> QED BY <1>1, <1>2, <1>5, AwaitedAlone DEF c
<1>7. Members(tick.awaited) = {p}
  BY <1>2, MembersFew
<1>8. EntriesIn(c) = {p}
  BY <1>6, <1>7 DEF EntriesIn
<1>9. FailuresOf(c) = p.attempts
  BY <1>4, <1>8, AttemptsFew DEF FailuresOf
<1>10. StatusOf(c) = "attempting"
  BY <1>4, <1>7 DEF StatusOf
<1> QED BY <1>2, <1>3, <1>4, <1>6, <1>8, <1>9, <1>10

\* A step that leaves the entries and results of a market alone, and does not
\* begin or end the wait for its transaction, does not show.
LEMMA Unseen ==
    ASSUME NEW c, EntriesIn(c)' = EntriesIn(c), result'[c] = result[c]
    PROVE  /\ FailuresOf(c)' = FailuresOf(c)
           /\ Members(tick.awaited)' = Members(tick.awaited) => StatusOf(c)' = StatusOf(c)
<1>1. FailuresOf(c)' = FailuresOf(c)
  BY DEF FailuresOf
<1> QED BY <1>1 DEF StatusOf

\* A step after which every market stands where it stood is a stutter.
LEMMA NothingSeen ==
    ASSUME \A c \in Conditions : StatusOf(c)' = StatusOf(c) /\ FailuresOf(c)' = FailuresOf(c),
           UNCHANGED <<now, paid>>
    PROVE  UNCHANGED Promise!vars
<1>1. [c \in Conditions |-> StatusOf(c)]' = [c \in Conditions |-> StatusOf(c)]
  OBVIOUS
<1>2. [c \in Conditions |-> FailuresOf(c)]' = [c \in Conditions |-> FailuresOf(c)]
  OBVIOUS
<1> QED BY <1>1, <1>2 DEF Promise!vars

\* What a step does to one market, in the terms of Redemption.
LEMMA MovesOne ==
    ASSUME NEW d \in Conditions, NEW t, NEW k,
           StatusOf(d)' = t, FailuresOf(d)' = k,
           \A c \in Conditions \ {d} : StatusOf(c)' = StatusOf(c) /\ FailuresOf(c)' = FailuresOf(c)
    PROVE  LET status   == [c \in Conditions |-> StatusOf(c)]
               failures == [c \in Conditions |-> FailuresOf(c)]
           IN  /\ status[d] = StatusOf(d) /\ failures[d] = FailuresOf(d)
               /\ status'   = [status EXCEPT ![d] = t]
               /\ failures' = [failures EXCEPT ![d] = k]
OBVIOUS

\* The markets of the other entries keep what they have when the awaited entry
\* of market d is answered.
LEMMA OthersKept ==
    ASSUME TypeOK, HeldInv, tick.awaited # <<>>, pending' = pending, tick'.awaited = <<>>,
           NEW d \in Conditions, d = Head(tick.awaited).condition_id,
           NEW X, X \in {{}, {Retried(Head(tick.awaited))}},
           Members(tick.retry_later)' = Members(tick.retry_later) \cup X,
           \A c \in Conditions \ {d} : result'[c] = result[c]
    PROVE  /\ EntriesIn(d)' = X
           /\ \A c \in Conditions \ {d} :
                 StatusOf(c)' = StatusOf(c) /\ FailuresOf(c)' = FailuresOf(c)
<1>1. /\ tick.awaited = <<Head(tick.awaited)>>
      /\ \A e \in Members(pending) \cup Members(tick.retry_later) : e.condition_id # d
  BY AwaitedEntry
<1>2. /\ Members(tick.awaited) = {Head(tick.awaited)} /\ Members(tick.awaited)' = {}
      /\ Members(pending)' = Members(pending)
  BY <1>1, MembersFew DEF Members
<1>0. \A e \in X : e.condition_id = d
  BY DEF Retried
<1>3. EntriesIn(d)' = X
  BY <1>0, <1>1, <1>2 DEF EntriesIn
<1>4. ASSUME NEW c \in Conditions \ {d}
      PROVE  StatusOf(c)' = StatusOf(c) /\ FailuresOf(c)' = FailuresOf(c)
  <2>1. EntriesIn(c)' = EntriesIn(c)
    BY <1>0, <1>2 DEF EntriesIn
  <2>2. result'[c] = result[c]
    OBVIOUS
  <2>3. FailuresOf(c)' = FailuresOf(c)
    BY <2>1, <2>2 DEF FailuresOf
  <2>4. StatusOf(c)' = StatusOf(c)
    BY <1>2, <2>2 DEF StatusOf
  <2> QED BY <2>3, <2>4
<1> QED BY <1>3, <1>4

\* schedule_redemption's command is sent: the market waits.
LEMMA SchedulePromised ==
    ASSUME TypeOK, HeldInv, NEW d \in Conditions, Schedule(d)
    PROVE  Promise!Schedule(d)
<1>1. /\ UNCHANGED <<now, pending, tick, paid>> /\ result[d] = "unscheduled"
      /\ result'[d] = "scheduled" /\ \A c \in Conditions \ {d} : result'[c] = result[c]
  BY DEF Schedule, TypeOK
<1>2. \A c : EntriesIn(c)' = EntriesIn(c)
  BY <1>1 DEF EntriesIn, Members
<1>3. Members(tick.awaited)' = Members(tick.awaited)
  BY <1>1 DEF Members
<1>4. \A e \in Members(tick.awaited) : e.condition_id # d
  <2>1. CASE tick.awaited = <<>>
    BY <2>1, MembersFew
  <2>2. CASE tick.awaited # <<>>
    <3>1. tick.awaited = <<Head(tick.awaited)>>
          /\ result[Head(tick.awaited).condition_id] = "scheduled"
      BY <2>2, AwaitedEntry
    <3>2. Members(tick.awaited) = {Head(tick.awaited)}
      BY <3>1, MembersFew
    <3> QED BY <1>1, <3>1, <3>2
  <2> QED BY <2>1, <2>2
<1>5. StatusOf(d) = "unscheduled" /\ StatusOf(d)' = "waiting"
  BY <1>1, <1>3, <1>4 DEF StatusOf
<1>6. FailuresOf(d)' = FailuresOf(d)
  <2>1. EntriesIn(d)' = EntriesIn(d)
    BY <1>2
  <2>2. result[d] # "given up" /\ result'[d] # "given up"
    BY <1>1
  <2> QED BY <2>1, <2>2 DEF FailuresOf
<1>7. \A c \in Conditions \ {d} : StatusOf(c)' = StatusOf(c) /\ FailuresOf(c)' = FailuresOf(c)
  BY <1>1, <1>2, <1>3, Unseen
<1>8. [c \in Conditions |-> FailuresOf(c)]' = [c \in Conditions |-> FailuresOf(c)]
  BY <1>6, <1>7
<1>9. LET status == [c \in Conditions |-> StatusOf(c)]
      IN  status[d] = "unscheduled" /\ status' = [status EXCEPT ![d] = "waiting"]
  BY <1>5, <1>6, <1>7, MovesOne
<1> QED BY <1>1, <1>8, <1>9 DEF Promise!Schedule, Promise!Becomes

\* The command is received: the market has an entry now, without failures, as it
\* had none.
LEMMA ReceiveUnseen ==
    ASSUME TypeOK, HeldInv, Receive
    PROVE  UNCHANGED Promise!vars
<1>1. /\ rx # <<>> /\ rx \in Seq(Conditions)
      /\ UNCHANGED <<now, tick, result, paid>> /\ pending \in Seq(Pending)
      /\ tick.awaited \in Seq(Pending) /\ tick.retry_later \in Seq(Pending)
  BY DEF Receive, TypeOK, Tick
<1>0. PICK d \in Conditions : d = Head(rx)
  BY <1>1, HeadTailProperties
<1> DEFINE e == [condition_id |-> d, redeem_after |-> MarketEnd[d] + RedeemDelay, attempts |-> 0]
<1>2. pending' = Append(pending, e)
  BY <1>0, <1>1, NotTwice DEF Receive
<1>3. e \in Pending /\ e.condition_id = d /\ e.attempts = 0
  BY MarketsAssumption, DelayAssumption DEF Pending
<1>4. \A p \in Members(pending) \cup Members(tick.awaited) \cup Members(tick.retry_later) :
         p.condition_id # d
  <2>1. Matches(rx, {d}) = Matches(Tail(rx), {d}) + 1 /\ Matches(Tail(rx), {d}) \in Nat
    BY <1>0, <1>1, MatchesTail
  <2>2. /\ Matches(rx, {d}) \in Nat /\ Matches(pending, EntriesOf(d)) \in Nat
        /\ Matches(tick.awaited, EntriesOf(d)) \in Nat
        /\ Matches(tick.retry_later, EntriesOf(d)) \in Nat
    BY <1>1, TallyTypes
  <2>3. Tally(rx, pending, tick.awaited, tick.retry_later, d) \in {0, 1}
    BY DEF HeldInv, Held
  <2>4. /\ Matches(pending, EntriesOf(d)) = 0 /\ Matches(tick.awaited, EntriesOf(d)) = 0
        /\ Matches(tick.retry_later, EntriesOf(d)) = 0
    BY <2>1, <2>2, <2>3 DEF Tally
  <2> QED BY <1>1, <2>4, NoneHeld
<1> HIDE DEF e
<1>5. /\ Members(pending)' = Members(pending) \cup {e}
      /\ Members(tick.awaited)' = Members(tick.awaited)
      /\ Members(tick.retry_later)' = Members(tick.retry_later)
  <2>1. Members(Append(pending, e)) = Members(pending) \cup {e}
    BY <1>1, <1>3, MembersAppend
  <2> QED BY <1>1, <1>2, <2>1 DEF Members
<1>6. EntriesIn(d) = {} /\ EntriesIn(d)' = {e}
  <2>1. EntriesIn(d) = {}
    BY <1>4 DEF EntriesIn
  <2>2. EntriesIn(d)' = {e}
    BY <1>3, <1>4, <1>5 DEF EntriesIn
  <2> QED BY <2>1, <2>2
<1>7. \A c \in Conditions \ {d} : EntriesIn(c)' = EntriesIn(c)
  BY <1>3, <1>5 DEF EntriesIn
<1>8. FailuresOf(d)' = FailuresOf(d)
  <2>1. AttemptsOf(EntriesIn(d)) = 0 /\ AttemptsOf(EntriesIn(d))' = 0
    <3>1. AttemptsOf({}) = 0 /\ AttemptsOf({e}) = 0
      BY <1>3, AttemptsFew
    <3> QED BY <1>6, <3>1 DEF AttemptsOf
  <2> QED BY <1>1, <2>1 DEF FailuresOf
<1>9. \A c : StatusOf(c)' = StatusOf(c)
  BY <1>1 DEF StatusOf, Members
<1>10. ASSUME NEW c \in Conditions PROVE FailuresOf(c)' = FailuresOf(c)
  <2>1. CASE c = d
    BY <1>8, <2>1
  <2>2. CASE c # d
    <3>1. EntriesIn(c)' = EntriesIn(c) /\ result'[c] = result[c]
      BY <1>1, <1>7, <2>2
    <3> QED BY <3>1, Unseen
  <2> QED BY <2>1, <2>2
<1> QED BY <1>1, <1>9, <1>10, NothingSeen

\* A tick begins, keeps an entry for later, or ends: every entry is still there.
LEMMA TickUnseen ==
    ASSUME TypeOK, HeldInv, StartTick \/ Keep \/ EndTick
    PROVE  UNCHANGED Promise!vars
<1>1. /\ pending \in Seq(Pending) /\ tick \in Tick /\ tick.retry_later \in Seq(Pending)
      /\ UNCHANGED <<now, result, paid>>
  BY DEF StartTick, Keep, EndTick, TypeOK, Tick
<1>2. tick.awaited = <<>> /\ tick'.awaited = <<>>
  BY <1>1 DEF StartTick, Keep, EndTick, Idling, NoTick, HeldInv, Tick
<1>3. Members(pending)' \cup Members(tick.retry_later)'
        = Members(pending) \cup Members(tick.retry_later)
  <2>1. CASE StartTick
    <3>1. pending' = pending /\ tick.retry_later = <<>> /\ tick'.retry_later = <<>>
      BY <2>1 DEF StartTick, HeldInv
    <3> QED BY <3>1 DEF Members
  <2>2. CASE Keep
    <3>1. /\ pending # <<>> /\ pending' = Tail(pending)
          /\ tick'.retry_later = Append(tick.retry_later, Head(pending))
      BY <1>1, <2>2 DEF Keep, Tick
    <3>2. Members(pending) = Members(Tail(pending)) \cup {Head(pending)}
      BY <1>1, <3>1, MembersTail
    <3>3. Members(Append(tick.retry_later, Head(pending)))
            = Members(tick.retry_later) \cup {Head(pending)}
      <4>1. Head(pending) \in Pending
        BY <1>1, <3>1, HeadTailProperties
      <4> QED BY <1>1, <4>1, MembersAppend
    <3>4. /\ Members(pending)' = Members(Tail(pending))
          /\ Members(tick.retry_later)' = Members(Append(tick.retry_later, Head(pending)))
      BY <3>1 DEF Members
    <3> QED BY <3>2, <3>3, <3>4
  <2>3. CASE EndTick
    <3>1. pending = <<>> /\ pending' = tick.retry_later /\ tick'.retry_later = <<>>
      BY <2>3 DEF EndTick, Drained, NoTick
    <3> QED BY <3>1 DEF Members
  <2> QED BY <2>1, <2>2, <2>3
<1>4. Members(tick.awaited)' = Members(tick.awaited)
  BY <1>2 DEF Members
<1>5. \A c : EntriesIn(c)' = EntriesIn(c)
  BY <1>3, <1>4 DEF EntriesIn
<1> QED BY <1>1, <1>4, <1>5, Unseen, NothingSeen

\* A due entry's transaction is sent: no other one is awaited, and its market has
\* waited as long as its failures ask.
LEMMA AttemptPromised ==
    ASSUME PaceInv, HeldInv, HeldInv', NEW d \in Conditions, Attempt, d = Head(pending).condition_id
    PROVE  Promise!Attempt(d)
<1>1. PICK p \in PacedEntry : p = Head(pending)
  BY HeadTailProperties DEF Attempt, PaceInv
<1>2. /\ pending # <<>> /\ pending \in Seq(Pending) /\ tick \in Tick /\ rx \in Seq(Conditions)
      /\ tick.retry_later \in Seq(Pending) /\ Tail(pending) \in Seq(Pending) /\ tick.awaited = <<>>
      /\ p \in Pending /\ p.condition_id = d /\ p.attempts \in Nat /\ p.redeem_after \in Nat
      /\ p.redeem_after <= tick.now /\ tick.now <= now /\ tick.now \in Nat /\ now \in Nat
      /\ p.redeem_after >= Earliest(d, p.attempts) /\ Earliest(d, p.attempts) \in Nat
  <2>1. /\ pending # <<>> /\ pending \in Seq(Pending) /\ tick \in Tick /\ rx \in Seq(Conditions)
        /\ tick.retry_later \in Seq(Pending) /\ tick.awaited = <<>>
        /\ tick.now <= now /\ tick.now \in Nat /\ now \in Nat
    BY DEF Attempt, Idling, PaceInv, TypeOK, Tick
  <2>2. /\ p \in Pending /\ p.condition_id = d /\ p.attempts \in Nat /\ p.redeem_after \in Nat
        /\ p.redeem_after >= Earliest(d, p.attempts)
    BY <1>1, DelayAssumption DEF PacedEntry, Pending
  <2>3. p.redeem_after <= tick.now
    BY <1>1, <2>1, <2>2 DEF Attempt, Due
  <2>4. Tail(pending) \in Seq(Pending)
    BY <2>1, HeadTailProperties
  <2> QED BY <2>1, <2>2, <2>3, <2>4, EarliestSteps
<1>3. /\ pending' = Tail(pending) /\ tick'.awaited = <<p>> /\ tick'.retry_later = tick.retry_later
      /\ UNCHANGED <<now, rx, result, paid>>
  BY <1>1, <1>2 DEF Attempt, Tick
<1>4. /\ Members(pending) = Members(pending)' \cup {p}
      /\ Members(tick.awaited) = {} /\ Members(tick.awaited)' = {p}
      /\ Members(tick.retry_later)' = Members(tick.retry_later)
  <2>1. Members(pending) = Members(Tail(pending)) \cup {p}
    BY <1>1, <1>2, MembersTail
  <2>2. /\ Members(pending)' = Members(Tail(pending))
        /\ Members(tick.awaited)' = Members(<<p>>)
        /\ Members(tick.retry_later)' = Members(tick.retry_later)
    BY <1>3 DEF Members
  <2>3. Members(tick.awaited) = {} /\ Members(<<p>>) = {p}
    BY <1>2, MembersFew
  <2> QED BY <2>1, <2>2, <2>3
<1>5. \A c : EntriesIn(c)' = EntriesIn(c)
  BY <1>4 DEF EntriesIn
<1>6. Tally(rx, Tail(pending), <<p>>, tick.retry_later, d)
         = IF result[d] = "scheduled" THEN 1 ELSE 0
  BY <1>3 DEF HeldInv, Held
<1>7. \A e \in Members(Tail(pending)) \cup Members(tick.retry_later) : e.condition_id # d
  <2>1. Tally(rx, Tail(pending), <<p>>, tick.retry_later, p.condition_id) \in {0, 1}
    BY <1>2, <1>6
  <2> QED BY <1>2, <2>1, AwaitedAlone
<1>8. EntriesIn(d) = {p}
  <2>1. Members(pending) = Members(Tail(pending)) \cup {p}
    BY <1>3, <1>4 DEF Members
  <2> QED BY <1>2, <1>4, <1>7, <2>1 DEF EntriesIn
<1>9. result[d] = "scheduled"
  <2>1. Matches(pending, EntriesOf(d)) = Matches(Tail(pending), EntriesOf(d)) + 1
        /\ Matches(Tail(pending), EntriesOf(d)) \in Nat
    <3>1. Head(pending) \in EntriesOf(d)
      BY <1>1, <1>2 DEF EntriesOf
    <3> QED BY <1>2, <3>1, MatchesTail
  <2>2. /\ Matches(rx, {d}) \in Nat /\ Matches(tick.awaited, EntriesOf(d)) \in Nat
        /\ Matches(tick.retry_later, EntriesOf(d)) \in Nat
    <3>1. tick.awaited \in Seq(Pending)
      BY DEF PaceInv, TypeOK, Tick
    <3> QED BY <1>2, <3>1, TallyTypes
  <2>3. Tally(rx, pending, tick.awaited, tick.retry_later, d)
           = IF result[d] = "scheduled" THEN 1 ELSE 0
    BY DEF HeldInv, Held
  <2> QED BY <2>1, <2>2, <2>3 DEF Tally
<1>10. FailuresOf(d) = p.attempts
  BY <1>8, <1>9, AttemptsFew DEF FailuresOf
<1>11. /\ StatusOf(d) = "waiting" /\ StatusOf(d)' = "attempting"
       /\ \A c \in Conditions : StatusOf(c) # "attempting"
  <2>1. result \in [Conditions -> {"unscheduled", "scheduled", "redeemed", "given up"}]
    BY DEF PaceInv, TypeOK
  <2>2. \A c \in Conditions : result[c] # "attempting"
    BY <2>1
  <2> QED BY <1>2, <1>3, <1>4, <1>9, <2>2 DEF StatusOf
<1>12. \A c \in Conditions : FailuresOf(c)' = FailuresOf(c)
  BY <1>3, <1>5 DEF FailuresOf
<1>13. \A c \in Conditions \ {d} : StatusOf(c)' = StatusOf(c)
  BY <1>2, <1>3, <1>4 DEF StatusOf
<1>14. [c \in Conditions |-> FailuresOf(c)]' = [c \in Conditions |-> FailuresOf(c)]
  BY <1>12
<1>15. LET status   == [c \in Conditions |-> StatusOf(c)]
           failures == [c \in Conditions |-> FailuresOf(c)]
       IN  /\ status[d] = "waiting" /\ failures[d] = p.attempts
           /\ \A c \in Conditions : status[c] # "attempting"
           /\ status' = [status EXCEPT ![d] = "attempting"]
  BY <1>10, <1>11, <1>12, <1>13, MovesOne
<1>16. now >= Promise!Earliest(d, p.attempts)
  BY <1>2 DEF Earliest
<1> QED BY <1>3, <1>14, <1>15, <1>16 DEF Promise!Attempt, Promise!Becomes

\* The transaction is confirmed.
LEMMA SucceedPromised ==
    ASSUME TypeOK, HeldInv, Redeemed, NEW d \in Conditions,
           d = Head(tick.awaited).condition_id
    PROVE  Promise!Succeed(d)
<1>1. /\ tick.awaited # <<>> /\ UNCHANGED <<now, pending>> /\ paid' = paid \cup {d}
      /\ tick'.awaited = <<>> /\ tick'.retry_later = tick.retry_later
      /\ result'[d] = "redeemed" /\ \A c \in Conditions \ {d} : result'[c] = result[c]
  BY DEF Redeemed, TypeOK, Tick
<1>2. /\ EntriesIn(d)' = {}
      /\ \A c \in Conditions \ {d} :
            StatusOf(c)' = StatusOf(c) /\ FailuresOf(c)' = FailuresOf(c)
  <2>1. Members(tick.retry_later)' = Members(tick.retry_later) \cup {}
    BY <1>1 DEF Members
  <2> QED BY <1>1, <2>1, OthersKept
<1>3. StatusOf(d) = "attempting"
  BY <1>1, AwaitedEntry
<1>4. StatusOf(d)' = "redeemed" /\ FailuresOf(d)' = 0
  <2>1. AttemptsOf(EntriesIn(d))' = 0
    BY <1>2, AttemptsFew DEF AttemptsOf
  <2> QED BY <1>1, <2>1 DEF StatusOf, FailuresOf
<1>5. LET status   == [c \in Conditions |-> StatusOf(c)]
          failures == [c \in Conditions |-> FailuresOf(c)]
      IN  /\ status[d] = "attempting"
          /\ status'   = [status EXCEPT ![d] = "redeemed"]
          /\ failures' = [failures EXCEPT ![d] = 0]
  BY <1>2, <1>3, <1>4, MovesOne
<1> QED BY <1>1, <1>5 DEF Promise!Succeed, Promise!Becomes

\* The transaction is not confirmed: the failure is counted, and the market
\* waits again or is given up after the last.
LEMMA FailPromised ==
    ASSUME TypeOK, HeldInv, Failed, NEW d \in Conditions,
           d = Head(tick.awaited).condition_id
    PROVE  Promise!Fail(d)
<1>1. PICK p : p = Head(tick.awaited)
  OBVIOUS
<1>2. /\ tick.awaited # <<>> /\ UNCHANGED <<now, pending>> /\ paid' \in {paid, paid \cup {d}}
      /\ p \in Pending /\ p.condition_id = d /\ p.attempts \in 0..(MaxAttempts - 1)
      /\ result[d] = "scheduled" /\ FailuresOf(d) = p.attempts
      /\ StatusOf(d) = "attempting" /\ tick.retry_later \in Seq(Pending)
  <2>1. tick.awaited # <<>> /\ UNCHANGED <<now, pending>>
        /\ (paid' = paid \/ paid' = paid \cup ({d} \cap resolved))
    BY DEF Failed
  <2>2. paid' \in {paid, paid \cup {d}}
    BY <2>1
  <2> QED BY <1>1, <2>1, <2>2, AwaitedEntry DEF TypeOK, Tick
<1>3. CASE LastAttempt(p)
  <2>1. /\ tick'.awaited = <<>> /\ tick'.retry_later = tick.retry_later
        /\ result'[d] = "given up" /\ \A c \in Conditions \ {d} : result'[c] = result[c]
    <3>1. /\ tick' = [tick EXCEPT !.awaited = <<>>]
          /\ result' = [result EXCEPT ![d] = "given up"]
      BY <1>1, <1>2, <1>3 DEF Failed
    <3>2. tick \in Tick /\ DOMAIN result = Conditions
      BY DEF TypeOK
    <3>3. /\ result'[d] = "given up"
          /\ \A c \in Conditions \ {d} : result'[c] = result[c]
      BY <3>1, <3>2
    <3>4. tick'.awaited = <<>> /\ tick'.retry_later = tick.retry_later
      BY <3>1, <3>2 DEF Tick
    <3> QED BY <3>3, <3>4
  <2>2. \A c \in Conditions \ {d} :
           StatusOf(c)' = StatusOf(c) /\ FailuresOf(c)' = FailuresOf(c)
    <3>1. Members(tick.retry_later)' = Members(tick.retry_later) \cup {}
      BY <2>1 DEF Members
    <3> QED BY <1>2, <2>1, <3>1, OthersKept
  <2>3. p.attempts + 1 = MaxAttempts
    BY <1>2, <1>3, DelayAssumption DEF LastAttempt
  <2>4. StatusOf(d)' = "given up" /\ FailuresOf(d)' = p.attempts + 1
    BY <2>1, <2>3 DEF StatusOf, FailuresOf
  <2>5. LET status   == [c \in Conditions |-> StatusOf(c)]
            failures == [c \in Conditions |-> FailuresOf(c)]
        IN  /\ status[d] = "attempting" /\ failures[d] = p.attempts
            /\ status'   = [status EXCEPT ![d] = "given up"]
            /\ failures' = [failures EXCEPT ![d] = p.attempts + 1]
    BY <1>2, <2>2, <2>4, MovesOne
  <2> QED BY <1>2, <2>3, <2>5 DEF Promise!Fail, Promise!Becomes
<1>4. CASE ~LastAttempt(p)
  <2>1. PICK e : e = Retried(p)
    OBVIOUS
  <2>2. /\ e \in Pending /\ e.condition_id = d /\ e.attempts = p.attempts + 1
        /\ p.attempts + 1 # MaxAttempts
    <3>1. tick.now \in Nat /\ tick.now + RetryDelay \in Nat
      <4>1. tick.now \in Nat /\ RetryDelay \in Nat
        BY DelayAssumption DEF TypeOK, Tick
      <4> QED BY <4>1
    <3>2. p.attempts + 1 \in 0..(MaxAttempts - 1) /\ p.attempts + 1 # MaxAttempts
      BY <1>2, <1>4, DelayAssumption DEF LastAttempt
    <3> QED BY <1>2, <2>1, <3>1, <3>2 DEF Retried, Pending
  <2>3. /\ tick'.awaited = <<>> /\ tick'.retry_later = Append(tick.retry_later, e)
        /\ result' = result
    BY <1>1, <1>4, <2>1 DEF Failed, TypeOK, Tick
  <2>4. Members(tick.retry_later)' = Members(tick.retry_later) \cup {e}
    <3>1. Members(Append(tick.retry_later, e)) = Members(tick.retry_later) \cup {e}
      BY <1>2, <2>2, MembersAppend
    <3> QED BY <2>3, <3>1 DEF Members
  <2>5. /\ EntriesIn(d)' = {e}
        /\ \A c \in Conditions \ {d} :
              StatusOf(c)' = StatusOf(c) /\ FailuresOf(c)' = FailuresOf(c)
    BY <1>1, <1>2, <2>1, <2>3, <2>4, OthersKept
  <2>6. StatusOf(d)' = "waiting" /\ FailuresOf(d)' = p.attempts + 1
    <3>1. AttemptsOf({e}) = p.attempts + 1
      BY <2>2, AttemptsFew
    <3>2. AttemptsOf(EntriesIn(d))' = p.attempts + 1
      BY <2>5, <3>1 DEF AttemptsOf
    <3>3. Members(tick.awaited)' = {}
      BY <2>3 DEF Members
    <3> QED BY <1>2, <2>3, <3>2, <3>3 DEF StatusOf, FailuresOf
  <2>7. LET status   == [c \in Conditions |-> StatusOf(c)]
            failures == [c \in Conditions |-> FailuresOf(c)]
        IN  /\ status[d] = "attempting" /\ failures[d] = p.attempts
            /\ status'   = [status EXCEPT ![d] = "waiting"]
            /\ failures' = [failures EXCEPT ![d] = p.attempts + 1]
    BY <1>2, <2>5, <2>6, MovesOne
  <2> QED BY <1>2, <2>2, <2>7 DEF Promise!Fail, Promise!Becomes
<1> QED BY <1>3, <1>4

\* Every step is one of Redemption, or does not show there.
LEMMA RedemptionStep ==
    ASSUME PaceInv, HeldInv, HeldInv', [Next]_vars
    PROVE  [Promise!Next]_(Promise!vars)
<1>0. TypeOK
  BY DEF PaceInv
<1>1. ASSUME NEW d \in Conditions, Schedule(d) PROVE Promise!Next
  BY <1>0, <1>1, SchedulePromised DEF Promise!Next
<1>2. CASE \/ UNCHANGED vars
           \/ \E d \in Conditions : Resolve(d)
  <2>1. UNCHANGED <<now, pending, tick, result, paid>>
    BY <1>2 DEF Resolve, vars
  <2>2. \A c : EntriesIn(c)' = EntriesIn(c) /\ StatusOf(c)' = StatusOf(c)
    BY <2>1 DEF EntriesIn, StatusOf, Members
  <2> QED BY <2>1, <2>2, Unseen, NothingSeen
<1>3. CASE Receive \/ StartTick \/ Keep \/ EndTick
  BY <1>0, <1>3, ReceiveUnseen, TickUnseen
<1>4. CASE Attempt
  <2>1. PICK d \in Conditions : d = Head(pending).condition_id
    <3>1. pending \in Seq(Pending) /\ pending # <<>>
      BY <1>0, <1>4 DEF Attempt, TypeOK
    <3>2. Head(pending) \in Pending
      BY <3>1, HeadTailProperties
    <3> QED BY <3>2 DEF Pending
  <2> QED BY <1>4, <2>1, AttemptPromised DEF Promise!Next
<1>5. CASE Redeemed \/ Failed
  <2>1. PICK d \in Conditions : d = Head(tick.awaited).condition_id
    BY <1>0, <1>5, AwaitedEntry DEF Redeemed, Failed
  <2> QED BY <1>0, <1>5, <2>1, SucceedPromised, FailPromised DEF Promise!Next
<1>6. CASE Elapse
  <2>1. UNCHANGED <<pending, tick, result, paid>> /\ now' = now + 1
    BY <1>6 DEF Elapse
  <2>2. \A c \in Conditions : StatusOf(c)' = StatusOf(c) /\ FailuresOf(c)' = FailuresOf(c)
    <3>1. \A c : EntriesIn(c)' = EntriesIn(c) /\ StatusOf(c)' = StatusOf(c)
      BY <2>1 DEF EntriesIn, StatusOf, Members
    <3> QED BY <2>1, <3>1, Unseen
  <2>3. /\ [c \in Conditions |-> StatusOf(c)]' = [c \in Conditions |-> StatusOf(c)]
        /\ [c \in Conditions |-> FailuresOf(c)]' = [c \in Conditions |-> FailuresOf(c)]
    BY <2>2
  <2> QED BY <2>1, <2>3 DEF Promise!Next, Promise!Elapse
<1> QED BY <1>1, <1>2, <1>3, <1>4, <1>5, <1>6 DEF Next

\* Every behaviour of the redeemer is one of Redemption, for any number of markets
\* and attempts and any delays: the entries carry the failures of their markets
\* through queue, tick and list of retries, and keep their distances
\* (redeemer.rs:87-169).
THEOREM RefinesRedemption == Spec => IsRedemption
<1>1. Init => Promise!Init
  <2> SUFFICES ASSUME Init PROVE Promise!Init
    OBVIOUS
  <2>1. /\ Members(pending) = {} /\ Members(tick.awaited) = {} /\ Members(tick.retry_later) = {}
        /\ \A c \in Conditions : result[c] = "unscheduled"
    BY MembersFew DEF Init, NoTick
  <2>2. \A c \in Conditions : StatusOf(c) = "unscheduled" /\ FailuresOf(c) = 0
    <3>1. \A c : EntriesIn(c) = {}
      BY <2>1 DEF EntriesIn
    <3> QED BY <2>1, <3>1, AttemptsFew DEF StatusOf, FailuresOf
  <2> QED BY <2>2 DEF Init, Promise!Init
<1>2. PaceInv /\ HeldInv /\ HeldInv' /\ [Next]_vars => [Promise!Next]_(Promise!vars)
  BY RedemptionStep
<1> QED BY <1>1, <1>2, PaceCorrect, HeldCorrect, PTL DEF Spec, IsRedemption, Promise!Spec

=============================================================================
