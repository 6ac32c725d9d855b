----------------------- MODULE MarketDiscovery_proofs -----------------------
(***************************************************************************)
(* What TLAPS proves of MarketDiscovery, for every list of assets, every   *)
(* interval, advance and number of retries, and answers that take any      *)
(* time: which markets of an asset follow one another, and how fast.       *)
(*                                                                         *)
(* The argument: when the task sleeps, every market it has sent has opened *)
(* or opens now, so that the next one found is later; and the sleep ends   *)
(* not before Advance seconds from the end of those.                       *)
(***************************************************************************)
EXTENDS MarketDiscovery, SequenceTheorems, FiniteSetTheorems, TLAPS

-----------------------------------------------------------------------------
(* Boundaries between markets.                                             *)

IsBoundary(t) == \E k \in Nat : t = k * Interval

\* The next slug is the first boundary after now, where the loop's last sleep
\* ends.
LEMMA NextSlugIs ==
    ASSUME NEW t \in Nat
    PROVE  /\ NextSlug(t) \in Nat /\ IsBoundary(NextSlug(t))
           /\ t < NextSlug(t) /\ NextSlug(t) <= t + Interval
           /\ RestUntil(t) = NextSlug(t) /\ SecsRemaining(t) = NextSlug(t) - t
<1> DEFINE q == t \div Interval
<1>1. Interval \in Nat \ {0}
  BY TimingAssumption
<1>2. q \in Nat /\ q * Interval <= t /\ t < (q + 1) * Interval
  BY <1>1
<1>3. /\ q * Interval \in Nat /\ (q + 1) * Interval \in Nat
      /\ q * Interval + Interval = (q + 1) * Interval
  BY <1>1, <1>2
<1> HIDE DEF q
<1>4. NextSlug(t) = (q + 1) * Interval /\ SecsRemaining(t) = (q + 1) * Interval - t
  BY <1>3 DEF NextSlug, SecsRemaining, q
<1>5. IsBoundary(NextSlug(t))
  BY <1>2, <1>4 DEF IsBoundary
<1> QED BY <1>1, <1>2, <1>3, <1>4, <1>5 DEF RestUntil

\* It is the only boundary less than one interval away.
LEMMA NextSlugUnique ==
    ASSUME NEW t \in Nat, NEW b \in Nat, IsBoundary(b), b - Interval <= t, t < b
    PROVE  NextSlug(t) = b
<1> DEFINE q == t \div Interval
<1>1. Interval \in Nat \ {0}
  BY TimingAssumption
<1>2. q \in Nat /\ q * Interval <= t /\ t < (q + 1) * Interval
  BY <1>1
<1>3. PICK k \in Nat : b = k * Interval
  BY DEF IsBoundary
<1>4. /\ q * Interval + Interval = (q + 1) * Interval
      /\ (k - 1) * Interval = k * Interval - Interval
      /\ q * Interval \in Int /\ k * Interval \in Int
  BY <1>1, <1>2, <1>3
<1> HIDE DEF q
<1>5. q < k
  BY <1>1, <1>2, <1>3
<1>6. k <= q + 1
  <2> SUFFICES ASSUME k > q + 1 PROVE FALSE
    BY <1>2, <1>3
  <2>1. (q + 1) * Interval <= (k - 1) * Interval
    BY <1>1, <1>2, <1>3
  <2> QED BY <1>1, <1>2, <1>3, <1>4, <2>1
<1>7. k = q + 1
  BY <1>2, <1>3, <1>5, <1>6
<1> QED BY <1>3, <1>4, <1>7 DEF NextSlug, q

\* After a boundary it is one interval later at least.
LEMMA NextSlugLater ==
    ASSUME NEW t \in Nat, NEW b \in Nat, IsBoundary(b), b <= t
    PROVE  NextSlug(t) >= b + Interval
<1>1. Interval \in Nat \ {0}
  BY TimingAssumption
<1>2. NextSlug(t) \in Nat /\ t < NextSlug(t) /\ IsBoundary(NextSlug(t))
  BY NextSlugIs
<1>3. PICK k \in Nat : b = k * Interval
  BY DEF IsBoundary
<1>4. PICK j \in Nat : NextSlug(t) = j * Interval
  BY <1>2 DEF IsBoundary
<1>5. k + 1 <= j
  <2>1. k * Interval < j * Interval
    BY <1>2, <1>3, <1>4
  <2> QED BY <1>1, <2>1
<1>6. (k + 1) * Interval <= j * Interval /\ (k + 1) * Interval = k * Interval + Interval
  BY <1>1, <1>5
<1> QED BY <1>3, <1>4, <1>6

\* The loop's first sleep ends Advance seconds before the next boundary, or at
\* once when that is over.
LEMMA SleepUntilIs ==
    ASSUME NEW t \in Nat
    PROVE  /\ SleepUntil(t) \in Nat /\ t <= SleepUntil(t)
           /\ SleepUntil(t) >= NextSlug(t) - Advance
           /\ SleepUntil(t) < NextSlug(t)
<1>1. NextSlug(t) \in Nat /\ t < NextSlug(t) /\ SecsRemaining(t) = NextSlug(t) - t
  BY NextSlugIs
<1>2. Advance \in Nat \ {0}
  BY TimingAssumption
<1> QED BY <1>1, <1>2 DEF SleepUntil

-----------------------------------------------------------------------------
(* The markets sent: q is the queue at the loop, act what is active.       *)

Actives == [AssetSet -> [market: Nat, open_ts: Nat]]

\* The markets of an asset come in ascending order, all later than the active one.
Ascending(q, act) ==
    /\ \A i \in 1..Len(q) : q[i].market > act[q[i].asset].market
    /\ \A i, j \in 1..Len(q) :
          i < j /\ q[i].asset = q[j].asset => q[i].market < q[j].market

\* No market of asset a is later than b.
UpTo(q, act, a, b) ==
    /\ act[a].market <= b
    /\ \A i \in 1..Len(q) : q[i].asset = a => q[i].market <= b

\* At time t market m ends within Advance seconds, or is over.
Ending(m, t) == t >= m + Interval - Advance

\* A market of which a later one was sent is ending.
Replaceable(q, act, t) ==
    /\ \A i \in 1..Len(q) : act[q[i].asset].market # 0 => Ending(act[q[i].asset].market, t)
    /\ \A i, j \in 1..Len(q) :
          i < j /\ q[i].asset = q[j].asset => Ending(q[i].market, t)

\* Each market follows the one sent before it, or the active one, without a gap.
Chained(q, act) ==
    \A j \in 1..Len(q) :
       \/ \E i \in 1..(j - 1) : /\ q[i].asset = q[j].asset
                                /\ q[j].market = q[i].market + Interval
       \/ /\ \A i \in 1..(j - 1) : q[i].asset # q[j].asset
          /\ act[q[j].asset].market \in {0, q[j].market - Interval}

\* The last market of asset a is m.
Newest(q, act, a, m) ==
    \/ \E i \in 1..Len(q) : /\ q[i].asset = a /\ q[i].market = m
                            /\ \A j \in 1..Len(q) : j > i => q[j].asset # a
    \/ act[a].market = m /\ \A i \in 1..Len(q) : q[i].asset # a

\* What is sent last is the latest market of its asset.
LEMMA SentInOrder ==
    ASSUME NEW q \in Seq(Entries), NEW act \in Actives, NEW a \in AssetSet, NEW m \in Nat,
           NEW b \in Int, Ascending(q, act), UpTo(q, act, a, b), b < m
    PROVE  LET u == Append(q, [asset |-> a, market |-> m])
           IN  /\ Ascending(u, act) /\ UpTo(u, act, a, m)
               /\ \A c \in AssetSet, k \in Int : c # a /\ UpTo(q, act, c, k) => UpTo(u, act, c, k)
<1> DEFINE e == [asset |-> a, market |-> m]   u == Append(q, e)
<1>1. e \in Entries /\ e.asset = a /\ e.market = m
  BY DEF Entries
<1> HIDE DEF e
<1>2. /\ Len(q) \in Nat /\ Len(u) = Len(q) + 1 /\ u[Len(q) + 1] = e
      /\ \A i \in 1..Len(q) : u[i] = q[i] /\ q[i] \in Entries
  BY <1>1, AppendProperties, LenProperties
<1>3. act[a].market \in Nat /\ \A i \in 1..Len(q) : q[i].market \in Nat
  BY <1>2 DEF Entries, Actives
<1> HIDE DEF u
<1>4. \A i \in 1..Len(u) : i \in 1..Len(q) \/ i = Len(q) + 1
  BY <1>2
<1>5. Ascending(u, act)
  <2>1. ASSUME NEW i \in 1..Len(u) PROVE u[i].market > act[u[i].asset].market
    <3>1. CASE i \in 1..Len(q)
      BY <1>2, <3>1 DEF Ascending
    <3>2. CASE i = Len(q) + 1
      BY <1>1, <1>2, <1>3, <3>2 DEF UpTo
    <3> QED BY <1>4, <3>1, <3>2
  <2>2. ASSUME NEW i \in 1..Len(u), NEW j \in 1..Len(u), i < j, u[i].asset = u[j].asset
        PROVE  u[i].market < u[j].market
    <3>1. i \in 1..Len(q)
      BY <1>2, <2>2
    <3>2. CASE j \in 1..Len(q)
      BY <1>2, <2>2, <3>1, <3>2 DEF Ascending
    <3>3. CASE j = Len(q) + 1
      <4>1. q[i].asset = a /\ u[i] = q[i] /\ q[i].market \in Nat
        BY <1>1, <1>2, <1>3, <2>2, <3>1, <3>3
      <4>2. q[i].market <= b
        BY <3>1, <4>1 DEF UpTo
      <4> QED BY <1>1, <1>2, <3>3, <4>1, <4>2
    <3> QED BY <1>4, <3>2, <3>3
  <2> QED BY <2>1, <2>2 DEF Ascending
<1>6. UpTo(u, act, a, m)
  <2>1. act[a].market <= m
    BY <1>3 DEF UpTo
  <2>2. ASSUME NEW i \in 1..Len(u), u[i].asset = a PROVE u[i].market <= m
    <3>1. CASE i \in 1..Len(q)
      <4>1. u[i] = q[i] /\ q[i].market \in Nat /\ q[i].market <= b
        BY <1>2, <1>3, <2>2, <3>1 DEF UpTo
      <4> QED BY <4>1
    <3>2. CASE i = Len(q) + 1
      BY <1>1, <1>2, <3>2
    <3> QED BY <1>4, <3>1, <3>2
  <2> QED BY <2>1, <2>2 DEF UpTo
<1>7. ASSUME NEW c \in AssetSet, NEW k \in Int, c # a, UpTo(q, act, c, k)
      PROVE  UpTo(u, act, c, k)
  BY <1>1, <1>2, <1>4, <1>7 DEF UpTo
<1> QED BY <1>5, <1>6, <1>7 DEF u, e

\* The loop's branch for a new market.
Rotated(q, act, c) == [act EXCEPT ![Head(q).asset] = [market |-> Head(q).market, open_ts |-> c]]

\* Taking in the entry at the head of an ascending channel keeps it ascending.
LEMMA TakenInOrder ==
    ASSUME NEW q \in Seq(Entries), q # <<>>, NEW act \in Actives, NEW t \in Nat,
           Ascending(q, act)
    PROVE  /\ Rotated(q, act, t) \in Actives /\ Tail(q) \in Seq(Entries)
           /\ Ascending(Tail(q), Rotated(q, act, t))
           /\ \A a \in AssetSet, b \in Int :
                 UpTo(q, act, a, b) => UpTo(Tail(q), Rotated(q, act, t), a, b)
           /\ \A a \in AssetSet : Rotated(q, act, t)[a] # act[a]
                 => a = Head(q).asset /\ Rotated(q, act, t)[a].market = Head(q).market
                    /\ Head(q).market > act[a].market
<1> DEFINE h == Head(q)   v == Rotated(q, act, t)   u == Tail(q)
<1>1. /\ h \in Entries /\ h = q[1] /\ u \in Seq(Entries) /\ Len(u) = Len(q) - 1
      /\ Len(q) \in Nat \ {0}
      /\ \A i \in 1..Len(u) : u[i] = q[i + 1]
      /\ \A i \in 1..Len(q) : q[i] \in Entries
  BY HeadTailProperties, LenProperties, EmptySeq
<1>2. /\ h.asset \in AssetSet /\ h.market \in Nat
  BY <1>1 DEF Entries
<1>3. /\ v \in Actives /\ v[h.asset].market = h.market
      /\ \A a \in AssetSet : a # h.asset => v[a] = act[a]
  BY <1>2 DEF Rotated, Actives
<1> HIDE DEF h, v, u
<1>4. \A i \in 1..Len(u) : /\ i + 1 \in 1..Len(q) /\ u[i] = q[i + 1] /\ 1 < i + 1
                           /\ u[i].asset \in AssetSet
  BY <1>1 DEF Entries
<1>5. 1 \in 1..Len(q)
  BY <1>1
<1>6. Ascending(u, v)
  <2>1. ASSUME NEW i \in 1..Len(u) PROVE u[i].market > v[u[i].asset].market
    <3>1. CASE u[i].asset = h.asset
      <4>1. q[1].market < q[i + 1].market
        BY <1>1, <1>4, <1>5, <3>1 DEF Ascending
      <4>2. q[1].market \in Nat /\ q[i + 1].market \in Nat
        BY <1>1, <1>4, <1>5 DEF Entries
      <4> QED BY <1>1, <1>3, <1>4, <3>1, <4>1, <4>2
    <3>2. CASE u[i].asset # h.asset
      BY <1>3, <1>4, <3>2 DEF Ascending
    <3> QED BY <3>1, <3>2
  <2>2. ASSUME NEW i \in 1..Len(u), NEW j \in 1..Len(u), i < j, u[i].asset = u[j].asset
        PROVE  u[i].market < u[j].market
    <3>1. i + 1 < j + 1
      BY <2>2
    <3> QED BY <1>4, <2>2, <3>1 DEF Ascending
  <2> QED BY <2>1, <2>2 DEF Ascending
<1>7. ASSUME NEW a \in AssetSet, NEW b \in Int, UpTo(q, act, a, b) PROVE UpTo(u, v, a, b)
  <2>1. v[a].market <= b
    BY <1>1, <1>3, <1>5, <1>7 DEF UpTo
  <2> QED BY <1>4, <1>7, <2>1 DEF UpTo
<1>8. h.market > act[h.asset].market
  BY <1>1, <1>5 DEF Ascending
<1> QED BY <1>1, <1>3, <1>6, <1>7, <1>8 DEF h, u, v

\* An asset without a market follows on from nothing.
Follows(q, act, a, m) == Newest(q, act, a, m - Interval)
                         \/ (act[a].market = 0 /\ \A i \in 1..Len(q) : q[i].asset # a)

\* A market sent next after the last one continues the chain.
LEMMA SentChained ==
    ASSUME NEW q \in Seq(Entries), NEW act \in Actives, NEW a \in AssetSet, NEW m \in Nat,
           Chained(q, act), Follows(q, act, a, m)
    PROVE  LET u == Append(q, [asset |-> a, market |-> m])
           IN  Chained(u, act) /\ Newest(u, act, a, m)
<1> DEFINE e == [asset |-> a, market |-> m]   u == Append(q, e)
<1>1. e \in Entries /\ e.asset = a /\ e.market = m
  BY DEF Entries
<1> HIDE DEF e
<1>2. /\ Len(q) \in Nat /\ Len(u) = Len(q) + 1 /\ u[Len(q) + 1] = e
      /\ \A i \in 1..Len(q) : u[i] = q[i] /\ q[i] \in Entries
  BY <1>1, AppendProperties, LenProperties
<1>3. Interval \in Nat \ {0}
  BY TimingAssumption
<1> HIDE DEF u
<1>4. Newest(u, act, a, m)
  <2>1. Len(q) + 1 \in 1..Len(u) /\ \A j \in 1..Len(u) : ~(j > Len(q) + 1)
    BY <1>2
  <2> QED BY <1>1, <1>2, <2>1 DEF Newest
<1>5. ASSUME NEW j \in 1..Len(u)
      PROVE  \/ \E i \in 1..(j - 1) : /\ u[i].asset = u[j].asset
                                      /\ u[j].market = u[i].market + Interval
             \/ /\ \A i \in 1..(j - 1) : u[i].asset # u[j].asset
                /\ act[u[j].asset].market \in {0, u[j].market - Interval}
  <2>1. CASE j \in 1..Len(q)
    <3>1. \A i \in 1..(j - 1) : i \in 1..Len(q) /\ u[i] = q[i]
      BY <1>2, <2>1
    <3>2. u[j] = q[j]
      BY <1>2, <2>1
    <3> QED BY <2>1, <3>1, <3>2 DEF Chained
  <2>2. CASE j = Len(q) + 1
    <3>1. \A i \in 1..(j - 1) : i \in 1..Len(q) /\ u[i] = q[i]
      BY <1>2, <2>2
    <3>2. u[j].asset = a /\ u[j].market = m
      BY <1>1, <1>2, <2>2
    <3>3. CASE \E i \in 1..Len(q) : q[i].asset = a /\ q[i].market = m - Interval
      <4>1. PICK i \in 1..Len(q) : q[i].asset = a /\ q[i].market = m - Interval
        BY <3>3
      <4>2. i \in 1..(j - 1) /\ u[i] = q[i] /\ q[i].market + Interval = m
        BY <1>2, <1>3, <2>2, <4>1
      <4> QED BY <3>2, <4>1, <4>2
    <3>4. CASE act[a].market \in {0, m - Interval} /\ \A i \in 1..Len(q) : q[i].asset # a
      BY <3>1, <3>2, <3>4
    <3> QED BY <3>3, <3>4 DEF Follows, Newest
  <2> QED BY <1>2, <2>1, <2>2
<1> QED BY <1>4, <1>5 DEF Chained, u, e

\* It leaves the last market of the other assets.
LEMMA SentOthers ==
    ASSUME NEW q \in Seq(Entries), NEW act, NEW a \in AssetSet, NEW m \in Nat,
           NEW c \in AssetSet, c # a
    PROVE  LET u == Append(q, [asset |-> a, market |-> m])
           IN  /\ \A k : Newest(q, act, c, k) => Newest(u, act, c, k)
               /\ \A k : Follows(q, act, c, k) => Follows(u, act, c, k)
<1> DEFINE e == [asset |-> a, market |-> m]   u == Append(q, e)
<1>1. e \in Entries /\ e.asset = a
  BY DEF Entries
<1> HIDE DEF e
<1>2. /\ Len(q) \in Nat /\ Len(u) = Len(q) + 1 /\ u[Len(q) + 1] = e
      /\ \A i \in 1..Len(q) : u[i] = q[i]
  BY <1>1, AppendProperties, LenProperties
<1> HIDE DEF u
<1>3. \A i \in 1..Len(u) : i \in 1..Len(q) \/ u[i].asset # c
  BY <1>1, <1>2
<1>4. ASSUME NEW k, Newest(q, act, c, k) PROVE Newest(u, act, c, k)
  <2>1. CASE \A i \in 1..Len(q) : q[i].asset # c
    BY <1>2, <1>3, <1>4, <2>1 DEF Newest
  <2>2. CASE \E i \in 1..Len(q) : q[i].asset = c
    <3>1. PICK i \in 1..Len(q) : /\ q[i].asset = c /\ q[i].market = k
                                 /\ \A j \in 1..Len(q) : j > i => q[j].asset # c
      BY <1>4, <2>2 DEF Newest
    <3>2. i \in 1..Len(u) /\ u[i] = q[i]
      BY <1>2
    <3>3. \A j \in 1..Len(u) : j > i => u[j].asset # c
      BY <1>2, <1>3, <3>1
    <3> QED BY <3>1, <3>2, <3>3 DEF Newest
  <2> QED BY <2>1, <2>2
<1>5. ASSUME NEW k, Follows(q, act, c, k) PROVE Follows(u, act, c, k)
  <2>1. (\A i \in 1..Len(q) : q[i].asset # c) => \A i \in 1..Len(u) : u[i].asset # c
    BY <1>2, <1>3
  <2> QED BY <1>4, <1>5, <2>1 DEF Follows
<1> QED BY <1>4, <1>5 DEF u, e

\* A market taken in leaves the chain and the last markets; the active market is
\* the one after the active market before it.
LEMMA TakenChained ==
    ASSUME NEW q \in Seq(Entries), q # <<>>, NEW act \in Actives, NEW t \in Nat,
           Ascending(q, act), Chained(q, act)
    PROVE  /\ Chained(Tail(q), Rotated(q, act, t))
           /\ act[Head(q).asset].market \in {0, Head(q).market - Interval}
           /\ \A a \in AssetSet : \A k :
                 Newest(q, act, a, k) => Newest(Tail(q), Rotated(q, act, t), a, k)
           /\ \A a \in AssetSet : \A k :
                 Follows(q, act, a, k) => Follows(Tail(q), Rotated(q, act, t), a, k)
<1> DEFINE h == Head(q)   v == Rotated(q, act, t)   u == Tail(q)
<1>1. /\ h \in Entries /\ h = q[1] /\ u \in Seq(Entries) /\ Len(u) = Len(q) - 1
      /\ Len(q) \in Nat \ {0}
      /\ \A i \in 1..Len(u) : u[i] = q[i + 1]
      /\ \A i \in 1..Len(q) : q[i] \in Entries
  BY HeadTailProperties, LenProperties, EmptySeq
<1>2. /\ h.asset \in AssetSet /\ h.market \in Nat
  BY <1>1 DEF Entries
<1>3. /\ v[h.asset].market = h.market
      /\ \A a \in AssetSet : a # h.asset => v[a] = act[a]
  BY <1>2 DEF Rotated, Actives
<1> HIDE DEF h, v, u
<1>4. \A i \in 1..Len(u) : i + 1 \in 1..Len(q) /\ u[i] = q[i + 1] /\ u[i].asset \in AssetSet
  BY <1>1 DEF Entries
<1>5. \A i \in 1..Len(q) : i = 1 \/ (i - 1 \in 1..Len(u) /\ u[i - 1] = q[i])
  BY <1>1
<1>6. 1 \in 1..Len(q) /\ Interval \in Nat \ {0}
  BY <1>1, TimingAssumption
<1>7. act[h.asset].market \in {0, h.market - Interval}
  <2>1. ~ \E i \in 1..(1 - 1) : TRUE
    OBVIOUS
  <2> QED BY <1>1, <1>6, <2>1 DEF Chained
<1>8. ASSUME NEW j \in 1..Len(u)
      PROVE  \/ \E i \in 1..(j - 1) : /\ u[i].asset = u[j].asset
                                      /\ u[j].market = u[i].market + Interval
             \/ /\ \A i \in 1..(j - 1) : u[i].asset # u[j].asset
                /\ v[u[j].asset].market \in {0, u[j].market - Interval}
  <2>0. j + 1 \in 1..Len(q) /\ u[j] = q[j + 1] /\ (j + 1) - 1 = j
    BY <1>4
  <2>1. CASE \E i \in 1..j : /\ q[i].asset = u[j].asset
                             /\ u[j].market = q[i].market + Interval
    <3>1. PICK i \in 1..j : q[i].asset = u[j].asset /\ u[j].market = q[i].market + Interval
      BY <2>1
    <3>2. CASE i = 1
      <4>1. u[j].asset = h.asset /\ u[j].market - Interval = h.market
        BY <1>1, <1>2, <1>6, <3>1, <3>2
      <4>2. ASSUME NEW n \in 1..(j - 1), u[n].asset = u[j].asset PROVE FALSE
        <5>1. n + 1 \in 1..Len(q) /\ n + 1 < j + 1 /\ u[n] = q[n + 1] /\ n \in 1..Len(u)
          BY <1>1, <1>4, <4>2
        <5>2. q[1].market < q[n + 1].market /\ q[n + 1].market < q[j + 1].market
          BY <1>1, <1>6, <2>0, <4>1, <4>2, <5>1 DEF Ascending
        <5>3. q[n + 1].market \in Nat /\ q[n + 1].asset = q[j + 1].asset
          BY <1>1, <2>0, <4>2, <5>1 DEF Entries
        \* The market between the two is one interval after the first, or later.
        <5>4. PICK k \in 1..n : /\ q[k].asset = q[n + 1].asset
                                /\ q[n + 1].market = q[k].market + Interval
          <6>1. ~ \A k \in 1..((n + 1) - 1) : q[k].asset # q[n + 1].asset
            BY <1>1, <2>0, <4>1, <5>1, <5>3
          <6> QED BY <5>1, <6>1 DEF Chained
        <5>5. q[1].market <= q[k].market /\ q[k].market \in Nat
          <6>1. k \in 1..Len(q)
            BY <1>1, <5>1, <5>4
          <6>2. CASE k = 1
            BY <1>1, <6>1, <6>2 DEF Entries
          <6>3. CASE k # 1
            <7>1. q[1].market < q[k].market
              BY <1>1, <1>6, <2>0, <4>1, <5>3, <5>4, <6>1, <6>3 DEF Ascending
            <7> QED BY <1>1, <1>6, <6>1, <7>1 DEF Entries
          <6> QED BY <6>2, <6>3
        <5>6. /\ q[j + 1].market - Interval = q[1].market
              /\ q[j + 1].market \in Nat /\ q[1].market \in Nat
          BY <1>1, <1>6, <2>0, <4>1 DEF Entries
        <5>7. q[n + 1].market = q[k].market + Interval /\ q[n + 1].market < q[j + 1].market
          BY <5>2, <5>4
        <5>8. \A w, x, y, z, d \in Nat : z = w + d /\ x <= w /\ y - d = x /\ z < y => FALSE
          OBVIOUS
        <5>9. /\ q[1].market \in Nat /\ q[k].market \in Nat /\ q[n + 1].market \in Nat
              /\ q[j + 1].market \in Nat /\ Interval \in Nat
          BY <1>6, <5>3, <5>5, <5>6
        <5>10. q[1].market <= q[k].market /\ q[j + 1].market - Interval = q[1].market
          BY <5>5, <5>6
        <5> QED BY <5>7, <5>8, <5>9, <5>10
      <4> QED BY <1>3, <4>1, <4>2
    <3>3. CASE i # 1
      <4>1. i - 1 \in 1..(j - 1) /\ u[i - 1] = q[i]
        BY <1>1, <1>5, <2>0, <3>1, <3>3
      <4> QED BY <3>1, <4>1
    <3> QED BY <3>2, <3>3
  <2>2. CASE /\ \A i \in 1..j : q[i].asset # u[j].asset
             /\ act[u[j].asset].market \in {0, u[j].market - Interval}
    <3>1. u[j].asset # h.asset /\ u[j].asset \in AssetSet
      BY <1>1, <1>4, <2>2
    <3>2. ASSUME NEW i \in 1..(j - 1) PROVE u[i].asset # u[j].asset
      <4>1. i + 1 \in 1..j /\ u[i] = q[i + 1]
        BY <1>1, <1>4
      <4> QED BY <2>2, <4>1
    <3> QED BY <1>3, <2>2, <3>1, <3>2
  <2> QED BY <2>0, <2>1, <2>2 DEF Chained
<1>9. ASSUME NEW a \in AssetSet, NEW k, Newest(q, act, a, k) PROVE Newest(u, v, a, k)
  <2>1. CASE \A i \in 1..Len(q) : q[i].asset # a
    <3>1. a # h.asset /\ act[a].market = k
      BY <1>1, <1>6, <1>9, <2>1 DEF Newest
    <3> QED BY <1>3, <1>4, <2>1, <3>1 DEF Newest
  <2>2. CASE \E i \in 1..Len(q) : q[i].asset = a
    <3>1. PICK i \in 1..Len(q) : /\ q[i].asset = a /\ q[i].market = k
                                 /\ \A j \in 1..Len(q) : j > i => q[j].asset # a
      BY <1>9, <2>2 DEF Newest
    <3>2. CASE i = 1
      <4>1. \A j \in 1..Len(u) : u[j].asset # a
        BY <1>4, <3>1, <3>2
      <4> QED BY <1>1, <1>3, <3>1, <3>2, <4>1 DEF Newest
    <3>3. CASE i # 1
      <4>1. i - 1 \in 1..Len(u) /\ u[i - 1] = q[i]
        BY <1>5, <3>3
      <4>2. \A j \in 1..Len(u) : j > i - 1 => u[j].asset # a
        BY <1>4, <3>1
      <4> QED BY <3>1, <4>1, <4>2 DEF Newest
    <3> QED BY <3>2, <3>3
  <2> QED BY <2>1, <2>2
<1>10. ASSUME NEW a \in AssetSet, NEW k, Follows(q, act, a, k) PROVE Follows(u, v, a, k)
  <2>1. CASE act[a].market = 0 /\ \A i \in 1..Len(q) : q[i].asset # a
    <3>1. a # h.asset
      BY <1>1, <1>6, <2>1
    <3> QED BY <1>3, <1>4, <2>1, <3>1 DEF Follows
  <2> QED BY <1>9, <1>10, <2>1 DEF Follows
<1> QED BY <1>7, <1>8, <1>9, <1>10 DEF Chained, h, u, v

-----------------------------------------------------------------------------
(* The invariant.                                                          *)

Tasks == [pc: {"Sleep", "Fetch", "Backoff", "Rest"}, wake: Nat,
          asset: DOMAIN Assets, attempt: 0..(MaxRetries - 1), market: Nat]

Prefetching(p) == p.pc \in {"Fetch", "Backoff"}

\* Where the task stands between the boundaries.
Timely(p, t) ==
    /\ t \in Nat /\ p \in Tasks
    /\ ~Prefetching(p) => t <= p.wake
    /\ p.pc = "Rest" => IsBoundary(p.wake)
    /\ Prefetching(p) => IsBoundary(p.market) /\ p.market - Interval <= t

\* The markets sent of the n-th asset: up to the present one when the task sleeps,
\* before the one that is being fetched if it is still to be fetched.
LatestOf(p, t, n) ==
    CASE p.pc = "Sleep" -> t
      [] p.pc = "Rest"  -> p.wake
      [] OTHER          -> IF n < p.asset THEN p.market ELSE p.market - 1

\* At time t every market of asset a has ended, or will within Advance seconds.
Over(q, act, a, t) ==
    /\ act[a].market # 0 => Ending(act[a].market, t)
    /\ \A i \in 1..Len(q) : q[i].asset = a => Ending(q[i].market, t)

\* The loop looks for the next market of an asset when those it has are ending.
Spaced(n) ==
    /\ task.pc = "Sleep" => Over(market_rx, active, Assets[n], task.wake)
    /\ Prefetching(task) /\ n >= task.asset => Over(market_rx, active, Assets[n], now)

\* As long as nothing was missed, the last market of an asset is the one of the
\* present round of the loop, or the one before it.
InStep(n) ==
    LET a == Assets[n]
    IN  /\ task.pc = "Sleep" => Follows(market_rx, active, a, NextSlug(task.wake))
        /\ task.pc = "Rest" => Newest(market_rx, active, a, task.wake)
        /\ Prefetching(task) =>
              IF n < task.asset THEN Newest(market_rx, active, a, task.market)
                                ELSE Follows(market_rx, active, a, task.market)

DiscoveryInv ==
    /\ Timely(task, now)
    /\ market_rx \in Seq(Entries) /\ active \in Actives
    /\ missed \in BOOLEAN
    /\ Ascending(market_rx, active) /\ Replaceable(market_rx, active, now)
    /\ \A n \in DOMAIN Assets :
          /\ UpTo(market_rx, active, Assets[n], LatestOf(task, now, n))
          /\ Spaced(n)
    /\ ~missed => Chained(market_rx, active) /\ \A n \in DOMAIN Assets : InStep(n)

\* The n-th asset.
LEMMA AssetTypes ==
    /\ DOMAIN Assets = 1..Len(Assets) /\ Len(Assets) \in Nat \ {0} /\ 1 \in DOMAIN Assets
    /\ \A n \in DOMAIN Assets : n \in Nat /\ Assets[n] \in AssetSet
    /\ \A a \in AssetSet : \E n \in DOMAIN Assets : a = Assets[n]
    /\ \A i, j \in DOMAIN Assets : Assets[i] = Assets[j] => i = j
    /\ 0 \in 0..(MaxRetries - 1)
<1>1. DOMAIN Assets = 1..Len(Assets) /\ Len(Assets) \in Nat \ {0}
  BY AssetsAssumption, LenProperties
<1>2. 0 \in 0..(MaxRetries - 1)
  BY TimingAssumption
<1> QED BY <1>1, <1>2, AssetsAssumption DEF AssetSet

\* The bound is a number or the one before a first market.
LEMMA UpToLater ==
    ASSUME NEW q \in Seq(Entries), NEW act \in Actives, NEW a \in AssetSet,
           NEW b \in Int, NEW c \in Int, b <= c, UpTo(q, act, a, b)
    PROVE  UpTo(q, act, a, c)
<1>1. act[a].market \in Nat
  BY DEF Actives
<1>2. \A i \in 1..Len(q) : q[i].market \in Nat
  <2>1. \A i \in 1..Len(q) : q[i] \in Entries
    BY LenProperties
  <2> QED BY <2>1 DEF Entries
<1> QED BY <1>1, <1>2 DEF UpTo

\* What is ending goes on ending.
LEMMA EndingLater ==
    ASSUME NEW q \in Seq(Entries), NEW act \in Actives, NEW t \in Nat, NEW u \in Nat, t <= u
    PROVE  /\ Replaceable(q, act, t) => Replaceable(q, act, u)
           /\ \A a \in AssetSet : Over(q, act, a, t) => Over(q, act, a, u)
<1>1. Interval \in Nat /\ Advance \in Nat
  BY TimingAssumption
<1>2. \A i \in 1..Len(q) : q[i].market \in Nat /\ q[i].asset \in AssetSet
  <2>1. \A i \in 1..Len(q) : q[i] \in Entries
    BY LenProperties
  <2> QED BY <2>1 DEF Entries
<1>3. \A a \in AssetSet : act[a].market \in Nat
  BY DEF Actives
<1>4. \A m \in Nat : Ending(m, t) => Ending(m, u)
  BY <1>1 DEF Ending
<1> QED BY <1>2, <1>3, <1>4 DEF Replaceable, Over

-----------------------------------------------------------------------------
\* At the start nothing has been sent.
LEMMA DiscoveryInit == Init => DiscoveryInv
<1> SUFFICES ASSUME Init PROVE DiscoveryInv
  OBVIOUS
<1>1. now \in Nat
  BY TimingAssumption DEF Init
<1>2. /\ task = Awaiting("Sleep", SleepUntil(now)) /\ SleepUntil(now) \in Nat
      /\ now <= SleepUntil(now)
  BY <1>1, SleepUntilIs DEF Init
<1>3. Timely(task, now) /\ task.pc = "Sleep" /\ task.wake = SleepUntil(now)
  BY <1>1, <1>2, AssetTypes DEF Timely, Tasks, Awaiting, Prefetching
<1>4. /\ market_rx = <<>> /\ Len(market_rx) = 0 /\ market_rx \in Seq(Entries)
      /\ active \in Actives /\ \A a \in AssetSet : active[a].market = 0
      /\ missed = FALSE
  BY DEF Init, Actives
<1>5. /\ Ascending(market_rx, active) /\ Chained(market_rx, active)
      /\ Replaceable(market_rx, active, now)
  BY <1>4 DEF Ascending, Chained, Replaceable
<1>6. ASSUME NEW n \in DOMAIN Assets
      PROVE  UpTo(market_rx, active, Assets[n], LatestOf(task, now, n)) /\ Spaced(n) /\ InStep(n)
  BY <1>1, <1>3, <1>4, AssetTypes DEF UpTo, LatestOf, Spaced, Over, InStep, Follows, Prefetching
<1> QED BY <1>3, <1>4, <1>5, <1>6 DEF DiscoveryInv

\* The clock moves, or the task does without sending anything.
LEMMA TaskMoves ==
    ASSUME DiscoveryInv, UNCHANGED <<market_rx, active>>, missed' \in BOOLEAN,
           missed => missed', Timely(task', now'), now <= now',
           \A n \in DOMAIN Assets :
              /\ LatestOf(task, now, n) \in Int /\ LatestOf(task', now', n) \in Int
              /\ LatestOf(task, now, n) <= LatestOf(task', now', n)
              /\ Spaced(n)' /\ (~missed' => InStep(n)')
    PROVE  DiscoveryInv'
<1>1. \A n \in DOMAIN Assets : UpTo(market_rx, active, Assets[n], LatestOf(task', now', n))
  BY UpToLater, AssetTypes DEF DiscoveryInv
<1>2. Replaceable(market_rx', active', now')
  BY EndingLater DEF DiscoveryInv, Timely
<1> QED BY <1>1, <1>2 DEF DiscoveryInv

\* The latest end of a market the task is about to hand over is a number.
LEMMA LatestType ==
    ASSUME NEW p, NEW t, Timely(p, t), NEW n \in DOMAIN Assets
    PROVE  LatestOf(p, t, n) \in Int
<1>1. p.pc \in {"Sleep", "Fetch", "Backoff", "Rest"} /\ p.market \in Nat /\ t \in Nat
      /\ p.wake \in Nat
  BY DEF Timely, Tasks
<1> QED BY <1>1 DEF Timely, LatestOf, Prefetching

-----------------------------------------------------------------------------
(* The steps that send nothing.                                            *)

\* The clock ticks.
LEMMA ElapseKeeps == DiscoveryInv /\ Elapse => DiscoveryInv'
<1> SUFFICES ASSUME DiscoveryInv, Elapse PROVE DiscoveryInv'
  OBVIOUS
<1>1. /\ now' = now + 1 /\ task' = task /\ missed' = missed
      /\ UNCHANGED <<market_rx, active>>
      /\ task.pc # "Fetch" => now < task.wake
  BY DEF Elapse
<1>2. now \in Nat /\ Timely(task, now) /\ missed \in BOOLEAN
  BY DEF DiscoveryInv, Timely
<1>3. Timely(task', now')
  <2>1. ~Prefetching(task) => now + 1 <= task.wake
    BY <1>1, <1>2 DEF Timely, Tasks, Prefetching
  <2>2. Prefetching(task) => task.market - Interval <= now + 1
    BY <1>2, TimingAssumption DEF Timely, Tasks
  <2> QED BY <1>1, <1>2, <2>1, <2>2 DEF Timely
<1>4. ASSUME NEW n \in DOMAIN Assets
      PROVE  /\ LatestOf(task, now, n) \in Int /\ LatestOf(task', now', n) \in Int
             /\ LatestOf(task, now, n) <= LatestOf(task', now', n)
             /\ Spaced(n)' /\ (~missed' => InStep(n)')
  <2>1. LatestOf(task, now, n) \in Int /\ LatestOf(task', now', n) \in Int
    BY <1>2, <1>3, LatestType
  <2>2. LatestOf(task, now, n) <= LatestOf(task', now', n)
    BY <1>1, <1>2, <2>1 DEF LatestOf
  <2>3. Spaced(n)'
    <3>1. Spaced(n) /\ now + 1 \in Nat /\ now <= now + 1
      BY <1>2 DEF DiscoveryInv
    <3>2. Over(market_rx, active, Assets[n], now) => Over(market_rx, active, Assets[n], now + 1)
      BY <1>2, <3>1, EndingLater, AssetTypes DEF DiscoveryInv
    <3> QED BY <1>1, <3>1, <3>2 DEF Spaced
  <2>4. ~missed' => InStep(n)'
    BY <1>1 DEF InStep, DiscoveryInv
  <2> QED BY <2>1, <2>2, <2>3, <2>4
<1> QED BY <1>1, <1>2, <1>3, <1>4, TaskMoves

\* The markets sent have opened when the task wakes, and the next opens later.
LEMMA WakeUpKeeps == DiscoveryInv /\ WakeUp => DiscoveryInv'
<1> SUFFICES ASSUME DiscoveryInv, WakeUp PROVE DiscoveryInv'
  OBVIOUS
<1>1. /\ now' = now /\ missed' = missed /\ UNCHANGED <<market_rx, active>>
      /\ task.pc = "Sleep" /\ now >= task.wake
      /\ task' = [pc |-> "Fetch", wake |-> now, asset |-> 1, attempt |-> 0,
                  market |-> NextSlug(now)]
  BY DEF WakeUp, Fetching
<1>2. now \in Nat /\ Timely(task, now) /\ missed \in BOOLEAN
  BY DEF DiscoveryInv, Timely
<1>3. now = task.wake
  BY <1>1, <1>2 DEF Timely, Tasks, Prefetching
<1>4. /\ NextSlug(now) \in Nat /\ IsBoundary(NextSlug(now))
      /\ now < NextSlug(now) /\ NextSlug(now) - Interval <= now
  BY <1>2, NextSlugIs, TimingAssumption
<1>5. Timely(task', now')
  BY <1>1, <1>2, <1>4, AssetTypes DEF Timely, Tasks, Prefetching
<1>6. ASSUME NEW n \in DOMAIN Assets
      PROVE  /\ LatestOf(task, now, n) \in Int /\ LatestOf(task', now', n) \in Int
             /\ LatestOf(task, now, n) <= LatestOf(task', now', n)
             /\ Spaced(n)' /\ (~missed' => InStep(n)')
  <2>1. LatestOf(task, now, n) \in Int /\ LatestOf(task', now', n) \in Int
    BY <1>2, <1>5, LatestType
  <2>2. ~(n < 1)
    BY AssetTypes
  <2>3. LatestOf(task, now, n) <= LatestOf(task', now', n)
    BY <1>1, <1>2, <1>4, <2>2 DEF LatestOf
  <2>4. Spaced(n) /\ (~missed => InStep(n))
    BY DEF DiscoveryInv
  <2>5. Spaced(n)'
    BY <1>1, <1>3, <2>4 DEF Spaced, Prefetching
  <2>6. ~missed' => InStep(n)'
    BY <1>1, <1>3, <2>2, <2>4 DEF InStep, Prefetching
  <2> QED BY <2>1, <2>3, <2>5, <2>6
<1> QED BY <1>1, <1>2, <1>5, <1>6, TaskMoves

\* A back-off of 2^k seconds lasts some time, and ends: the provers know powers
\* only from the number of subsets of a set of k elements.
LEMMA PowerPositive ==
    ASSUME NEW k \in Nat
    PROVE  2 ^ k \in Nat \ {0}
<1> DEFINE S == 1..k
<1>1. IsFiniteSet(S) /\ Cardinality(S) = k
  BY FS_Interval
<1>2. IsFiniteSet(SUBSET S) /\ Cardinality(SUBSET S) = 2 ^ k
  BY <1>1, FS_SUBSET
<1>3. SUBSET S # {}
  OBVIOUS
<1> HIDE DEF S
<1> QED BY <1>2, <1>3, FS_CardinalityType, FS_EmptySet

\* A back-off begins or ends.
LEMMA BackoffKeeps ==
    ASSUME DiscoveryInv, Retry \/ (FetchFailed /\ ~LastAttempt(task.attempt))
    PROVE  DiscoveryInv'
<1>1. /\ now' = now /\ missed' = missed /\ UNCHANGED <<market_rx, active>>
      /\ Prefetching(task)
  BY DEF Retry, FetchFailed, Prefetching
<1>2. now \in Nat /\ Timely(task, now) /\ missed \in BOOLEAN /\ task \in Tasks
  BY DEF DiscoveryInv, Timely
<1>3. /\ task' \in Tasks /\ Prefetching(task')
      /\ task'.asset = task.asset /\ task'.market = task.market
  <2>1. now + 2 ^ task.attempt \in Nat
    <3>1. task.attempt \in Nat
      BY <1>2 DEF Tasks
    <3>2. 2 ^ task.attempt \in Nat
      BY <3>1, PowerPositive
    <3> QED BY <1>2, <3>2
  <2>2. CASE Retry
    BY <1>2, <2>2 DEF Retry, Tasks, Prefetching
  <2>3. CASE FetchFailed /\ ~LastAttempt(task.attempt)
    <3>1. task.attempt + 1 \in 0..(MaxRetries - 1)
      BY <1>2, <2>3, TimingAssumption DEF LastAttempt, Tasks
    <3> QED BY <1>2, <2>1, <2>3, <3>1 DEF FetchFailed, Tasks, Prefetching
  <2> QED BY <2>2, <2>3
<1>4. Timely(task', now')
  BY <1>1, <1>2, <1>3 DEF Timely, Prefetching
<1>5. ASSUME NEW n \in DOMAIN Assets
      PROVE  /\ LatestOf(task, now, n) \in Int /\ LatestOf(task', now', n) \in Int
             /\ LatestOf(task, now, n) <= LatestOf(task', now', n)
             /\ Spaced(n)' /\ (~missed' => InStep(n)')
  <2>1. LatestOf(task, now, n) \in Int /\ LatestOf(task', now', n) \in Int
    BY <1>2, <1>4, LatestType
  <2>2. LatestOf(task', now', n) = LatestOf(task, now, n)
    BY <1>1, <1>3 DEF LatestOf, Prefetching
  <2>3. Spaced(n) /\ (~missed => InStep(n))
    BY DEF DiscoveryInv
  <2>4. Spaced(n)'
    BY <1>1, <1>3, <2>3 DEF Spaced, Prefetching
  <2>5. ~missed' => InStep(n)'
    BY <1>1, <1>3, <2>3 DEF InStep, Prefetching
  <2> QED BY <2>1, <2>2, <2>4, <2>5
<1> QED BY <1>1, <1>2, <1>4, <1>5, TaskMoves

\* Markets up to b are ending Interval - Advance seconds later.
LEMMA UpToOver ==
    ASSUME NEW q \in Seq(Entries), NEW act \in Actives, NEW a \in AssetSet,
           NEW b \in Nat, NEW t \in Nat, t >= b + Interval - Advance, UpTo(q, act, a, b)
    PROVE  Over(q, act, a, t)
<1>1. \A i \in 1..Len(q) : q[i].market \in Nat
  <2>1. \A i \in 1..Len(q) : q[i] \in Entries
    BY LenProperties
  <2> QED BY <2>1 DEF Entries
<1>2. act[a].market \in Nat
  BY DEF Actives
<1> QED BY <1>1, <1>2, TimingAssumption DEF UpTo, Over, Ending

\* The loop begins again at a boundary: the markets sent have opened, and the next
\* sleep ends before the next boundary, and not more than Advance before it.
LEMMA LoopAgainKeeps == DiscoveryInv /\ LoopAgain => DiscoveryInv'
<1> SUFFICES ASSUME DiscoveryInv, LoopAgain PROVE DiscoveryInv'
  OBVIOUS
<1>1. /\ now' = now /\ missed' = missed /\ UNCHANGED <<market_rx, active>>
      /\ task.pc = "Rest" /\ now >= task.wake
      /\ task' = [pc |-> "Sleep", wake |-> SleepUntil(now), asset |-> 1, attempt |-> 0,
                  market |-> 0]
  BY DEF LoopAgain, Awaiting
<1>2. now \in Nat /\ Timely(task, now) /\ missed \in BOOLEAN
  BY DEF DiscoveryInv, Timely
<1>3. now = task.wake /\ IsBoundary(now)
  BY <1>1, <1>2 DEF Timely, Tasks, Prefetching
<1>4. Interval \in Nat \ {0} /\ Advance \in Nat
  BY TimingAssumption
<1>5. NextSlug(now) = now + Interval /\ IsBoundary(NextSlug(now)) /\ NextSlug(now) \in Nat
  <2>1. /\ NextSlug(now) \in Nat /\ IsBoundary(NextSlug(now))
        /\ NextSlug(now) <= now + Interval
    BY <1>2, NextSlugIs
  <2>2. NextSlug(now) >= now + Interval
    BY <1>2, <1>3, NextSlugLater
  <2> QED BY <1>2, <1>4, <2>1, <2>2
<1>6. /\ SleepUntil(now) \in Nat /\ now <= SleepUntil(now)
      /\ SleepUntil(now) >= NextSlug(now) - Advance /\ SleepUntil(now) < NextSlug(now)
  BY <1>2, SleepUntilIs
<1>7. NextSlug(SleepUntil(now)) = now + Interval
  BY <1>2, <1>4, <1>5, <1>6, NextSlugUnique
<1>8. Timely(task', now')
  BY <1>1, <1>2, <1>6, AssetTypes DEF Timely, Tasks, Prefetching
<1>9. ASSUME NEW n \in DOMAIN Assets
      PROVE  /\ LatestOf(task, now, n) \in Int /\ LatestOf(task', now', n) \in Int
             /\ LatestOf(task, now, n) <= LatestOf(task', now', n)
             /\ Spaced(n)' /\ (~missed' => InStep(n)')
  <2>1. LatestOf(task, now, n) \in Int /\ LatestOf(task', now', n) \in Int
    BY <1>2, <1>8, LatestType
  <2>2. LatestOf(task, now, n) <= LatestOf(task', now', n)
    BY <1>1, <1>2, <1>3 DEF LatestOf
  <2>3. (~missed => InStep(n)) /\ UpTo(market_rx, active, Assets[n], now)
    BY <1>1, <1>3 DEF DiscoveryInv, LatestOf
  <2>4. Spaced(n)'
    <3>1. SleepUntil(now) >= now + Interval - Advance
      BY <1>2, <1>4, <1>5, <1>6
    <3>2. Over(market_rx, active, Assets[n], SleepUntil(now))
      BY <1>2, <1>6, <2>3, <3>1, UpToOver, AssetTypes DEF DiscoveryInv
    <3> QED BY <1>1, <3>2 DEF Spaced, Prefetching
  <2>5. ~missed' => InStep(n)'
    <3>1. (now + Interval) - Interval = now
      BY <1>2, <1>4
    <3> QED BY <1>1, <1>3, <1>7, <2>3, <3>1 DEF InStep, Follows, Prefetching
  <2> QED BY <2>1, <2>2, <2>4, <2>5
<1> QED BY <1>1, <1>2, <1>8, <1>9, TaskMoves

-----------------------------------------------------------------------------
(* The body of the loop ends for an asset.                                 *)

\* The next asset's market is not before this one's, and the same when this one
\* has not opened yet.
LEMMA NextAssetIs ==
    ASSUME Timely(task, now), task.pc = "Fetch", NextAsset, now' = now
    PROVE  /\ Timely(task', now') /\ NextSlug(now) \in Nat
           /\ now < NextSlug(now) /\ task.market <= NextSlug(now)
           /\ now < task.market => NextSlug(now) = task.market
           /\ \/ /\ task'.pc = "Fetch" /\ task'.market = NextSlug(now)
                 /\ task'.asset = task.asset + 1
              \/ /\ task'.pc = "Rest" /\ task'.wake = NextSlug(now)
                 /\ \A n \in DOMAIN Assets : n <= task.asset
<1>1. /\ now \in Nat /\ task \in Tasks /\ IsBoundary(task.market) /\ task.market \in Nat
      /\ task.market - Interval <= now /\ task.asset \in DOMAIN Assets
  BY DEF Timely, Tasks, Prefetching
<1>2. Interval \in Nat \ {0}
  BY TimingAssumption
<1>3. /\ NextSlug(now) \in Nat /\ IsBoundary(NextSlug(now)) /\ now < NextSlug(now)
      /\ NextSlug(now) - Interval <= now /\ RestUntil(now) = NextSlug(now)
  BY <1>1, <1>2, NextSlugIs
<1>4. now < task.market => NextSlug(now) = task.market
  BY <1>1, NextSlugUnique
<1>5. task.market <= NextSlug(now)
  BY <1>1, <1>3, <1>4
<1>6. CASE task.asset < Len(Assets)
  <2>0. 0 \in 0..(MaxRetries - 1)
    BY AssetTypes
  <2>1. task' = [pc |-> "Fetch", wake |-> now, asset |-> task.asset + 1, attempt |-> 0,
                 market |-> NextSlug(now)]
    BY <1>6 DEF NextAsset, Fetching
  <2>2. task.asset + 1 \in DOMAIN Assets
    BY <1>1, <1>6, AssetTypes
  <2>3. Timely(task', now')
    BY <1>1, <1>3, <2>0, <2>1, <2>2 DEF Timely, Tasks, Prefetching
  <2> QED BY <1>3, <1>4, <1>5, <2>1, <2>3
<1>7. CASE ~(task.asset < Len(Assets))
  <2>1. task' = [pc |-> "Rest", wake |-> NextSlug(now), asset |-> 1, attempt |-> 0,
                 market |-> 0]
    BY <1>3, <1>7 DEF NextAsset, Awaiting
  <2>2. \A n \in DOMAIN Assets : n <= task.asset
    BY <1>1, <1>7, AssetTypes
  <2>3. Timely(task', now')
    BY <1>1, <1>3, <2>1, AssetTypes DEF Timely, Tasks, Prefetching
  <2> QED BY <1>3, <1>4, <1>5, <2>1, <2>2, <2>3
<1> QED BY <1>6, <1>7

\* The bound on the markets of an asset rises to the next slug when the asset was
\* the present one or before it, and stays below it otherwise.
LEMMA NextLatest ==
    ASSUME Timely(task, now), task.pc = "Fetch", NextAsset, now' = now, NEW n \in DOMAIN Assets
    PROVE  /\ LatestOf(task, now, n) \in Int /\ LatestOf(task', now', n) \in Int
           /\ LatestOf(task, now, n) <= LatestOf(task', now', n)
           /\ n <= task.asset => task.market <= LatestOf(task', now', n)
           /\ n >= task.asset => LatestOf(task, now, n) = task.market - 1
<1>1. /\ Timely(task', now') /\ NextSlug(now) \in Nat /\ task.market <= NextSlug(now)
      /\ \/ /\ task'.pc = "Fetch" /\ task'.market = NextSlug(now)
            /\ task'.asset = task.asset + 1
         \/ /\ task'.pc = "Rest" /\ task'.wake = NextSlug(now)
            /\ \A i \in DOMAIN Assets : i <= task.asset
  BY NextAssetIs
<1>2. LatestOf(task, now, n) \in Int /\ LatestOf(task', now', n) \in Int
  BY <1>1, LatestType
<1>3. n \in Nat /\ task.asset \in Nat /\ task.market \in Nat
  BY AssetTypes DEF Timely, Tasks
<1>4. LatestOf(task, now, n) = IF n < task.asset THEN task.market ELSE task.market - 1
  BY DEF LatestOf
<1>5. CASE task'.pc = "Rest"
  <2>1. LatestOf(task', now', n) = NextSlug(now)
    BY <1>1, <1>5 DEF LatestOf
  <2> QED BY <1>1, <1>2, <1>3, <1>4, <2>1
<1>6. CASE task'.pc = "Fetch"
  <2>1. LatestOf(task', now', n)
           = IF n < task.asset + 1 THEN NextSlug(now) ELSE NextSlug(now) - 1
    BY <1>1, <1>6 DEF LatestOf
  <2> QED BY <1>1, <1>2, <1>3, <1>4, <2>1
<1> QED BY <1>1, <1>5, <1>6

\* A market is given up.
LEMMA GiveUpKeeps ==
    ASSUME DiscoveryInv, FetchFailed, LastAttempt(task.attempt)
    PROVE  DiscoveryInv'
<1>1. /\ now' = now /\ missed' = TRUE /\ UNCHANGED <<market_rx, active>>
      /\ task.pc = "Fetch" /\ NextAsset
  BY DEF FetchFailed
<1>2. now \in Nat /\ Timely(task, now)
  BY DEF DiscoveryInv, Timely
<1>3. /\ Timely(task', now') /\ NextSlug(now) \in Nat /\ now < NextSlug(now)
      /\ \/ task'.pc = "Fetch" /\ task'.asset = task.asset + 1
         \/ task'.pc = "Rest" /\ task'.wake = NextSlug(now)
  BY <1>1, <1>2, NextAssetIs
<1>4. ASSUME NEW n \in DOMAIN Assets
      PROVE  /\ LatestOf(task, now, n) \in Int /\ LatestOf(task', now', n) \in Int
             /\ LatestOf(task, now, n) <= LatestOf(task', now', n)
             /\ Spaced(n)' /\ (~missed' => InStep(n)')
  <2>1. /\ LatestOf(task, now, n) \in Int /\ LatestOf(task', now', n) \in Int
        /\ LatestOf(task, now, n) <= LatestOf(task', now', n)
    BY <1>1, <1>2, NextLatest
  <2>2. Spaced(n) /\ n \in Nat /\ task.asset \in Nat
    BY <1>2, AssetTypes DEF DiscoveryInv, Timely, Tasks
  <2>3. Spaced(n)'
    <3>1. n >= task.asset + 1 => Over(market_rx, active, Assets[n], now)
      BY <1>1, <2>2 DEF Spaced, Prefetching
    <3> QED BY <1>1, <1>3, <2>2, <3>1 DEF Spaced, Prefetching
  <2> QED BY <1>1, <2>1, <2>3
<1> QED BY <1>1, <1>3, <1>4, <1>2, TaskMoves

\* A market sent after others that are ending leaves every market that is not the
\* last of its asset ending, and those of the other assets as they were.
LEMMA SentReplaceable ==
    ASSUME NEW q \in Seq(Entries), NEW act \in Actives, NEW a \in AssetSet, NEW m \in Nat,
           NEW t \in Nat, Replaceable(q, act, t)
    PROVE  LET u == Append(q, [asset |-> a, market |-> m])
           IN  /\ Over(q, act, a, t) => Replaceable(u, act, t)
               /\ \A c \in AssetSet : c # a /\ Over(q, act, c, t) => Over(u, act, c, t)
<1> DEFINE e == [asset |-> a, market |-> m]   u == Append(q, e)
<1>1. e \in Entries /\ e.asset = a /\ e.market = m
  BY DEF Entries
<1> HIDE DEF e
<1>2. /\ Len(q) \in Nat /\ Len(u) = Len(q) + 1 /\ u[Len(q) + 1] = e
      /\ \A i \in 1..Len(q) : u[i] = q[i]
  BY <1>1, AppendProperties, LenProperties
<1> HIDE DEF u
<1>3. \A i \in 1..Len(u) : \/ i \in 1..Len(q) /\ u[i] = q[i]
                           \/ i = Len(q) + 1 /\ u[i] = e
  <2>1. \A i \in 1..Len(u) : i \in 1..Len(q) \/ i = Len(q) + 1
    BY <1>2
  <2> QED BY <1>2, <2>1
<1>4. ASSUME Over(q, act, a, t) PROVE Replaceable(u, act, t)
  <2>1. \A i \in 1..Len(u) : act[u[i].asset].market # 0 => Ending(act[u[i].asset].market, t)
    BY <1>1, <1>3, <1>4 DEF Over, Replaceable
  <2>2. ASSUME NEW i \in 1..Len(u), NEW j \in 1..Len(u), i < j, u[i].asset = u[j].asset
        PROVE  Ending(u[i].market, t)
    <3>1. i \in 1..Len(q) /\ u[i] = q[i]
      BY <1>2, <1>3, <2>2
    <3> QED BY <1>1, <1>3, <1>4, <2>2, <3>1 DEF Over, Replaceable
  <2> QED BY <2>1, <2>2 DEF Replaceable
<1>5. ASSUME NEW c \in AssetSet, c # a, Over(q, act, c, t) PROVE Over(u, act, c, t)
  BY <1>1, <1>3, <1>5 DEF Over
<1> QED BY <1>4, <1>5 DEF u, e

\* A market is sent.
LEMMA FetchedKeeps == DiscoveryInv /\ Fetched => DiscoveryInv'
<1> SUFFICES ASSUME DiscoveryInv, Fetched PROVE DiscoveryInv'
  OBVIOUS
<1> DEFINE k == task.asset   a == Assets[k]   m == task.market
           u == Append(market_rx, [asset |-> a, market |-> m])
<1>1. /\ now' = now /\ missed' = (missed \/ now >= m) /\ active' = active
      /\ market_rx' = u /\ task.pc = "Fetch" /\ NextAsset
  BY DEF Fetched
<1>2. /\ now \in Nat /\ Timely(task, now) /\ k \in DOMAIN Assets /\ m \in Nat
      /\ a \in AssetSet /\ k \in Nat
  BY AssetTypes DEF DiscoveryInv, Timely, Tasks
<1>3. /\ market_rx \in Seq(Entries) /\ active \in Actives /\ Ascending(market_rx, active)
      /\ Replaceable(market_rx, active, now) /\ missed \in BOOLEAN
  BY DEF DiscoveryInv
<1>4. /\ Timely(task', now') /\ NextSlug(now) \in Nat /\ now < NextSlug(now)
      /\ now < m => NextSlug(now) = m
      /\ \/ /\ task'.pc = "Fetch" /\ task'.market = NextSlug(now) /\ task'.asset = k + 1
         \/ /\ task'.pc = "Rest" /\ task'.wake = NextSlug(now)
            /\ \A n \in DOMAIN Assets : n <= k
  BY <1>1, <1>2, NextAssetIs
<1>5. UpTo(market_rx, active, a, m - 1)
  <2>1. LatestOf(task, now, k) = m - 1
    BY <1>1, <1>2 DEF LatestOf
  <2> QED BY <1>2, <2>1 DEF DiscoveryInv
<1>6. u \in Seq(Entries)
  BY <1>2, <1>3, AppendProperties DEF Entries
<1> HIDE DEF u, a, m, k
<1>7. /\ Ascending(u, active) /\ UpTo(u, active, a, m)
      /\ \A c \in AssetSet, b \in Int :
            c # a /\ UpTo(market_rx, active, c, b) => UpTo(u, active, c, b)
  <2>1. m - 1 \in Int /\ m - 1 < m
    BY <1>2
  <2> QED BY <1>2, <1>3, <1>5, <2>1, SentInOrder DEF u
<1>8. ASSUME NEW n \in DOMAIN Assets
      PROVE  Assets[n] \in AssetSet /\ n \in Nat /\ (n # k => Assets[n] # a)
  BY <1>2, AssetTypes DEF a
<1>9. ASSUME NEW n \in DOMAIN Assets
      PROVE  UpTo(u, active, Assets[n], LatestOf(task', now', n))
  <2>1. /\ LatestOf(task, now, n) \in Int /\ LatestOf(task', now', n) \in Int
        /\ LatestOf(task, now, n) <= LatestOf(task', now', n)
        /\ n <= k => m <= LatestOf(task', now', n)
    BY <1>1, <1>2, NextLatest DEF k, m
  <2>2. CASE n = k
    <3>1. UpTo(u, active, Assets[n], m) /\ m <= LatestOf(task', now', n)
      BY <1>2, <1>7, <2>1, <2>2 DEF a
    <3> QED BY <1>2, <1>3, <1>6, <1>8, <2>1, <3>1, UpToLater
  <2>3. CASE n # k
    <3>1. UpTo(market_rx, active, Assets[n], LatestOf(task, now, n))
      BY DEF DiscoveryInv
    <3>2. UpTo(u, active, Assets[n], LatestOf(task, now, n))
      BY <1>7, <1>8, <2>1, <2>3, <3>1
    <3> QED BY <1>3, <1>6, <1>8, <2>1, <3>2, UpToLater
  <2> QED BY <2>2, <2>3
<1>10. ASSUME NEW n \in DOMAIN Assets PROVE Spaced(n)'
  <2>1. ASSUME n >= k + 1 PROVE Over(u, active, Assets[n], now)
    <3>1. Over(market_rx, active, Assets[n], now) /\ n # k
      BY <1>1, <1>2, <1>8, <2>1 DEF DiscoveryInv, Spaced, Prefetching, k
    <3> QED BY <1>2, <1>3, <1>8, <3>1, SentReplaceable DEF u
  <2> QED BY <1>1, <1>4, <2>1 DEF Spaced, Prefetching
<1>11. ASSUME ~missed' PROVE Chained(u, active) /\ \A n \in DOMAIN Assets : InStep(n)'
  <2>1. ~missed /\ NextSlug(now) = m
    <3>1. ~missed /\ ~(now >= m)
      BY <1>1, <1>11, Zenon
    <3>2. now < m
      BY <1>2, <3>1
    <3> QED BY <1>4, <3>1, <3>2
  <2>2. Chained(market_rx, active) /\ \A n \in DOMAIN Assets : InStep(n)
    BY <2>1 DEF DiscoveryInv
  <2>3. Follows(market_rx, active, a, m)
    BY <1>1, <1>2, <2>2 DEF InStep, Prefetching, a, k, m
  <2>4. Chained(u, active) /\ Newest(u, active, a, m)
    BY <1>2, <1>3, <2>2, <2>3, SentChained DEF u
  <2>5. ASSUME NEW n \in DOMAIN Assets PROVE InStep(n)'
    <3>1. CASE n = k
      <4>1. Newest(u, active, Assets[n], m) /\ n < k + 1
        BY <1>2, <2>4, <3>1 DEF a
      <4> QED BY <1>1, <1>4, <2>1, <4>1 DEF InStep, Prefetching
    <3>2. CASE n < k
      <4>1. Newest(market_rx, active, Assets[n], m)
        BY <1>1, <2>2, <3>2 DEF InStep, Prefetching, k, m
      <4>2. Newest(u, active, Assets[n], m)
        <5>1. Assets[n] \in AssetSet /\ Assets[n] # a
          BY <1>2, <1>8, <3>2
        <5> QED BY <1>2, <1>3, <4>1, <5>1, SentOthers DEF u
      <4>3. n < k + 1
        BY <1>2, <1>8, <3>2
      <4> QED BY <1>1, <1>4, <2>1, <4>2, <4>3 DEF InStep, Prefetching
    <3>3. CASE n > k
      <4>1. Follows(market_rx, active, Assets[n], m)
        BY <1>1, <1>2, <1>8, <2>2, <3>3 DEF InStep, Prefetching, k, m
      <4>2. Follows(u, active, Assets[n], m)
        <5>1. Assets[n] \in AssetSet /\ Assets[n] # a
          BY <1>2, <1>8, <3>3
        <5> QED BY <1>2, <1>3, <4>1, <5>1, SentOthers DEF u
      <4>3. ~(n < k + 1) /\ ~(n <= k)
        BY <1>2, <1>8, <3>3
      <4> QED BY <1>1, <1>4, <2>1, <4>2, <4>3 DEF InStep, Prefetching
    <3> QED BY <1>2, <1>8, <3>1, <3>2, <3>3
  <2> QED BY <2>4, <2>5
<1>12. missed' \in BOOLEAN
  BY <1>1, <1>2, <1>3
<1>13. Replaceable(u, active, now)
  <2>1. Over(market_rx, active, a, now)
    BY <1>1, <1>2 DEF DiscoveryInv, Spaced, Prefetching, a, k
  <2> QED BY <1>2, <1>3, <2>1, SentReplaceable DEF u
<1> QED BY <1>1, <1>3, <1>4, <1>6, <1>7, <1>9, <1>10, <1>11, <1>12, <1>13 DEF DiscoveryInv

-----------------------------------------------------------------------------
(* The main loop takes a market in.                                        *)

\* What the event loop does with the entry at the head of the channel.
LEMMA MarketRxTakes ==
    ASSUME DiscoveryInv, MarketRx
    PROVE  /\ active' = Rotated(market_rx, active, now) /\ market_rx' = Tail(market_rx)
           /\ market_rx # <<>> /\ market_rx \in Seq(Entries) /\ active \in Actives /\ now \in Nat
           /\ UNCHANGED <<now, task, missed>>
BY DEF MarketRx, Rotated, DiscoveryInv, Timely

\* The market taken in was followed by later ones only when it was ending.
LEMMA TakenReplaceable ==
    ASSUME NEW q \in Seq(Entries), q # <<>>, NEW act \in Actives, NEW c \in Nat
    PROVE  /\ \A t \in Nat : Replaceable(q, act, t) => Replaceable(Tail(q), Rotated(q, act, c), t)
           /\ \A a \in AssetSet, t \in Nat :
                 Over(q, act, a, t) => Over(Tail(q), Rotated(q, act, c), a, t)
<1> DEFINE h == Head(q)   v == Rotated(q, act, c)   u == Tail(q)
<1>1. /\ h \in Entries /\ h = q[1] /\ Len(u) = Len(q) - 1 /\ Len(q) \in Nat \ {0}
      /\ \A i \in 1..Len(u) : u[i] = q[i + 1]
      /\ \A i \in 1..Len(q) : q[i] \in Entries
  BY HeadTailProperties, LenProperties, EmptySeq
<1>2. /\ v[h.asset].market = h.market
      /\ \A a \in AssetSet : a # h.asset => v[a] = act[a]
  BY <1>1 DEF Entries, Rotated, Actives
<1> HIDE DEF h, v, u
<1>3. \A i \in 1..Len(u) : /\ i + 1 \in 1..Len(q) /\ u[i] = q[i + 1] /\ 1 < i + 1
                           /\ u[i].asset \in AssetSet
  BY <1>1 DEF Entries
<1>4. 1 \in 1..Len(q)
  BY <1>1
<1>5. ASSUME NEW t \in Nat, Replaceable(q, act, t) PROVE Replaceable(u, v, t)
  <2>1. ASSUME NEW i \in 1..Len(u), v[u[i].asset].market # 0
        PROVE  Ending(v[u[i].asset].market, t)
    <3>1. CASE u[i].asset = h.asset
      BY <1>1, <1>2, <1>3, <1>4, <1>5, <3>1 DEF Replaceable
    <3>2. CASE u[i].asset # h.asset
      <4>1. /\ v[u[i].asset] = act[u[i].asset]
            /\ i + 1 \in 1..Len(q) /\ u[i] = q[i + 1]
        BY <1>2, <1>3, <3>2
      <4> QED BY <1>5, <2>1, <4>1 DEF Replaceable
    <3> QED BY <3>1, <3>2
  <2>2. ASSUME NEW i \in 1..Len(u), NEW j \in 1..Len(u), i < j, u[i].asset = u[j].asset
        PROVE  Ending(u[i].market, t)
    <3>1. i + 1 < j + 1
      BY <2>2
    <3> QED BY <1>3, <1>5, <2>2, <3>1 DEF Replaceable
  <2> QED BY <2>1, <2>2 DEF Replaceable
<1>6. ASSUME NEW a \in AssetSet, NEW t \in Nat, Over(q, act, a, t) PROVE Over(u, v, a, t)
  <2>1. v[a].market # 0 => Ending(v[a].market, t)
    BY <1>1, <1>2, <1>4, <1>6 DEF Over
  <2> QED BY <1>3, <1>6, <2>1 DEF Over
<1> QED BY <1>5, <1>6 DEF u, v

\* The event loop takes an entry in.
LEMMA MarketRxKeeps == DiscoveryInv /\ MarketRx => DiscoveryInv'
<1> SUFFICES ASSUME DiscoveryInv, MarketRx PROVE DiscoveryInv'
  OBVIOUS
<1> DEFINE q == market_rx   v == Rotated(market_rx, active, now)
<1>1. /\ active' = v /\ market_rx' = Tail(q) /\ q # <<>> /\ q \in Seq(Entries)
      /\ active \in Actives /\ now \in Nat /\ UNCHANGED <<now, task, missed>>
  BY MarketRxTakes
<1>2. /\ Timely(task, now) /\ Ascending(q, active) /\ Replaceable(q, active, now)
      /\ missed \in BOOLEAN
  BY DEF DiscoveryInv
<1>3. /\ v \in Actives /\ Tail(q) \in Seq(Entries) /\ Ascending(Tail(q), v)
      /\ \A a \in AssetSet, b \in Int : UpTo(q, active, a, b) => UpTo(Tail(q), v, a, b)
  BY <1>1, <1>2, TakenInOrder
<1>4. ASSUME NEW n \in DOMAIN Assets
      PROVE  UpTo(Tail(q), v, Assets[n], LatestOf(task, now, n)) /\ Spaced(n)'
  <2>1. LatestOf(task, now, n) \in Int /\ Assets[n] \in AssetSet
    BY <1>2, LatestType, AssetTypes
  <2>2. UpTo(q, active, Assets[n], LatestOf(task, now, n)) /\ Spaced(n)
    BY DEF DiscoveryInv
  <2>3. Spaced(n)'
    <3>1. task \in Tasks /\ task.wake \in Nat
      BY <1>2 DEF Timely, Tasks
    <3>2. \A t \in Nat : Over(q, active, Assets[n], t) => Over(Tail(q), v, Assets[n], t)
      BY <1>1, <2>1, TakenReplaceable
    <3> HIDE DEF v
    <3> QED BY <1>1, <2>2, <3>1, <3>2 DEF Spaced
  <2> HIDE DEF q, v
  <2> QED BY <1>3, <2>1, <2>2, <2>3
<1>5. ASSUME ~missed PROVE Chained(Tail(q), v) /\ \A n \in DOMAIN Assets : InStep(n)'
  <2>1. Chained(q, active) /\ \A n \in DOMAIN Assets : InStep(n)
    BY <1>5 DEF DiscoveryInv
  <2>2. /\ Chained(Tail(q), v)
        /\ \A a \in AssetSet : \A k : Newest(q, active, a, k) => Newest(Tail(q), v, a, k)
        /\ \A a \in AssetSet : \A k : Follows(q, active, a, k) => Follows(Tail(q), v, a, k)
    BY <1>1, <1>2, <2>1, TakenChained
  <2> HIDE DEF v
  <2> QED BY <1>1, <2>1, <2>2, AssetTypes DEF InStep
<1>6. Replaceable(Tail(q), v, now)
  BY <1>1, <1>2, TakenReplaceable
<1> HIDE DEF q, v
<1> QED BY <1>1, <1>2, <1>3, <1>4, <1>5, <1>6 DEF DiscoveryInv

-----------------------------------------------------------------------------
(* The theorems.                                                           *)

\* Every step keeps the invariant of the discovery.
LEMMA DiscoveryStep == DiscoveryInv /\ [Next]_vars => DiscoveryInv'
<1> SUFFICES ASSUME DiscoveryInv, [Next]_vars PROVE DiscoveryInv'
  OBVIOUS
<1>1. CASE FetchFailed
  BY <1>1, BackoffKeeps, GiveUpKeeps
<1>2. CASE Retry
  BY <1>2, BackoffKeeps
<1>3. CASE UNCHANGED vars
  <2>1. /\ now' = now /\ task' = task /\ missed' = missed
        /\ UNCHANGED <<market_rx, active>>
    BY <1>3 DEF vars
  <2> QED BY <2>1 DEF DiscoveryInv, Spaced, InStep
<1> QED BY <1>1, <1>2, <1>3, ElapseKeeps, WakeUpKeeps, LoopAgainKeeps, FetchedKeeps,
           MarketRxKeeps DEF Next

\* The inductive invariant of discovery: the markets of an asset are sent in
\* ascending order, what has been sent when the task sleeps has opened, and as
\* long as nothing was missed each follows the one before it (main.rs:141-199).
THEOREM DiscoveryCorrect == Spec => []DiscoveryInv
<1> QED BY DiscoveryInit, DiscoveryStep, PTL DEF Spec

\* The type invariant: the markets the loop hands over have theirs because the
\* queue and the active markets do (main.rs:336-380).
THEOREM DiscoveryTypeCorrect == Spec => []TypeOK
<1> DEFINE Handed == redeem_tx \in [AssetSet -> [market: Nat, market_end: Nat]]
<1>1. Init => Handed
  BY DEF Init
<1>2. DiscoveryInv /\ Handed /\ [Next]_vars => Handed'
  <2> SUFFICES ASSUME DiscoveryInv, Handed, [Next]_vars PROVE Handed'
    OBVIOUS
  <2>1. CASE MarketRx
    <3> DEFINE a == Head(market_rx).asset   e == active[a]
    <3>1. Head(market_rx) \in Entries
      BY <2>1, HeadTailProperties DEF MarketRx, DiscoveryInv
    <3>2. a \in AssetSet /\ e \in [market: Nat, open_ts: Nat]
      BY <3>1 DEF Entries, Actives, DiscoveryInv
    <3>3. e.market \in Nat /\ e.open_ts + Interval \in Nat
      BY <3>2, TimingAssumption
    <3>4. [market |-> e.market, market_end |-> e.open_ts + Interval]
             \in [market: Nat, market_end: Nat]
      BY <3>3
    <3> HIDE DEF e
    <3> QED BY <2>1, <3>2, <3>4 DEF MarketRx, e
  <2>2. CASE ~MarketRx
    <3>1. redeem_tx' = redeem_tx
      BY <2>2 DEF Next, vars, WakeUp, Fetched, FetchFailed, Retry, LoopAgain, Elapse
    <3> QED BY <3>1
  <2> QED BY <2>1, <2>2
<1>3. DiscoveryInv /\ Handed => TypeOK
  BY DEF DiscoveryInv, Timely, Tasks, Actives, TypeOK
<1> QED BY <1>1, <1>2, <1>3, DiscoveryCorrect, PTL DEF Spec

\* An asset is rotated to later markets only (main.rs:336-380).
THEOREM RotatesForwardHolds == Spec => RotatesForward
<1>1. DiscoveryInv /\ [Next]_vars => [\A a \in AssetSet : Rotates(a) =>
                                        active'[a].market > active[a].market]_vars
  <2> SUFFICES ASSUME DiscoveryInv, Next, NEW a \in AssetSet, Rotates(a)
               PROVE  active'[a].market > active[a].market
    OBVIOUS
  <2>1. MarketRx
    BY DEF Next, Rotates, WakeUp, Fetched, FetchFailed, Retry, LoopAgain, Elapse
  <2>2. /\ active' = Rotated(market_rx, active, now) /\ market_rx # <<>>
        /\ market_rx \in Seq(Entries) /\ active \in Actives /\ now \in Nat
        /\ Ascending(market_rx, active)
    BY <2>1, MarketRxTakes DEF DiscoveryInv
  <2>3. /\ active'[a].market = Head(market_rx).market
        /\ Head(market_rx).market > active[a].market
    BY <2>2, TakenInOrder DEF Rotates
  <2> QED BY <2>3
<1> QED BY <1>1, DiscoveryCorrect, PTL DEF Spec, RotatesForward

\* As long as every prefetch came in time, no market of an asset is left out
\* (main.rs:141-199 with slug.rs).
THEOREM ConsecutiveMarketsHolds == Spec => ConsecutiveMarkets
<1>1. DiscoveryInv /\ [Next]_vars =>
         [\A a \in AssetSet : Rotates(a) /\ active[a].market # 0 /\ ~missed
             => active'[a].market = active[a].market + Interval]_vars
  <2> SUFFICES ASSUME DiscoveryInv, Next, NEW a \in AssetSet, Rotates(a),
                      active[a].market # 0, ~missed
               PROVE  active'[a].market = active[a].market + Interval
    OBVIOUS
  <2>1. MarketRx
    BY DEF Next, Rotates, WakeUp, Fetched, FetchFailed, Retry, LoopAgain, Elapse
  <2>2. /\ active' = Rotated(market_rx, active, now) /\ market_rx # <<>>
        /\ market_rx \in Seq(Entries) /\ active \in Actives /\ now \in Nat
        /\ Ascending(market_rx, active) /\ Chained(market_rx, active)
    BY <2>1, MarketRxTakes DEF DiscoveryInv
  <2>3. a = Head(market_rx).asset /\ active'[a].market = Head(market_rx).market
    BY <2>2, TakenInOrder DEF Rotates
  <2>4. active[a].market \in {0, Head(market_rx).market - Interval}
    BY <2>2, <2>3, TakenChained
  <2>5. Head(market_rx).market \in Nat /\ Interval \in Nat
    <3>1. Head(market_rx) \in Entries
      BY <2>2, HeadTailProperties
    <3> QED BY <3>1, TimingAssumption DEF Entries
  <2> QED BY <2>3, <2>4, <2>5
<1> QED BY <1>1, DiscoveryCorrect, PTL DEF Spec, ConsecutiveMarkets

\* No manager is replaced more than Advance before the end of its market
\* (main.rs:146-169 and 336-380).
THEOREM NotReplacedEarlyHolds == Spec => NotReplacedEarly
<1>1. DiscoveryInv /\ [Next]_vars =>
         [\A a \in AssetSet : Rotates(a) /\ active[a].market # 0
             => now >= active[a].market + Interval - Advance]_vars
  <2> SUFFICES ASSUME DiscoveryInv, Next, NEW a \in AssetSet, Rotates(a),
                      active[a].market # 0
               PROVE  now >= active[a].market + Interval - Advance
    OBVIOUS
  <2>1. MarketRx
    BY DEF Next, Rotates, WakeUp, Fetched, FetchFailed, Retry, LoopAgain, Elapse
  <2>2. /\ active' = Rotated(market_rx, active, now) /\ market_rx # <<>>
        /\ market_rx \in Seq(Entries) /\ active \in Actives /\ now \in Nat
        /\ Ascending(market_rx, active) /\ Replaceable(market_rx, active, now)
    BY <2>1, MarketRxTakes DEF DiscoveryInv
  <2>3. a = Head(market_rx).asset
    BY <2>2, TakenInOrder DEF Rotates
  <2>4. Head(market_rx) = market_rx[1] /\ 1 \in 1..Len(market_rx)
    BY <2>2, LenProperties, EmptySeq
  <2> QED BY <2>2, <2>3, <2>4 DEF Replaceable, Ending
<1> QED BY <1>1, DiscoveryCorrect, PTL DEF Spec, NotReplacedEarly

-----------------------------------------------------------------------------
(* The ends of the markets handed over.                                    *)

\* At time t market m opens in Interval seconds at most, and in Advance seconds
\* unless something was missed.
Near(m, t, miss) == m - Interval <= t /\ (~miss => m - Advance <= t)

EndInv ==
    /\ task.pc = "Sleep" => NextSlug(task.wake) - Advance <= task.wake
    /\ Prefetching(task) => Near(task.market, now, missed)
    /\ \A i \in 1..Len(market_rx) : Near(market_rx[i].market, now, missed)
    /\ \A a \in AssetSet : active[a].market # 0
                           => Near(active[a].market, active[a].open_ts, missed)
    /\ HandedOverOnTime

\* When the loop wakes, the next market opens in Advance seconds at most.
LEMMA SleepsNear ==
    ASSUME NEW t \in Nat
    PROVE  NextSlug(SleepUntil(t)) - Advance <= SleepUntil(t)
<1>1. /\ SleepUntil(t) \in Nat /\ t <= SleepUntil(t) /\ SleepUntil(t) < NextSlug(t)
      /\ SleepUntil(t) >= NextSlug(t) - Advance
  BY SleepUntilIs
<1>2. NextSlug(t) \in Nat /\ IsBoundary(NextSlug(t)) /\ NextSlug(t) - Interval <= t
  BY NextSlugIs, TimingAssumption
<1>3. NextSlug(SleepUntil(t)) = NextSlug(t)
  BY <1>1, <1>2, NextSlugUnique, TimingAssumption
<1> QED BY <1>1, <1>2, <1>3, TimingAssumption

\* At the start no market was handed over.
LEMMA EndInit == Init => EndInv
<1> SUFFICES ASSUME Init PROVE EndInv
  OBVIOUS
<1>1. now \in Nat /\ task = Awaiting("Sleep", SleepUntil(now)) /\ Len(market_rx) = 0
  BY TimingAssumption DEF Init
<1>2. NextSlug(task.wake) - Advance <= task.wake /\ ~Prefetching(task)
  BY <1>1, SleepsNear DEF Awaiting, Prefetching
<1> QED BY <1>1, <1>2 DEF Init, EndInv, HandedOverOnTime

\* What is near stays near while time passes, also when something is missed.
LEMMA NearStays ==
    ASSUME NEW m \in Nat, NEW t \in Nat, NEW u \in Nat, t <= u,
           NEW x \in BOOLEAN, NEW y \in BOOLEAN, x => y, Near(m, t, x)
    PROVE  Near(m, u, y)
BY TimingAssumption DEF Near

\* The end of the market handed over stays on time.
LEMMA HandedStays ==
    ASSUME TypeOK, HandedOverOnTime, redeem_tx' = redeem_tx, missed' \in BOOLEAN,
           missed => missed'
    PROVE  HandedOverOnTime'
BY DEF HandedOverOnTime, TypeOK

\* The steps of the task and of the clock: at most a market that is near is sent.
LEMMA EndStays ==
    ASSUME TypeOK, TypeOK', EndInv, now <= now', missed => missed',
           UNCHANGED <<active, redeem_tx>>,
           task'.pc = "Sleep" => NextSlug(task'.wake) - Advance <= task'.wake,
           Prefetching(task') => Near(task'.market, now', missed'),
           \A i \in 1..Len(market_rx') :
              \/ i \in 1..Len(market_rx) /\ market_rx'[i] = market_rx[i]
              \/ Near(market_rx'[i].market, now', missed')
    PROVE  EndInv'
<1>1. now \in Nat /\ now' \in Nat /\ missed \in BOOLEAN /\ missed' \in BOOLEAN
  BY DEF TypeOK
<1>2. ASSUME NEW i \in 1..Len(market_rx') PROVE Near(market_rx'[i].market, now', missed')
  <2>1. ASSUME i \in 1..Len(market_rx) PROVE market_rx[i].market \in Nat
    <3>1. market_rx[i] \in Entries
      BY <2>1 DEF TypeOK
    <3> QED BY <3>1 DEF Entries
  <2> QED BY <1>1, <2>1, NearStays DEF EndInv
<1>3. ASSUME NEW a \in AssetSet, active'[a].market # 0
      PROVE  Near(active'[a].market, active'[a].open_ts, missed')
  <2>1. active[a].market \in Nat /\ active[a].open_ts \in Nat
    BY DEF TypeOK
  <2> QED BY <1>1, <1>3, <2>1, NearStays DEF EndInv
<1>4. HandedOverOnTime'
  BY <1>1, HandedStays DEF EndInv
<1> QED BY <1>2, <1>3, <1>4 DEF EndInv

\* The body of the loop ends: the next market is near unless this one was missed.
LEMMA NextAssetNear ==
    ASSUME Timely(task, now), task.pc = "Fetch", NextAsset, now' = now,
           Near(task.market, now, missed), missed \in BOOLEAN, missed' \in BOOLEAN,
           missed \/ now >= task.market => missed'
    PROVE  /\ task'.pc # "Sleep"
           /\ Prefetching(task') => Near(task'.market, now', missed')
<1>1. /\ NextSlug(now) \in Nat
      /\ now < task.market => NextSlug(now) = task.market
      /\ \/ task'.pc = "Fetch" /\ task'.market = NextSlug(now)
         \/ task'.pc = "Rest"
  BY NextAssetIs
<1>2. now \in Nat /\ task.market \in Nat
  BY DEF Timely, Tasks
<1>3. NextSlug(now) - Interval <= now
  BY <1>2, NextSlugIs, TimingAssumption
<1>4. ASSUME ~missed' PROVE NextSlug(now) - Advance <= now
  <2>1. ~missed /\ ~(now >= task.market)
    BY <1>4, Zenon
  <2>2. NextSlug(now) = task.market
    BY <1>1, <1>2, <2>1
  <2> QED BY <2>1, <2>2 DEF Near
<1>5. Near(NextSlug(now), now, missed')
  BY <1>3, <1>4 DEF Near
<1> QED BY <1>1, <1>5 DEF Prefetching

\* A market taken in is near.
LEMMA TakenNear ==
    ASSUME TypeOK, TypeOK', EndInv, MarketRx
    PROVE  EndInv'
<1> DEFINE h == Head(market_rx)   c == h.asset   e == active[c]
<1>1. /\ market_rx \in Seq(Entries) /\ market_rx # <<>> /\ market_rx' = Tail(market_rx)
      /\ UNCHANGED <<now, task, missed>> /\ now \in Nat /\ missed \in BOOLEAN
  BY DEF MarketRx, TypeOK
<1>2. /\ h \in Entries /\ h = market_rx[1] /\ Len(market_rx) \in Nat \ {0}
      /\ Len(Tail(market_rx)) = Len(market_rx) - 1
      /\ \A i \in 1..Len(Tail(market_rx)) : Tail(market_rx)[i] = market_rx[i + 1]
  BY <1>1, HeadTailProperties, LenProperties, EmptySeq
<1>3. c \in AssetSet /\ h.market \in Nat /\ e.market \in Nat /\ e.open_ts \in Nat
  BY <1>2 DEF Entries, TypeOK
<1>4. /\ active' = [active EXCEPT ![c] = [market |-> h.market, open_ts |-> now]]
      /\ redeem_tx' = IF e.market = 0 THEN redeem_tx
                      ELSE [redeem_tx EXCEPT ![c] =
                              [market |-> e.market, market_end |-> e.open_ts + Interval]]
  BY DEF MarketRx
<1>5. Near(h.market, now, missed)
  BY <1>2 DEF EndInv
<1>6. e.market # 0 => Near(e.market, e.open_ts, missed)
  BY <1>3 DEF EndInv
<1> HIDE DEF h, c, e
<1>7. ASSUME NEW i \in 1..Len(market_rx') PROVE Near(market_rx'[i].market, now', missed')
  BY <1>1, <1>2 DEF EndInv
<1>8. ASSUME NEW a \in AssetSet, active'[a].market # 0
      PROVE  Near(active'[a].market, active'[a].open_ts, missed')
  <2>1. CASE a = c
    BY <1>1, <1>3, <1>4, <1>5, <2>1 DEF TypeOK
  <2>2. CASE a # c
    <3>1. active'[a] = active[a]
      BY <1>3, <1>4, <2>2 DEF TypeOK
    <3> QED BY <1>1, <1>8, <3>1 DEF EndInv
  <2> QED BY <2>1, <2>2
<1>9. HandedOverOnTime'
  <2> SUFFICES ASSUME NEW a \in AssetSet, redeem_tx'[a].market # 0
               PROVE  /\ redeem_tx'[a].market_end >= redeem_tx'[a].market
                      /\ ~missed => redeem_tx'[a].market_end
                                      >= redeem_tx'[a].market + Interval - Advance
    BY <1>1 DEF HandedOverOnTime
  <2>1. CASE a = c /\ e.market # 0
    <3>1. /\ redeem_tx'[a].market = e.market
          /\ redeem_tx'[a].market_end = e.open_ts + Interval
      BY <1>3, <1>4, <2>1 DEF TypeOK
    <3> QED BY <1>3, <1>6, <2>1, <3>1, TimingAssumption DEF Near
  <2>2. CASE ~(a = c /\ e.market # 0)
    <3>1. redeem_tx'[a] = redeem_tx[a]
      BY <1>3, <1>4, <2>2 DEF TypeOK
    <3> QED BY <3>1 DEF EndInv, HandedOverOnTime
  <2> QED BY <2>1, <2>2
<1> QED BY <1>1, <1>7, <1>8, <1>9 DEF EndInv

\* Every step keeps the ends of the markets handed over.
LEMMA EndStep ==
    DiscoveryInv /\ TypeOK /\ TypeOK' /\ EndInv /\ [Next]_vars => EndInv'
<1> SUFFICES ASSUME DiscoveryInv, TypeOK, TypeOK', EndInv, [Next]_vars PROVE EndInv'
  OBVIOUS
<1>1. now \in Nat /\ now' \in Nat /\ missed \in BOOLEAN /\ missed' \in BOOLEAN
  BY DEF TypeOK
<1>2. Timely(task, now) /\ task.market \in Nat
  BY DEF DiscoveryInv, TypeOK
<1>3. CASE WakeUp
  <2>1. /\ task' = [pc |-> "Fetch", wake |-> now, asset |-> 1, attempt |-> 0,
                    market |-> NextSlug(now)]
        /\ UNCHANGED <<now, market_rx, active, redeem_tx, missed>>
        /\ task.pc = "Sleep" /\ now >= task.wake
    BY <1>3 DEF WakeUp, Fetching
  <2>2. now = task.wake
    BY <1>2, <2>1 DEF Timely, Tasks, Prefetching
  <2>3. Near(NextSlug(now), now, missed)
    <3>1. NextSlug(now) \in Nat /\ NextSlug(now) <= now + Interval
      BY <1>1, NextSlugIs
    <3>2. NextSlug(now) - Advance <= now
      BY <2>1, <2>2 DEF EndInv
    <3> QED BY <1>1, <3>1, <3>2, TimingAssumption DEF Near
  <2> QED BY <1>1, <2>1, <2>3, EndStays DEF Prefetching
<1>4. CASE Fetched
  <2>1. /\ task.pc = "Fetch" /\ NextAsset /\ missed' = (missed \/ now >= task.market)
        /\ market_rx' = Append(market_rx, [asset |-> Assets[task.asset],
                                           market |-> task.market])
        /\ UNCHANGED <<now, active, redeem_tx>>
    BY <1>4 DEF Fetched
  <2>2. Near(task.market, now, missed)
    BY <2>1 DEF EndInv, Prefetching
  <2>3. task'.pc # "Sleep" /\ (Prefetching(task') => Near(task'.market, now', missed'))
    BY <1>1, <1>2, <2>1, <2>2, NextAssetNear
  <2>4. (missed => missed') /\ Near(task.market, now', missed')
    <3>1. missed => missed'
      BY <2>1, Zenon
    <3>2. now <= now /\ now' = now
      BY <1>1, <2>1
    <3> QED BY <1>1, <1>2, <2>2, <3>1, <3>2, NearStays
  <2>5. ASSUME NEW i \in 1..Len(market_rx')
        PROVE  \/ i \in 1..Len(market_rx) /\ market_rx'[i] = market_rx[i]
               \/ market_rx'[i].market = task.market
    <3>1. market_rx \in Seq(Entries) /\ Len(market_rx) \in Nat
      BY <1>2, LenProperties DEF TypeOK
    <3>2. CASE i \in 1..Len(market_rx)
      BY <2>1, <3>1, <3>2
    <3>3. CASE i = Len(market_rx) + 1
      BY <2>1, <3>1, <3>3
    <3>4. Len(market_rx') = Len(market_rx) + 1
      BY <2>1, <3>1
    <3> QED BY <3>1, <3>2, <3>3, <3>4
  <2> QED BY <1>1, <2>1, <2>3, <2>4, <2>5, EndStays
<1>5. CASE FetchFailed /\ LastAttempt(task.attempt)
  <2>1. /\ task.pc = "Fetch" /\ NextAsset /\ now' = now
        /\ missed' = TRUE /\ UNCHANGED <<market_rx, active, redeem_tx>>
    BY <1>5 DEF FetchFailed
  <2>2. Near(task.market, now, missed)
    BY <2>1 DEF EndInv, Prefetching
  <2>3. (missed \/ now >= task.market => missed') /\ (missed => missed')
    BY <2>1, Zenon
  <2>4. task'.pc # "Sleep" /\ (Prefetching(task') => Near(task'.market, now', missed'))
    BY <1>1, <1>2, <2>1, <2>2, <2>3, NextAssetNear, Zenon
  <2>5. now <= now' /\ UNCHANGED <<market_rx, active, redeem_tx>>
    BY <1>1, <2>1
  <2>6. missed => missed'
    BY <2>3
  <2> QED BY <2>4, <2>5, <2>6, EndStays
<1>6. CASE Retry \/ (FetchFailed /\ ~LastAttempt(task.attempt))
  <2>1. /\ task'.pc # "Sleep" /\ task'.market = task.market /\ Prefetching(task)
        /\ UNCHANGED <<now, market_rx, active, redeem_tx, missed>>
    BY <1>6 DEF Retry, FetchFailed, Prefetching, TypeOK
  <2> QED BY <1>1, <2>1, EndStays DEF EndInv
<1>7. CASE LoopAgain
  <2>1. /\ task'.pc = "Sleep" /\ task'.wake = SleepUntil(now)
        /\ UNCHANGED <<now, market_rx, active, redeem_tx, missed>>
    BY <1>7 DEF LoopAgain, Awaiting
  <2> QED BY <1>1, <2>1, SleepsNear, EndStays DEF Prefetching
<1>8. CASE MarketRx
  BY <1>8, TakenNear
<1>9. CASE Elapse
  <2>1. now' = now + 1 /\ UNCHANGED <<task, market_rx, active, redeem_tx, missed>>
    BY <1>9 DEF Elapse
  <2>2. Prefetching(task) => Near(task.market, now', missed)
    BY <1>1, <1>2, <2>1, NearStays DEF EndInv
  <2> QED BY <1>1, <2>1, <2>2, EndStays DEF EndInv
<1>10. CASE UNCHANGED vars
  BY <1>10 DEF vars, EndInv, HandedOverOnTime
<1> QED BY <1>3, <1>4, <1>5, <1>6, <1>7, <1>8, <1>9, <1>10 DEF Next

\* The end handed to the redeemer is never before the opening of the market, and
\* at most Advance before its end as long as every prefetch came in time
\* (main.rs:141-199 and 346-355).
THEOREM HandedOverOnTimeHolds == Spec => []HandedOverOnTime
<1>1. EndInv => HandedOverOnTime
  BY DEF EndInv
<1> QED BY <1>1, EndInit, EndStep, DiscoveryCorrect, DiscoveryTypeCorrect, PTL DEF Spec
=============================================================================
