-------------------------- MODULE PolyFeed_proofs --------------------------
(***************************************************************************)
(* The safety properties of PolyFeed for any number of markets and any     *)
(* set of prices.                                                          *)
(***************************************************************************)
EXTENDS PolyFeed, QueueLemmas

Reports == [market : Markets, price : Quotes]

(***************************************************************************)
(* The last word about a subscribed market is the exchange's: the last     *)
(* message about it on the wire; when there is none, its last event; when  *)
(* there is none either, what the loop believes.                           *)
(***************************************************************************)
LastMessage(w, m, i) == m \in DOMAIN w[i] /\ \A j \in 1..Len(w) : j > i => m \notin DOMAIN w[j]
LastEvent(q, m, i)   == q[i].market = m /\ \A j \in 1..Len(q) : j > i => q[j].market # m

Silent(w, m) == \A i \in 1..Len(w) : m \notin DOMAIN w[i]
Absent(q, m) == \A i \in 1..Len(q) : q[i].market # m

LastWord(m, w, q, price, believed) ==
    /\ \A i \in 1..Len(w) : LastMessage(w, m, i) => w[i][m] = price
    /\ Silent(w, m) => \A i \in 1..Len(q) : LastEvent(q, m, i) => q[i].price = price
    /\ Silent(w, m) /\ Absent(q, m) /\ price # NoPrice => believed = price

FeedInv ==
    /\ TypeOK
    /\ TokensInOrder
    /\ SubscriptionComplete
    /\ ws = "Wait" <=> all_token_ids = <<>>
    /\ \A m \in subscribed : LastWord(m, wire, poly_rx, quote[m], token_prices[m])

-----------------------------------------------------------------------------
(* Types.                                                                  *)

\* A subscription names markets, and at least one once a token is known.
LEMMA RangeType ==
    ASSUME TypeOK
    PROVE  Subscription \in SUBSET Markets /\ (all_token_ids # <<>> => Subscription # {})
  <1>1. /\ all_token_ids \in [1..Len(all_token_ids) -> Markets] /\ Len(all_token_ids) \in Nat
        /\ DOMAIN all_token_ids = 1..Len(all_token_ids)
        /\ all_token_ids # <<>> => Len(all_token_ids) \in Nat \ {0}
    BY LenProperties, EmptySeq DEF TypeOK
  <1>2. Subscription = {all_token_ids[i] : i \in 1..Len(all_token_ids)}
    BY <1>1 DEF Subscription, Range
  <1>3. all_token_ids # <<>> => 1 \in 1..Len(all_token_ids)
    BY <1>1
  <1> QED BY <1>1, <1>2, <1>3

\* Quotes of some markets make a message.
LEMMA MessagesOf ==
    ASSUME NEW S \in SUBSET Markets, S # {}, NEW f \in [S -> Quotes]
    PROVE  f \in Messages
  <1>1. S \in (SUBSET Markets) \ {{}}
    OBVIOUS
  <1> QED BY <1>1 DEF Messages

\* The events of a message are reports about its markets, each with its price.
LEMMA EventsOf ==
    ASSUME NEW msg \in Messages
    PROVE  /\ Events(msg) \in Seq(Reports)
           /\ \A i \in 1..Len(Events(msg)) :
                 LET e == Events(msg)[i] IN e.market \in DOMAIN msg /\ e.price = msg[e.market]
           /\ \A m \in DOMAIN msg : \E i \in 1..Len(Events(msg)) : Events(msg)[i].market = m
  <1> DEFINE D == DOMAIN msg   ms == SetToSeq(D)   n == Cardinality(D)   es == Events(msg)
  <1>1. D \in SUBSET Markets /\ msg \in [D -> Quotes]
    BY DEF Messages
  <1>2. IsFiniteSet(D)
    <2>1. 1 \in Int /\ MaxMarkets \in Int
      BY BoundsAssumption
    <2>2. IsFiniteSet(Markets)
      BY <2>1, FS_Interval DEF Markets
    <2> QED BY <1>1, <2>2, FS_Subset
  <1>3. /\ ms \in Seq(D) /\ DOMAIN ms = 1..n /\ n \in Nat
        /\ \A x \in D : \E i \in 1..n : ms[i] = x
    BY <1>2, SetToSeqLists
  <1>4. es = [i \in 1..n |-> [market |-> ms[i], price |-> msg[ms[i]]]]
    BY <1>3 DEF Events
  <1> HIDE DEF ms, es, n
  <1>5. \A i \in 1..n : ms[i] \in D
    BY <1>3, LenProperties
  <1>6. \A i \in 1..n : es[i] \in Reports /\ es[i].market = ms[i] /\ es[i].price = msg[ms[i]]
    BY <1>1, <1>4, <1>5 DEF Reports
  <1>7. es \in Seq(Reports) /\ Len(es) = n
    BY <1>3, <1>4, <1>6
  <1>8. \A i \in 1..n : es[i].market \in D /\ es[i].price = msg[es[i].market]
    BY <1>5, <1>6
  <1>9. \A m \in D : \E i \in 1..n : es[i].market = m
    BY <1>3, <1>6
  <1> QED BY <1>7, <1>8, <1>9 DEF es

\* The initial state has its type.
LEMMA InitType == Init => TypeOK
  <1> SUFFICES ASSUME Init PROVE TypeOK
    OBVIOUS
  <1>1. <<>> \in Seq(Markets) /\ <<>> \in Seq(Messages) /\ <<>> \in Seq(Reports) /\ Len(<<>>) = 0
    BY EmptySeq
  <1>2. quote \in [Markets -> Quotes] /\ token_prices \in [Markets -> Quotes]
    BY DEF Init, Quotes
  <1> QED BY <1>1, <1>2, BoundsAssumption DEF Init, TypeOK, Reports

\* Every step keeps the type; the feed waits as long as it has no token.
LEMMA NextType ==
    ASSUME TypeOK, [Next]_vars, ws = "Wait" <=> all_token_ids = <<>>
    PROVE  TypeOK' /\ (ws = "Wait" <=> all_token_ids = <<>>)'
  <1>1. /\ sent \in 0..MaxMarkets /\ sub_rx \in Seq(Markets) /\ all_token_ids \in Seq(Markets)
        /\ ws \in {"Wait", "Connect", "Open", "Sleep"} /\ subscribed \in SUBSET Markets
        /\ wire \in Seq(Messages) /\ Len(wire) <= MaxWire /\ Len(wire) \in Nat
        /\ quote \in [Markets -> Quotes] /\ token_prices \in [Markets -> Quotes]
        /\ poly_rx \in Seq(Reports) /\ Len(poly_rx) <= MaxEvents /\ Len(poly_rx) \in Nat
        /\ ws # "Open" => subscribed = {} /\ wire = <<>>
        /\ MaxMarkets \in Nat /\ MaxWire \in Nat \ {0} /\ MaxEvents \in Nat
        /\ <<>> \in Seq(Messages) /\ Len(<<>>) = 0
    BY BoundsAssumption, LenProperties, EmptySeq DEF TypeOK, Reports
  <1>2. sub_rx # <<>> => /\ Head(sub_rx) \in Markets /\ Tail(sub_rx) \in Seq(Markets)
                         /\ <<Head(sub_rx)>> \in Seq(Markets) /\ <<Head(sub_rx)>> # <<>>
                         /\ Append(all_token_ids, Head(sub_rx)) \in Seq(Markets)
                         /\ Append(all_token_ids, Head(sub_rx)) # <<>>
    <2> SUFFICES ASSUME sub_rx # <<>>
                 PROVE  /\ Head(sub_rx) \in Markets /\ Tail(sub_rx) \in Seq(Markets)
                        /\ <<Head(sub_rx)>> \in Seq(Markets) /\ <<Head(sub_rx)>> # <<>>
                        /\ Append(all_token_ids, Head(sub_rx)) \in Seq(Markets)
                        /\ Append(all_token_ids, Head(sub_rx)) # <<>>
      OBVIOUS
    <2>1. Head(sub_rx) \in Markets /\ Tail(sub_rx) \in Seq(Markets)
      BY <1>1, HeadTailProperties
    <2>2. <<Head(sub_rx)>> \in Seq(Markets) /\ <<Head(sub_rx)>> # <<>>
      BY <2>1
    <2> QED BY <1>1, <2>1, <2>2, AppendProperties
  <1>3. CASE UNCHANGED vars
    BY <1>1, <1>3 DEF vars, TypeOK, Reports
  <1>4. CASE Activate
    <2>1. sent + 1 \in 0..MaxMarkets /\ sent + 1 \in Markets
      BY <1>1, <1>4 DEF Activate, Markets
    <2>2. Append(sub_rx, sent + 1) \in Seq(Markets)
      BY <1>1, <2>1, AppendProperties
    <2> QED BY <1>1, <1>4, <2>1, <2>2 DEF Activate, TypeOK, Reports
  <1>5. CASE TakeIn
    <2>1. /\ Head(poly_rx) \in Reports /\ Tail(poly_rx) \in Seq(Reports)
          /\ Len(Tail(poly_rx)) = Len(poly_rx) - 1
      BY <1>1, <1>5, HeadTailProperties DEF TakeIn
    <2>2. token_prices' \in [Markets -> Quotes]
      BY <1>1, <1>5, <2>1 DEF TakeIn, Reports
    <2> QED BY <1>1, <1>5, <2>1, <2>2 DEF TakeIn, TypeOK, Reports
  <1>6. CASE FirstBatch
    BY <1>1, <1>2, <1>6 DEF FirstBatch, TypeOK, Reports
  <1>7. CASE Connected
    <2>1. Subscription \in SUBSET Markets /\ Subscription # {}
      BY <1>7, RangeType DEF Connected
    <2>2. [m \in Subscription |-> quote[m]] \in Messages
      <3>1. [m \in Subscription |-> quote[m]] \in [Subscription -> Quotes]
        BY <1>1, <2>1
      <3> QED BY <2>1, <3>1, MessagesOf
    <2>3. /\ <<[m \in Subscription |-> quote[m]]>> \in Seq(Messages)
          /\ Len(<<[m \in Subscription |-> quote[m]]>>) = 1
      BY <2>2
    <2> QED BY <1>1, <1>7, <2>1, <2>3 DEF Connected, TypeOK, Reports
  <1>8. CASE SubscribeFails \/ ConnectFails \/ Wake
    BY <1>1, <1>8 DEF SubscribeFails, ConnectFails, Wake, TypeOK, Reports
  <1>9. CASE NewTokens
    BY <1>1, <1>2, <1>9 DEF NewTokens, Drop, TypeOK, Reports
  <1>10. CASE Disconnected
    BY <1>1, <1>10 DEF Disconnected, Drop, TypeOK, Reports
  <1>11. CASE ReadMessage
    <2>1. /\ Head(wire) \in Messages /\ Tail(wire) \in Seq(Messages)
          /\ Len(Tail(wire)) = Len(wire) - 1
      BY <1>1, <1>11, HeadTailProperties DEF ReadMessage
    <2>2. Events(Head(wire)) \in Seq(Reports)
      BY <2>1, EventsOf
    <2>3. /\ poly_rx \o Events(Head(wire)) \in Seq(Reports)
          /\ Len(poly_rx \o Events(Head(wire))) <= MaxEvents
      BY <1>1, <1>11, <2>2, ConcatProperties DEF ReadMessage
    <2> QED BY <1>1, <1>11, <2>1, <2>3 DEF ReadMessage, TypeOK, Reports
  <1>12. ASSUME NEW m \in Markets, NEW p \in Quotes, Requote(m, p)
         PROVE  TypeOK' /\ (ws = "Wait" <=> all_token_ids = <<>>)'
    <2>1. quote' \in [Markets -> Quotes]
      BY <1>1, <1>12 DEF Requote
    <2>2. [n \in {m} |-> p] \in Messages
      <3>1. [n \in {m} |-> p] \in [{m} -> Quotes] /\ {m} \in SUBSET Markets /\ {m} # {}
        OBVIOUS
      <3> QED BY <3>1, MessagesOf
    <2>3. /\ Append(wire, [n \in {m} |-> p]) \in Seq(Messages)
          /\ Len(Append(wire, [n \in {m} |-> p])) = Len(wire) + 1
      BY <1>1, <2>2, AppendProperties
    <2>4. /\ wire' \in Seq(Messages) /\ Len(wire') <= MaxWire
          /\ ws # "Open" => wire' = <<>>
      <3>1. CASE m \in subscribed
        <4>1. Len(wire) < MaxWire /\ wire' = Append(wire, [n \in {m} |-> p]) /\ ws = "Open"
          BY <1>1, <1>12, <3>1 DEF Requote
        <4> QED BY <1>1, <2>3, <4>1
      <3>2. CASE m \notin subscribed
        BY <1>1, <1>12, <3>2 DEF Requote
      <3> QED BY <3>1, <3>2
    <2> QED BY <1>1, <1>12, <2>1, <2>4 DEF Requote, TypeOK, Reports
  <1> QED BY <1>3, <1>4, <1>5, <1>6, <1>7, <1>8, <1>9, <1>10, <1>11, <1>12 DEF Next

-----------------------------------------------------------------------------
(* The markets, in the order of their activation.                          *)

\* Tokens stay in the order in which they were handed to the feed.
LEMMA OrderKept ==
    ASSUME FeedInv, [Next]_vars
    PROVE  TokensInOrder'
  <1>1. /\ sent \in Nat /\ sub_rx \in Seq(Markets) /\ all_token_ids \in Seq(Markets)
        /\ all_token_ids \o sub_rx = [i \in 1..sent |-> i]
        /\ ws = "Wait" => all_token_ids = <<>>
    BY BoundsAssumption DEF FeedInv, TypeOK, TokensInOrder
  <1>2. CASE UNCHANGED <<sent, sub_rx, all_token_ids>>
    BY <1>1, <1>2 DEF TokensInOrder
  <1>3. CASE Activate
    <2> DEFINE s == [i \in 1..sent |-> i]   n == sent + 1   r == Append(s, n)
    <2>1. n \in Markets /\ n \in Nat
      BY <1>1, <1>3, BoundsAssumption DEF Activate, Markets
    <2>2. sent' = n /\ sub_rx' = Append(sub_rx, n) /\ all_token_ids' = all_token_ids
      BY <1>3 DEF Activate
    <2>3. s \in Seq(Nat) /\ Len(s) = sent /\ (\A i \in 1..sent : s[i] = i)
      BY <1>1
    <2>4. all_token_ids \o sub_rx = s
      BY <1>1
    <2> HIDE DEF s
    <2>5. all_token_ids \o Append(sub_rx, n) = r
      BY <1>1, <2>1, <2>4, AppendedLast
    <2>6. r \in Seq(Nat) /\ Len(r) = n /\ r[n] = n /\ \A i \in 1..sent : r[i] = s[i]
      BY <1>1, <2>1, <2>3, AppendProperties
    <2>7. r = [i \in 1..n |-> i]
      <3>1. r \in [1..n -> Nat]
        BY <2>6, LenProperties
      <3>2. ASSUME NEW i \in 1..n PROVE r[i] = i
        <4>1. i \in 1..sent \/ i = n
          BY <1>1
        <4>2. CASE i \in 1..sent
          BY <2>3, <2>6, <4>2
        <4> QED BY <2>6, <4>1, <4>2
      <3> HIDE DEF r, n
      <3> QED BY <3>1, <3>2
    <2> QED BY <2>2, <2>5, <2>7 DEF TokensInOrder
  <1>4. CASE FirstBatch \/ NewTokens
    <2>1. /\ sub_rx # <<>> /\ sub_rx' = Tail(sub_rx) /\ sent' = sent
          /\ all_token_ids' = Append(all_token_ids, Head(sub_rx))
      <3>1. CASE FirstBatch
        <4>1. all_token_ids = <<>> /\ all_token_ids' = <<Head(sub_rx)>>
          BY <1>1, <3>1 DEF FirstBatch
        <4>2. Append(<<>>, Head(sub_rx)) = <<Head(sub_rx)>>
          OBVIOUS
        <4> QED BY <3>1, <4>1, <4>2 DEF FirstBatch
      <3>2. CASE NewTokens
        BY <3>2 DEF NewTokens
      <3> QED BY <1>4, <3>1, <3>2
    <2>2. Append(all_token_ids, Head(sub_rx)) \o Tail(sub_rx) = all_token_ids \o sub_rx
      BY <1>1, <2>1, PassedOn
    <2> QED BY <1>1, <2>1, <2>2 DEF TokensInOrder
  <1> QED BY <1>2, <1>3, <1>4 DEF Next, vars, TakeIn, Connected, SubscribeFails, ConnectFails,
             Disconnected, ReadMessage, Wake, Requote

\* A subscription stays empty or one for every token known.
LEMMA CompleteKept ==
    ASSUME FeedInv, [Next]_vars
    PROVE  SubscriptionComplete'
  <1>1. subscribed \in {{}, Range(all_token_ids)} /\ (ws # "Open" => subscribed = {})
    BY DEF FeedInv, TypeOK, SubscriptionComplete
  <1>2. CASE UNCHANGED <<subscribed, all_token_ids>>
    BY <1>1, <1>2 DEF SubscriptionComplete
  <1>3. CASE FirstBatch
    BY <1>1, <1>3 DEF FirstBatch, SubscriptionComplete
  <1>4. CASE Connected
    BY <1>4 DEF Connected, Subscription, SubscriptionComplete
  <1>5. CASE NewTokens \/ Disconnected
    BY <1>5 DEF NewTokens, Disconnected, Drop, SubscriptionComplete
  <1> QED BY <1>2, <1>3, <1>4, <1>5 DEF Next, vars, Activate, TakeIn, SubscribeFails, ConnectFails,
             ReadMessage, Wake, Requote

-----------------------------------------------------------------------------
(* The last word about a market.                                           *)

\* The loop takes in the oldest event.
LEMMA TakeInLast ==
    ASSUME NEW m, NEW w, NEW q \in Seq(Reports), q # <<>>, NEW price, NEW b,
           LastWord(m, w, q, price, b)
    PROVE  LastWord(m, w, Tail(q), price,
                    IF Head(q).market = m /\ Head(q).price # NoPrice THEN Head(q).price ELSE b)
  <1> DEFINE r == Tail(q)   h == Head(q)
             c == IF h.market = m /\ h.price # NoPrice THEN h.price ELSE b
  <1>1. /\ Len(q) \in Nat \ {0} /\ Len(r) = Len(q) - 1
        /\ \A i \in 1..Len(r) : r[i] = q[i + 1]
        /\ h = q[1]
    BY HeadTailProperties, EmptySeq
  <1> HIDE DEF r, h
  <1>2. ASSUME NEW i \in 1..Len(r), LastEvent(r, m, i), Silent(w, m) PROVE r[i].price = price
    <2>1. i + 1 \in 1..Len(q) /\ r[i] = q[i + 1]
      BY <1>1
    <2>2. ASSUME NEW j \in 1..Len(q), j > i + 1 PROVE q[j].market # m
      <3>1. j - 1 \in 1..Len(r) /\ j - 1 > i /\ r[j - 1] = q[(j - 1) + 1] /\ (j - 1) + 1 = j
        BY <1>1, <2>2
      <3> QED BY <3>1, <1>2 DEF LastEvent
    <2>3. LastEvent(q, m, i + 1)
      BY <2>1, <2>2, <1>2 DEF LastEvent
    <2> QED BY <2>1, <2>3, <1>2 DEF LastWord
  <1>3. ASSUME Silent(w, m), Absent(r, m), price # NoPrice PROVE c = price
    <2>1. ASSUME NEW j \in 1..Len(q), j > 1 PROVE q[j].market # m
      <3>1. j - 1 \in 1..Len(r) /\ r[j - 1] = q[(j - 1) + 1] /\ (j - 1) + 1 = j
        BY <1>1, <2>1
      <3> QED BY <3>1, <1>3 DEF Absent
    <2>2. CASE h.market = m
      <3>1. 1 \in 1..Len(q) /\ LastEvent(q, m, 1)
        BY <1>1, <2>1, <2>2 DEF LastEvent
      <3>2. h.price = price
        BY <3>1, <1>1, <1>3 DEF LastWord
      <3> QED BY <3>2, <2>2, <1>3
    <2>3. CASE h.market # m
      <3>1. Absent(q, m)
        BY <1>1, <2>1, <2>3 DEF Absent
      <3> QED BY <3>1, <2>3, <1>3 DEF LastWord
    <2> QED BY <2>2, <2>3
  <1>4. LastWord(m, w, r, price, c)
    BY <1>2, <1>3 DEF LastWord
  <1> QED BY <1>4 DEF r, h

\* The task reads a message and passes its prices on.
LEMMA ReadLast ==
    ASSUME NEW m, NEW w \in Seq(Messages), w # <<>>, NEW q \in Seq(Reports), NEW price, NEW b,
           LastWord(m, w, q, price, b)
    PROVE  LastWord(m, Tail(w), q \o Events(Head(w)), price, b)
  <1> DEFINE v == Tail(w)   h == Head(w)   es == Events(h)   r == q \o es
  <1>1. /\ Len(w) \in Nat \ {0} /\ Len(v) = Len(w) - 1
        /\ \A i \in 1..Len(v) : v[i] = w[i + 1]
        /\ h = w[1] /\ h \in Messages
    BY HeadTailProperties, EmptySeq
  <1>2. /\ es \in Seq(Reports)
        /\ \A i \in 1..Len(es) : es[i].market \in DOMAIN h /\ es[i].price = h[es[i].market]
        /\ \A n \in DOMAIN h : \E i \in 1..Len(es) : es[i].market = n
    BY <1>1, EventsOf
  <1> HIDE DEF v, h, es
  <1>3. /\ Len(q) \in Nat /\ Len(es) \in Nat /\ Len(r) = Len(q) + Len(es)
        /\ \A i \in 1..(Len(q) + Len(es)) : r[i] = IF i <= Len(q) THEN q[i] ELSE es[i - Len(q)]
    BY <1>2, ConcatProperties, LenProperties
  <1> HIDE DEF r
  <1>4. \A j \in 1..Len(w) : j > 1 => /\ j - 1 \in 1..Len(v) /\ v[j - 1] = w[(j - 1) + 1]
                                      /\ (j - 1) + 1 = j
    BY <1>1
  <1>5. ASSUME NEW i \in 1..Len(v), LastMessage(v, m, i) PROVE v[i][m] = price
    <2>1. i + 1 \in 1..Len(w) /\ v[i] = w[i + 1]
      BY <1>1
    <2>2. ASSUME NEW j \in 1..Len(w), j > i + 1 PROVE m \notin DOMAIN w[j]
      <3>1. j - 1 \in 1..Len(v) /\ j - 1 > i /\ v[j - 1] = w[j]
        BY <1>4, <2>2
      <3> QED BY <3>1, <1>5 DEF LastMessage
    <2>3. LastMessage(w, m, i + 1)
      BY <2>1, <2>2, <1>5 DEF LastMessage
    <2> QED BY <2>1, <2>3 DEF LastWord
  <1>6. ASSUME Silent(v, m), m \in DOMAIN h PROVE h[m] = price
    <2>1. ASSUME NEW j \in 1..Len(w), j > 1 PROVE m \notin DOMAIN w[j]
      BY <1>4, <1>6, <2>1 DEF Silent
    <2>2. 1 \in 1..Len(w) /\ LastMessage(w, m, 1)
      BY <1>1, <1>6, <2>1 DEF LastMessage
    <2> QED BY <2>2, <1>1 DEF LastWord
  <1>7. ASSUME Silent(v, m), m \notin DOMAIN h PROVE Silent(w, m)
    <2>1. ASSUME NEW j \in 1..Len(w) PROVE m \notin DOMAIN w[j]
      BY <1>1, <1>4, <1>7 DEF Silent
    <2> QED BY <2>1 DEF Silent
  <1>8. ASSUME Silent(v, m), NEW i \in 1..Len(r), LastEvent(r, m, i) PROVE r[i].price = price
    <2>1. CASE i > Len(q)
      <3>1. i - Len(q) \in 1..Len(es) /\ r[i] = es[i - Len(q)]
        BY <1>3, <2>1
      <3> QED BY <3>1, <1>2, <1>6, <1>8 DEF LastEvent
    <2>2. CASE i <= Len(q)
      <3>1. i \in 1..Len(q) /\ r[i] = q[i]
        BY <1>3, <2>2
      <3>2. m \notin DOMAIN h
        <4>1. SUFFICES ASSUME NEW k \in 1..Len(es), es[k].market = m PROVE FALSE
          BY <1>2
        <4>2. /\ Len(q) + k \in 1..Len(r) /\ Len(q) + k > i /\ (Len(q) + k) - Len(q) = k
              /\ r[Len(q) + k] = es[(Len(q) + k) - Len(q)]
          <5>1. k \in Nat \ {0} /\ k <= Len(es) /\ i \in Nat
            BY <1>3
          <5>2. /\ Len(q) + k \in 1..(Len(q) + Len(es)) /\ ~(Len(q) + k <= Len(q))
                /\ (Len(q) + k) - Len(q) = k /\ Len(q) + k > i
            BY <1>3, <2>2, <5>1
          <5> QED BY <1>3, <5>2
        <4>3. r[Len(q) + k].market = m
          BY <4>1, <4>2
        <4>4. \A j \in 1..Len(r) : j > i => r[j].market # m
          BY <1>8 DEF LastEvent
        <4> QED BY <4>2, <4>3, <4>4
      <3>3. ASSUME NEW j \in 1..Len(q), j > i PROVE q[j].market # m
        <4>1. j \in 1..Len(r) /\ r[j] = q[j]
          BY <1>3
        <4> QED BY <4>1, <3>3, <1>8 DEF LastEvent
      <3>4. LastEvent(q, m, i)
        BY <3>1, <3>3, <1>8 DEF LastEvent
      <3> QED BY <3>1, <3>2, <3>4, <1>7, <1>8 DEF LastWord
    <2>3. i \in Int /\ Len(q) \in Int
      BY <1>3
    <2> QED BY <2>1, <2>2, <2>3
  <1>9. ASSUME Silent(v, m), Absent(r, m), price # NoPrice PROVE b = price
    <2>1. m \notin DOMAIN h
      <3>1. SUFFICES ASSUME NEW k \in 1..Len(es), es[k].market = m PROVE FALSE
        BY <1>2
      <3>2. /\ Len(q) + k \in 1..Len(r) /\ (Len(q) + k) - Len(q) = k
            /\ r[Len(q) + k] = es[(Len(q) + k) - Len(q)]
        BY <1>3
      <3> QED BY <3>1, <3>2, <1>9 DEF Absent
    <2>2. ASSUME NEW j \in 1..Len(q) PROVE q[j].market # m
      <3>1. j \in 1..Len(r) /\ r[j] = q[j]
        BY <1>3
      <3> QED BY <3>1, <1>9 DEF Absent
    <2> QED BY <2>1, <2>2, <1>7, <1>9 DEF LastWord, Absent
  <1>10. LastWord(m, v, r, price, b)
    BY <1>5, <1>8, <1>9 DEF LastWord
  <1> QED BY <1>10 DEF r, es, h, v

\* The exchange puts a message on the wire: about this market, or about others.
LEMMA SendLast ==
    ASSUME NEW m, NEW w \in Seq(Messages), NEW q, NEW price, NEW b, NEW new,
           NEW msg \in Messages, LastWord(m, w, q, price, b),
           m \in DOMAIN msg => msg[m] = new, m \notin DOMAIN msg => new = price
    PROVE  LastWord(m, Append(w, msg), q, new, b)
  <1> DEFINE v == Append(w, msg)
  <1>1. /\ Len(v) = Len(w) + 1 /\ Len(w) \in Nat
        /\ \A i \in 1..Len(w) : v[i] = w[i]
        /\ v[Len(w) + 1] = msg
    BY AppendProperties, LenProperties
  <1> HIDE DEF v
  <1>2. Len(w) + 1 \in 1..Len(v) /\ \A i \in 1..Len(w) : i \in 1..Len(v)
    BY <1>1
  <1>3. CASE m \in DOMAIN msg
    <2>1. ~Silent(v, m)
      BY <1>1, <1>2, <1>3 DEF Silent
    <2>2. ASSUME NEW i \in 1..Len(v), LastMessage(v, m, i) PROVE v[i][m] = new
      <3>1. i = Len(w) + 1
        BY <1>1, <1>2, <1>3, <2>2 DEF LastMessage
      <3> QED BY <3>1, <1>1, <1>3
    <2>3. LastWord(m, v, q, new, b)
      BY <2>1, <2>2 DEF LastWord
    <2> QED BY <2>3 DEF v
  <1>4. CASE m \notin DOMAIN msg
    <2>1. ASSUME NEW i \in 1..Len(v), LastMessage(v, m, i) PROVE v[i][m] = new
      <3>1. i \in 1..Len(w) /\ LastMessage(w, m, i)
        BY <1>1, <1>2, <1>4, <2>1 DEF LastMessage
      <3> QED BY <3>1, <1>1, <1>4 DEF LastWord
    <2>2. Silent(v, m) => Silent(w, m)
      BY <1>1, <1>2 DEF Silent
    <2>3. LastWord(m, v, q, new, b)
      BY <1>4, <2>1, <2>2 DEF LastWord
    <2> QED BY <2>3 DEF v
  <1> QED BY <1>3, <1>4

\* The first message on a connection.
LEMMA FirstLast ==
    ASSUME NEW msg, NEW m \in DOMAIN msg, NEW q, NEW b
    PROVE  LastWord(m, <<msg>>, q, msg[m], b)
  <1>1. Len(<<msg>>) = 1 /\ <<msg>>[1] = msg /\ 1..1 = {1}
    OBVIOUS
  <1>2. ~Silent(<<msg>>, m)
    BY <1>1 DEF Silent
  <1> QED BY <1>1, <1>2 DEF LastWord

\* For a market subscribed to, what is under way still ends with the quote shown.
LEMMA LastWordKept ==
    ASSUME FeedInv, [Next]_vars, NEW m \in Markets, m \in subscribed'
    PROVE  LastWord(m, wire, poly_rx, quote[m], token_prices[m])'
  <1>1. /\ wire \in Seq(Messages) /\ poly_rx \in Seq(Reports)
        /\ quote \in [Markets -> Quotes] /\ token_prices \in [Markets -> Quotes]
        /\ (m \in subscribed => LastWord(m, wire, poly_rx, quote[m], token_prices[m]))
    BY DEF FeedInv, TypeOK, Reports
  <1>2. CASE UNCHANGED <<subscribed, wire, poly_rx, quote, token_prices>>
    BY <1>1, <1>2 DEF LastWord, LastMessage, LastEvent, Silent, Absent
  <1>3. CASE NewTokens \/ Disconnected
    BY <1>3 DEF NewTokens, Disconnected, Drop
  <1>4. CASE TakeIn
    <2> DEFINE h == Head(poly_rx)
               c == IF h.market = m /\ h.price # NoPrice THEN h.price ELSE token_prices[m]
    <2>1. /\ poly_rx # <<>> /\ poly_rx' = Tail(poly_rx) /\ wire' = wire /\ quote' = quote
          /\ subscribed' = subscribed
      BY <1>4 DEF TakeIn
    <2>2. LastWord(m, wire, Tail(poly_rx), quote[m], c)
      BY <1>1, <2>1, TakeInLast
    <2>3. token_prices'[m] = c
      BY <1>1, <1>4 DEF TakeIn
    <2> HIDE DEF c
    <2> QED BY <2>1, <2>2, <2>3 DEF LastWord, LastMessage, LastEvent, Silent, Absent
  <1>5. CASE ReadMessage
    <2>1. /\ wire # <<>> /\ wire' = Tail(wire) /\ poly_rx' = poly_rx \o Events(Head(wire))
          /\ UNCHANGED <<subscribed, quote, token_prices>>
      BY <1>5 DEF ReadMessage
    <2>2. LastWord(m, Tail(wire), poly_rx \o Events(Head(wire)), quote[m], token_prices[m])
      BY <1>1, <2>1, ReadLast
    <2> QED BY <2>1, <2>2 DEF LastWord, LastMessage, LastEvent, Silent, Absent
  <1>6. CASE Connected
    <2> DEFINE msg == [n \in Subscription |-> quote[n]]
    <2>1. /\ subscribed' = Subscription /\ wire' = <<msg>>
          /\ UNCHANGED <<quote, poly_rx, token_prices>>
      BY <1>6 DEF Connected
    <2>2. m \in DOMAIN msg /\ msg[m] = quote[m]
      BY <2>1
    <2> HIDE DEF msg
    <2>3. LastWord(m, <<msg>>, poly_rx, quote[m], token_prices[m])
      BY <2>2, FirstLast
    <2> QED BY <2>1, <2>3 DEF LastWord, LastMessage, LastEvent, Silent, Absent
  <1>7. ASSUME NEW n \in Markets, NEW p \in Quotes, Requote(n, p)
        PROVE  LastWord(m, wire, poly_rx, quote[m], token_prices[m])'
    <2> DEFINE msg == [k \in {n} |-> p]
    <2>1. /\ UNCHANGED <<subscribed, poly_rx, token_prices>> /\ m \in subscribed
          /\ quote'[m] = IF m = n THEN p ELSE quote[m]
      BY <1>1, <1>7 DEF Requote
    <2>2. msg \in Messages /\ DOMAIN msg = {n} /\ msg[n] = p
      <3>1. msg \in [{n} -> Quotes] /\ {n} \in SUBSET Markets /\ {n} # {}
        OBVIOUS
      <3>2. msg \in Messages
        BY <3>1, MessagesOf
      <3> QED BY <3>2
    <2>3. CASE n \in subscribed
      <3>1. wire' = Append(wire, msg)
        BY <1>7, <2>3 DEF Requote
      <3> HIDE DEF msg
      <3>2. m \in DOMAIN msg => msg[m] = quote'[m]
        BY <2>1, <2>2
      <3>3. m \notin DOMAIN msg => quote'[m] = quote[m]
        BY <2>1, <2>2
      <3>4. LastWord(m, Append(wire, msg), poly_rx, quote'[m], token_prices[m])
        BY <1>1, <2>1, <2>2, <3>2, <3>3, SendLast
      <3> QED BY <2>1, <3>1, <3>4 DEF LastWord, LastMessage, LastEvent, Silent, Absent
    <2>4. CASE n \notin subscribed
      <3>1. wire' = wire /\ quote'[m] = quote[m]
        BY <1>7, <2>1, <2>4 DEF Requote
      <3> QED BY <1>1, <2>1, <3>1 DEF LastWord, LastMessage, LastEvent, Silent, Absent
    <2> QED BY <2>3, <2>4
  <1> QED BY <1>2, <1>3, <1>4, <1>5, <1>6, <1>7
          DEF Next, vars, Activate, FirstBatch, SubscribeFails, ConnectFails, Wake

-----------------------------------------------------------------------------

\* The initial state satisfies the invariant of the feed.
LEMMA InitFeed == Init => FeedInv
  <1> SUFFICES ASSUME Init PROVE FeedInv
    OBVIOUS
  <1>1. TypeOK
    BY InitType
  <1>2. TokensInOrder
    <2>1. sent = 0 /\ all_token_ids \o sub_rx = <<>>
      BY DEF Init
    <2>2. [i \in 1..0 |-> i] = <<>>
      OBVIOUS
    <2> QED BY <2>1, <2>2 DEF TokensInOrder
  <1>3. subscribed = {} /\ SubscriptionComplete
    BY DEF Init, SubscriptionComplete
  <1> QED BY <1>1, <1>2, <1>3 DEF FeedInv, Init

\* FeedInv, the inductive invariant: the list the task keeps, the subscription of
\* its connection and what is on its way to the loop agree with the exchange
\* (polymarket.rs:113-163, main.rs:484), for any number of markets and queues
\* of any length.
THEOREM FeedCorrect == Spec => []FeedInv
  <1>1. Init => FeedInv
    BY InitFeed
  <1>2. FeedInv /\ [Next]_vars => FeedInv'
    <2> SUFFICES ASSUME FeedInv, [Next]_vars PROVE FeedInv'
      OBVIOUS
    <2>1. TypeOK' /\ (ws = "Wait" <=> all_token_ids = <<>>)'
      BY NextType DEF FeedInv
    <2>2. TokensInOrder' /\ SubscriptionComplete'
      BY OrderKept, CompleteKept
    <2>3. ASSUME NEW m \in subscribed'
          PROVE  LastWord(m, wire, poly_rx, quote[m], token_prices[m])'
      <3>1. m \in Markets
        BY <2>1 DEF TypeOK, Markets
      <3> QED BY <3>1, LastWordKept
    <2> QED BY <2>1, <2>2, <2>3 DEF FeedInv
  <1> QED BY <1>1, <1>2, PTL DEF Spec

\* Every variable of the feed keeps its type, and nothing stays on a connection
\* the task has left (polymarket.rs:186-191).
THEOREM FeedTypeCorrect == Spec => []TypeOK
  <1>1. FeedInv => TypeOK
    BY DEF FeedInv
  <1> QED BY <1>1, FeedCorrect, PTL

\* No market is lost, doubled or reordered between the loop and the list the task
\* subscribes to (polymarket.rs:144), whenever it is announced.
THEOREM TokensInOrderHolds == Spec => []TokensInOrder
  <1>1. FeedInv => TokensInOrder
    BY DEF FeedInv
  <1> QED BY <1>1, FeedCorrect, PTL

\* A connection is subscribed to nothing or to every market the task knows
\* (polymarket.rs:136-146).
THEOREM SubscriptionCompleteHolds == Spec => []SubscriptionComplete
  <1>1. FeedInv => SubscriptionComplete
    BY DEF FeedInv
  <1> QED BY <1>1, FeedCorrect, PTL

\* Once everything about a subscribed market has been delivered, the loop's price
\* (main.rs:484) is the exchange's: no event of an earlier connection
\* overtakes a later one.
THEOREM PolyPriceCurrentHolds == Spec => []PriceCurrent
  <1>1. FeedInv => PriceCurrent
    <2> SUFFICES ASSUME FeedInv, NEW m \in subscribed, Delivered(m), quote[m] # NoPrice
                 PROVE  token_prices[m] = quote[m]
      BY DEF PriceCurrent
    <2>1. DOMAIN wire = 1..Len(wire) /\ DOMAIN poly_rx = 1..Len(poly_rx)
      BY LenProperties DEF FeedInv, TypeOK
    <2>2. Silent(wire, m) /\ Absent(poly_rx, m)
      BY <2>1 DEF Delivered, Silent, Absent
    <2> QED BY <2>2 DEF FeedInv, LastWord
  <1> QED BY <1>1, FeedCorrect, PTL

=============================================================================
