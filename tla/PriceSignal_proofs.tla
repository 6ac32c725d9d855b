------------------------- MODULE PriceSignal_proofs -------------------------
(***************************************************************************)
(* The safety properties of PriceSignal for every set of assets and order  *)
(* books and every pair of thresholds.                                     *)
(***************************************************************************)
EXTENDS PriceSignal, QueueLemmas

(***************************************************************************)
(* Books of a coin that are under way, the oldest first: the last of them  *)
(* is what the exchange shows; when there is none the mid is the one that  *)
(* the exchange shows.                                                     *)
(***************************************************************************)
LastOf(q, a, i) == q[i].asset = a /\ \A j \in 1..Len(q) : j > i => q[j].asset # a

UpToDate(q, a, book, mid) ==
    /\ \A i \in 1..Len(q) : LastOf(q, a, i) => q[i].book = book
    /\ (\A i \in 1..Len(q) : q[i].asset # a) /\ Mid(book) # NoPrice => mid = Mid(book)

(***************************************************************************)
(* The aggregator knows Hyperliquid only: its price is the last one taken  *)
(* in and its open price the one of the activation.                        *)
(***************************************************************************)
Traced(a) ==
    /\ agg[a].chainlink = NoPrice
    /\ agg[a].hl_mid = seen[a]
    /\ agg[a].open = atOpen[a]
    /\ seen[a] = NoPrice => atOpen[a] = NoPrice

PriceInv ==
    /\ TypeOK
    /\ \A a \in Assets : Traced(a)
    /\ \A a \in subscribed : UpToDate(hl_rx \o wire, a, shown[a], agg[a].hl_mid)

-----------------------------------------------------------------------------
(* Books under way.                                                        *)

\* A new book of the coin is last; one of another coin changes nothing.
LEMMA AppendUpToDate ==
    ASSUME NEW q \in Seq(Events), NEW e \in Events, NEW a, NEW mid, NEW book, NEW new,
           UpToDate(q, a, book, mid),
           e.asset = a => e.book = new, e.asset # a => new = book
    PROVE  UpToDate(Append(q, e), a, new, mid)
  <1> DEFINE r == Append(q, e)
  <1>1. /\ Len(r) = Len(q) + 1 /\ Len(q) \in Nat
        /\ \A i \in 1..Len(q) : r[i] = q[i]
        /\ r[Len(q) + 1] = e
    BY AppendProperties
  <1> HIDE DEF r
  <1>2. ASSUME NEW i \in 1..Len(r), LastOf(r, a, i) PROVE r[i].book = new
    <2>1. CASE e.asset = a
      <3>1. i = Len(q) + 1
        BY <1>1, <1>2, <2>1 DEF LastOf
      <3> QED BY <3>1, <1>1, <2>1
    <2>2. CASE e.asset # a
      <3>1. i \in 1..Len(q) /\ LastOf(q, a, i)
        BY <1>1, <1>2, <2>2 DEF LastOf
      <3> QED BY <3>1, <1>1, <2>2 DEF UpToDate
    <2> QED BY <2>1, <2>2
  <1>3. ASSUME \A i \in 1..Len(r) : r[i].asset # a, Mid(new) # NoPrice
        PROVE  mid = Mid(new)
    <2>1. e.asset # a /\ \A i \in 1..Len(q) : q[i].asset # a
      BY <1>1, <1>3
    <2> QED BY <2>1, <1>3 DEF UpToDate
  <1>4. UpToDate(r, a, new, mid)
    BY <1>2, <1>3 DEF UpToDate
  <1> QED BY <1>4 DEF r

\* The oldest book is taken in.
LEMMA TailUpToDate ==
    ASSUME NEW q \in Seq(Events), q # <<>>, NEW a, NEW book, NEW mid,
           UpToDate(q, a, book, mid)
    PROVE  UpToDate(Tail(q), a, book,
                    IF Head(q).asset = a /\ Mid(Head(q).book) # NoPrice
                    THEN Mid(Head(q).book) ELSE mid)
  <1> DEFINE r == Tail(q)   h == Head(q)
             m == IF h.asset = a /\ Mid(h.book) # NoPrice THEN Mid(h.book) ELSE mid
  <1>1. /\ Len(q) \in Nat \ {0} /\ Len(r) = Len(q) - 1
        /\ \A i \in 1..Len(r) : r[i] = q[i + 1]
        /\ h = q[1]
    BY HeadTailProperties, EmptySeq
  <1> HIDE DEF r, h
  <1>2. ASSUME NEW i \in 1..Len(r), LastOf(r, a, i) PROVE r[i].book = book
    <2>1. i + 1 \in 1..Len(q) /\ r[i] = q[i + 1]
      BY <1>1
    <2>2. ASSUME NEW j \in 1..Len(q), j > i + 1 PROVE q[j].asset # a
      <3>1. j - 1 \in 1..Len(r) /\ j - 1 > i /\ r[j - 1] = q[(j - 1) + 1] /\ (j - 1) + 1 = j
        BY <1>1, <2>2
      <3> QED BY <3>1, <1>2 DEF LastOf
    <2>3. LastOf(q, a, i + 1)
      BY <2>1, <2>2, <1>2 DEF LastOf
    <2> QED BY <2>1, <2>3 DEF UpToDate
  <1>3. ASSUME \A i \in 1..Len(r) : r[i].asset # a, Mid(book) # NoPrice
        PROVE  m = Mid(book)
    <2>1. ASSUME NEW j \in 1..Len(q), j > 1 PROVE q[j].asset # a
      <3>1. j - 1 \in 1..Len(r) /\ r[j - 1] = q[(j - 1) + 1] /\ (j - 1) + 1 = j
        BY <1>1, <2>1
      <3> QED BY <3>1, <1>3
    <2>2. CASE h.asset = a
      <3>1. 1 \in 1..Len(q) /\ LastOf(q, a, 1)
        BY <1>1, <2>1, <2>2 DEF LastOf
      <3>2. h.book = book
        BY <3>1, <1>1 DEF UpToDate
      <3> QED BY <3>2, <2>2, <1>3
    <2>3. CASE h.asset # a
      <3>1. \A j \in 1..Len(q) : q[j].asset # a
        BY <1>1, <2>1, <2>3
      <3>2. mid = Mid(book)
        BY <3>1, <1>3 DEF UpToDate
      <3> QED BY <3>2, <2>3
    <2> QED BY <2>2, <2>3
  <1>4. UpToDate(r, a, book, m)
    BY <1>2, <1>3 DEF UpToDate
  <1> QED BY <1>4 DEF r, h

\* The books sent for a subscription are those the exchange shows.
LEMMA SnapshotShown ==
    ASSUME NEW coins \in SUBSET Assets, shown \in [Assets -> Books]
    PROVE  /\ Snapshot(coins) \in Seq(Events)
           /\ \A i \in 1..Len(Snapshot(coins)) :
                 Snapshot(coins)[i].book = shown[Snapshot(coins)[i].asset]
           /\ \A a \in coins : \E i \in 1..Len(Snapshot(coins)) : Snapshot(coins)[i].asset = a
  <1> DEFINE cs == SetToSeq(coins)   n == Cardinality(coins)   s == Snapshot(coins)
  <1>1. IsFiniteSet(coins)
    BY AssetAssumption, FS_Subset
  <1>2. /\ cs \in Seq(coins) /\ DOMAIN cs = 1..n /\ n \in Nat
        /\ \A x \in coins : \E i \in 1..n : cs[i] = x
    BY <1>1, SetToSeqLists
  <1> HIDE DEF cs, n
  <1>3. \A i \in 1..n : cs[i] \in coins
    BY <1>2, LenProperties
  <1>4. s = [i \in 1..n |-> [asset |-> cs[i], book |-> shown[cs[i]]]]
    BY <1>2 DEF Snapshot, cs
  <1> HIDE DEF s
  <1>5. \A i \in 1..n : s[i] \in Events
    BY <1>3, <1>4 DEF Events
  <1>6. s \in [1..n -> Events]
    BY <1>4, <1>5
  <1>7. s \in Seq(Events) /\ Len(s) = n
    BY <1>2, <1>6
  <1>8. \A i \in 1..n : s[i].asset = cs[i] /\ s[i].book = shown[s[i].asset]
    BY <1>4
  <1>9. \A a \in coins : \E i \in 1..n : s[i].asset = a
    BY <1>2, <1>8
  <1> QED BY <1>7, <1>8, <1>9 DEF s

\* The books of a new connection come after those of earlier ones.
LEMMA SnapshotUpToDate ==
    ASSUME NEW q \in Seq(Events), NEW coins \in SUBSET Assets, shown \in [Assets -> Books],
           NEW a \in coins, NEW mid
    PROVE  UpToDate(q \o Snapshot(coins), a, shown[a], mid)
  <1> DEFINE s == Snapshot(coins)   r == q \o s
  <1>1. /\ s \in Seq(Events) /\ \A i \in 1..Len(s) : s[i].book = shown[s[i].asset]
        /\ \E i \in 1..Len(s) : s[i].asset = a
    BY SnapshotShown
  <1> HIDE DEF s
  <1>2. /\ Len(q) \in Nat /\ Len(s) \in Nat /\ Len(r) = Len(q) + Len(s)
        /\ \A i \in 1..(Len(q) + Len(s)) : r[i] = IF i <= Len(q) THEN q[i] ELSE s[i - Len(q)]
    BY <1>1, ConcatProperties, LenProperties
  <1> HIDE DEF r
  <1>3. PICK k \in 1..Len(s) : s[k].asset = a
    BY <1>1
  <1>4. /\ Len(q) + k \in 1..Len(r) /\ r[Len(q) + k] = s[(Len(q) + k) - Len(q)]
        /\ (Len(q) + k) - Len(q) = k
    BY <1>2
  <1>5. r[Len(q) + k].asset = a
    BY <1>3, <1>4
  <1>6. ASSUME NEW i \in 1..Len(r), LastOf(r, a, i) PROVE r[i].book = shown[a]
    <2>1. i > Len(q)
      BY <1>2, <1>4, <1>5, <1>6 DEF LastOf
    <2>2. i - Len(q) \in 1..Len(s) /\ r[i] = s[i - Len(q)]
      BY <2>1, <1>2
    <2> QED BY <2>2, <1>1, <1>6 DEF LastOf
  <1>7. UpToDate(r, a, shown[a], mid)
    BY <1>4, <1>5, <1>6 DEF UpToDate
  <1> QED BY <1>7 DEF r, s

-----------------------------------------------------------------------------
(* The aggregator.                                                         *)

Aggregators == [hl_mid: MidsOf, chainlink: ChainlinkPrices \cup {NoPrice},
                open: MidsOf \cup ChainlinkPrices]

\* Prices are whole numbers, and a book with both sides has one.
LEMMA MidType ==
    ASSUME NEW book \in Books
    PROVE  Mid(book) \in MidsOf /\ Mid(book) \in Nat
  <1> DEFINE Levels == (Nat \ {0}) \X Nat
  <1>1. book.bids \in Seq(Levels) /\ book.asks \in Seq(Levels)
    BY BookAssumption
  <1>2. Mid(book) \in MidsOf
    BY DEF MidsOf
  <1>3. CASE book.bids # <<>> /\ book.asks # <<>>
    <2>1. Head(book.bids) \in Levels /\ Head(book.asks) \in Levels
      <3>1. /\ book.bids \in Seq(Levels) /\ book.bids # <<>>
            /\ book.asks \in Seq(Levels) /\ book.asks # <<>>
        BY <1>1, <1>3
      <3> HIDE DEF Levels
      <3>2. Head(book.bids) \in Levels
        BY <3>1
      <3>3. Head(book.asks) \in Levels
        BY <3>1
      <3> QED BY <3>2, <3>3
    <2>2. /\ Head(book.bids)[1] \in Nat /\ Head(book.asks)[1] \in Nat
          /\ Mid(book) = Head(book.bids)[1] + Head(book.asks)[1]
      BY <2>1, <1>3 DEF Mid
    <2> QED BY <2>2, <1>2
  <1>4. CASE ~(book.bids # <<>> /\ book.asks # <<>>)
    BY <1>2, <1>4 DEF Mid, NoPrice
  <1> QED BY <1>3, <1>4

\* Mid prices are numbers, and NoPrice is one of them.
LEMMA MidsAreNat == MidsOf \subseteq Nat /\ NoPrice \in MidsOf
  BY MidType DEF MidsOf, NoPrice

\* An aggregator that has taken in a book.
LEMMA PricedType ==
    ASSUME NEW g \in Aggregators, NEW book \in Books
    PROVE  /\ Priced(g, book) \in Aggregators
           /\ Priced(g, book).chainlink = g.chainlink /\ Priced(g, book).open = g.open
           /\ Priced(g, book).hl_mid = IF Mid(book) = NoPrice THEN g.hl_mid ELSE Mid(book)
  BY MidType DEF Priced, UpdateHlMid, Aggregators

\* An aggregator that has taken its open price.
LEMMA SnapshotType ==
    ASSUME NEW g \in Aggregators
    PROVE  /\ SnapshotOpenPrice(g) \in Aggregators
           /\ SnapshotOpenPrice(g).chainlink = g.chainlink
           /\ SnapshotOpenPrice(g).hl_mid = g.hl_mid
           /\ g.chainlink = NoPrice
              => SnapshotOpenPrice(g).open = IF g.hl_mid = NoPrice THEN g.open ELSE g.hl_mid
  BY DEF SnapshotOpenPrice, GetBestPrice, Aggregators, NoPrice

-----------------------------------------------------------------------------
(* Types.                                                                  *)

\* The initial state has its type.
LEMMA InitType == Init => TypeOK
  <1> SUFFICES ASSUME Init PROVE TypeOK
    OBVIOUS
  <1>1. NewAggregator \in Aggregators
    BY MidsAreNat DEF NewAggregator, Aggregators
  <1>2. <<>> \in Seq(Events) /\ <<>> \in Seq([asset: Assets, price: ChainlinkPrices])
    BY EmptySeq
  <1>3. /\ market \in [Assets -> 0..MaxMarkets] /\ idle \in [Assets -> BOOLEAN]
        /\ direction \in [Assets -> {"None", "Up", "Down"}]
        /\ seen \in [Assets -> MidsOf] /\ atOpen \in [Assets -> MidsOf]
    BY BoundAssumption, MidsAreNat DEF Init
  <1> QED BY <1>1, <1>2, <1>3 DEF Init, TypeOK, Running, Aggregators

\* What the steps of the feeds leave alone.
LEMMA FeedType ==
    ASSUME TypeOK, UNCHANGED bot,
           shown' \in [Assets -> Books], hl' \in Running, subscribed' \in SUBSET Assets,
           wire' \in Seq(Events), hl_rx' \in Seq(Events), chainlink' \in Running \cup {"Off"},
           chainlink_rx' \in Seq([asset: Assets, price: ChainlinkPrices]),
           hl' # "Open" => subscribed' = {} /\ wire' = <<>>
    PROVE  TypeOK'
  BY DEF TypeOK, bot

\* The Hyperliquid feed keeps the type.
LEMMA HyperliquidType ==
    ASSUME TypeOK,
           \/ Connected \/ SubscribeFails \/ ConnectFails \/ FallsSilent
           \/ Disconnected \/ ReadBook \/ Wake
    PROVE  TypeOK'
  <1>1. /\ wire \in Seq(Events) /\ hl_rx \in Seq(Events) /\ <<>> \in Seq(Events)
        /\ shown \in [Assets -> Books] /\ hl \in Running
        /\ chainlink \in Running \cup {"Off"} /\ subscribed \in SUBSET Assets
        /\ chainlink_rx \in Seq([asset: Assets, price: ChainlinkPrices])
        /\ hl # "Open" => subscribed = {} /\ wire = <<>>
    BY EmptySeq DEF TypeOK
  <1>2. \A coins \in SUBSET Assets : Snapshot(coins) \in Seq(Events)
    BY <1>1, SnapshotShown
  <1>3. wire # <<>> => Head(wire) \in Events /\ Tail(wire) \in Seq(Events)
    BY <1>1, HeadTailProperties
  <1>4. \A e \in Events : Append(hl_rx, e) \in Seq(Events)
    BY <1>1
  <1>5. CASE Connected
    <2>1. Assets \in SUBSET Assets
      OBVIOUS
    <2> QED BY <1>1, <1>2, <1>5, <2>1, FeedType DEF Connected, Running
  <1>6. CASE SubscribeFails
    <2>1. PICK coins \in SUBSET Assets \ {Assets} :
             hl' = "Open" /\ subscribed' = coins /\ wire' = Snapshot(coins)
      BY <1>6 DEF SubscribeFails
    <2>2. UNCHANGED <<shown, hl_rx, chainlink, chainlink_rx, bot>>
      BY <1>6 DEF SubscribeFails
    <2> QED BY <1>1, <1>2, <2>1, <2>2, FeedType DEF Running
  <1>7. CASE ConnectFails
    BY <1>1, <1>7, FeedType DEF ConnectFails, Running
  <1>8. CASE Disconnected
    BY <1>1, <1>8, FeedType DEF Disconnected, Running
  <1>11. CASE FallsSilent
    BY <1>1, <1>11, FeedType DEF FallsSilent, Running
  <1>9. CASE ReadBook
    BY <1>1, <1>3, <1>4, <1>9, FeedType DEF ReadBook, Running
  <1>10. CASE Wake
    BY <1>1, <1>10, FeedType DEF Wake, Running
  <1> QED BY <1>5, <1>6, <1>7, <1>8, <1>9, <1>10, <1>11

\* The Chainlink feed keeps the type.
LEMMA ChainlinkType ==
    ASSUME TypeOK,
           \/ ChainlinkConnects \/ ChainlinkDisconnects \/ Drain
           \/ \E a \in Assets, price \in ChainlinkPrices : ChainlinkReport(a, price)
    PROVE  TypeOK'
  <1> DEFINE Reports == [asset: Assets, price: ChainlinkPrices]
  <1>1. /\ wire \in Seq(Events) /\ hl_rx \in Seq(Events) /\ hl \in Running
        /\ shown \in [Assets -> Books] /\ subscribed \in SUBSET Assets
        /\ chainlink \in Running \cup {"Off"} /\ chainlink_rx \in Seq(Reports)
        /\ hl # "Open" => subscribed = {} /\ wire = <<>>
    BY DEF TypeOK
  <1>2. ASSUME NEW from \in Running, NEW to \in Running, ChainlinkMoves(from, to)
        PROVE  TypeOK'
    BY <1>1, <1>2, FeedType DEF ChainlinkMoves
  <1>3. CASE ChainlinkConnects \/ ChainlinkDisconnects
    BY <1>2, <1>3 DEF ChainlinkConnects, ChainlinkDisconnects, Running
  <1>4. CASE Drain
    <2>1. Tail(chainlink_rx) \in Seq(Reports)
      BY <1>1, <1>4, HeadTailProperties DEF Drain
    <2> QED BY <1>1, <1>4, <2>1, FeedType DEF Drain, feeds
  <1>5. CASE \E a \in Assets, price \in ChainlinkPrices : ChainlinkReport(a, price)
    <2>1. PICK a \in Assets, price \in ChainlinkPrices : ChainlinkReport(a, price)
      BY <1>5
    <2>2. Append(chainlink_rx, [asset |-> a, price |-> price]) \in Seq(Reports)
      BY <1>1
    <2> QED BY <1>1, <2>1, <2>2, FeedType DEF ChainlinkReport, feeds
  <1> QED BY <1>3, <1>4, <1>5

\* A new book on the exchange keeps the type.
LEMMA RequoteType ==
    ASSUME TypeOK, NEW a \in Assets, NEW book \in Books, Requote(a, book)
    PROVE  TypeOK'
  <1>1. /\ wire \in Seq(Events) /\ hl_rx \in Seq(Events) /\ hl \in Running
        /\ shown \in [Assets -> Books] /\ subscribed \in SUBSET Assets
        /\ chainlink \in Running \cup {"Off"}
        /\ chainlink_rx \in Seq([asset: Assets, price: ChainlinkPrices])
        /\ hl # "Open" => subscribed = {} /\ wire = <<>>
    BY DEF TypeOK
  <1>2. shown' \in [Assets -> Books]
    BY <1>1 DEF Requote
  <1>3. wire' \in Seq(Events) /\ (hl # "Open" => wire' = <<>>)
    <2>1. [asset |-> a, book |-> book] \in Events
      BY DEF Events
    <2>2. Append(wire, [asset |-> a, book |-> book]) \in Seq(Events)
      BY <1>1, <2>1
    <2> QED BY <1>1, <2>2 DEF Requote
  <1>4. UNCHANGED <<hl, subscribed, hl_rx, chainlink, chainlink_rx, bot>>
    BY DEF Requote
  <1> QED BY <1>1, <1>2, <1>3, <1>4, FeedType

\* The event loop keeps the type.
LEMMA LoopType ==
    ASSUME TypeOK, TakeBook \/ \E a \in Assets : Activate(a) \/ Leg1Refused(a)
    PROVE  TypeOK'
  <1>1. /\ agg \in [Assets -> Aggregators] /\ market \in [Assets -> 0..MaxMarkets]
        /\ idle \in [Assets -> BOOLEAN] /\ direction \in [Assets -> {"None", "Up", "Down"}]
        /\ seen \in [Assets -> MidsOf] /\ atOpen \in [Assets -> MidsOf]
        /\ hl_rx \in Seq(Events)
    BY DEF TypeOK, Aggregators
  <1>2. ASSUME agg' \in [Assets -> Aggregators], market' \in [Assets -> 0..MaxMarkets],
               idle' \in [Assets -> BOOLEAN], direction' \in [Assets -> {"None", "Up", "Down"}],
               seen' \in [Assets -> MidsOf], atOpen' \in [Assets -> MidsOf],
               hl_rx' \in Seq(Events), UNCHANGED <<shown, feeds, chainlink_rx>>
        PROVE  TypeOK'
    BY <1>2 DEF TypeOK, Aggregators, feeds
  <1>3. CASE TakeBook
    <2> DEFINE e == Head(hl_rx)   g == Priced(agg[e.asset], e.book)
    <2>1. e \in Events /\ Tail(hl_rx) \in Seq(Events)
      BY <1>1, <1>3, HeadTailProperties DEF TakeBook
    <2>2. e.asset \in Assets /\ e.book \in Books
      BY <2>1 DEF Events
    <2>3. g \in Aggregators /\ Mid(e.book) \in MidsOf
      BY <1>1, <2>2, PricedType, MidType
    <2>4. agg' \in [Assets -> Aggregators] /\ seen' \in [Assets -> MidsOf]
      BY <1>1, <1>3, <2>2, <2>3 DEF TakeBook
    <2>5. idle' \in [Assets -> BOOLEAN] /\ direction' \in [Assets -> {"None", "Up", "Down"}]
      BY <1>1, <1>3, <2>2 DEF TakeBook, Signals
    <2> QED BY <1>1, <1>2, <1>3, <2>1, <2>4, <2>5 DEF TakeBook
  <1>4. ASSUME NEW a \in Assets, Activate(a) PROVE TypeOK'
    <2>1. agg' \in [Assets -> Aggregators]
      BY <1>1, <1>4, SnapshotType DEF Activate
    <2>2. market' \in [Assets -> 0..MaxMarkets]
      <3>1. market[a] \in 0..MaxMarkets /\ market[a] < MaxMarkets /\ MaxMarkets \in Nat
        BY <1>1, <1>4, BoundAssumption DEF Activate
      <3>2. market[a] + 1 \in 0..MaxMarkets
        BY <3>1
      <3> QED BY <1>1, <1>4, <3>2 DEF Activate
    <2>3. idle' \in [Assets -> BOOLEAN] /\ atOpen' \in [Assets -> MidsOf]
      BY <1>1, <1>4 DEF Activate
    <2> QED BY <1>1, <1>2, <1>4, <2>1, <2>2, <2>3 DEF Activate
  <1>5. ASSUME NEW a \in Assets, Leg1Refused(a) PROVE TypeOK'
    BY <1>1, <1>2, <1>5 DEF Leg1Refused
  <1> QED BY <1>3, <1>4, <1>5

\* Every step keeps the type.
LEMMA NextType == TypeOK /\ [Next]_vars => TypeOK'
  <1> SUFFICES ASSUME TypeOK, [Next]_vars PROVE TypeOK'
    OBVIOUS
  <1>1. CASE UNCHANGED vars
    BY <1>1 DEF TypeOK, vars
  <1>2. CASE Next
    BY <1>2, HyperliquidType, ChainlinkType, RequoteType, LoopType DEF Next
  <1> QED BY <1>1, <1>2

\* The variables of the feeds, the aggregator and the loop keep their types.
THEOREM PriceTypeCorrect == Spec => []TypeOK
  BY InitType, NextType, PTL DEF Spec

-----------------------------------------------------------------------------
(* The price and the books under way.                                      *)

\* The initial state satisfies the invariant of the prices.
LEMMA InitPrice == Init => PriceInv
  <1> SUFFICES ASSUME Init PROVE PriceInv
    OBVIOUS
  <1>1. TypeOK
    BY InitType
  <1>2. ASSUME NEW a \in Assets PROVE Traced(a)
    BY DEF Init, Traced, NewAggregator, NoPrice
  <1>3. subscribed = {}
    BY DEF Init
  <1> QED BY <1>1, <1>2, <1>3 DEF PriceInv

\* A step of the feeds: the aggregator stays, and the books under way must
\* end with what is shown.
LEMMA FeedPrice ==
    ASSUME PriceInv, TypeOK', UNCHANGED bot,
           \A a \in subscribed' :
               \/ /\ a \in subscribed
                  /\ hl_rx' \o wire' = hl_rx \o wire /\ shown'[a] = shown[a]
               \/ \A mid : UpToDate(hl_rx' \o wire', a, shown'[a], mid)
    PROVE  PriceInv'
  <1>1. ASSUME NEW a \in Assets PROVE Traced(a)'
    BY DEF PriceInv, Traced, bot
  <1>2. ASSUME NEW a \in subscribed'
        PROVE  UpToDate(hl_rx' \o wire', a, shown'[a], agg'[a].hl_mid)
    <2>1. CASE a \in subscribed /\ hl_rx' \o wire' = hl_rx \o wire /\ shown'[a] = shown[a]
      BY <2>1 DEF PriceInv, bot
    <2>2. CASE \A mid : UpToDate(hl_rx' \o wire', a, shown'[a], mid)
      BY <2>2
    <2> QED BY <2>1, <2>2
  <1> QED BY <1>1, <1>2 DEF PriceInv

\* The Hyperliquid feed keeps the prices traced to their books.
LEMMA HyperliquidPrice ==
    ASSUME PriceInv, TypeOK',
           \/ Connected \/ SubscribeFails \/ ConnectFails \/ FallsSilent \/ Disconnected
           \/ ReadBook \/ Wake
    PROVE  PriceInv'
  <1>1. /\ wire \in Seq(Events) /\ hl_rx \in Seq(Events) /\ shown \in [Assets -> Books]
        /\ subscribed \in SUBSET Assets /\ (hl # "Open" => subscribed = {})
    BY DEF PriceInv, TypeOK
  <1>2. ASSUME NEW coins \in SUBSET Assets, subscribed' = coins, wire' = Snapshot(coins),
               UNCHANGED <<shown, hl_rx, bot>>
        PROVE  PriceInv'
    <2>1. ASSUME NEW a \in subscribed', NEW mid
          PROVE  UpToDate(hl_rx' \o wire', a, shown'[a], mid)
      BY <1>1, <1>2, <2>1, SnapshotUpToDate
    <2> QED BY <1>2, <2>1, FeedPrice DEF bot
  <1>3. CASE Connected
    <2>1. Assets \in SUBSET Assets
      OBVIOUS
    <2> QED BY <1>2, <1>3, <2>1 DEF Connected, bot
  <1>4. CASE SubscribeFails
    <2>1. PICK coins \in SUBSET Assets \ {Assets} :
             hl' = "Open" /\ subscribed' = coins /\ wire' = Snapshot(coins)
      BY <1>4 DEF SubscribeFails
    <2> QED BY <1>2, <1>4, <2>1 DEF SubscribeFails, bot
  <1>5. CASE ConnectFails \/ Wake
    BY <1>1, <1>5, FeedPrice DEF ConnectFails, Wake, bot
  <1>6. CASE FallsSilent \/ Disconnected
    BY <1>6, FeedPrice DEF FallsSilent, Disconnected, bot
  <1>7. CASE ReadBook
    <2>1. wire # <<>> /\ hl_rx' = Append(hl_rx, Head(wire)) /\ wire' = Tail(wire)
          /\ UNCHANGED <<shown, hl, subscribed, chainlink, chainlink_rx, bot>>
      BY <1>7 DEF ReadBook
    <2>2. Append(hl_rx, Head(wire)) \o Tail(wire) = hl_rx \o wire
      BY <1>1, <2>1, PassedOn
    <2> QED BY <2>1, <2>2, FeedPrice DEF bot
  <1> QED BY <1>3, <1>4, <1>5, <1>6, <1>7

\* So does the Chainlink feed, which never touches the mid price.
LEMMA ChainlinkPrice ==
    ASSUME PriceInv, TypeOK',
           \/ ChainlinkConnects \/ ChainlinkDisconnects \/ Drain
           \/ \E a \in Assets, price \in ChainlinkPrices : ChainlinkReport(a, price)
    PROVE  PriceInv'
  <1>1. UNCHANGED <<shown, subscribed, wire, hl_rx, bot>>
    BY DEF ChainlinkConnects, ChainlinkDisconnects, ChainlinkMoves, Drain, ChainlinkReport, feeds
  <1> QED BY <1>1, FeedPrice DEF bot

\* A new book on the exchange joins the end of the line.
LEMMA RequotePrice ==
    ASSUME PriceInv, TypeOK', NEW a \in Assets, NEW book \in Books, Requote(a, book)
    PROVE  PriceInv'
  <1> DEFINE e == [asset |-> a, book |-> book]   q == hl_rx \o wire
  <1>1. /\ wire \in Seq(Events) /\ hl_rx \in Seq(Events) /\ shown \in [Assets -> Books]
        /\ subscribed \in SUBSET Assets /\ e \in Events
    BY DEF PriceInv, TypeOK, Events
  <1>2. shown' = [shown EXCEPT ![a] = book] /\ UNCHANGED <<hl_rx, subscribed, bot>>
    BY DEF Requote
  <1>3. ASSUME NEW c \in Assets PROVE Traced(c)'
    BY <1>2 DEF PriceInv, Traced, bot
  <1>4. ASSUME NEW c \in subscribed
        PROVE  UpToDate(hl_rx' \o wire', c, shown'[c], agg'[c].hl_mid)
    <2>1. UpToDate(q, c, shown[c], agg[c].hl_mid) /\ agg' = agg
      BY <1>2 DEF PriceInv, bot
    <2>2. c \in Assets /\ (c # a => shown'[c] = shown[c]) /\ shown'[a] = book
      BY <1>1, <1>2
    <2>3. CASE a \in subscribed
      <3>1. wire' = Append(wire, e)
        BY <2>3 DEF Requote
      <3>2. hl_rx' \o wire' = Append(q, e) /\ q \in Seq(Events)
        BY <1>1, <1>2, <3>1, AppendedLast
      <3>3. UpToDate(Append(q, e), c, shown'[c], agg[c].hl_mid)
        BY <1>1, <2>1, <2>2, <3>2, AppendUpToDate
      <3> QED BY <2>1, <3>2, <3>3
    <2>4. CASE a \notin subscribed
      <3>1. wire' = wire /\ c # a
        BY <2>4 DEF Requote
      <3> QED BY <1>2, <2>1, <2>2, <3>1
    <2> QED BY <2>3, <2>4
  <1> QED BY <1>2, <1>3, <1>4 DEF PriceInv

\* The event loop takes in the book at the head of the line.
LEMMA TakeBookPrice ==
    ASSUME PriceInv, TypeOK', TakeBook
    PROVE  PriceInv'
  <1> DEFINE e == Head(hl_rx)   g == Priced(agg[e.asset], e.book)   q == hl_rx \o wire
  <1>1. /\ wire \in Seq(Events) /\ hl_rx \in Seq(Events) /\ hl_rx # <<>>
        /\ agg \in [Assets -> Aggregators] /\ seen \in [Assets -> MidsOf]
        /\ subscribed \in SUBSET Assets
    BY DEF PriceInv, TypeOK, Aggregators, TakeBook
  <1>2. e \in Events /\ e.asset \in Assets /\ e.book \in Books
    <2>1. e \in Events
      BY <1>1, HeadTailProperties
    <2> QED BY <2>1 DEF Events
  <1>3. /\ agg' = [agg EXCEPT ![e.asset] = g] /\ hl_rx' = Tail(hl_rx)
        /\ seen' = [seen EXCEPT ![e.asset] = IF Mid(e.book) = NoPrice THEN @ ELSE Mid(e.book)]
        /\ UNCHANGED <<shown, subscribed, wire, atOpen>>
    BY DEF TakeBook, feeds
  <1>4. /\ g.chainlink = agg[e.asset].chainlink /\ g.open = agg[e.asset].open
        /\ g.hl_mid = IF Mid(e.book) = NoPrice THEN agg[e.asset].hl_mid ELSE Mid(e.book)
    BY <1>1, <1>2, PricedType
  <1> HIDE DEF g, e
  <1>5. ASSUME NEW a \in Assets PROVE Traced(a)'
    <2>1. Traced(a)
      BY DEF PriceInv
    <2>2. CASE a = e.asset
      <3>1. agg'[a] = g /\ seen'[a] = (IF Mid(e.book) = NoPrice THEN seen[a] ELSE Mid(e.book))
        BY <1>1, <1>2, <1>3, <2>2
      <3> QED BY <1>3, <1>4, <2>1, <2>2, <3>1 DEF Traced
    <2>3. CASE a # e.asset
      <3>1. agg'[a] = agg[a] /\ seen'[a] = seen[a]
        BY <1>1, <1>3, <2>3
      <3> QED BY <1>3, <2>1, <3>1 DEF Traced
    <2> QED BY <2>2, <2>3
  <1>6. q \in Seq(Events) /\ q # <<>> /\ Head(q) = e /\ Tail(q) = Tail(hl_rx) \o wire
    BY <1>1, TakenFirst DEF e
  <1>7. ASSUME NEW a \in subscribed
        PROVE  UpToDate(hl_rx' \o wire', a, shown'[a], agg'[a].hl_mid)
    <2>1. a \in Assets /\ UpToDate(q, a, shown[a], agg[a].hl_mid)
      BY <1>1 DEF PriceInv
    <2>2. UpToDate(Tail(q), a, shown[a],
                   IF Head(q).asset = a /\ Mid(Head(q).book) # NoPrice
                   THEN Mid(Head(q).book) ELSE agg[a].hl_mid)
      <3> HIDE DEF q
      <3> QED BY <1>6, <2>1, TailUpToDate
    <2>3. agg'[a].hl_mid = IF e.asset = a /\ Mid(e.book) # NoPrice
                           THEN Mid(e.book) ELSE agg[a].hl_mid
      BY <1>1, <1>2, <1>3, <1>4, <2>1
    <2> QED BY <1>3, <1>6, <2>2, <2>3
  <1> QED BY <1>3, <1>5, <1>7 DEF PriceInv

\* A rotation takes the open price from the aggregator.
LEMMA ActivatePrice ==
    ASSUME PriceInv, TypeOK', NEW a \in Assets, Activate(a)
    PROVE  PriceInv'
  <1>1. agg \in [Assets -> Aggregators] /\ seen \in [Assets -> MidsOf]
        /\ atOpen \in [Assets -> MidsOf] /\ subscribed \in SUBSET Assets
    BY DEF PriceInv, TypeOK, Aggregators
  <1>2. /\ agg' = [agg EXCEPT ![a] = SnapshotOpenPrice(agg[a])]
        /\ atOpen' = [atOpen EXCEPT ![a] = seen[a]]
        /\ UNCHANGED <<shown, subscribed, wire, hl_rx, seen>>
    BY DEF Activate, feeds
  <1>3. ASSUME NEW c \in Assets PROVE Traced(c)' /\ agg'[c].hl_mid = agg[c].hl_mid
    <2>1. Traced(c)
      BY DEF PriceInv
    <2>2. CASE c = a
      <3>1. agg'[a] = SnapshotOpenPrice(agg[a]) /\ atOpen'[a] = seen[a] /\ agg[a] \in Aggregators
        BY <1>1, <1>2
      <3>2. /\ agg'[a].chainlink = NoPrice /\ agg'[a].hl_mid = agg[a].hl_mid
            /\ agg'[a].open = IF agg[a].hl_mid = NoPrice THEN agg[a].open ELSE agg[a].hl_mid
        BY <2>1, <2>2, <3>1, SnapshotType DEF Traced
      <3> QED BY <1>2, <2>1, <2>2, <3>1, <3>2 DEF Traced
    <2>3. CASE c # a
      <3>1. agg'[c] = agg[c] /\ atOpen'[c] = atOpen[c] /\ seen'[c] = seen[c]
        BY <1>1, <1>2, <2>3
      <3> QED BY <2>1, <3>1 DEF Traced
    <2> QED BY <2>2, <2>3
  <1>4. ASSUME NEW c \in subscribed
        PROVE  UpToDate(hl_rx' \o wire', c, shown'[c], agg'[c].hl_mid)
    BY <1>1, <1>2, <1>3 DEF PriceInv
  <1> QED BY <1>2, <1>3, <1>4 DEF PriceInv

\* Every step keeps the invariant of the prices.
LEMMA NextPrice == PriceInv /\ [Next]_vars => PriceInv'
  <1> SUFFICES ASSUME PriceInv, [Next]_vars PROVE PriceInv'
    OBVIOUS
  <1>1. TypeOK'
    BY NextType DEF PriceInv
  <1>2. CASE UNCHANGED vars
    BY <1>1, <1>2, FeedPrice DEF vars, bot
  <1>3. ASSUME NEW a \in Assets, Leg1Refused(a) PROVE PriceInv'
    <2>1. UNCHANGED <<shown, subscribed, wire, hl_rx, agg, seen, atOpen>>
      BY <1>3 DEF Leg1Refused, feeds
    <2> QED BY <1>1, <2>1 DEF PriceInv, Traced, UpToDate, LastOf
  <1>4. CASE Next
    BY <1>1, <1>3, <1>4, HyperliquidPrice, ChainlinkPrice, RequotePrice, TakeBookPrice,
       ActivatePrice DEF Next
  <1> QED BY <1>2, <1>4

\* The inductive invariant: what the aggregator knows is what the loop has
\* taken in, and what is under way ends with what the exchange shows.
THEOREM PriceCorrect == Spec => []PriceInv
  BY InitPrice, NextPrice, PTL DEF Spec

\* The open price is the one known when the market was activated.
THEOREM OpenAtActivationHolds == Spec => []OpenAtActivation
  <1>1. PriceInv => OpenAtActivation
    BY DEF PriceInv, Traced, OpenAtActivation
  <1> QED BY <1>1, PriceCorrect, PTL

\* When nothing is under way the mid the aggregator keeps is the exchange's.
THEOREM PriceCurrentHolds == Spec => []PriceCurrent
  <1>1. ASSUME PriceInv PROVE PriceCurrent
    <2> SUFFICES ASSUME NEW a \in subscribed, ~Undelivered(a), Mid(shown[a]) # NoPrice
                 PROVE  agg[a].hl_mid = Mid(shown[a])
      BY DEF PriceCurrent
    <2> DEFINE q == hl_rx \o wire
    <2>1. /\ wire \in Seq(Events) /\ hl_rx \in Seq(Events) /\ a \in Assets
          /\ Traced(a) /\ UpToDate(q, a, shown[a], agg[a].hl_mid)
      BY <1>1 DEF PriceInv, TypeOK
    <2>2. /\ Len(hl_rx) \in Nat /\ Len(wire) \in Nat /\ Len(q) = Len(hl_rx) + Len(wire)
          /\ \A i \in 1..(Len(hl_rx) + Len(wire)) :
                q[i] = IF i <= Len(hl_rx) THEN hl_rx[i] ELSE wire[i - Len(hl_rx)]
          /\ DOMAIN hl_rx = 1..Len(hl_rx) /\ DOMAIN wire = 1..Len(wire)
      BY <2>1, ConcatProperties, LenProperties
    <2> HIDE DEF q
    <2>3. ASSUME NEW i \in 1..Len(q) PROVE q[i].asset # a
      <3>1. CASE i <= Len(hl_rx)
        <4>1. i \in 1..Len(hl_rx) /\ q[i] = hl_rx[i]
          BY <2>2, <3>1
        <4> QED BY <4>1, <2>2 DEF Undelivered
      <3>2. CASE i > Len(hl_rx)
        <4>1. i - Len(hl_rx) \in 1..Len(wire) /\ q[i] = wire[i - Len(hl_rx)]
          BY <2>2, <3>2
        <4> QED BY <4>1, <2>2 DEF Undelivered
      <3> QED BY <2>2, <3>1, <3>2
    <2> QED BY <2>1, <2>3 DEF UpToDate
  <1> QED BY <1>1, PriceCorrect, PTL

-----------------------------------------------------------------------------
(* Signals.                                                                *)

\* What a direction that evaluate_entry finds says of the prices.
LEMMA SignalsMove ==
    ASSUME NEW g \in Aggregators, NEW book, NEW dir \in Signals(g, book),
           g.chainlink = NoPrice, g.open \in Nat
    PROVE  /\ g.open # NoPrice
           /\ dir = "Up" => Rose(g.open, g.hl_mid)
           /\ dir # "Up" => (g.open - g.hl_mid) * 10000 >= BpsThreshold * g.open
  <1> DEFINE by == (g.hl_mid - g.open) * 10000
             size == IF by > 0 THEN by ELSE -by
             way == IF by > 0 THEN "Up" ELSE "Down"
  <1>1. g.hl_mid \in Nat /\ BpsThreshold \in Nat
    BY MidsAreNat, ThresholdAssumption DEF Aggregators
  <1>2. GetBestPrice(g) = g.hl_mid
    BY DEF GetBestPrice
  <1>3. dir = way /\ g.open # NoPrice /\ size >= BpsThreshold * g.open
    BY <1>2 DEF Signals, Move
  <1>4. by \in Int /\ -by = (g.open - g.hl_mid) * 10000
    BY <1>1
  <1>5. dir = "Up" => by >= BpsThreshold * g.open
    BY <1>3
  <1>6. dir # "Up" => -by >= BpsThreshold * g.open
    BY <1>3
  <1> QED BY <1>3, <1>4, <1>5, <1>6 DEF Rose

\* Every signal is a move of Hyperliquid's price by the threshold at least,
\* from what it was when the market was activated to what it is.
THEOREM SignalIsMoveHolds == Spec => SignalIsMove
  <1> DEFINE Moved(a) ==
          /\ atOpen[a] # NoPrice
          /\ IF direction'[a] = "Up"
             THEN Rose(atOpen[a], seen'[a])
             ELSE (atOpen[a] - seen'[a]) * 10000 >= BpsThreshold * atOpen[a]
  <1>1. ASSUME PriceInv, PriceInv', [Next]_vars, NEW a \in Assets, idle[a], ~idle'[a]
        PROVE  Moved(a)
    <2>1. /\ idle \in [Assets -> BOOLEAN] /\ agg \in [Assets -> Aggregators]
          /\ atOpen \in [Assets -> MidsOf] /\ hl_rx \in Seq(Events)
          /\ direction \in [Assets -> {"None", "Up", "Down"}]
      BY <1>1 DEF PriceInv, TypeOK, Aggregators
    <2>2. TakeBook
      <3>1. ASSUME NEW c \in Assets, Activate(c) \/ Leg1Refused(c) PROVE FALSE
        BY <1>1, <2>1, <3>1 DEF Activate, Leg1Refused
      <3>2. ASSUME UNCHANGED idle PROVE FALSE
        BY <1>1, <3>2
      <3>3. CASE UNCHANGED vars
        BY <3>2, <3>3 DEF vars
      <3>4. CASE \/ Connected \/ SubscribeFails \/ ConnectFails \/ FallsSilent \/ Disconnected
                 \/ ReadBook \/ Wake
        BY <3>2, <3>4 DEF Connected, SubscribeFails, ConnectFails, FallsSilent, Disconnected,
           ReadBook, Wake, bot
      <3>5. CASE ChainlinkConnects \/ ChainlinkDisconnects \/ Drain
        BY <3>2, <3>5 DEF ChainlinkConnects, ChainlinkDisconnects, ChainlinkMoves, Drain, bot
      <3>6. ASSUME NEW c \in Assets,
                   \/ \E book \in Books : Requote(c, book)
                   \/ \E price \in ChainlinkPrices : ChainlinkReport(c, price)
            PROVE  FALSE
        BY <3>2, <3>6 DEF Requote, ChainlinkReport, bot
      <3> QED BY <1>1, <3>1, <3>3, <3>4, <3>5, <3>6 DEF Next
    <2> DEFINE e == Head(hl_rx)   g == Priced(agg[e.asset], e.book)
    <2>3. e \in Events
      BY <2>1, <2>2, HeadTailProperties DEF TakeBook
    <2>4. e.asset \in Assets /\ e.book \in Books
      BY <2>3 DEF Events
    <2>5. /\ agg' = [agg EXCEPT ![e.asset] = g] /\ UNCHANGED atOpen
          /\ \/ UNCHANGED <<idle, direction>>
             \/ \E dir \in (IF idle[e.asset] THEN Signals(g, e.book) ELSE {}) :
                   /\ idle' = [idle EXCEPT ![e.asset] = FALSE]
                   /\ direction' = [direction EXCEPT ![e.asset] = dir]
      BY <2>2 DEF TakeBook
    <2> HIDE DEF e, g
    <2>6. PICK dir \in Signals(g, e.book) : /\ idle' = [idle EXCEPT ![e.asset] = FALSE]
                                            /\ direction' = [direction EXCEPT ![e.asset] = dir]
      BY <1>1, <2>5
    <2>7. a = e.asset
      BY <1>1, <2>1, <2>6
    <2>8. direction'[a] = dir /\ agg'[a] = g /\ g \in Aggregators
      BY <2>1, <2>4, <2>5, <2>6, <2>7, PricedType DEF g
    <2>9. /\ g.chainlink = NoPrice /\ g.hl_mid = seen'[a] /\ g.open = atOpen[a]
      BY <1>1, <2>5, <2>8 DEF PriceInv, Traced
    <2>10. g.open \in Nat
      BY <2>1, <2>9, MidsAreNat
    <2> QED BY <2>6, <2>8, <2>9, <2>10, SignalsMove
  <1>2. PriceInv /\ PriceInv' /\ [Next]_vars
        => [\A a \in Assets : idle[a] /\ ~idle'[a] => Moved(a)]_vars
    BY <1>1
  <1> QED BY <1>2, PriceCorrect, PTL DEF Spec, SignalIsMove

=============================================================================
