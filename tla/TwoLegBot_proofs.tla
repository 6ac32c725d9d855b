--------------------------- MODULE TwoLegBot_proofs ---------------------------
(***************************************************************************)
(* What TLAPS proves of TwoLegBot, for every set of assets, every set of   *)
(* prices, every margin and every bound.                                   *)
(***************************************************************************)
EXTENDS TwoLegBot, FiniteSetTheorems, TLAPS

\* The methods of a LegManager return a LegManager.
LEMMA ManagerTypes ==
    ASSUME NEW m \in Manager(Markets, OrderIds \cup {0})
    PROVE  /\ \A side \in Sides :
                 OnSignal(m, side) \in Manager(Markets, OrderIds \cup {0})
           /\ \A p \in Nat, n \in OrderIds :
                 OnLeg1Fill(m, p, n) \in Manager(Markets, OrderIds \cup {0})
           /\ OnLeg1Rejected(m) \in Manager(Markets, OrderIds \cup {0})
           /\ \A t \in Int : OnTick(m, t, ForceCloseSecs)
                               \in Manager(Markets, OrderIds \cup {0})
           /\ \A p \in Nat :
                 OnLeg2Fill(m, p) \in Manager(Markets, OrderIds \cup {0})
<1> USE DEF Manager, LegStates, Sides
<1>1. \A p \in Nat : MaxLeg2(p) \in Int /\ LockedPnl(m.fill1, p) \in Int
  BY MarginAssumption, SMT DEF MaxLeg2, LockedPnl, TakerFee, Dollar, Slippage
<1>2. ASSUME NEW side \in Sides
      PROVE  OnSignal(m, side) \in Manager(Markets, OrderIds \cup {0})
  BY DEF OnSignal
<1>3. ASSUME NEW p \in Nat, NEW n \in OrderIds
      PROVE  OnLeg1Fill(m, p, n) \in Manager(Markets, OrderIds \cup {0})
  BY <1>1 DEF OnLeg1Fill
<1>4. OnLeg1Rejected(m) \in Manager(Markets, OrderIds \cup {0})
  BY DEF OnLeg1Rejected, New, Fresh
<1>5. ASSUME NEW t \in Int
      PROVE  OnTick(m, t, ForceCloseSecs) \in Manager(Markets, OrderIds \cup {0})
  BY DEF OnTick
<1>6. ASSUME NEW p \in Nat
      PROVE  OnLeg2Fill(m, p) \in Manager(Markets, OrderIds \cup {0})
  BY <1>1 DEF OnLeg2Fill
<1> QED BY <1>2, <1>3, <1>4, <1>5, <1>6

\* The prices at which the exchange fills an order are natural numbers.
LEMMA FillPriceType ==
    ASSUME NEW o \in Order, NEW p \in FillPrices(o)
    PROVE  p \in Nat
<1>1. CASE o.kind = "Leg1"
  BY <1>1, PriceAssumption DEF FillPrices
<1>2. CASE o.kind = "Leg2"
  <2>1. \A q \in PostPrices(o.limit), d \in Improvements : q - d \in Int
    BY PriceAssumption, SMT DEF PostPrices, Ticked, Tick, Order
  <2> QED BY <1>2, <2>1 DEF FillPrices
<1>3. CASE o.kind # "Leg1" /\ o.kind # "Leg2"
  BY <1>3 DEF FillPrices
<1> QED BY <1>1, <1>2, <1>3

\* An order just entered is an order.
LEMMA OrderTypes ==
    ASSUME NEW kind \in Kinds \cup {"None"}, NEW market \in Markets \cup {0},
           NEW side \in Sides, NEW limit \in Int, NEW n \in OrderIds \cup {0}
    PROVE  NewOrder(kind, market, side, limit, n) \in Order
BY DEF NewOrder, Order, Kinds, Replies

Books == {"Filled", "Part", "Resting", "Refused"}

\* It stays one when it is answered, filled late, or taken in.
LEMMA OrderUpdateTypes ==
    ASSUME NEW o \in Order
    PROVE  /\ \A book \in Books, p \in Nat, r \in Replies : Answer(o, book, p, r) \in Order
           /\ \A book \in Books : [o EXCEPT !.book = book] \in Order
           /\ \A m \in Markets \cup {0} : [o EXCEPT !.seenBy = m] \in Order
<1> USE DEF Order, Replies, Books
<1>1. ASSUME NEW book \in Books, NEW p \in Nat, NEW r \in Replies
      PROVE  Answer(o, book, p, r) \in Order
  BY DEF Answer
<1>2. \A book \in Books : [o EXCEPT !.book = book] \in Order
  OBVIOUS
<1>3. ASSUME NEW m \in Markets \cup {0}
      PROVE  [o EXCEPT !.seenBy = m] \in Order
  OBVIOUS
<1> QED BY <1>1, <1>2, <1>3

\* The order that a late match leaves.
LEMMA RestingFillChanges ==
    ASSUME NEW a \in Assets, NEW n \in OrderIds, RestingFill(a, n),
           orders \in [Assets -> [OrderIds -> Order]]
    PROVE  \E book \in Matches(orders[a][n]) :
              /\ book \in Books
              /\ orders' = [orders EXCEPT ![a][n] = [orders[a][n] EXCEPT !.book = book]]
<1>1. PICK book \in Matches(orders[a][n]) : orders' = [orders EXCEPT ![a][n].book = book]
  BY DEF RestingFill
<1>2. orders' = [orders EXCEPT ![a][n] = [orders[a][n] EXCEPT !.book = book]]
  BY <1>1
<1> QED BY <1>2 DEF Matches, Books

\* Replacing one entry of a table of orders.
LEMMA TableType ==
    ASSUME NEW t \in [Assets -> [OrderIds -> Order]],
           NEW a \in Assets, NEW n \in OrderIds, NEW o \in Order
    PROVE  [t EXCEPT ![a][n] = o] \in [Assets -> [OrderIds -> Order]]
OBVIOUS

\* A Leg2 order is not filled above its limit.
LEMMA FillWithinLimit ==
    ASSUME NEW o \in Order, o.kind = "Leg2", NEW p \in FillPrices(o)
    PROVE  p <= o.limit
<1>1. o.limit \in Int
  BY DEF Order
<1>2. \A q \in Ticked(o.limit) : q \in Int /\ q <= o.limit
  BY <1>1, SMT DEF Ticked, Tick
<1>3. PICK q \in Ticked(o.limit), d \in Improvements : p = q - d
  BY DEF FillPrices, PostPrices
<1> QED BY <1>1, <1>2, <1>3, PriceAssumption

\* The type invariant.
THEOREM TypeCorrect == Spec => []TypeOK
<1>1. Init => TypeOK
  <2> SUFFICES ASSUME Init PROVE TypeOK
    OBVIOUS
  <2>1. NoManager \in Manager(Markets, OrderIds \cup {0})
    BY DEF NoManager, Fresh, Manager, LegStates, Sides
  <2>2. NoOrder \in Order
    BY OrderTypes DEF NoOrder, Sides, Kinds
  <2> QED BY <2>1, <2>2, TimeAssumption, BoundAssumption DEF Init, TypeOK
<1>2. TypeOK /\ [Next]_vars => TypeOK'
  <2> SUFFICES ASSUME TypeOK, [Next]_vars PROVE TypeOK'
    OBVIOUS
  <2> USE DEF TypeOK
  <2>1. CASE Elapse
    <3>1. \A a \in Assets : age[a] < Interval => age[a] + 1 \in 0..Interval
      BY TimeAssumption
    <3>2. age' \in [Assets -> 0..Interval]
      BY <2>1, <3>1 DEF Elapse
    <3> QED BY <2>1, <3>2 DEF Elapse
  <2>2. ASSUME NEW a \in Assets, Activate(a) PROVE TypeOK'
    <3>1. mgr[a].market \in 0..MaxMarkets /\ mgr[a].market + 1 \in Markets
      BY <2>2, BoundAssumption DEF Activate, Manager, Markets
    <3>2. New(mgr[a].market + 1) \in Manager(Markets, OrderIds \cup {0})
      BY <3>1 DEF New, Fresh, Manager, LegStates, Sides
    <3>3. mgr[a].market # 0 => mgr[a].market \in Markets
      BY <3>1 DEF Markets
    <3>4. mgr' \in [Assets -> Manager(Markets, OrderIds \cup {0})]
      BY <2>2, <3>2 DEF Activate
    <3>5. age' \in [Assets -> 0..Interval]
      BY <2>2, TimeAssumption DEF Activate
    <3>6. redeemTx' \subseteq Assets \X Markets /\ polySub' \subseteq Assets \X Markets
      BY <2>2, <3>1, <3>3 DEF Activate
    <3> QED BY <2>2, <3>4, <3>5, <3>6 DEF Activate
  <2>3. ASSUME NEW a \in Assets, NEW side \in Sides,
               NEW hint \in Quotes \cup {NoHint}, HlSignal(a, side, hint)
        PROVE  TypeOK'
    <3> DEFINE limit == IF hint = NoHint THEN Dollar ELSE hint
               o     == NewOrder("Leg1", mgr[a].market, side, limit, 0)
    <3>1. limit \in Int
      BY PriceAssumption, SMT DEF Dollar, NoHint
    <3>2. placed[a] + 1 \in OrderIds
      BY <2>3, BoundAssumption DEF HlSignal, OrderIds
    <3>3. o \in Order
      BY <3>1, OrderTypes DEF Kinds, Manager
    <3>4. orders' \in [Assets -> [OrderIds -> Order]]
      BY <2>3, <3>2, <3>3, TableType DEF HlSignal
    <3>5. OnSignal(mgr[a], side) \in Manager(Markets, OrderIds \cup {0})
      BY ManagerTypes
    <3>6. mgr' \in [Assets -> Manager(Markets, OrderIds \cup {0})]
      BY <2>3, <3>5 DEF HlSignal
    <3>7. placed' \in [Assets -> 0..MaxOrders]
      BY <2>3, <3>2 DEF HlSignal, OrderIds
    <3> QED BY <2>3, <3>4, <3>6, <3>7 DEF HlSignal
  <2>4. ASSUME NEW a \in Assets, PolyBook(a) PROVE TypeOK'
    <3> DEFINE o == NewOrder("ForceClose", mgr[a].market, mgr[a].side, Tick,
                             mgr[a].shares)
    <3>1. placed[a] + 1 \in OrderIds /\ Interval - age[a] \in Int
      BY <2>4, BoundAssumption, TimeAssumption DEF PolyBook, OrderIds
    <3>2. OnTick(mgr[a], Interval - age[a], ForceCloseSecs)
            \in Manager(Markets, OrderIds \cup {0})
      BY <3>1, ManagerTypes
    <3>3. Tick \in Int
      BY SMT DEF Tick
    <3>4. o \in Order
      BY <3>3, OrderTypes DEF Manager, Kinds
    <3>5. orders' \in [Assets -> [OrderIds -> Order]]
      BY <2>4, <3>1, <3>4, TableType DEF PolyBook
    <3>6. mgr' \in [Assets -> Manager(Markets, OrderIds \cup {0})]
      BY <2>4, <3>2 DEF PolyBook
    <3>7. placed' \in [Assets -> 0..MaxOrders]
      BY <2>4, <3>1 DEF PolyBook, OrderIds
    <3> QED BY <2>4, <3>5, <3>6, <3>7 DEF PolyBook
  <2>5. ASSUME NEW a \in Assets, NEW n \in OrderIds,
               Fill(a, n) \/ Rest(a, n) \/ RestingFill(a, n) \/ Refuse(a, n)
        PROVE  TypeOK'
    <3>1. orders[a][n] \in Order
      OBVIOUS
    <3>2. \A p \in FillPrices(orders[a][n]) \cup {0} : p \in Nat
      BY <3>1, FillPriceType
    <3>3. \E o \in Order : orders' = [orders EXCEPT ![a][n] = o]
      <4>1. CASE Fill(a, n)
        BY <4>1, <3>1, <3>2, OrderUpdateTypes DEF Fill, Matches, Unknowing, Replies, Books
      <4>2. CASE Rest(a, n)
        BY <4>2, <3>1, <3>2, OrderUpdateTypes DEF Rest, Unknowing, Replies, Books
      <4>3. CASE RestingFill(a, n)
        BY <4>3, <3>1, OrderUpdateTypes, RestingFillChanges
      <4>4. CASE Refuse(a, n)
        BY <4>4, <3>1, <3>2, OrderUpdateTypes DEF Refuse, Replies, Books
      <4> QED BY <2>5, <4>1, <4>2, <4>3, <4>4
    <3>4. orders' \in [Assets -> [OrderIds -> Order]]
      BY <3>3, TableType
    <3> QED BY <2>5, <3>4 DEF Fill, Rest, RestingFill, Refuse
  <2>6. ASSUME NEW a \in Assets, NEW n \in OrderIds
        PROVE  Seen(a, n) \in [Assets -> [OrderIds -> Order]]
    <3>1. [orders[a][n] EXCEPT !.seenBy = mgr[a].market] \in Order
      <4>1. orders[a][n] \in Order /\ mgr[a].market \in Markets \cup {0}
        BY DEF Manager
      <4> QED BY <4>1, OrderUpdateTypes
    <3> QED BY <3>1, TableType DEF Seen
  <2>7. ASSUME NEW a \in Assets, NEW n \in OrderIds,
               NEW m \in Manager(Markets, OrderIds \cup {0}),
               SeenAndPlace(a, n, Leg2Order(m))
        PROVE  /\ orders' \in [Assets -> [OrderIds -> Order]]
               /\ placed' \in [Assets -> 0..MaxOrders]
    <3>1. Leg2Order(m) \in Order
      BY OrderTypes DEF Leg2Order, Manager, Kinds, Opposite, Sides
    <3>2. placed[a] + 1 \in OrderIds
      BY <2>7, BoundAssumption DEF SeenAndPlace, OrderIds
    <3>3. orders' \in [Assets -> [OrderIds -> Order]]
      BY <2>7, <2>6, <3>1, <3>2, TableType DEF SeenAndPlace
    <3>4. placed' \in [Assets -> 0..MaxOrders]
      BY <2>7, <3>2 DEF SeenAndPlace, OrderIds
    <3> QED BY <3>3, <3>4
  <2>8. ASSUME NEW a \in Assets, NEW n \in OrderIds, Leg1Filled(a, n)
        PROVE  TypeOK'
    <3> DEFINE m == OnLeg1Fill(mgr[a], orders[a][n].price, n)
    <3>1. m \in Manager(Markets, OrderIds \cup {0})
      <4>1. /\ mgr[a] \in Manager(Markets, OrderIds \cup {0})
            /\ orders[a][n] \in Order
        OBVIOUS
      <4>2. orders[a][n].price \in Nat
        BY <4>1 DEF Order
      <4> QED BY <4>1, <4>2, ManagerTypes
    <3>2. /\ orders' \in [Assets -> [OrderIds -> Order]]
          /\ placed' \in [Assets -> 0..MaxOrders]
      BY <2>8, <2>6, <2>7, <3>1 DEF Leg1Filled
    <3>3. mgr' \in [Assets -> Manager(Markets, OrderIds \cup {0})]
      BY <2>8, <3>1 DEF Leg1Filled
    <3>4. open' \in [Assets -> Nat]
      BY <2>8 DEF Leg1Filled
    <3> QED BY <2>8, <3>2, <3>3, <3>4 DEF Leg1Filled
  <2>9. ASSUME NEW a \in Assets, NEW n \in OrderIds, Leg2Rejected(a, n)
        PROVE  TypeOK'
    <3>1. /\ orders' \in [Assets -> [OrderIds -> Order]]
          /\ placed' \in [Assets -> 0..MaxOrders]
      BY <2>9, <2>6, <2>7 DEF Leg2Rejected
    <3> QED BY <2>9, <3>1 DEF Leg2Rejected
  <2>10. ASSUME NEW a \in Assets, NEW n \in OrderIds,
                \/ Leg1Refused(a, n) \/ Leg2Filled(a, n)
                \/ ForceCloseFilled(a, n) \/ Logged(a, n)
         PROVE  TypeOK'
    <3>1. orders' \in [Assets -> [OrderIds -> Order]]
      BY <2>10, <2>6 DEF Leg1Refused, Leg2Filled, ForceCloseFilled, Logged
    <3>2. /\ OnLeg1Rejected(mgr[a]) \in Manager(Markets, OrderIds \cup {0})
          /\ OnLeg2Fill(mgr[a], orders[a][n].price)
               \in Manager(Markets, OrderIds \cup {0})
      <4>1. orders[a][n].price \in Nat
        BY DEF Order
      <4> QED BY <4>1, ManagerTypes
    <3>3. CASE Leg1Refused(a, n)
      BY <3>1, <3>2, <3>3 DEF Leg1Refused
    <3>4. CASE Leg2Filled(a, n)
      BY <3>1, <3>2, <3>4 DEF Leg2Filled
    <3>5. CASE ForceCloseFilled(a, n)
      <4>1. (IF open[a] = 0 THEN 0 ELSE open[a] - 1) \in Nat
        OBVIOUS
      <4>2. open' \in [Assets -> Nat]
        BY <3>5, <4>1 DEF ForceCloseFilled
      <4> QED BY <3>1, <3>5, <4>2 DEF ForceCloseFilled
    <3>6. CASE Logged(a, n)
      BY <3>1, <3>6 DEF Logged
    <3> QED BY <2>10, <3>3, <3>4, <3>5, <3>6
  <2>11. CASE UNCHANGED vars
    BY <2>11 DEF vars
  <2> QED BY <2>1, <2>2, <2>3, <2>4, <2>5, <2>8, <2>9, <2>10, <2>11 DEF Next
<1> QED BY <1>1, <1>2, PTL DEF Spec

-----------------------------------------------------------------------------
(***************************************************************************)
(* The inductive invariant, for one asset: m is its manager, t the table   *)
(* of its orders and k the number of orders placed.                        *)
(***************************************************************************)
Managers == Manager(Markets, OrderIds \cup {0})
Tables   == [OrderIds -> Order]

IsOwn(m, t, n) == t[n].kind # "None" /\ t[n].market = m.market

IsClean(m, t) == \A n \in OrderIds :
                    t[n].seenBy = m.market /\ t[n].seenBy # 0 => t[n].market = m.market

\* What holds of every market: order numbers and market numbers are handed out
\* in increasing order, an order is posted, then answered, then taken in, and a
\* Leg2 order is never reported filled above its limit.
Sane(m, t, k) ==
    /\ m.state = "None" <=> m.market = 0
    /\ m.state = "Leg2Pending" => m.target2 = MaxLeg2(m.fill1)
    /\ \A n \in OrderIds :
          /\ t[n].kind # "None" => n <= k /\ t[n].market # 0
          /\ t[n].kind = "None" => t[n].seenBy = 0
          /\ t[n].market <= m.market /\ t[n].seenBy <= m.market
          /\ t[n].book = "Unsent" => t[n].reply = "None"
          /\ t[n].reply = "None" => t[n].seenBy = 0
          /\ t[n].reply = "Filled" => Matched(t[n])
          /\ t[n].book = "Part" => t[n].kind = "Leg2"
          /\ t[n].kind = "Leg2" /\ t[n].reply = "Filled" => t[n].price <= t[n].limit

\* What the manager of a clean market knows of each of its orders.
Leg1Known(m, o) == o.seenBy = 0 => m.state = "Leg1Pending" /\ o.side = m.side
Leg2Known(m, o) == /\ m.state \in Filled1 /\ o.limit = MaxLeg2(m.fill1)
                   /\ o.side = Opposite(m.side) /\ o.shares = m.shares
CloseKnown(m, o) == /\ m.state = "ForceClose"
                    /\ o.side = m.side /\ o.shares = m.shares

Known(m, t) ==
    \A n \in OrderIds : IsOwn(m, t, n) =>
        /\ t[n].kind = "Leg1" => Leg1Known(m, t[n])
        /\ t[n].kind = "Leg2" => Leg2Known(m, t[n])
        /\ t[n].kind = "ForceClose" => CloseKnown(m, t[n])

\* No two unanswered orders of one kind, at most one force-close, and a Leg2
\* order is repeated only after a rejection and never after a force-close.
Single(m, t) ==
    \A i, j \in OrderIds : IsOwn(m, t, i) /\ IsOwn(m, t, j) =>
        /\ t[i].seenBy = 0 /\ t[j].seenBy = 0 /\ t[i].kind = t[j].kind => i = j
        /\ t[i].kind = "ForceClose" /\ t[j].kind = "ForceClose" => i = j
        /\ i < j /\ t[j].kind = "Leg2" =>
              /\ t[i].kind # "ForceClose"
              /\ t[i].kind = "Leg2" => t[i].reply = "Rejected" /\ t[i].seenBy # 0

\* The position of a clean market is that of the orders it came from.
BoughtLeg1(m, t) ==
    LET s == m.shares
    IN  /\ s \in OrderIds /\ IsOwn(m, t, s)
        /\ t[s].kind = "Leg1" /\ t[s].book = "Filled"
        /\ t[s].side = m.side /\ t[s].price = m.fill1

Hedged(m, t) ==
    /\ m.pnl = LockedPnl(m.fill1, m.fill2)
    /\ m.pnl >= MinProfitMargin - TakerFee(Slippage)
    /\ \E j \in OrderIds : /\ IsOwn(m, t, j)
                           /\ t[j].kind = "Leg2" /\ Matched(t[j])
                           /\ t[j].price = m.fill2

Consistent(m, t) ==
    /\ Known(m, t)
    /\ Single(m, t)
    /\ m.state \in Filled1 => BoughtLeg1(m, t)
    /\ m.state = "Locked" => Hedged(m, t)

MarketInv(m, t, k) == Sane(m, t, k) /\ (IsClean(m, t) => Consistent(m, t))

CoreInv == \A a \in Assets : MarketInv(mgr[a], orders[a], placed[a])

-----------------------------------------------------------------------------
(* How one asset's table changes: entry n becomes o.                       *)

Replaces(t, u, n, o) ==
    u[n] = o /\ \A i \in OrderIds \ {n} : u[i] = t[i]

\* EXCEPT replaces one entry of a table.
LEMMA ExceptReplaces ==
    ASSUME NEW t \in Tables, NEW n \in OrderIds, NEW o
    PROVE  Replaces(t, [t EXCEPT ![n] = o], n, o)
BY DEF Replaces, Tables

\* The least profit of a lock whose Leg2 is filled within its limit.
LEMMA LeastProfit ==
    ASSUME NEW p \in Nat, NEW q \in Nat, q <= MaxLeg2(p)
    PROVE  LockedPnl(p, q) >= MinProfitMargin - TakerFee(Slippage)
BY MarginAssumption, SMT DEF LockedPnl, MaxLeg2, TakerFee, Slippage, Dollar

\* Managers and tables of orders have their types.
LEMMA MarketTypes ==
    ASSUME NEW m \in Managers
    PROVE  /\ m.market \in Nat /\ m.fill1 \in Nat /\ m.fill2 \in Nat
           /\ m.state \in LegStates /\ m.side \in Sides
           /\ MaxLeg2(m.fill1) \in Int
<1>1. m.market \in Nat
  BY BoundAssumption DEF Managers, Manager, Markets
<1>2. m.fill1 \in Nat
  BY DEF Managers, Manager
<1>3. MaxLeg2(m.fill1) \in Int
  BY <1>2, MarginAssumption, SMT DEF MaxLeg2, TakerFee, Dollar, Slippage
<1> QED BY <1>1, <1>2, <1>3 DEF Managers, Manager

\* Order q becomes o on the exchange: it is answered, or what rests of it is matched.
Meets(q, o) ==
    /\ \/ /\ q.book = "Unsent" /\ o.book # "Unsent" /\ o.reply # "None"
          /\ o.reply = "Filled" => Matched(o)
          /\ o.kind = "Leg2" /\ o.reply = "Filled" => o.price <= o.limit
       \/ /\ q.book \in {"Resting", "Part"} /\ Matched(o)
          /\ o.reply = q.reply /\ o.price = q.price
    /\ o.book = "Part" => o.kind = "Leg2"

\* The exchange answers an order, or fills one that was resting.
LEMMA AnswerKeeps ==
    ASSUME NEW m \in Managers, NEW t \in Tables, NEW u \in Tables,
           NEW k \in Nat, NEW n \in OrderIds, NEW o \in Order,
           MarketInv(m, t, k), Replaces(t, u, n, o),
           o.kind = t[n].kind, o.market = t[n].market, o.side = t[n].side,
           o.limit = t[n].limit, o.shares = t[n].shares, o.seenBy = t[n].seenBy,
           Meets(t[n], o)
    PROVE  MarketInv(m, u, k)
<1> USE DEF Replaces, Tables, Meets, Matched
<1>1. Sane(m, u, k)
  BY DEF MarketInv, Sane
<1>2. IsClean(m, u) => IsClean(m, t)
  BY DEF IsClean
<1>3. \A i \in OrderIds : IsOwn(m, u, i) <=> IsOwn(m, t, i)
  BY DEF IsOwn
<1>4. ASSUME Consistent(m, t) PROVE Consistent(m, u)
  <2>1. Known(m, u)
    BY <1>3, <1>4 DEF Consistent, Known, Leg1Known, Leg2Known, CloseKnown
  <2>2. Single(m, u)
    <3>1. t[n].book = "Unsent" => t[n].seenBy = 0
      BY DEF MarketInv, Sane
    <3> QED BY <1>3, <1>4, <3>1 DEF Consistent, Single
  <2>3. m.state \in Filled1 => BoughtLeg1(m, u)
    BY <1>3, <1>4 DEF Consistent, BoughtLeg1
  <2>4. m.state = "Locked" => Hedged(m, u)
    BY <1>3, <1>4 DEF Consistent, Hedged
  <2> QED BY <2>1, <2>2, <2>3, <2>4 DEF Consistent
<1> QED BY <1>1, <1>2, <1>4 DEF MarketInv

\* The event loop takes in an answer and leaves the manager alone.
LEMMA SeenKeeps ==
    ASSUME NEW m \in Managers, NEW t \in Tables, NEW u \in Tables,
           NEW k \in Nat, NEW n \in OrderIds, MarketInv(m, t, k),
           Replaces(t, u, n, [t[n] EXCEPT !.seenBy = m.market]),
           t[n].kind # "None", t[n].reply # "None", t[n].seenBy = 0
    PROVE  /\ MarketInv(m, u, k)
           /\ IsClean(m, u) => IsClean(m, t) /\ IsOwn(m, t, n) /\ IsOwn(m, u, n)
           /\ u[n].seenBy # 0 /\ m.market # 0
<1> USE DEF Replaces, Tables
<1>1. /\ t[n] \in Order /\ u[n] = [t[n] EXCEPT !.seenBy = m.market]
      /\ \A i \in OrderIds \ {n} : u[i] = t[i]
  OBVIOUS
<1>2. /\ u[n].kind = t[n].kind /\ u[n].market = t[n].market
      /\ u[n].side = t[n].side /\ u[n].limit = t[n].limit
      /\ u[n].shares = t[n].shares /\ u[n].book = t[n].book
      /\ u[n].price = t[n].price /\ u[n].reply = t[n].reply
      /\ u[n].seenBy = m.market
  BY <1>1 DEF Order
<1>3. m.market # 0
  <2>1. t[n].market # 0 /\ t[n].market <= m.market /\ t[n].market \in Nat
    BY <1>1, BoundAssumption DEF MarketInv, Sane, Order, Markets
  <2> QED BY <2>1, MarketTypes
<1> HIDE DEF Replaces
<1>4. Sane(m, u, k)
  <2>1. m.market \in Nat
    BY MarketTypes
  <2>2. Sane(m, t, k)
    BY DEF MarketInv
  <2>3. \A i \in OrderIds : i # n => u[i] = t[i]
    BY <1>1
  <2> QED BY <1>2, <1>3, <2>1, <2>2, <2>3 DEF Sane, Matched
<1>5. IsClean(m, u) => IsClean(m, t) /\ t[n].market = m.market
  BY <1>1, <1>2, <1>3 DEF IsClean
<1>6. \A i \in OrderIds : IsOwn(m, u, i) <=> IsOwn(m, t, i)
  BY <1>1, <1>2 DEF IsOwn
<1>7. ASSUME Consistent(m, t) PROVE Consistent(m, u)
  <2>1. Known(m, u)
    <3> SUFFICES ASSUME NEW i \in OrderIds, IsOwn(m, u, i)
                 PROVE  /\ u[i].kind = "Leg1" => Leg1Known(m, u[i])
                        /\ u[i].kind = "Leg2" => Leg2Known(m, u[i])
                        /\ u[i].kind = "ForceClose" => CloseKnown(m, u[i])
      BY DEF Known
    <3>1. /\ t[i].kind = "Leg1" => Leg1Known(m, t[i])
          /\ t[i].kind = "Leg2" => Leg2Known(m, t[i])
          /\ t[i].kind = "ForceClose" => CloseKnown(m, t[i])
      BY <1>6, <1>7 DEF Consistent, Known
    <3>2. CASE i = n
      BY <1>2, <1>3, <3>1, <3>2 DEF Leg1Known, Leg2Known, CloseKnown
    <3>3. CASE i # n
      BY <1>1, <3>1, <3>3
    <3> QED BY <3>2, <3>3
  <2>2. Single(m, u)
    <3>1. \A i \in OrderIds : /\ u[i].kind = t[i].kind /\ u[i].reply = t[i].reply
                              /\ u[i].seenBy = 0 => t[i].seenBy = 0
                              /\ t[i].seenBy # 0 => u[i].seenBy # 0
      BY <1>1, <1>2, <1>3
    <3> QED BY <1>6, <1>7, <3>1 DEF Consistent, Single
  <2>3. m.state \in Filled1 => BoughtLeg1(m, u)
    BY <1>1, <1>2, <1>6, <1>7 DEF Consistent, BoughtLeg1
  <2>4. m.state = "Locked" => Hedged(m, u)
    <3>1. \A i \in OrderIds : /\ u[i].kind = t[i].kind /\ u[i].book = t[i].book
                              /\ u[i].price = t[i].price
      BY <1>1, <1>2
    <3> QED BY <1>6, <1>7, <3>1 DEF Consistent, Hedged, Matched
  <2> QED BY <2>1, <2>2, <2>3, <2>4 DEF Consistent
<1> QED BY <1>2, <1>3, <1>4, <1>5, <1>6, <1>7 DEF MarketInv, IsOwn

\* A new order of the current market is entered under the next number.
LEMMA PlaceKeeps ==
    ASSUME NEW m \in Managers, NEW t \in Tables, NEW u \in Tables,
           NEW k \in Nat, k + 1 \in OrderIds, NEW o \in Order,
           Sane(m, t, k), Replaces(t, u, k + 1, o),
           o.kind # "None", o.market = m.market, m.market # 0,
           o.book = "Unsent", o.reply = "None", o.seenBy = 0
    PROVE  /\ Sane(m, u, k + 1)
           /\ IsClean(m, u) => IsClean(m, t)
           /\ t[k + 1].kind = "None" /\ u[k + 1] = o
           /\ \A i \in OrderIds : i # k + 1 => u[i] = t[i]
           /\ \A i \in OrderIds : IsOwn(m, u, i) <=> IsOwn(m, t, i) \/ i = k + 1
           /\ \A i \in OrderIds : IsOwn(m, t, i) => i <= k
<1>1. u[k + 1] = o /\ \A i \in OrderIds : i # k + 1 => u[i] = t[i]
  BY DEF Replaces
<1>2. m.market \in Nat
  BY MarketTypes
<1>3. t[k + 1].kind = "None"
  BY DEF Sane
<1>4. Sane(m, u, k + 1)
  <2>1. \A i \in OrderIds : i \in Nat
    BY BoundAssumption DEF OrderIds
  <2>2. \A i \in OrderIds : u[i].kind # "None" => i <= k + 1 /\ u[i].market # 0
    BY <1>1, <2>1 DEF Sane
  <2>3. \A i \in OrderIds : u[i].market <= m.market /\ u[i].seenBy <= m.market
    BY <1>1, <1>2 DEF Sane
  <2> QED BY <1>1, <2>2, <2>3 DEF Sane
<1>5. IsClean(m, u) => IsClean(m, t)
  BY <1>1, <1>3 DEF Sane, IsClean
<1>6. \A i \in OrderIds : IsOwn(m, u, i) <=> IsOwn(m, t, i) \/ i = k + 1
  BY <1>1 DEF IsOwn
<1>7. \A i \in OrderIds : IsOwn(m, t, i) => i <= k
  BY DEF Sane, IsOwn
<1> QED BY <1>1, <1>3, <1>4, <1>5, <1>6, <1>7

\* Entry n of the table is marked as taken in by the current manager.
Takes(m, t, u, n, kind) ==
    /\ t[n].kind = kind /\ t[n].reply # "None" /\ t[n].seenBy = 0
    /\ Replaces(t, u, n, [t[n] EXCEPT !.seenBy = m.market])

\* HlSignal.
LEMMA SignalKeeps ==
    ASSUME NEW m \in Managers, NEW t \in Tables, NEW u \in Tables,
           NEW k \in Nat, k + 1 \in OrderIds, NEW side \in Sides,
           NEW limit \in Int, MarketInv(m, t, k), m.state = "Idle",
           Replaces(t, u, k + 1, NewOrder("Leg1", m.market, side, limit, 0))
    PROVE  MarketInv(OnSignal(m, side), u, k + 1)
<1> DEFINE o  == NewOrder("Leg1", m.market, side, limit, 0)
           m2 == OnSignal(m, side)
<1>1. o \in Order
  BY OrderTypes DEF Kinds, Managers, Manager
<1>2. /\ o.kind = "Leg1" /\ o.market = m.market /\ o.side = side
      /\ o.book = "Unsent" /\ o.reply = "None" /\ o.seenBy = 0
  BY DEF NewOrder
<1>3. Sane(m, t, k) /\ m.market # 0
  BY DEF MarketInv, Sane
<1>4. /\ m2.state = "Leg1Pending" /\ m2.side = side /\ m2.market = m.market
  BY DEF OnSignal, Managers, Manager
<1> HIDE DEF o, m2
<1>5. /\ Sane(m, u, k + 1)
      /\ IsClean(m, u) => IsClean(m, t)
      /\ u[k + 1] = o
      /\ \A i \in OrderIds : i # k + 1 => u[i] = t[i]
      /\ \A i \in OrderIds : IsOwn(m, u, i) <=> IsOwn(m, t, i) \/ i = k + 1
      /\ \A i \in OrderIds : IsOwn(m, t, i) => i <= k
  BY <1>1, <1>2, <1>3, PlaceKeeps DEF o
<1>6. Sane(m2, u, k + 1)
  BY <1>4, <1>5, <1>3 DEF Sane
<1>7. ASSUME Consistent(m, t) PROVE Consistent(m2, u)
  <2>1. \A i \in OrderIds : IsOwn(m, t, i) =>
           /\ t[i].kind = "Leg1" => t[i].seenBy # 0
           /\ t[i].kind # "Leg2" /\ t[i].kind # "ForceClose"
    BY <1>7 DEF Consistent, Known, Leg1Known, Leg2Known, CloseKnown, Filled1
  <2>2. \A i \in OrderIds : IsOwn(m2, u, i) <=> IsOwn(m, u, i)
    BY <1>4 DEF IsOwn
  <2>3. Known(m2, u)
    BY <1>2, <1>4, <1>5, <2>1, <2>2 DEF Known, Leg1Known
  <2>4. Single(m2, u)
    BY <1>2, <1>5, <1>7, <2>1, <2>2 DEF Consistent, Single
  <2> QED BY <1>4, <2>3, <2>4 DEF Consistent, Filled1
<1>8. IsClean(m2, u) => IsClean(m, u)
  BY <1>4 DEF IsClean
<1> QED BY <1>5, <1>6, <1>7, <1>8 DEF MarketInv, m2

\* Leg1Refused.
LEMMA Leg1RefusedKeeps ==
    ASSUME NEW m \in Managers, NEW t \in Tables, NEW u \in Tables,
           NEW k \in Nat, NEW n \in OrderIds, MarketInv(m, t, k),
           Takes(m, t, u, n, "Leg1")
    PROVE  MarketInv(OnLeg1Rejected(m), u, k)
<1> DEFINE m2 == OnLeg1Rejected(m)
<1>1. m2.state = "Idle" /\ m2.market = m.market
  BY DEF OnLeg1Rejected, New, Fresh
<1> HIDE DEF m2
<1>2. /\ MarketInv(m, u, k) /\ u[n].seenBy # 0 /\ m.market # 0
      /\ IsClean(m, u) => IsClean(m, t) /\ IsOwn(m, t, n)
      /\ \A i \in OrderIds : i # n => u[i] = t[i]
  BY SeenKeeps DEF Takes, Replaces
<1>3. Sane(m2, u, k)
  BY <1>1, <1>2 DEF MarketInv, Sane
<1>4. ASSUME IsClean(m, u) PROVE Consistent(m2, u)
  <2>1. Consistent(m, t) /\ Consistent(m, u) /\ IsOwn(m, t, n)
    BY <1>2, <1>4 DEF MarketInv
  <2>2. m.state = "Leg1Pending"
    BY <2>1 DEF Takes, Consistent, Known, Leg1Known
  <2>3. \A i \in OrderIds : IsOwn(m, u, i) =>
           /\ u[i].kind = "Leg1" => u[i].seenBy # 0
           /\ u[i].kind # "Leg2" /\ u[i].kind # "ForceClose"
    <3> SUFFICES ASSUME NEW i \in OrderIds, IsOwn(m, u, i)
                 PROVE  /\ u[i].kind = "Leg1" => u[i].seenBy # 0
                        /\ u[i].kind # "Leg2" /\ u[i].kind # "ForceClose"
      OBVIOUS
    <3>1. u[i].kind # "Leg2" /\ u[i].kind # "ForceClose"
      BY <2>1, <2>2 DEF Consistent, Known, Leg2Known, CloseKnown, Filled1
    <3>2. u[i].kind = "Leg1" /\ i # n => t[i].seenBy # 0
      BY <1>2, <2>1 DEF Takes, Consistent, Single, IsOwn
    <3> QED BY <1>2, <3>1, <3>2
  <2>4. \A i \in OrderIds : IsOwn(m2, u, i) <=> IsOwn(m, u, i)
    BY <1>1 DEF IsOwn
  <2>5. Known(m2, u)
    BY <2>3, <2>4 DEF Known, Leg1Known
  <2>6. Single(m2, u)
    BY <2>1, <2>4 DEF Consistent, Single
  <2> QED BY <1>1, <2>5, <2>6 DEF Consistent, Filled1
<1>5. IsClean(m2, u) => IsClean(m, u)
  BY <1>1 DEF IsClean
<1> QED BY <1>3, <1>4, <1>5 DEF MarketInv, m2

\* Leg2Filled.
LEMMA Leg2FilledKeeps ==
    ASSUME NEW m \in Managers, NEW t \in Tables, NEW u \in Tables,
           NEW k \in Nat, NEW n \in OrderIds, MarketInv(m, t, k),
           Takes(m, t, u, n, "Leg2"), t[n].reply = "Filled"
    PROVE  MarketInv(OnLeg2Fill(m, t[n].price), u, k)
<1> DEFINE m2 == OnLeg2Fill(m, t[n].price)
<1>1. /\ MarketInv(m, u, k) /\ m.market # 0
      /\ IsClean(m, u) => IsClean(m, t) /\ IsOwn(m, t, n) /\ IsOwn(m, u, n)
  BY SeenKeeps DEF Takes
<1>2. CASE m.state # "Leg2Pending"
  BY <1>1, <1>2 DEF OnLeg2Fill
<1>3. CASE m.state = "Leg2Pending"
  <2>1. /\ m2.state = "Locked" /\ m2.market = m.market /\ m2.side = m.side
        /\ m2.fill1 = m.fill1 /\ m2.shares = m.shares /\ m2.fill2 = t[n].price
        /\ m2.pnl = LockedPnl(m.fill1, t[n].price)
    BY <1>3 DEF OnLeg2Fill, Managers, Manager
  <2> HIDE DEF m2
  <2>2. Sane(m2, u, k)
    BY <1>1, <2>1 DEF MarketInv, Sane
  <2>3. ASSUME IsClean(m, u) PROVE Consistent(m2, u)
    <3>1. /\ Consistent(m, t) /\ Consistent(m, u)
          /\ IsOwn(m, t, n) /\ IsOwn(m, u, n)
      BY <1>1, <2>3 DEF MarketInv
    <3>2. \A i \in OrderIds : IsOwn(m2, u, i) <=> IsOwn(m, u, i)
      BY <2>1 DEF IsOwn
    <3>3. Known(m2, u)
      BY <1>3, <2>1, <3>1, <3>2
      DEF Consistent, Known, Leg1Known, Leg2Known, CloseKnown, Filled1
    <3>4. Single(m2, u)
      BY <3>1, <3>2 DEF Consistent, Single
    <3>5. BoughtLeg1(m2, u)
      BY <1>3, <2>1, <3>1, <3>2 DEF Consistent, BoughtLeg1, Filled1
    <3>6. t[n].price <= MaxLeg2(m.fill1)
      BY <3>1 DEF Takes, MarketInv, Sane, Consistent, Known, Leg2Known
    <3>7. m2.pnl >= MinProfitMargin - TakerFee(Slippage)
      <4>1. m.fill1 \in Nat /\ t[n].price \in Nat
        BY MarketTypes DEF Tables, Order
      <4> QED BY <2>1, <3>6, <4>1, LeastProfit
    <3>8. u[n].kind = "Leg2" /\ Matched(u[n]) /\ u[n].price = t[n].price
      <4>1. t[n] \in Order /\ Matched(t[n])
        BY DEF Tables, MarketInv, Sane
      <4> QED BY <4>1 DEF Takes, Replaces, Order, Matched
    <3>9. Hedged(m2, u)
      BY <2>1, <3>1, <3>2, <3>7, <3>8 DEF Hedged
    <3> QED BY <2>1, <3>3, <3>4, <3>5, <3>9 DEF Consistent
  <2>4. IsClean(m2, u) => IsClean(m, u)
    BY <2>1 DEF IsClean
  <2> QED BY <2>2, <2>3, <2>4 DEF MarketInv, m2
<1> QED BY <1>2, <1>3

\* Leg1Filled in state Leg1Pending: the Leg2 order is entered.
LEMMA Leg1FilledKeeps ==
    ASSUME NEW m \in Managers, NEW t \in Tables, NEW u \in Tables,
           NEW v \in Tables, NEW k \in Nat, k + 1 \in OrderIds,
           NEW n \in OrderIds, MarketInv(m, t, k),
           Takes(m, t, u, n, "Leg1"), t[n].reply = "Filled",
           m.state = "Leg1Pending",
           Replaces(u, v, k + 1, Leg2Order(OnLeg1Fill(m, t[n].price, n)))
    PROVE  MarketInv(OnLeg1Fill(m, t[n].price, n), v, k + 1)
<1> DEFINE m2 == OnLeg1Fill(m, t[n].price, n)
           o  == Leg2Order(m2)
<1>1. t[n] \in Order /\ t[n].price \in Nat
  BY DEF Tables, Order
<1>2. /\ m2 \in Managers /\ m2.state = "Leg2Pending" /\ m2.market = m.market
      /\ m2.side = m.side /\ m2.fill1 = t[n].price /\ m2.shares = n
      /\ m2.target2 = MaxLeg2(t[n].price)
  BY <1>1, ManagerTypes DEF OnLeg1Fill, Managers, Manager
<1> HIDE DEF m2
<1>3. o \in Order
  BY <1>2, OrderTypes DEF Leg2Order, Managers, Manager, Kinds, Opposite, Sides
<1>4. /\ o.kind = "Leg2" /\ o.market = m.market /\ o.side = Opposite(m.side)
      /\ o.limit = MaxLeg2(t[n].price) /\ o.shares = n
      /\ o.book = "Unsent" /\ o.reply = "None" /\ o.seenBy = 0
  BY <1>2 DEF Leg2Order, NewOrder
<1>5. /\ MarketInv(m, u, k) /\ m.market # 0
      /\ IsClean(m, u) => IsClean(m, t) /\ IsOwn(m, t, n) /\ IsOwn(m, u, n)
      /\ \A i \in OrderIds : i # n => u[i] = t[i]
      /\ u[n].seenBy # 0
  BY SeenKeeps DEF Takes, Replaces
<1>6. /\ Sane(m, v, k + 1)
      /\ IsClean(m, v) => IsClean(m, u)
      /\ v[k + 1] = o /\ u[k + 1].kind = "None"
      /\ \A i \in OrderIds : i # k + 1 => v[i] = u[i]
      /\ \A i \in OrderIds : IsOwn(m, v, i) <=> IsOwn(m, u, i) \/ i = k + 1
      /\ \A i \in OrderIds : IsOwn(m, u, i) => i <= k
  <2> HIDE DEF o
  <2>1. Replaces(u, v, k + 1, o) /\ Sane(m, u, k)
    BY <1>5 DEF MarketInv, o, m2
  <2> QED BY <1>3, <1>4, <1>5, <2>1, PlaceKeeps
<1> HIDE DEF o
<1>7. Sane(m2, v, k + 1)
  BY <1>2, <1>5, <1>6 DEF Sane
<1>8. ASSUME IsClean(m, v) PROVE Consistent(m2, v)
  <2>1. /\ Consistent(m, t) /\ Consistent(m, u)
        /\ IsOwn(m, t, n) /\ IsOwn(m, u, n)
    BY <1>5, <1>6, <1>8 DEF MarketInv
  <2>2. \A i \in OrderIds : IsOwn(m, u, i) =>
           /\ u[i].kind = "Leg1" => u[i].seenBy # 0
           /\ u[i].kind # "Leg2" /\ u[i].kind # "ForceClose"
    <3> SUFFICES ASSUME NEW i \in OrderIds, IsOwn(m, u, i)
                 PROVE  /\ u[i].kind = "Leg1" => u[i].seenBy # 0
                        /\ u[i].kind # "Leg2" /\ u[i].kind # "ForceClose"
      OBVIOUS
    <3>1. u[i].kind # "Leg2" /\ u[i].kind # "ForceClose"
      BY <2>1 DEF Consistent, Known, Leg2Known, CloseKnown, Filled1
    <3>2. u[i].kind = "Leg1" /\ i # n => t[i].seenBy # 0
      BY <1>5, <2>1 DEF Takes, Consistent, Single, IsOwn
    <3> QED BY <1>5, <3>1, <3>2
  <2>3. \A i \in OrderIds : IsOwn(m2, v, i) <=> IsOwn(m, u, i) \/ i = k + 1
    BY <1>2, <1>6 DEF IsOwn
  <2>4. Known(m2, v)
    BY <1>2, <1>4, <1>6, <2>2, <2>3 DEF Known, Leg1Known, Leg2Known, Filled1
  <2>5. Single(m2, v)
    BY <1>4, <1>6, <2>1, <2>2, <2>3 DEF Consistent, Single
  <2>6. BoughtLeg1(m2, v)
    <3>1. n # k + 1
      BY <1>6, <2>1 DEF IsOwn
    <3>2. /\ u[n].kind = "Leg1" /\ u[n].book = "Filled"
          /\ u[n].price = t[n].price /\ u[n].side = t[n].side
      BY <1>1 DEF Takes, Replaces, Order, MarketInv, Sane, Matched
    <3>3. t[n].side = m.side
      BY <2>1 DEF Consistent, Known, Leg1Known, Takes
    <3> QED BY <1>2, <1>6, <2>1, <2>3, <3>1, <3>2, <3>3 DEF BoughtLeg1
  <2> QED BY <1>2, <2>4, <2>5, <2>6 DEF Consistent
<1>9. IsClean(m2, v) => IsClean(m, v)
  BY <1>2 DEF IsClean
<1> QED BY <1>7, <1>8, <1>9 DEF MarketInv, m2

\* Leg2Rejected in state Leg2Pending: the Leg2 order is entered again.
LEMMA Leg2RejectedKeeps ==
    ASSUME NEW m \in Managers, NEW t \in Tables, NEW u \in Tables,
           NEW v \in Tables, NEW k \in Nat, k + 1 \in OrderIds,
           NEW n \in OrderIds, MarketInv(m, t, k),
           Takes(m, t, u, n, "Leg2"), t[n].reply = "Rejected",
           m.state = "Leg2Pending", Replaces(u, v, k + 1, Leg2Order(m))
    PROVE  MarketInv(m, v, k + 1)
<1> DEFINE o == Leg2Order(m)
<1>1. o \in Order
  BY OrderTypes DEF Leg2Order, Managers, Manager, Kinds, Opposite, Sides
<1>2. m.target2 = MaxLeg2(m.fill1)
  BY DEF MarketInv, Sane
<1>3. /\ o.kind = "Leg2" /\ o.market = m.market /\ o.side = Opposite(m.side)
      /\ o.limit = MaxLeg2(m.fill1) /\ o.shares = m.shares
      /\ o.book = "Unsent" /\ o.reply = "None" /\ o.seenBy = 0
  BY <1>2 DEF Leg2Order, NewOrder
<1> HIDE DEF o
<1>4. /\ MarketInv(m, u, k) /\ m.market # 0
      /\ IsClean(m, u) => IsClean(m, t) /\ IsOwn(m, t, n) /\ IsOwn(m, u, n)
      /\ \A i \in OrderIds : i # n => u[i] = t[i]
      /\ u[n].seenBy # 0
  BY SeenKeeps DEF Takes, Replaces
<1>5. u[n].reply = "Rejected"
  BY DEF Takes, Replaces, Tables, Order
<1>6. /\ Sane(m, v, k + 1)
      /\ IsClean(m, v) => IsClean(m, u)
      /\ v[k + 1] = o /\ u[k + 1].kind = "None"
      /\ \A i \in OrderIds : i # k + 1 => v[i] = u[i]
      /\ \A i \in OrderIds : IsOwn(m, v, i) <=> IsOwn(m, u, i) \/ i = k + 1
      /\ \A i \in OrderIds : IsOwn(m, u, i) => i <= k
  <2>1. Replaces(u, v, k + 1, o) /\ Sane(m, u, k)
    BY <1>4 DEF MarketInv, o
  <2> QED BY <1>1, <1>3, <1>4, <2>1, PlaceKeeps
<1>7. ASSUME IsClean(m, v) PROVE Consistent(m, v)
  <2>1. /\ Consistent(m, t) /\ Consistent(m, u)
        /\ IsOwn(m, t, n) /\ IsOwn(m, u, n)
    BY <1>4, <1>6, <1>7 DEF MarketInv
  <2>2. \A i \in OrderIds : IsOwn(m, u, i) => u[i].kind # "ForceClose"
    BY <2>1 DEF Consistent, Known, CloseKnown
  <2>3. \A i \in OrderIds : IsOwn(m, u, i) /\ u[i].kind = "Leg2"
                            => u[i].reply = "Rejected" /\ u[i].seenBy # 0
    <3> SUFFICES ASSUME NEW i \in OrderIds, IsOwn(m, u, i),
                        u[i].kind = "Leg2", i # n
                 PROVE  u[i].reply = "Rejected" /\ u[i].seenBy # 0
      BY <1>4, <1>5
    <3>1. t[i].kind = "Leg2" /\ IsOwn(m, t, i)
      BY <1>4 DEF IsOwn
    <3>2. i \in Int /\ n \in Int
      BY BoundAssumption DEF OrderIds
    <3>3. CASE i < n
      BY <1>4, <2>1, <3>1, <3>3 DEF Takes, Consistent, Single
    <3>4. CASE n < i
      BY <2>1, <3>1, <3>4 DEF Takes, Consistent, Single
    <3> QED BY <3>2, <3>3, <3>4
  <2>4. Known(m, v)
    BY <1>3, <1>6, <2>1 DEF Consistent, Known, Leg2Known, Filled1
  <2>5. Single(m, v)
    <3>1. k + 1 \in Int /\ \A i \in OrderIds : i \in Int
      BY BoundAssumption DEF OrderIds
    <3>2. \A i \in OrderIds : IsOwn(m, v, i) => i = k + 1 \/ (i <= k /\ IsOwn(m, u, i) /\ v[i] = u[i])
      BY <1>6, <3>1
    <3>3. Single(m, u)
      BY <2>1 DEF Consistent
    <3>4. ASSUME NEW i \in OrderIds, IsOwn(m, v, i)
          PROVE  /\ v[i].kind # "ForceClose"
                 /\ v[i].kind = "Leg2" /\ v[i].seenBy = 0 => i = k + 1
                 /\ v[i].kind = "Leg2" /\ i # k + 1 =>
                       v[i].reply = "Rejected" /\ v[i].seenBy # 0
      BY <1>3, <1>6, <2>2, <2>3, <3>2, <3>4
    <3>5. ASSUME NEW i \in OrderIds, NEW j \in OrderIds,
                 IsOwn(m, v, i), IsOwn(m, v, j)
          PROVE  /\ v[i].seenBy = 0 /\ v[j].seenBy = 0 /\ v[i].kind = v[j].kind
                       => i = j
                 /\ i < j /\ v[j].kind = "Leg2" /\ v[i].kind = "Leg2"
                       => v[i].reply = "Rejected" /\ v[i].seenBy # 0
      <4>1. v[i].seenBy = 0 /\ v[j].seenBy = 0 /\ v[i].kind = v[j].kind => i = j
        BY <1>3, <1>6, <3>2, <3>3, <3>4, <3>5 DEF Single
      <4>2. i < j => i # k + 1
        BY <3>1, <3>2, <3>5
      <4> QED BY <3>4, <3>5, <4>1, <4>2
    <3> QED BY <3>4, <3>5 DEF Single
  <2>6. BoughtLeg1(m, v)
    BY <1>6, <2>1 DEF Consistent, BoughtLeg1, Filled1, IsOwn
  <2> QED BY <2>4, <2>5, <2>6 DEF Consistent
<1> QED BY <1>6, <1>7 DEF MarketInv

\* PolyBook: the force-close is entered.
LEMMA ForceCloseKeeps ==
    ASSUME NEW m \in Managers, NEW t \in Tables, NEW u \in Tables,
           NEW k \in Nat, k + 1 \in OrderIds, NEW secs \in Int,
           MarketInv(m, t, k), ForceCloseDue(m, secs, ForceCloseSecs),
           Replaces(t, u, k + 1,
                    NewOrder("ForceClose", m.market, m.side, Tick, m.shares))
    PROVE  MarketInv(OnTick(m, secs, ForceCloseSecs), u, k + 1)
<1> DEFINE o  == NewOrder("ForceClose", m.market, m.side, Tick, m.shares)
           m2 == OnTick(m, secs, ForceCloseSecs)
<1>1. Tick \in Int
  BY SMT DEF Tick
<1>2. o \in Order
  BY <1>1, OrderTypes DEF Managers, Manager, Kinds
<1>3. /\ o.kind = "ForceClose" /\ o.market = m.market /\ o.side = m.side
      /\ o.shares = m.shares
      /\ o.book = "Unsent" /\ o.reply = "None" /\ o.seenBy = 0
  BY DEF NewOrder
<1>4. m.state = "Leg2Pending" /\ m.market # 0 /\ Sane(m, t, k)
  BY DEF ForceCloseDue, MarketInv, Sane
<1>5. /\ m2.state = "ForceClose" /\ m2.market = m.market /\ m2.side = m.side
      /\ m2.fill1 = m.fill1 /\ m2.shares = m.shares
  BY DEF OnTick, Managers, Manager
<1> HIDE DEF o, m2
<1>6. /\ Sane(m, u, k + 1)
      /\ IsClean(m, u) => IsClean(m, t)
      /\ u[k + 1] = o
      /\ \A i \in OrderIds : i # k + 1 => u[i] = t[i]
      /\ \A i \in OrderIds : IsOwn(m, u, i) <=> IsOwn(m, t, i) \/ i = k + 1
      /\ \A i \in OrderIds : IsOwn(m, t, i) => i <= k
  BY <1>2, <1>3, <1>4, PlaceKeeps DEF o
<1>7. Sane(m2, u, k + 1)
  BY <1>4, <1>5, <1>6 DEF Sane
<1>8. ASSUME Consistent(m, t) PROVE Consistent(m2, u)
  <2>1. \A i \in OrderIds : IsOwn(m, t, i) =>
           /\ t[i].kind = "Leg1" => t[i].seenBy # 0
           /\ t[i].kind # "ForceClose"
    BY <1>4, <1>8 DEF Consistent, Known, Leg1Known, CloseKnown
  <2>2. \A i \in OrderIds : IsOwn(m2, u, i) <=> IsOwn(m, t, i) \/ i = k + 1
    BY <1>5, <1>6 DEF IsOwn
  <2>3. k + 1 \in Int /\ \A i \in OrderIds : i \in Int
    BY BoundAssumption DEF OrderIds
  <2>4. Known(m2, u)
    BY <1>3, <1>5, <1>6, <1>8, <2>1, <2>2
    DEF Consistent, Known, Leg1Known, Leg2Known, CloseKnown, Filled1
  <2>5. Single(m2, u)
    <3>1. \A i \in OrderIds : IsOwn(m2, u, i) /\ i # k + 1 =>
             IsOwn(m, t, i) /\ i <= k /\ u[i] = t[i] /\ u[i].kind # "ForceClose"
      BY <1>6, <2>1, <2>2
    <3>2. Single(m, t)
      BY <1>8 DEF Consistent
    <3>3. ASSUME NEW i \in OrderIds, NEW j \in OrderIds,
                 IsOwn(m2, u, i), IsOwn(m2, u, j), i = k + 1 \/ j = k + 1
          PROVE  /\ u[i].kind = u[j].kind => i = j
                 /\ ~(i < j /\ u[j].kind = "Leg2")
      BY <1>3, <1>6, <2>3, <3>1, <3>3
    <3>4. ASSUME NEW i \in OrderIds, NEW j \in OrderIds,
                 IsOwn(m2, u, i), IsOwn(m2, u, j), i # k + 1, j # k + 1
          PROVE  /\ u[i].seenBy = 0 /\ u[j].seenBy = 0 /\ u[i].kind = u[j].kind
                       => i = j
                 /\ i < j /\ u[j].kind = "Leg2" =>
                       /\ u[i].kind # "ForceClose"
                       /\ u[i].kind = "Leg2" => u[i].reply = "Rejected" /\ u[i].seenBy # 0
                 /\ u[i].kind # "ForceClose"
      BY <3>1, <3>2, <3>4 DEF Single
    <3> QED BY <3>3, <3>4 DEF Single
  <2>6. BoughtLeg1(m2, u)
    BY <1>4, <1>5, <1>6, <1>8, <2>2, <2>3 DEF Consistent, BoughtLeg1, Filled1
  <2> QED BY <1>5, <2>4, <2>5, <2>6 DEF Consistent
<1>9. IsClean(m2, u) => IsClean(m, u)
  BY <1>5 DEF IsClean
<1> QED BY <1>6, <1>7, <1>8, <1>9 DEF MarketInv, m2

\* Activate: the new market has no orders yet.
LEMMA ActivateKeeps ==
    ASSUME NEW m \in Managers, NEW t \in Tables, NEW k \in Nat,
           MarketInv(m, t, k)
    PROVE  MarketInv(New(m.market + 1), t, k)
<1> DEFINE m2 == New(m.market + 1)
<1>1. m2.state = "Idle" /\ m2.market = m.market + 1
  BY DEF New, Fresh
<1>2. m.market \in Nat
  BY MarketTypes
<1> HIDE DEF m2
<1>3. Sane(m, t, k)
  BY DEF MarketInv
<1>4. \A n \in OrderIds : t[n].market \in Nat /\ t[n].seenBy \in Nat
  BY BoundAssumption DEF Tables, Order, Markets
<1>5. Sane(m2, t, k)
  BY <1>1, <1>2, <1>3, <1>4 DEF Sane
<1>6. \A n \in OrderIds : ~IsOwn(m2, t, n)
  BY <1>1, <1>2, <1>3, <1>4 DEF Sane, IsOwn
<1>7. Consistent(m2, t)
  BY <1>1, <1>6 DEF Consistent, Known, Single, Filled1
<1> QED BY <1>5, <1>7 DEF MarketInv, m2

-----------------------------------------------------------------------------
(* The invariant of every asset.                                           *)

\* MarketInv holds of every asset at the start.
LEMMA CoreInit == Init => CoreInv
<1> SUFFICES ASSUME Init, NEW a \in Assets
             PROVE  MarketInv(mgr[a], orders[a], placed[a])
  BY DEF CoreInv
<1>1. mgr[a] = NoManager /\ placed[a] = 0 /\ \A n \in OrderIds : orders[a][n] = NoOrder
  BY DEF Init
<1>2. mgr[a].state = "None" /\ mgr[a].market = 0
  BY <1>1 DEF NoManager, Fresh
<1>3. \A n \in OrderIds :
         /\ orders[a][n].kind = "None" /\ orders[a][n].market = 0
         /\ orders[a][n].seenBy = 0 /\ orders[a][n].reply = "None"
         /\ orders[a][n].book = "Unsent"
  BY <1>1 DEF NoOrder, NewOrder
<1>4. Sane(mgr[a], orders[a], placed[a])
  BY <1>2, <1>3 DEF Sane
<1>5. Consistent(mgr[a], orders[a])
  BY <1>2, <1>3 DEF Consistent, Known, Single, IsOwn, Filled1
<1> QED BY <1>4, <1>5 DEF MarketInv

\* The manager and the orders of one asset have their types.
LEMMA RowTypes ==
    ASSUME TypeOK, NEW a \in Assets
    PROVE  mgr[a] \in Managers /\ orders[a] \in Tables /\ placed[a] \in Nat
<1>1. mgr[a] \in Managers /\ orders[a] \in Tables /\ placed[a] \in 0..MaxOrders
  BY DEF TypeOK, Managers, Tables
<1> QED BY <1>1, BoundAssumption

\* Taking in an answer changes one entry of one asset's table.
LEMMA SeenRow ==
    ASSUME TypeOK, NEW a \in Assets, NEW n \in OrderIds, NEW kind \in Kinds,
           orders[a][n].kind = kind, orders[a][n].reply # "None", orders[a][n].seenBy = 0
    PROVE  /\ Takes(mgr[a], orders[a], Seen(a, n)[a], n, kind)
           /\ Seen(a, n)[a] \in Tables
           /\ \A b \in Assets \ {a} : Seen(a, n)[b] = orders[b]
<1> DEFINE o == [orders[a][n] EXCEPT !.seenBy = mgr[a].market]
<1>1. mgr[a] \in Managers /\ orders[a] \in Tables
  BY RowTypes
<1>2. Seen(a, n)[a] = [orders[a] EXCEPT ![n] = o]
  BY DEF Seen, TypeOK
<1>3. o \in Order
  <2>1. orders[a][n] \in Order /\ mgr[a].market \in Markets \cup {0}
    BY <1>1 DEF Tables, Managers, Manager
  <2> QED BY <2>1, OrderUpdateTypes
<1>4. Seen(a, n)[a] \in Tables
  BY <1>1, <1>2, <1>3 DEF Tables
<1>5. Replaces(orders[a], Seen(a, n)[a], n, o)
  BY <1>1, <1>2, ExceptReplaces
<1> QED BY <1>4, <1>5 DEF Takes, Seen, TypeOK

\* Placing an order then enters it under the asset's next number.
LEMMA PlacedRow ==
    ASSUME TypeOK, NEW a \in Assets, NEW n \in OrderIds, NEW o, SeenAndPlace(a, n, o)
    PROVE  /\ Replaces(Seen(a, n)[a], orders'[a], placed[a] + 1, o)
           /\ placed[a] + 1 \in OrderIds /\ placed'[a] = placed[a] + 1
           /\ \A b \in Assets \ {a} : /\ orders'[b] = Seen(a, n)[b]
                                      /\ placed'[b] = placed[b]
<1>1. mgr[a] \in Managers /\ orders[a] \in Tables /\ placed[a] \in Nat
  BY RowTypes
<1>2. placed[a] + 1 \in OrderIds
  BY <1>1, BoundAssumption DEF SeenAndPlace, OrderIds
<1>3. Seen(a, n) \in [Assets -> [OrderIds -> Order]]
  <2>1. [orders[a][n] EXCEPT !.seenBy = mgr[a].market] \in Order
    <3>1. orders[a][n] \in Order /\ mgr[a].market \in Markets \cup {0}
      BY <1>1 DEF Tables, Managers, Manager
    <3> QED BY <3>1, OrderUpdateTypes
  <2> QED BY <2>1, TableType DEF Seen, TypeOK
<1>4. /\ orders'[a] = [Seen(a, n)[a] EXCEPT ![placed[a] + 1] = o]
      /\ \A b \in Assets \ {a} : orders'[b] = Seen(a, n)[b]
  BY <1>3 DEF SeenAndPlace
<1>5. Replaces(Seen(a, n)[a], orders'[a], placed[a] + 1, o)
  BY <1>2, <1>3, <1>4, ExceptReplaces DEF Tables
<1> QED BY <1>2, <1>4, <1>5 DEF SeenAndPlace, TypeOK

\* Every step keeps MarketInv of every asset.
LEMMA CoreStep == TypeOK /\ TypeOK' /\ CoreInv /\ [Next]_vars => CoreInv'
<1> SUFFICES ASSUME TypeOK, TypeOK', CoreInv, [Next]_vars PROVE CoreInv'
  OBVIOUS
<1>1. ASSUME NEW a \in Assets
      PROVE  /\ mgr[a] \in Managers /\ orders[a] \in Tables
             /\ orders'[a] \in Tables /\ placed[a] \in Nat
             /\ MarketInv(mgr[a], orders[a], placed[a])
  <2>1. mgr[a] \in Managers /\ orders[a] \in Tables /\ placed[a] \in 0..MaxOrders
    BY DEF TypeOK, Managers, Tables
  <2>2. orders'[a] \in Tables
    BY DEF TypeOK, Tables
  <2>3. placed[a] \in Nat
    BY <2>1, BoundAssumption
  <2> QED BY <2>1, <2>2, <2>3 DEF CoreInv
\* A step leaves every other asset as it is.
<1>2. ASSUME NEW a \in Assets, MarketInv(mgr'[a], orders'[a], placed'[a]),
             \A b \in Assets \ {a} : /\ mgr'[b] = mgr[b] /\ orders'[b] = orders[b]
                                     /\ placed'[b] = placed[b]
      PROVE  CoreInv'
  BY <1>1, <1>2 DEF CoreInv
<1>3. CASE UNCHANGED <<mgr, orders, placed>>
  BY <1>3 DEF CoreInv
<1>4. ASSUME NEW a \in Assets, Activate(a) PROVE CoreInv'
  <2>1. mgr'[a] = New(mgr[a].market + 1)
    BY <1>4 DEF Activate, TypeOK
  <2>2. MarketInv(mgr'[a], orders'[a], placed'[a])
    BY <1>1, <1>4, <2>1, ActivateKeeps DEF Activate
  <2> QED BY <1>2, <1>4, <2>2 DEF Activate, TypeOK
<1>5. ASSUME NEW a \in Assets, NEW side \in Sides,
             NEW hint \in Quotes \cup {NoHint}, HlSignal(a, side, hint)
      PROVE  CoreInv'
  <2> DEFINE limit == IF hint = NoHint THEN Dollar ELSE hint
             o     == NewOrder("Leg1", mgr[a].market, side, limit, 0)
  <2>1. limit \in Int
    BY PriceAssumption, SMT DEF Dollar, NoHint
  <2>2. placed[a] + 1 \in OrderIds
    BY <1>1, <1>5, BoundAssumption DEF HlSignal, OrderIds
  <2>3. /\ mgr'[a] = OnSignal(mgr[a], side) /\ placed'[a] = placed[a] + 1
        /\ orders'[a] = [orders[a] EXCEPT ![placed[a] + 1] = o]
    BY <1>5, <2>2 DEF HlSignal, TypeOK
  <2>4. Replaces(orders[a], orders'[a], placed[a] + 1, o)
    BY <1>1, <2>2, <2>3, ExceptReplaces
  <2> HIDE DEF limit
  <2>5. MarketInv(mgr'[a], orders'[a], placed'[a])
    BY <1>1, <1>5, <2>1, <2>2, <2>3, <2>4, SignalKeeps DEF HlSignal
  <2> QED BY <1>2, <1>5, <2>5 DEF HlSignal, TypeOK
<1>6. ASSUME NEW a \in Assets, PolyBook(a) PROVE CoreInv'
  <2> DEFINE o == NewOrder("ForceClose", mgr[a].market, mgr[a].side, Tick,
                           mgr[a].shares)
  <2>1. placed[a] + 1 \in OrderIds /\ Interval - age[a] \in Int
    BY <1>1, <1>6, BoundAssumption, TimeAssumption DEF PolyBook, OrderIds, TypeOK
  <2>2. /\ mgr'[a] = OnTick(mgr[a], Interval - age[a], ForceCloseSecs)
        /\ placed'[a] = placed[a] + 1
        /\ orders'[a] = [orders[a] EXCEPT ![placed[a] + 1] = o]
    BY <1>6, <2>1 DEF PolyBook, TypeOK
  <2>3. Replaces(orders[a], orders'[a], placed[a] + 1, o)
    BY <1>1, <2>1, <2>2, ExceptReplaces
  <2>4. MarketInv(mgr'[a], orders'[a], placed'[a])
    BY <1>1, <1>6, <2>1, <2>2, <2>3, ForceCloseKeeps DEF PolyBook
  <2> QED BY <1>2, <1>6, <2>4 DEF PolyBook, TypeOK
<1>7. ASSUME NEW a \in Assets, NEW n \in OrderIds,
             Fill(a, n) \/ Rest(a, n) \/ RestingFill(a, n) \/ Refuse(a, n)
      PROVE  CoreInv'
  <2> DEFINE t == orders[a]
  <2>1. t[n] \in Order
    BY DEF TypeOK
  <2>2. \A p \in FillPrices(t[n]) \cup {0} : p \in Nat
    BY <2>1, FillPriceType
  <2>3. \E o \in Order :
           /\ orders' = [orders EXCEPT ![a][n] = o]
           /\ o.kind = t[n].kind /\ o.market = t[n].market /\ o.side = t[n].side
           /\ o.limit = t[n].limit /\ o.shares = t[n].shares
           /\ o.seenBy = t[n].seenBy
           /\ Meets(t[n], o)
    <3>1. CASE Fill(a, n)
      <4>1. PICK p \in FillPrices(t[n]), book \in Matches(t[n]), r \in {"Filled"} \cup Unknowing :
               orders' = [orders EXCEPT ![a][n] = Answer(t[n], book, p, r)]
        BY <2>1, <3>1 DEF Fill, TypeOK
      <4>2. t[n].kind = "Leg2" => p <= t[n].limit
        BY <2>1, FillWithinLimit
      <4>3. /\ book \in {"Filled", "Part"} /\ (book = "Part" => t[n].kind = "Leg2")
            /\ r \in Replies /\ r # "None" /\ book \in Books
        BY <4>1 DEF Matches, Unknowing, Replies, Books
      <4>4. Answer(t[n], book, p, r) \in Order
        BY <2>1, <2>2, <4>3, OrderUpdateTypes
      <4> QED BY <2>1, <3>1, <4>1, <4>2, <4>3, <4>4
              DEF Fill, Posted, Answer, Order, Meets, Matched
    <3>2. CASE Rest(a, n)
      <4>1. PICK p \in FillPrices(t[n]), r \in {"Live"} \cup Unknowing :
               orders' = [orders EXCEPT ![a][n] = Answer(t[n], "Resting", p, r)]
        BY <2>1, <3>2 DEF Rest, TypeOK
      <4>2. Answer(t[n], "Resting", p, r) \in Order
        BY <2>1, <2>2, OrderUpdateTypes DEF Replies, Unknowing, Books
      <4> QED BY <2>1, <3>2, <4>1, <4>2 DEF Rest, Posted, Answer, Order, Meets, Unknowing
    <3>3. CASE RestingFill(a, n)
      <4>1. PICK book \in Matches(t[n]) :
               /\ book \in Books
               /\ orders' = [orders EXCEPT ![a][n] = [t[n] EXCEPT !.book = book]]
        BY <3>3, RestingFillChanges DEF TypeOK
      <4>2. [t[n] EXCEPT !.book = book] \in Order
        BY <2>1, <4>1, OrderUpdateTypes
      <4>3. t[n].book \in {"Resting", "Part"}
        BY <3>3 DEF RestingFill
      <4> QED BY <2>1, <4>1, <4>2, <4>3 DEF Order, Meets, Matched, Matches
    <3>4. CASE Refuse(a, n)
      <4>1. PICK r \in {"Rejected", "Err"} :
               orders' = [orders EXCEPT ![a][n] = Answer(t[n], "Refused", 0, r)]
        BY <2>1, <3>4 DEF Refuse, TypeOK
      <4>2. Answer(t[n], "Refused", 0, r) \in Order
        BY <2>1, <2>2, OrderUpdateTypes DEF Replies, Books
      <4> QED BY <2>1, <3>4, <4>1, <4>2 DEF Refuse, Posted, Answer, Order, Meets
    <3> QED BY <1>7, <3>1, <3>2, <3>3, <3>4
  <2>4. mgr' = mgr /\ placed' = placed
    BY <1>7 DEF Fill, Rest, RestingFill, Refuse
  <2>5. MarketInv(mgr'[a], orders'[a], placed'[a])
    <3>1. PICK o \in Order :
           /\ orders' = [orders EXCEPT ![a][n] = o]
           /\ o.kind = t[n].kind /\ o.market = t[n].market /\ o.side = t[n].side
           /\ o.limit = t[n].limit /\ o.shares = t[n].shares
           /\ o.seenBy = t[n].seenBy
           /\ Meets(t[n], o)
      BY <2>3
    <3>2. orders'[a] = [t EXCEPT ![n] = o]
      BY <3>1 DEF TypeOK
    <3>3. Replaces(t, orders'[a], n, o)
      BY <1>1, <3>2, ExceptReplaces
    <3> QED BY <1>1, <2>4, <3>1, <3>3, AnswerKeeps
  <2>6. \A b \in Assets \ {a} : orders'[b] = orders[b]
    BY <2>3 DEF TypeOK
  <2> QED BY <1>2, <2>4, <2>5, <2>6
\* Taking in an answer without placing an order.
<1>9. ASSUME NEW a \in Assets, NEW n \in OrderIds, NEW kind \in Kinds,
             orders[a][n].kind = kind, orders[a][n].reply # "None",
             orders[a][n].seenBy = 0, orders' = Seen(a, n),
             mgr' = mgr, placed' = placed
      PROVE  CoreInv'
  <2>1. /\ Takes(mgr[a], orders[a], orders'[a], n, kind)
        /\ \A b \in Assets \ {a} : orders'[b] = orders[b]
    BY SeenRow, <1>9
  <2>2. orders[a][n].kind # "None"
    BY <1>9 DEF Kinds
  <2>3. MarketInv(mgr[a], orders'[a], placed[a])
    BY <1>1, <2>1, <2>2, SeenKeeps DEF Takes
  <2> QED BY <1>2, <1>9, <2>1, <2>3
\* Taking in an answer and placing an order.
<1>11. ASSUME NEW a \in Assets, NEW n \in OrderIds, Leg1Filled(a, n)
       PROVE  CoreInv'
  <2> DEFINE p == orders[a][n].price
             m == OnLeg1Fill(mgr[a], p, n)
  <2>1. /\ orders[a][n].kind = "Leg1" /\ orders[a][n].reply = "Filled"
        /\ orders[a][n].seenBy = 0
    BY <1>11 DEF Leg1Filled, Answered
  <2>2. mgr'[a] = m /\ \A b \in Assets \ {a} : mgr'[b] = mgr[b]
    BY <1>11 DEF Leg1Filled, TypeOK
  <2>3. CASE mgr[a].state = "Leg1Pending"
    <3>1. SeenAndPlace(a, n, Leg2Order(m))
      BY <1>11, <2>3 DEF Leg1Filled
    <3> HIDE DEF m
    <3>2. MarketInv(OnLeg1Fill(mgr[a], p, n), orders'[a], placed[a] + 1)
      <4>1. /\ Takes(mgr[a], orders[a], Seen(a, n)[a], n, "Leg1")
            /\ Seen(a, n)[a] \in Tables
        BY SeenRow, <2>1 DEF Kinds
      <4>2. /\ Replaces(Seen(a, n)[a], orders'[a], placed[a] + 1, Leg2Order(m))
            /\ placed[a] + 1 \in OrderIds
        BY PlacedRow, <3>1
      <4> QED BY <1>1, <2>1, <2>3, <4>1, <4>2, Leg1FilledKeeps DEF m
    <3>3. \A b \in Assets \ {a} : Seen(a, n)[b] = orders[b]
      BY SeenRow, <2>1 DEF Kinds
    <3> QED BY <1>2, PlacedRow, <2>2, <3>1, <3>2, <3>3 DEF m
  <2>4. CASE mgr[a].state # "Leg1Pending"
    <3>1. orders' = Seen(a, n) /\ placed' = placed /\ mgr' = mgr
      BY <1>11, <2>4 DEF Leg1Filled, OnLeg1Fill, TypeOK
    <3> QED BY <1>9, <2>1, <3>1 DEF Kinds
  <2> QED BY <2>3, <2>4
<1>12. ASSUME NEW a \in Assets, NEW n \in OrderIds, Leg1Refused(a, n)
       PROVE  CoreInv'
  <2>1. /\ orders[a][n].kind = "Leg1" /\ orders[a][n].reply # "None"
        /\ orders[a][n].seenBy = 0 /\ orders' = Seen(a, n) /\ placed' = placed
    BY <1>12 DEF Leg1Refused, Answered
  <2>2. /\ mgr'[a] = OnLeg1Rejected(mgr[a])
        /\ \A b \in Assets \ {a} : mgr'[b] = mgr[b]
    BY <1>12 DEF Leg1Refused, TypeOK
  <2>3. /\ Takes(mgr[a], orders[a], orders'[a], n, "Leg1")
        /\ \A b \in Assets \ {a} : orders'[b] = orders[b]
    BY SeenRow, <2>1 DEF Kinds
  <2>4. MarketInv(mgr'[a], orders'[a], placed'[a])
    BY <1>1, <2>1, <2>2, <2>3, Leg1RefusedKeeps
  <2> QED BY <1>2, <2>1, <2>2, <2>3, <2>4
<1>13. ASSUME NEW a \in Assets, NEW n \in OrderIds, Leg2Filled(a, n)
       PROVE  CoreInv'
  <2>1. /\ orders[a][n].kind = "Leg2" /\ orders[a][n].reply = "Filled"
        /\ orders[a][n].seenBy = 0 /\ orders' = Seen(a, n) /\ placed' = placed
    BY <1>13 DEF Leg2Filled, Answered
  <2>2. /\ mgr'[a] = OnLeg2Fill(mgr[a], orders[a][n].price)
        /\ \A b \in Assets \ {a} : mgr'[b] = mgr[b]
    BY <1>13 DEF Leg2Filled, TypeOK
  <2>3. /\ Takes(mgr[a], orders[a], orders'[a], n, "Leg2")
        /\ \A b \in Assets \ {a} : orders'[b] = orders[b]
    BY SeenRow, <2>1 DEF Kinds
  <2>4. MarketInv(mgr'[a], orders'[a], placed'[a])
    BY <1>1, <2>1, <2>2, <2>3, Leg2FilledKeeps
  <2> QED BY <1>2, <2>1, <2>2, <2>3, <2>4
<1>14. ASSUME NEW a \in Assets, NEW n \in OrderIds, Leg2Rejected(a, n)
       PROVE  CoreInv'
  <2>1. /\ orders[a][n].kind = "Leg2" /\ orders[a][n].reply = "Rejected"
        /\ orders[a][n].seenBy = 0 /\ mgr' = mgr
    BY <1>14 DEF Leg2Rejected, Answered
  <2>2. CASE mgr[a].state = "Leg2Pending"
    <3>1. SeenAndPlace(a, n, Leg2Order(mgr[a]))
      BY <1>14, <2>2 DEF Leg2Rejected, ReplacesLeg2
    <3>2. /\ Takes(mgr[a], orders[a], Seen(a, n)[a], n, "Leg2")
          /\ Seen(a, n)[a] \in Tables
          /\ \A b \in Assets \ {a} : Seen(a, n)[b] = orders[b]
      BY SeenRow, <2>1 DEF Kinds
    <3>3. MarketInv(mgr[a], orders'[a], placed[a] + 1)
      BY <1>1, PlacedRow, <2>1, <2>2, <3>1, <3>2, Leg2RejectedKeeps
    <3> QED BY <1>2, PlacedRow, <2>1, <3>1, <3>2, <3>3
  <2>3. CASE mgr[a].state # "Leg2Pending"
    <3>1. orders' = Seen(a, n) /\ placed' = placed
      BY <1>14, <2>3 DEF Leg2Rejected, ReplacesLeg2
    <3> QED BY <1>9, <2>1, <3>1 DEF Kinds
  <2> QED BY <2>2, <2>3
<1>15. ASSUME NEW a \in Assets, NEW n \in OrderIds,
              ForceCloseFilled(a, n) \/ Logged(a, n)
       PROVE  CoreInv'
  <2>1. /\ orders[a][n].kind \in Kinds /\ orders[a][n].reply # "None"
        /\ orders[a][n].seenBy = 0 /\ orders' = Seen(a, n)
        /\ mgr' = mgr /\ placed' = placed
    BY <1>15 DEF ForceCloseFilled, Logged, Answered, Kinds
  <2> QED BY <1>9, <2>1
<1>16. CASE Elapse \/ UNCHANGED vars
  BY <1>3, <1>16 DEF Elapse, vars
<1> QED BY <1>4, <1>5, <1>6, <1>7, <1>11, <1>12, <1>13, <1>14, <1>15, <1>16
        DEF Next

\* The inductive invariant: TypeOK and, for every asset, MarketInv.
THEOREM CoreCorrect == Spec => []CoreInv
<1>1. TypeOK /\ TypeOK' /\ CoreInv /\ [Next]_vars => CoreInv'
  BY CoreStep
<1> QED BY <1>1, CoreInit, TypeCorrect, PTL DEF Spec

-----------------------------------------------------------------------------
(* The safety properties that follow from it.                              *)

\* The definitions over a manager and its orders are those of TwoLegBot.
LEMMA CleanIsClean ==
    ASSUME NEW a \in Assets
    PROVE  /\ Clean(a) <=> IsClean(mgr[a], orders[a])
           /\ \A n : n \in Own(a) <=> n \in OrderIds /\ IsOwn(mgr[a], orders[a], n)
BY DEF Clean, IsClean, Own, IsOwn

\* In a market whose manager has been given no result of another market, no leg
\* is ordered again while an order for it is unanswered.
THEOREM OneOrderPerLegHolds == Spec => []OneOrderPerLeg
<1>1. CoreInv => OneOrderPerLeg
  BY CleanIsClean
  DEF CoreInv, MarketInv, Consistent, Known, Leg1Known, Single, OneOrderPerLeg
<1> QED BY <1>1, CoreCorrect, PTL

\* The opposite leg is never bought again once its position is being sold, and
\* is ordered again only when its order was rejected.
THEOREM NoSecondHedgeHolds == Spec => []NoSecondHedge
<1>1. CoreInv => NoSecondHedge
  BY CleanIsClean DEF CoreInv, MarketInv, Consistent, Single, NoSecondHedge
<1> QED BY <1>1, CoreCorrect, PTL

\* A force-close sells what the Leg1 order of its market bought, once.
THEOREM ForceCloseSellsLeg1Holds == Spec => []ForceCloseSellsLeg1
<1>1. CoreInv => ForceCloseSellsLeg1
  <2> SUFFICES ASSUME CoreInv, NEW a \in Assets, Clean(a), NEW f \in Own(a),
                      orders[a][f].kind = "ForceClose"
               PROVE  /\ \E i \in Own(a) : /\ orders[a][i].kind = "Leg1"
                                           /\ orders[a][i].book = "Filled"
                                           /\ orders[a][i].side = orders[a][f].side
                                           /\ orders[a][f].shares = i
                      /\ \A g \in Own(a) : orders[a][g].kind = "ForceClose" => g = f
    BY DEF ForceCloseSellsLeg1
  <2>1. Consistent(mgr[a], orders[a])
    BY CleanIsClean DEF CoreInv, MarketInv
  <2>2. CloseKnown(mgr[a], orders[a][f])
    BY <2>1, CleanIsClean DEF Consistent, Known
  <2>3. BoughtLeg1(mgr[a], orders[a])
    BY <2>1, <2>2 DEF Consistent, CloseKnown, Filled1
  <2>4. mgr[a].shares \in Own(a)
    BY <2>3, CleanIsClean DEF BoughtLeg1
  <2>5. \A g \in Own(a) : orders[a][g].kind = "ForceClose" => g = f
    BY <2>1, CleanIsClean DEF Consistent, Single
  <2> QED BY <2>2, <2>3, <2>4, <2>5 DEF BoughtLeg1, CloseKnown
<1> QED BY <1>1, CoreCorrect, PTL

\* A locked position consists of a filled Leg1 order and a Leg2 order for the same
\* shares, on the opposite side of its market and matched at least in part
\* (to_order_result at order_builder.rs:401 reports a part as Matched too).
THEOREM LockedIsHedgedHolds == Spec => []LockedIsHedged
<1>1. TypeOK /\ CoreInv => LockedIsHedged
  <2> SUFFICES ASSUME TypeOK, CoreInv, NEW a \in Assets, Clean(a),
                      mgr[a].state = "Locked"
               PROVE  \E i, j \in Own(a) :
                         /\ orders[a][i].kind = "Leg1" /\ orders[a][j].kind = "Leg2"
                         /\ orders[a][i].book = "Filled" /\ Matched(orders[a][j])
                         /\ orders[a][i].side # orders[a][j].side
                         /\ orders[a][j].shares = i
                         /\ mgr[a].pnl = LockedPnl(orders[a][i].price, orders[a][j].price)
    BY DEF LockedIsHedged
  <2>1. Consistent(mgr[a], orders[a])
    BY CleanIsClean DEF CoreInv, MarketInv
  <2>2. BoughtLeg1(mgr[a], orders[a]) /\ Hedged(mgr[a], orders[a])
    BY <2>1 DEF Consistent, Filled1
  <2>3. PICK j \in OrderIds : /\ IsOwn(mgr[a], orders[a], j)
                              /\ orders[a][j].kind = "Leg2"
                              /\ Matched(orders[a][j])
                              /\ orders[a][j].price = mgr[a].fill2
    BY <2>2 DEF Hedged
  <2>4. /\ orders[a][j].side = Opposite(mgr[a].side)
        /\ orders[a][j].shares = mgr[a].shares
    BY <2>1, <2>3 DEF Consistent, Known, Leg2Known
  <2>5. Opposite(mgr[a].side) # mgr[a].side
    BY DEF TypeOK, Manager, Opposite, Sides
  <2>6. mgr[a].shares \in Own(a) /\ j \in Own(a)
    BY <2>2, <2>3, CleanIsClean DEF BoughtLeg1
  <2> QED BY <2>2, <2>3, <2>4, <2>5, <2>6 DEF BoughtLeg1, Hedged
<1> QED BY <1>1, TypeCorrect, CoreCorrect, PTL

\* A locked position earns at least the margin less the fee on the slippage.
THEOREM LockedMarginHolds == Spec => []LockedMargin
<1>1. CoreInv => LockedMargin
  BY CleanIsClean DEF CoreInv, MarketInv, Consistent, Hedged, LockedMargin
<1> QED BY <1>1, CoreCorrect, PTL

-----------------------------------------------------------------------------
(***************************************************************************)
(* The positions: the count is never decremented below zero, it stays      *)
(* within the limit while results reach their own markets, and an idle     *)
(* manager of a clean market holds nothing.                                *)
(*                                                                         *)
(* The books of an asset are looked at one by one: m is its manager, t the *)
(* table of its orders and op its position count.                          *)
(***************************************************************************)

\* The orders of a kind whose fill the loop has taken in.
Reported(t, kind) ==
    {n \in OrderIds : t[n].kind = kind /\ t[n].reply = "Filled" /\ t[n].seenBy # 0}

IsClose(t, n) == t[n].kind = "ForceClose"

\* Each force-close sells the shares of a Leg1 fill that was taken in, and no two
\* sell the same, so that there are at most as many of them.  The shares a manager
\* holds in Leg2Pending are not sold yet.
Counted(m, t, op) ==
    /\ op = Cardinality(Reported(t, "Leg1")) - Cardinality(Reported(t, "ForceClose"))
    /\ \A f \in OrderIds : IsClose(t, f) => t[f].shares \in Reported(t, "Leg1")
    /\ \A f, g \in OrderIds :
          IsClose(t, f) /\ IsClose(t, g) /\ t[f].shares = t[g].shares => f = g
    /\ m.state = "Leg2Pending" =>
          /\ m.shares \in Reported(t, "Leg1")
          /\ \A f \in OrderIds : IsClose(t, f) => t[f].shares # m.shares

\* When no result reached the manager of another market, there is room for the
\* fill a manager in Leg1Pending waits for.
AtHome(t) == \A n \in OrderIds : t[n].seenBy \in {0, t[n].market}

Limited(m, t, op) ==
    AtHome(t) => op <= MaxPositions /\ (m.state = "Leg1Pending" => op < MaxPositions)

\* A Leg1 order of the manager's market whose answer was taken in and is no
\* refusal, and one whose answer is awaited.
Standing(m, t, n) == /\ IsOwn(m, t, n) /\ t[n].kind = "Leg1"
                     /\ t[n].seenBy # 0 /\ t[n].reply \in {"Filled", "Live"}
Awaited(m, t, n)  == IsOwn(m, t, n) /\ t[n].kind = "Leg1" /\ t[n].seenBy = 0

\* The executor's reply goes with what became of the order.
Fits(o) == /\ o.book = "Resting" => o.reply \in {"Live"} \cup Unknowing
           /\ Matched(o) => o.reply \in {"Filled", "Live"} \cup Unknowing

\* The manager of a clean market with such an order is not idle, and waits for no
\* other Leg1 answer.
Committed(m, t) ==
    /\ \A n \in OrderIds : Fits(t[n])
    /\ IsClean(m, t) => \A n \in OrderIds : Standing(m, t, n) =>
          m.state # "Idle" /\ \A i \in OrderIds : ~Awaited(m, t, i)

Positions(m, t, op) == Counted(m, t, op) /\ Limited(m, t, op) /\ Committed(m, t)

PositionInv == \A a \in Assets : Positions(mgr[a], orders[a], open[a])

-----------------------------------------------------------------------------
\* The reported orders are finitely many.
LEMMA ReportedFinite ==
    ASSUME NEW t, NEW kind
    PROVE  IsFiniteSet(Reported(t, kind)) /\ Cardinality(Reported(t, kind)) \in Nat
<1>1. 1 \in Int /\ MaxOrders \in Int
  BY BoundAssumption
<1>2. IsFiniteSet(OrderIds)
  BY <1>1, FS_Interval DEF OrderIds
<1>3. Reported(t, kind) \subseteq OrderIds
  BY DEF Reported
<1>4. IsFiniteSet(Reported(t, kind))
  BY <1>2, <1>3, FS_Subset
<1> QED BY <1>4, FS_CardinalityType

\* There are at most as many force-closes as Leg1 fills.
LEMMA ClosesBounded ==
    ASSUME NEW t,
           \A f \in OrderIds : IsClose(t, f) => t[f].shares \in Reported(t, "Leg1"),
           \A f, g \in OrderIds :
              IsClose(t, f) /\ IsClose(t, g) /\ t[f].shares = t[g].shares => f = g
    PROVE  Cardinality(Reported(t, "ForceClose")) <= Cardinality(Reported(t, "Leg1"))
<1> DEFINE F == Reported(t, "ForceClose")   B == Reported(t, "Leg1")
           h == [f \in F |-> t[f].shares]
<1>1. \A f \in F : f \in OrderIds /\ IsClose(t, f)
  BY DEF Reported, IsClose
<1>2. h \in [F -> B]
  BY <1>1
<1>3. \A f, g \in F : h[f] = h[g] => f = g
  BY <1>1
<1>4. h \in Injection(F, B)
  BY <1>2, <1>3 DEF Injection, IsInjective
<1>5. IsFiniteSet(B)
  BY ReportedFinite
<1> HIDE DEF F, B, h
<1>6. Cardinality(F) <= Cardinality(B)
  BY <1>4, <1>5, FS_Injection
<1> QED BY <1>6 DEF F, B

\* The market is over: nothing of it is the next market's.
LEMMA RotatedPositions ==
    ASSUME NEW m \in Managers, NEW t \in Tables, NEW k, NEW op,
           Sane(m, t, k), Positions(m, t, op)
    PROVE  Positions(New(m.market + 1), t, op)
<1> DEFINE m2 == New(m.market + 1)
<1>1. m2.state = "Idle" /\ m2.market = m.market + 1
  BY DEF New, Fresh
<1>2. \A n \in OrderIds : ~IsOwn(m2, t, n)
  <2> SUFFICES ASSUME NEW n \in OrderIds, t[n].market = m.market + 1 PROVE FALSE
    BY <1>1 DEF IsOwn
  <2>1. t[n].market <= m.market /\ m.market \in Nat
    BY MarketTypes DEF Sane
  <2> QED BY <2>1
<1> HIDE DEF m2
<1> QED BY <1>1, <1>2 DEF Positions, Counted, Limited, Committed, Standing, m2

\* The answers an order can get.
Replied(o) == \/ Matched(o) /\ o.reply \in {"Filled"} \cup Unknowing
              \/ o.book = "Resting" /\ o.reply \in {"Live"} \cup Unknowing
              \/ o.book = "Refused" /\ o.reply \in {"Rejected", "Err"}

\* Order n is answered, or filled after it rested.
Changes(t, u, n) ==
    /\ \A i \in OrderIds \ {n} : u[i] = t[i]
    /\ u[n].kind = t[n].kind /\ u[n].market = t[n].market
    /\ u[n].shares = t[n].shares /\ u[n].seenBy = t[n].seenBy
    /\ \/ t[n].book = "Unsent" /\ Replied(u[n])
       \/ /\ t[n].book \in {"Resting", "Part"}
          /\ Matched(u[n]) /\ u[n].reply = t[n].reply

\* The loop has not taken the answer in: the books stay as they are.
LEMMA AnsweredPositions ==
    ASSUME NEW m \in Managers, NEW t \in Tables, NEW u, NEW k, NEW op, NEW n \in OrderIds,
           Sane(m, t, k), Positions(m, t, op), Changes(t, u, n)
    PROVE  Positions(m, u, op)
<1>1. \A i \in OrderIds : /\ u[i].kind = t[i].kind /\ u[i].market = t[i].market
                          /\ u[i].shares = t[i].shares /\ u[i].seenBy = t[i].seenBy
                          /\ t[i].seenBy # 0 => u[i].reply = t[i].reply
  BY DEF Changes, Sane
<1>2. \A kind : Reported(u, kind) = Reported(t, kind)
  BY <1>1 DEF Reported
<1>3. Counted(m, u, op)
  BY <1>1, <1>2 DEF Positions, Counted, IsClose
<1>4. Limited(m, u, op)
  BY <1>1 DEF Positions, Limited, AtHome
<1>5. Committed(m, u)
  <2>1. \A i \in OrderIds : Fits(u[i])
    BY DEF Changes, Replied, Positions, Committed, Fits, Matched
  <2>2. \A i \in OrderIds : /\ Standing(m, u, i) <=> Standing(m, t, i)
                            /\ Awaited(m, u, i) <=> Awaited(m, t, i)
    BY <1>1 DEF Standing, Awaited, IsOwn
  <2>3. IsClean(m, u) <=> IsClean(m, t)
    BY <1>1 DEF IsClean
  <2> QED BY <2>1, <2>2, <2>3 DEF Positions, Committed
<1> QED BY <1>3, <1>4, <1>5 DEF Positions

\* A new order is entered in row n.
Enters(t, u, n, o) ==
    /\ Replaces(t, u, n, o) /\ t[n].kind = "None" /\ t[n].seenBy = 0
    /\ o.kind # "None" /\ o.book = "Unsent" /\ o.reply = "None" /\ o.seenBy = 0

\* It reports nothing, and stands for nothing yet.
NothingReported(m, t, u, n) ==
    /\ \A kind : Reported(u, kind) = Reported(t, kind)
    /\ AtHome(u) => AtHome(t)
    /\ IsClean(m, u) => IsClean(m, t)
    /\ \A i \in OrderIds : Standing(m, u, i) <=> Standing(m, t, i)
    /\ \A i \in OrderIds : i # n => u[i] = t[i]

\* That is so of an order of any kind.
LEMMA EnteredReports ==
    ASSUME NEW m, NEW t, NEW u, NEW n \in OrderIds, NEW o, Enters(t, u, n, o)
    PROVE  NothingReported(m, t, u, n)
<1>1. /\ u[n].seenBy = 0 /\ t[n].seenBy = 0
      /\ \A i \in OrderIds : i # n => u[i] = t[i]
  BY DEF Enters, Replaces
<1>2. \A kind : Reported(u, kind) = Reported(t, kind)
  BY <1>1 DEF Reported
<1> QED BY <1>1, <1>2 DEF NothingReported, AtHome, IsClean, Standing, IsOwn

\* What holds of the books of every table holds after the order is entered.
LEMMA EnteredBooks ==
    ASSUME NEW m, NEW t, NEW u, NEW n \in OrderIds, NEW o,
           Committed(m, t), Enters(t, u, n, o)
    PROVE  \A i \in OrderIds : Fits(u[i])
BY DEF Committed, Enters, Replaces, Fits, Matched

\* A Leg2 order is entered.
LEMMA Leg2PlacedPositions ==
    ASSUME NEW m, NEW t, NEW u, NEW n \in OrderIds, NEW o, NEW op,
           Positions(m, t, op), Enters(t, u, n, o), o.kind = "Leg2"
    PROVE  Positions(m, u, op)
<1>1. /\ \A kind : Reported(u, kind) = Reported(t, kind)
      /\ AtHome(u) => AtHome(t)
      /\ IsClean(m, u) => IsClean(m, t)
      /\ \A i \in OrderIds : Standing(m, u, i) <=> Standing(m, t, i)
      /\ \A i \in OrderIds : i # n => u[i] = t[i]
  <2>1. NothingReported(m, t, u, n)
    BY EnteredReports
  <2> QED BY <2>1 DEF NothingReported
<1>2. u[n].kind = "Leg2" /\ t[n].kind = "None"
  BY DEF Enters, Replaces
<1>3. \A i \in OrderIds : /\ IsClose(u, i) <=> IsClose(t, i)
                          /\ IsClose(u, i) => u[i].shares = t[i].shares
                          /\ Awaited(m, u, i) => Awaited(m, t, i)
  BY <1>1, <1>2 DEF IsClose, Awaited, IsOwn
<1>4. Counted(m, u, op)
  BY <1>1, <1>3 DEF Positions, Counted
<1>5. Limited(m, u, op)
  BY <1>1 DEF Positions, Limited
<1>6. Committed(m, u)
  <2>1. \A i \in OrderIds : Fits(u[i])
    BY EnteredBooks DEF Positions
  <2> QED BY <1>1, <1>3, <2>1 DEF Positions, Committed
<1> QED BY <1>4, <1>5, <1>6 DEF Positions

\* A signal: the manager, Idle until then, waits for a Leg1 order, and the count
\* is below the limit.
LEMMA SignalPositions ==
    ASSUME NEW m \in Managers, NEW t, NEW u, NEW n \in OrderIds, NEW o, NEW op, NEW side,
           Positions(m, t, op), Enters(t, u, n, o), o.kind = "Leg1",
           m.state = "Idle", op < MaxPositions, op \in Nat
    PROVE  Positions(OnSignal(m, side), u, op)
<1> DEFINE m2 == OnSignal(m, side)
<1>1. m2.state = "Leg1Pending" /\ m2.market = m.market
  BY DEF OnSignal, Managers, Manager
<1>2. /\ \A kind : Reported(u, kind) = Reported(t, kind)
      /\ IsClean(m, u) => IsClean(m, t)
      /\ \A i \in OrderIds : Standing(m, u, i) <=> Standing(m, t, i)
      /\ \A i \in OrderIds : i # n => u[i] = t[i]
  <2>1. NothingReported(m, t, u, n)
    BY EnteredReports
  <2> QED BY <2>1 DEF NothingReported
<1>3. u[n].kind = "Leg1" /\ t[n].kind = "None"
  BY DEF Enters, Replaces
<1>4. \A i \in OrderIds : /\ IsClose(u, i) <=> IsClose(t, i)
                          /\ IsClose(u, i) => u[i].shares = t[i].shares
  BY <1>2, <1>3 DEF IsClose
<1> HIDE DEF m2
<1>5. Counted(m2, u, op)
  BY <1>1, <1>2, <1>4 DEF Positions, Counted
<1>6. Limited(m2, u, op)
  BY BoundAssumption DEF Limited
<1>7. Committed(m2, u)
  <2>1. IsClean(m2, u) => IsClean(m, t)
    BY <1>1, <1>2 DEF IsClean
  <2>2. \A i \in OrderIds : Standing(m2, u, i) => Standing(m, t, i)
    BY <1>1, <1>2 DEF Standing, IsOwn
  <2>3. \A i \in OrderIds : Fits(u[i])
    BY EnteredBooks DEF Positions
  <2> QED BY <2>1, <2>2, <2>3 DEF Positions, Committed
<1> QED BY <1>5, <1>6, <1>7 DEF Positions, m2

\* A force-close is entered for the shares of the manager.
LEMMA ClosePositions ==
    ASSUME NEW m \in Managers, NEW m2, NEW t, NEW u, NEW n \in OrderIds, NEW o, NEW op,
           Positions(m, t, op), Enters(t, u, n, o), o.kind = "ForceClose",
           o.shares = m.shares, m.state = "Leg2Pending",
           m2.state = "ForceClose", m2.market = m.market
    PROVE  Positions(m2, u, op)
<1>1. /\ \A kind : Reported(u, kind) = Reported(t, kind)
      /\ AtHome(u) => AtHome(t)
      /\ IsClean(m, u) => IsClean(m, t)
      /\ \A i \in OrderIds : Standing(m, u, i) <=> Standing(m, t, i)
      /\ \A i \in OrderIds : i # n => u[i] = t[i]
  <2>1. NothingReported(m, t, u, n)
    BY EnteredReports
  <2> QED BY <2>1 DEF NothingReported
<1>2. u[n].kind = "ForceClose" /\ u[n].shares = m.shares /\ t[n].kind = "None"
  BY DEF Enters, Replaces
<1>3. /\ m.shares \in Reported(t, "Leg1")
      /\ \A f \in OrderIds : IsClose(t, f) => t[f].shares # m.shares
  BY DEF Positions, Counted
<1>4. \A i \in OrderIds : i # n => /\ IsClose(u, i) <=> IsClose(t, i)
                                   /\ u[i].shares = t[i].shares
  BY <1>1 DEF IsClose
<1>5. Counted(m2, u, op)
  <2>1. \A f \in OrderIds : IsClose(u, f) => u[f].shares \in Reported(u, "Leg1")
    BY <1>1, <1>2, <1>3, <1>4 DEF Positions, Counted
  <2>2. ASSUME NEW f \in OrderIds, NEW g \in OrderIds, IsClose(u, f), IsClose(u, g),
               u[f].shares = u[g].shares
        PROVE  f = g
    BY <1>2, <1>3, <1>4, <2>2 DEF Positions, Counted
  <2> QED BY <1>1, <2>1, <2>2 DEF Positions, Counted
<1>6. Limited(m2, u, op)
  BY <1>1 DEF Positions, Limited
<1>7. Committed(m2, u)
  <2>1. IsClean(m2, u) => IsClean(m, t)
    BY <1>1 DEF IsClean
  <2>2. \A i \in OrderIds : /\ Standing(m2, u, i) => Standing(m, t, i)
                            /\ Awaited(m2, u, i) => Awaited(m, t, i)
    BY <1>1, <1>2 DEF Standing, Awaited, IsOwn
  <2>3. \A i \in OrderIds : Fits(u[i])
    BY EnteredBooks DEF Positions
  <2> QED BY <2>1, <2>2, <2>3 DEF Positions, Committed
<1> QED BY <1>5, <1>6, <1>7 DEF Positions

-----------------------------------------------------------------------------
\* What taking an answer in does to the table: it is reported when it is a fill.
Taken(m, t, u, n, kind) ==
    /\ \A i \in OrderIds : i # n => u[i] = t[i]
    /\ u[n].kind = kind /\ u[n].market = t[n].market /\ u[n].shares = t[n].shares
    /\ u[n].book = t[n].book /\ u[n].reply = t[n].reply
    /\ u[n].seenBy = m.market /\ m.market # 0
    /\ n \notin Reported(t, kind)
    /\ \A j : Reported(u, j) = IF j = kind /\ t[n].reply = "Filled"
                               THEN Reported(t, j) \cup {n} ELSE Reported(t, j)

\* The loop's reading of a result does that.
LEMMA TakenReports ==
    ASSUME NEW m \in Managers, NEW t \in Tables, NEW u \in Tables, NEW n \in OrderIds, NEW k,
           NEW kind, Sane(m, t, k), Takes(m, t, u, n, kind), kind # "None"
    PROVE  Taken(m, t, u, n, kind)
<1>1. /\ \A i \in OrderIds : i # n => u[i] = t[i]
      /\ u[n] = [t[n] EXCEPT !.seenBy = m.market] /\ t[n] \in Order
      /\ t[n].kind = kind /\ t[n].seenBy = 0
  BY DEF Takes, Replaces, Tables
<1>2. /\ u[n].kind = kind /\ u[n].market = t[n].market /\ u[n].shares = t[n].shares
      /\ u[n].book = t[n].book /\ u[n].reply = t[n].reply /\ u[n].seenBy = m.market
  BY <1>1 DEF Order
<1>3. m.market # 0
  <2>1. t[n].market # 0 /\ t[n].market <= m.market /\ t[n].market \in Nat
    BY <1>1, BoundAssumption DEF Sane, Order, Markets
  <2> QED BY <2>1, MarketTypes
<1>4. n \notin Reported(t, kind)
  BY <1>1 DEF Reported
<1>5. ASSUME NEW j
      PROVE  Reported(u, j) = IF j = kind /\ t[n].reply = "Filled"
                              THEN Reported(t, j) \cup {n} ELSE Reported(t, j)
  <2>1. \A i \in OrderIds : i # n => (i \in Reported(u, j) <=> i \in Reported(t, j))
    BY <1>1 DEF Reported
  <2>2. n \notin Reported(t, j)
    BY <1>1 DEF Reported
  <2>3. n \in Reported(u, j) <=> j = kind /\ t[n].reply = "Filled"
    BY <1>1, <1>2, <1>3 DEF Reported
  <2>4. Reported(u, j) \subseteq OrderIds /\ Reported(t, j) \subseteq OrderIds
    BY DEF Reported
  <2> QED BY <2>1, <2>2, <2>3, <2>4
<1> QED BY <1>1, <1>2, <1>3, <1>4, <1>5 DEF Taken

\* What an answer taken in leaves as it was, whatever the manager does with it.
Kept(m, t, u, n) ==
    /\ \A f \in OrderIds : IsClose(u, f) <=> IsClose(t, f)
    /\ \A f \in OrderIds : u[f].shares = t[f].shares
    /\ Reported(t, "Leg1") \subseteq Reported(u, "Leg1")
    /\ AtHome(u) => AtHome(t) /\ t[n].market = m.market
    /\ AtHome(t) => IsClean(m, t)
    /\ IsClean(m, u) => IsClean(m, t) /\ t[n].market = m.market
    /\ \A i \in OrderIds : Fits(u[i])
    /\ \A i \in OrderIds : i # n => /\ Standing(m, u, i) <=> Standing(m, t, i)
                                    /\ Awaited(m, u, i) <=> Awaited(m, t, i)
    /\ ~Awaited(m, u, n)

\* These stay, by the core invariant.
LEMMA TakenKeeps ==
    ASSUME NEW m \in Managers, NEW t \in Tables, NEW u \in Tables, NEW n \in OrderIds,
           NEW k \in Nat, NEW kind, NEW op,
           MarketInv(m, t, k), Positions(m, t, op), Takes(m, t, u, n, kind), kind # "None"
    PROVE  Kept(m, t, u, n)
<1>1. /\ \A i \in OrderIds : i # n => u[i] = t[i]
      /\ u[n].kind = kind /\ u[n].market = t[n].market /\ u[n].shares = t[n].shares
      /\ u[n].book = t[n].book /\ u[n].reply = t[n].reply
      /\ u[n].seenBy = m.market /\ m.market # 0
      /\ \A j : Reported(u, j) = IF j = kind /\ t[n].reply = "Filled"
                                 THEN Reported(t, j) \cup {n} ELSE Reported(t, j)
  <2>1. Taken(m, t, u, n, kind)
    BY TakenReports DEF MarketInv
  <2> QED BY <2>1 DEF Taken
<1>2. t[n].kind = kind /\ t[n].seenBy = 0
  BY DEF Takes
<1>3. Reported(t, "Leg1") \subseteq Reported(u, "Leg1")
  BY <1>1
<1>4. \A f \in OrderIds : /\ IsClose(u, f) <=> IsClose(t, f)
                          /\ u[f].shares = t[f].shares
  BY <1>1, <1>2 DEF IsClose
<1>5. AtHome(u) => AtHome(t) /\ t[n].market = m.market
  BY <1>1, <1>2 DEF AtHome
<1>6. AtHome(t) => IsClean(m, t)
  BY DEF AtHome, IsClean
<1>7. IsClean(m, u) => IsClean(m, t) /\ t[n].market = m.market
  BY <1>1, <1>2 DEF IsClean
<1>8. \A i \in OrderIds : Fits(u[i])
  BY <1>1 DEF Positions, Committed, Fits, Matched
<1>9. /\ \A i \in OrderIds : i # n => /\ Standing(m, u, i) <=> Standing(m, t, i)
                                      /\ Awaited(m, u, i) <=> Awaited(m, t, i)
      /\ ~Awaited(m, u, n)
  BY <1>1 DEF Standing, Awaited, IsOwn
<1> QED BY <1>3, <1>4, <1>5, <1>6, <1>7, <1>8, <1>9 DEF Kept

\* A Leg1 answer at home, or in a clean market, comes to a manager waiting for it,
\* and nothing else is awaited.
LEMMA AwaitedOnce ==
    ASSUME NEW m \in Managers, NEW t \in Tables, NEW n \in OrderIds, NEW k,
           MarketInv(m, t, k), IsClean(m, t), t[n].kind = "Leg1", t[n].seenBy = 0,
           t[n].market = m.market
    PROVE  /\ Awaited(m, t, n) /\ m.state = "Leg1Pending"
           /\ \A i \in OrderIds : Awaited(m, t, i) => i = n
<1>1. Consistent(m, t) /\ IsOwn(m, t, n)
  BY DEF MarketInv, IsOwn
<1>2. m.state = "Leg1Pending"
  BY <1>1 DEF Consistent, Known, Leg1Known
<1>3. \A i \in OrderIds : Awaited(m, t, i) => i = n
  BY <1>1 DEF Consistent, Single, Awaited
<1> QED BY <1>1, <1>2, <1>3 DEF Awaited

\* A Leg1 fill is taken in.
LEMMA Leg1FilledPositions ==
    ASSUME NEW m \in Managers, NEW t \in Tables, NEW u \in Tables, NEW n \in OrderIds,
           NEW k \in Nat, NEW op \in Nat, NEW p,
           MarketInv(m, t, k), Positions(m, t, op), Takes(m, t, u, n, "Leg1"),
           t[n].reply = "Filled"
    PROVE  Positions(OnLeg1Fill(m, p, n), u, op + 1)
<1> DEFINE m2 == OnLeg1Fill(m, p, n)
<1>1. /\ m2.market = m.market
      /\ m.state = "Leg1Pending" => m2.state = "Leg2Pending" /\ m2.shares = n
      /\ m.state # "Leg1Pending" => m2 = m
  BY DEF OnLeg1Fill, Managers, Manager
<1> HIDE DEF m2
<1>2. /\ \A i \in OrderIds : i # n => u[i] = t[i]
      /\ n \notin Reported(t, "Leg1") /\ Reported(u, "Leg1") = Reported(t, "Leg1") \cup {n}
      /\ Reported(u, "ForceClose") = Reported(t, "ForceClose")
  <2>1. Taken(m, t, u, n, "Leg1")
    BY TakenReports DEF MarketInv
  <2> QED BY <2>1 DEF Taken
<1>3. /\ \A f \in OrderIds : /\ IsClose(u, f) <=> IsClose(t, f)
                             /\ u[f].shares = t[f].shares
      /\ AtHome(u) => AtHome(t) /\ t[n].market = m.market
      /\ AtHome(t) => IsClean(m, t)
      /\ IsClean(m, u) => IsClean(m, t) /\ t[n].market = m.market
      /\ \A i \in OrderIds : Fits(u[i])
      /\ \A i \in OrderIds : i # n => (Awaited(m, u, i) <=> Awaited(m, t, i))
      /\ ~Awaited(m, u, n)
  <2>1. Kept(m, t, u, n)
    BY TakenKeeps
  <2> QED BY <2>1 DEF Kept
<1>4. t[n].kind = "Leg1" /\ t[n].seenBy = 0
  BY DEF Takes
<1>5. IsClean(m, t) /\ t[n].market = m.market
      => m.state = "Leg1Pending" /\ \A i \in OrderIds : Awaited(m, t, i) => i = n
  BY <1>4, AwaitedOnce
<1>6. Counted(m2, u, op + 1)
  <2>1. /\ Cardinality(Reported(u, "Leg1")) = Cardinality(Reported(t, "Leg1")) + 1
        /\ Cardinality(Reported(t, "Leg1")) \in Nat /\ Cardinality(Reported(t, "ForceClose")) \in Nat
    BY <1>2, ReportedFinite, FS_AddElement
  <2>2. op + 1 = Cardinality(Reported(u, "Leg1")) - Cardinality(Reported(u, "ForceClose"))
    BY <1>2, <2>1 DEF Positions, Counted
  <2>3. m2.state = "Leg2Pending" =>
          /\ m2.shares \in Reported(u, "Leg1")
          /\ \A f \in OrderIds : IsClose(u, f) => u[f].shares # m2.shares
    BY <1>1, <1>2, <1>3 DEF Positions, Counted
  <2> QED BY <1>2, <1>3, <2>2, <2>3 DEF Positions, Counted
<1>7. Limited(m2, u, op + 1)
  <2> SUFFICES ASSUME AtHome(u)
               PROVE  op + 1 <= MaxPositions
                      /\ (m2.state = "Leg1Pending" => op + 1 < MaxPositions)
    BY DEF Limited
  <2>1. AtHome(t) /\ m.state = "Leg1Pending"
    BY <1>3, <1>5
  <2>2. op < MaxPositions
    BY <2>1 DEF Positions, Limited
  <2> QED BY <1>1, <2>1, <2>2, BoundAssumption
<1>8. Committed(m2, u)
  <2> SUFFICES ASSUME IsClean(m2, u)
               PROVE  m2.state # "Idle" /\ \A i \in OrderIds : ~Awaited(m2, u, i)
    BY <1>3 DEF Committed
  <2>1. IsClean(m, u)
    BY <1>1 DEF IsClean
  <2>2. m.state = "Leg1Pending" /\ \A i \in OrderIds : Awaited(m, t, i) => i = n
    BY <1>3, <1>5, <2>1
  <2>3. \A i \in OrderIds : ~Awaited(m, u, i)
    BY <1>3, <2>2
  <2> QED BY <1>1, <2>2, <2>3 DEF Awaited, IsOwn
<1> QED BY <1>6, <1>7, <1>8 DEF Positions, m2

\* A refusal of Leg1 is taken in: the manager is idle again.
LEMMA Leg1RefusedPositions ==
    ASSUME NEW m \in Managers, NEW t \in Tables, NEW u \in Tables, NEW n \in OrderIds,
           NEW k \in Nat, NEW op \in Nat,
           MarketInv(m, t, k), Positions(m, t, op), Takes(m, t, u, n, "Leg1"),
           t[n].reply \in {"Rejected", "Err"}
    PROVE  Positions(OnLeg1Rejected(m), u, op)
<1> DEFINE m2 == OnLeg1Rejected(m)
<1>1. m2.market = m.market /\ m2.state = "Idle"
  BY DEF OnLeg1Rejected, New, Fresh
<1> HIDE DEF m2
<1>2. /\ \A j : Reported(u, j) = Reported(t, j)
      /\ u[n].reply = t[n].reply
  <2>1. Taken(m, t, u, n, "Leg1")
    BY TakenReports DEF MarketInv
  <2> QED BY <2>1 DEF Taken
<1>3. /\ \A f \in OrderIds : /\ IsClose(u, f) <=> IsClose(t, f)
                             /\ u[f].shares = t[f].shares
      /\ AtHome(u) => AtHome(t)
      /\ IsClean(m, u) => IsClean(m, t) /\ t[n].market = m.market
      /\ \A i \in OrderIds : Fits(u[i])
      /\ \A i \in OrderIds : i # n => (Standing(m, u, i) <=> Standing(m, t, i))
  <2>1. Kept(m, t, u, n)
    BY TakenKeeps
  <2> QED BY <2>1 DEF Kept
<1>4. Counted(m2, u, op)
  BY <1>1, <1>2, <1>3 DEF Positions, Counted
<1>5. Limited(m2, u, op)
  BY <1>1, <1>3 DEF Positions, Limited
<1>6. Committed(m2, u)
  <2> SUFFICES ASSUME IsClean(m2, u), NEW i \in OrderIds, Standing(m2, u, i) PROVE FALSE
    BY <1>3 DEF Committed
  <2>1. IsClean(m, u) /\ Standing(m, u, i)
    BY <1>1 DEF IsClean, Standing, IsOwn
  <2>2. i # n
    BY <1>2, <2>1 DEF Standing
  <2>3. Standing(m, t, i) /\ IsClean(m, t) /\ t[n].market = m.market
    BY <1>3, <2>1, <2>2
  <2>4. Awaited(m, t, n)
    BY <2>3 DEF Takes, Awaited, IsOwn
  <2> QED BY <2>3, <2>4 DEF Positions, Committed
<1> QED BY <1>4, <1>5, <1>6 DEF Positions, m2

\* Any answer but these and the fill of a force-close is taken in.
LEMMA OtherPositions ==
    ASSUME NEW m \in Managers, NEW m2, NEW t \in Tables, NEW u \in Tables, NEW n \in OrderIds,
           NEW k \in Nat, NEW op \in Nat, NEW kind \in Kinds,
           MarketInv(m, t, k), Positions(m, t, op), Takes(m, t, u, n, kind),
           kind = "Leg2" \/ t[n].reply # "Filled",
           kind = "Leg1" => t[n].reply = "Live",
           m2.market = m.market, m2 = m \/ m2.state = "Locked"
    PROVE  Positions(m2, u, op)
<1>0. kind # "None"
  BY DEF Kinds
<1>2. /\ Reported(u, "Leg1") = Reported(t, "Leg1")
      /\ Reported(u, "ForceClose") = Reported(t, "ForceClose")
      /\ u[n].kind = kind /\ u[n].reply = t[n].reply
  <2>1. Taken(m, t, u, n, kind)
    BY <1>0, TakenReports DEF MarketInv
  <2> QED BY <2>1 DEF Taken, Kinds
<1>3. /\ \A f \in OrderIds : /\ IsClose(u, f) <=> IsClose(t, f)
                             /\ u[f].shares = t[f].shares
      /\ AtHome(u) => AtHome(t)
      /\ IsClean(m, u) => IsClean(m, t) /\ t[n].market = m.market
      /\ \A i \in OrderIds : Fits(u[i])
      /\ \A i \in OrderIds : i # n => /\ Standing(m, u, i) <=> Standing(m, t, i)
                                      /\ Awaited(m, u, i) <=> Awaited(m, t, i)
      /\ ~Awaited(m, u, n)
  <2>1. Kept(m, t, u, n)
    BY <1>0, TakenKeeps
  <2> QED BY <2>1 DEF Kept
<1>4. Counted(m2, u, op)
  BY <1>2, <1>3 DEF Positions, Counted
<1>5. Limited(m2, u, op)
  BY <1>3 DEF Positions, Limited
<1>6. Committed(m2, u)
  <2> SUFFICES ASSUME IsClean(m2, u), NEW i \in OrderIds, Standing(m2, u, i)
               PROVE  m2.state # "Idle" /\ \A j \in OrderIds : ~Awaited(m2, u, j)
    BY <1>3 DEF Committed
  <2>1. IsClean(m, u) /\ Standing(m, u, i)
    BY DEF IsClean, Standing, IsOwn
  <2>2. \A j \in OrderIds : Awaited(m2, u, j) <=> Awaited(m, u, j)
    BY DEF Awaited, IsOwn
  <2>3. CASE i = n
    <3>1. kind = "Leg1" /\ t[n].kind = "Leg1" /\ t[n].seenBy = 0
      BY <1>2, <2>1, <2>3 DEF Standing, Takes
    <3>2. m.state = "Leg1Pending" /\ \A j \in OrderIds : Awaited(m, t, j) => j = n
      BY <1>3, <2>1, <3>1, AwaitedOnce
    <3> QED BY <1>3, <2>2, <3>2
  <2>4. CASE i # n
    <3>1. Standing(m, t, i) /\ IsClean(m, t)
      BY <1>3, <2>1, <2>4
    <3>2. m.state # "Idle" /\ \A j \in OrderIds : ~Awaited(m, t, j)
      BY <3>1 DEF Positions, Committed
    <3> QED BY <1>3, <2>2, <3>2
  <2> QED BY <2>3, <2>4
<1> QED BY <1>4, <1>5, <1>6 DEF Positions

\* The fill of a force-close is taken in: there was a position to close.
LEMMA CloseFilledPositions ==
    ASSUME NEW m \in Managers, NEW t \in Tables, NEW u \in Tables, NEW n \in OrderIds,
           NEW k \in Nat, NEW op \in Nat,
           MarketInv(m, t, k), Positions(m, t, op), Takes(m, t, u, n, "ForceClose"),
           t[n].reply = "Filled"
    PROVE  op # 0 /\ Positions(m, u, op - 1)
<1>2. /\ Reported(u, "Leg1") = Reported(t, "Leg1") /\ n \notin Reported(t, "ForceClose")
      /\ Reported(u, "ForceClose") = Reported(t, "ForceClose") \cup {n}
      /\ u[n].kind = "ForceClose"
  <2>1. Taken(m, t, u, n, "ForceClose")
    BY TakenReports DEF MarketInv
  <2> QED BY <2>1 DEF Taken
<1>3. /\ \A f \in OrderIds : /\ IsClose(u, f) <=> IsClose(t, f)
                             /\ u[f].shares = t[f].shares
      /\ AtHome(u) => AtHome(t)
      /\ IsClean(m, u) => IsClean(m, t)
      /\ \A i \in OrderIds : Fits(u[i])
      /\ \A i \in OrderIds : i # n => /\ Standing(m, u, i) <=> Standing(m, t, i)
                                      /\ Awaited(m, u, i) <=> Awaited(m, t, i)
      /\ ~Awaited(m, u, n)
  <2>1. Kept(m, t, u, n)
    BY TakenKeeps
  <2> QED BY <2>1 DEF Kept
<1>4. /\ \A f \in OrderIds : IsClose(u, f) => u[f].shares \in Reported(u, "Leg1")
      /\ \A f, g \in OrderIds :
            IsClose(u, f) /\ IsClose(u, g) /\ u[f].shares = u[g].shares => f = g
  BY <1>2, <1>3 DEF Positions, Counted
<1>5. /\ Cardinality(Reported(u, "ForceClose")) = Cardinality(Reported(t, "ForceClose")) + 1
      /\ Cardinality(Reported(t, "Leg1")) \in Nat /\ Cardinality(Reported(t, "ForceClose")) \in Nat
  BY <1>2, ReportedFinite, FS_AddElement
<1>6. Cardinality(Reported(u, "ForceClose")) <= Cardinality(Reported(u, "Leg1"))
  BY <1>4, ClosesBounded
<1>7. op = Cardinality(Reported(t, "Leg1")) - Cardinality(Reported(t, "ForceClose"))
  BY DEF Positions, Counted
<1>8. op # 0
  BY <1>2, <1>5, <1>6, <1>7
<1>9. Counted(m, u, op - 1)
  <2>1. op - 1 = Cardinality(Reported(u, "Leg1")) - Cardinality(Reported(u, "ForceClose"))
    BY <1>2, <1>5, <1>7
  <2> QED BY <1>2, <1>3, <1>4, <2>1 DEF Positions, Counted
<1>10. Limited(m, u, op - 1)
  <2>1. MaxPositions \in Nat
    BY BoundAssumption
  <2> QED BY <1>3, <2>1 DEF Positions, Limited
<1>11. Committed(m, u)
  BY <1>2, <1>3 DEF Positions, Committed, Standing
<1> QED BY <1>8, <1>9, <1>10, <1>11 DEF Positions

-----------------------------------------------------------------------------
\* At the start there are no orders and no positions.
LEMMA PositionInit == Init => PositionInv
<1> SUFFICES ASSUME Init, NEW a \in Assets
             PROVE  Positions(mgr[a], orders[a], open[a])
  BY DEF PositionInv
<1>1. /\ mgr[a].state = "None" /\ open[a] = 0
      /\ \A n \in OrderIds : /\ orders[a][n].kind = "None" /\ orders[a][n].book = "Unsent"
                             /\ orders[a][n].seenBy = 0
  BY DEF Init, NoManager, Fresh, NoOrder, NewOrder
<1>2. Reported(orders[a], "Leg1") = {} /\ Reported(orders[a], "ForceClose") = {}
  BY <1>1 DEF Reported
<1>3. Cardinality({}) = 0
  BY FS_EmptySet
<1>4. Counted(mgr[a], orders[a], open[a])
  <2>1. open[a] = Cardinality(Reported(orders[a], "Leg1"))
                    - Cardinality(Reported(orders[a], "ForceClose"))
    <3>1. open[a] = 0 /\ 0 - 0 = 0
      BY <1>1
    <3> QED BY <1>2, <1>3, <3>1
  <2> QED BY <1>1, <2>1 DEF Counted, IsClose
<1>5. Limited(mgr[a], orders[a], open[a])
  BY <1>1, BoundAssumption DEF Limited
<1>6. Committed(mgr[a], orders[a])
  BY <1>1 DEF Committed, Standing, Fits, Matched
<1> QED BY <1>4, <1>5, <1>6 DEF Positions

\* A new order is entered under a number that was free.
LEMMA EntersRow ==
    ASSUME NEW m, NEW t, NEW u, NEW k \in Nat, k + 1 \in OrderIds, NEW o,
           Sane(m, t, k), Replaces(t, u, k + 1, o),
           o.kind # "None", o.book = "Unsent", o.reply = "None", o.seenBy = 0
    PROVE  Enters(t, u, k + 1, o)
<1>1. t[k + 1].kind = "None"
  BY DEF Sane
<1> QED BY <1>1 DEF Enters, Sane

\* The Leg2 order of a manager, entered after an answer was taken in.
LEMMA Leg2Entered ==
    ASSUME NEW m, NEW m2, NEW t \in Tables, NEW u, NEW k \in Nat, k + 1 \in OrderIds, NEW op,
           Sane(m, t, k), Positions(m2, t, op), Replaces(t, u, k + 1, Leg2Order(m2))
    PROVE  Positions(m2, u, op)
<1> DEFINE o == Leg2Order(m2)
<1>1. o.kind = "Leg2" /\ o.book = "Unsent" /\ o.reply = "None" /\ o.seenBy = 0
  BY DEF Leg2Order, NewOrder
<1> HIDE DEF o
<1>2. Replaces(t, u, k + 1, o)
  BY DEF o
<1>3. Enters(t, u, k + 1, o)
  BY <1>1, <1>2, EntersRow
<1> QED BY <1>1, <1>3, Leg2PlacedPositions

\* The executor and the exchange change one order of one asset.
LEMMA AnswerChanges ==
    ASSUME TypeOK, NEW a \in Assets, NEW n \in OrderIds,
           Fill(a, n) \/ Rest(a, n) \/ RestingFill(a, n) \/ Refuse(a, n)
    PROVE  Changes(orders[a], orders'[a], n) /\ \A b \in Assets \ {a} : orders'[b] = orders[b]
<1>1. orders[a][n] \in Order
  BY DEF TypeOK
<1>2. \E o \in Order :
         /\ orders' = [orders EXCEPT ![a][n] = o]
         /\ o.kind = orders[a][n].kind /\ o.market = orders[a][n].market
         /\ o.shares = orders[a][n].shares /\ o.seenBy = orders[a][n].seenBy
         /\ \/ orders[a][n].book = "Unsent" /\ Replied(o)
            \/ /\ orders[a][n].book \in {"Resting", "Part"}
               /\ Matched(o) /\ o.reply = orders[a][n].reply
  <2>0. \A p \in FillPrices(orders[a][n]) \cup {0} : p \in Nat
    BY <1>1, FillPriceType
  <2>1. CASE Fill(a, n)
    <3>1. PICK p \in FillPrices(orders[a][n]), book \in Matches(orders[a][n]),
               r \in {"Filled"} \cup Unknowing :
             orders' = [orders EXCEPT ![a][n] = Answer(orders[a][n], book, p, r)]
      BY <2>1 DEF Fill, TypeOK
    <3>2. book \in {"Filled", "Part"} /\ book \in Books /\ r \in Replies
      BY DEF Matches, Unknowing, Replies, Books
    <3>3. Answer(orders[a][n], book, p, r) \in Order
      BY <1>1, <2>0, <3>2, OrderUpdateTypes
    <3> QED BY <1>1, <2>1, <3>1, <3>2, <3>3 DEF Fill, Posted, Answer, Order, Replied, Matched
  <2>2. CASE Rest(a, n)
    <3>1. PICK p \in FillPrices(orders[a][n]), r \in {"Live"} \cup Unknowing :
             orders' = [orders EXCEPT ![a][n] = Answer(orders[a][n], "Resting", p, r)]
      BY <2>2 DEF Rest, TypeOK
    <3>2. Answer(orders[a][n], "Resting", p, r) \in Order
      BY <1>1, <2>0, OrderUpdateTypes DEF Replies, Unknowing, Books
    <3> QED BY <1>1, <2>2, <3>1, <3>2 DEF Rest, Posted, Answer, Order, Replied
  <2>3. CASE RestingFill(a, n)
    <3>1. PICK book \in Matches(orders[a][n]) :
             /\ book \in Books
             /\ orders' = [orders EXCEPT ![a][n] = [orders[a][n] EXCEPT !.book = book]]
      BY <2>3, RestingFillChanges DEF TypeOK
    <3>2. [orders[a][n] EXCEPT !.book = book] \in Order
      BY <1>1, <3>1, OrderUpdateTypes
    <3>3. orders[a][n].book \in {"Resting", "Part"}
      BY <2>3 DEF RestingFill
    <3> QED BY <1>1, <3>1, <3>2, <3>3 DEF Order, Matches, Matched
  <2>4. CASE Refuse(a, n)
    <3>1. PICK r \in {"Rejected", "Err"} :
             orders' = [orders EXCEPT ![a][n] = Answer(orders[a][n], "Refused", 0, r)]
      BY <2>4 DEF Refuse, TypeOK
    <3>2. Answer(orders[a][n], "Refused", 0, r) \in Order
      BY <1>1, <2>0, OrderUpdateTypes DEF Replies, Books
    <3> QED BY <1>1, <2>4, <3>1, <3>2 DEF Refuse, Posted, Answer, Order, Replied
  <2> QED BY <2>1, <2>2, <2>3, <2>4
<1> QED BY <1>2 DEF Changes, TypeOK

\* Every step keeps the books of every asset.
LEMMA PositionStep ==
    ASSUME TypeOK, TypeOK', CoreInv, PositionInv, [Next]_vars
    PROVE  PositionInv'
<1>1. ASSUME NEW a \in Assets
      PROVE  /\ mgr[a] \in Managers /\ orders[a] \in Tables /\ orders'[a] \in Tables
             /\ placed[a] \in Nat /\ open[a] \in Nat
             /\ MarketInv(mgr[a], orders[a], placed[a])
             /\ Sane(mgr[a], orders[a], placed[a])
             /\ Positions(mgr[a], orders[a], open[a])
  <2>1. orders'[a] \in Tables /\ open[a] \in Nat
    BY DEF TypeOK, Tables
  <2>2. MarketInv(mgr[a], orders[a], placed[a]) /\ Positions(mgr[a], orders[a], open[a])
    BY DEF CoreInv, PositionInv
  <2> QED BY <2>1, <2>2, RowTypes DEF MarketInv
\* A step leaves every other asset as it is.
<1>2. ASSUME NEW a \in Assets, Positions(mgr'[a], orders'[a], open'[a]),
             \A b \in Assets \ {a} : /\ mgr'[b] = mgr[b] /\ orders'[b] = orders[b]
                                     /\ open'[b] = open[b]
      PROVE  PositionInv'
  BY <1>1, <1>2 DEF PositionInv
<1>3. CASE UNCHANGED <<mgr, orders, open>>
  BY <1>3 DEF PositionInv
<1>4. ASSUME NEW a \in Assets, Activate(a) PROVE PositionInv'
  <2>1. mgr'[a] = New(mgr[a].market + 1) /\ orders' = orders /\ open' = open
    BY <1>4 DEF Activate, TypeOK
  <2>2. Positions(mgr'[a], orders'[a], open'[a])
    BY <1>1, <2>1, RotatedPositions
  <2> QED BY <1>2, <1>4, <2>1, <2>2 DEF Activate, TypeOK
<1>5. ASSUME NEW a \in Assets, NEW side \in Sides,
             NEW hint \in Quotes \cup {NoHint}, HlSignal(a, side, hint)
      PROVE  PositionInv'
  <2> DEFINE o == NewOrder("Leg1", mgr[a].market, side,
                           IF hint = NoHint THEN Dollar ELSE hint, 0)
  <2>1. placed[a] + 1 \in OrderIds
    BY <1>1, <1>5, BoundAssumption DEF HlSignal, OrderIds
  <2>2. /\ mgr'[a] = OnSignal(mgr[a], side) /\ open' = open
        /\ orders'[a] = [orders[a] EXCEPT ![placed[a] + 1] = o]
        /\ mgr[a].state = "Idle" /\ open[a] < MaxPositions
    BY <1>5, <2>1 DEF HlSignal, EntryAllowed, TypeOK
  <2>3. o.kind = "Leg1" /\ o.book = "Unsent" /\ o.reply = "None" /\ o.seenBy = 0
    BY DEF NewOrder
  <2> HIDE DEF o
  <2>4. Replaces(orders[a], orders'[a], placed[a] + 1, o)
    BY <1>1, <2>1, <2>2, ExceptReplaces
  <2>5. Enters(orders[a], orders'[a], placed[a] + 1, o)
    BY <1>1, <2>1, <2>3, <2>4, EntersRow
  <2>6. Positions(OnSignal(mgr[a], side), orders'[a], open[a])
    BY <1>1, <2>1, <2>2, <2>3, <2>5, SignalPositions
  <2> QED BY <1>2, <1>5, <2>2, <2>6 DEF HlSignal, TypeOK
<1>6. ASSUME NEW a \in Assets, PolyBook(a) PROVE PositionInv'
  <2> DEFINE o == NewOrder("ForceClose", mgr[a].market, mgr[a].side, Tick, mgr[a].shares)
  <2>1. placed[a] + 1 \in OrderIds
    BY <1>1, <1>6, BoundAssumption DEF PolyBook, OrderIds
  <2>2. /\ mgr'[a] = OnTick(mgr[a], Interval - age[a], ForceCloseSecs) /\ open' = open
        /\ orders'[a] = [orders[a] EXCEPT ![placed[a] + 1] = o]
        /\ ForceCloseDue(mgr[a], Interval - age[a], ForceCloseSecs)
    BY <1>6, <2>1 DEF PolyBook, TypeOK
  <2>3. /\ o.kind = "ForceClose" /\ o.book = "Unsent" /\ o.reply = "None" /\ o.seenBy = 0
        /\ o.shares = mgr[a].shares
    BY DEF NewOrder
  <2> HIDE DEF o
  <2>4. Replaces(orders[a], orders'[a], placed[a] + 1, o)
    BY <1>1, <2>1, <2>2, ExceptReplaces
  <2>5. Enters(orders[a], orders'[a], placed[a] + 1, o)
    BY <1>1, <2>1, <2>3, <2>4, EntersRow
  <2>6. /\ mgr[a].state = "Leg2Pending"
        /\ mgr'[a].state = "ForceClose" /\ mgr'[a].market = mgr[a].market
    BY <1>1, <2>2 DEF OnTick, ForceCloseDue, Managers, Manager
  <2>7. Positions(mgr'[a], orders'[a], open[a])
    BY <1>1, <2>1, <2>3, <2>5, <2>6, ClosePositions
  <2> QED BY <1>2, <1>6, <2>2, <2>7 DEF PolyBook, TypeOK
<1>7. ASSUME NEW a \in Assets, NEW n \in OrderIds,
             Fill(a, n) \/ Rest(a, n) \/ RestingFill(a, n) \/ Refuse(a, n)
      PROVE  PositionInv'
  <2>1. Changes(orders[a], orders'[a], n) /\ \A b \in Assets \ {a} : orders'[b] = orders[b]
    BY <1>7, AnswerChanges
  <2>2. mgr' = mgr /\ open' = open
    BY <1>7 DEF Fill, Rest, RestingFill, Refuse
  <2>3. Positions(mgr[a], orders'[a], open[a])
    BY <1>1, <2>1, AnsweredPositions
  <2> QED BY <1>2, <2>1, <2>2, <2>3
\* An answer is taken in and nothing is ordered.
<1>8. ASSUME NEW a \in Assets, NEW n \in OrderIds, NEW kind \in Kinds,
             orders[a][n].kind = kind, orders[a][n].reply # "None",
             orders[a][n].seenBy = 0, orders' = Seen(a, n)
      PROVE  /\ Takes(mgr[a], orders[a], orders'[a], n, kind)
             /\ \A b \in Assets \ {a} : orders'[b] = orders[b]
  BY <1>8, SeenRow
<1>9. ASSUME NEW a \in Assets, NEW n \in OrderIds, Leg1Filled(a, n) PROVE PositionInv'
  <2> DEFINE p == orders[a][n].price   m == OnLeg1Fill(mgr[a], p, n)   v == Seen(a, n)[a]
  <2>1. /\ orders[a][n].kind = "Leg1" /\ orders[a][n].reply = "Filled"
        /\ orders[a][n].seenBy = 0
    BY <1>9 DEF Leg1Filled, Answered
  <2>2. /\ mgr'[a] = m /\ open'[a] = open[a] + 1
        /\ \A b \in Assets \ {a} : mgr'[b] = mgr[b] /\ open'[b] = open[b]
    BY <1>9 DEF Leg1Filled, TypeOK
  <2>3. /\ Takes(mgr[a], orders[a], v, n, "Leg1") /\ v \in Tables
        /\ \A b \in Assets \ {a} : Seen(a, n)[b] = orders[b]
    BY <2>1, SeenRow DEF Kinds
  <2> HIDE DEF m, p, v
  <2>4. Positions(m, v, open[a] + 1)
    BY <1>1, <2>1, <2>3, Leg1FilledPositions DEF m
  <2>5. CASE mgr[a].state = "Leg1Pending"
    <3>1. SeenAndPlace(a, n, Leg2Order(m))
      BY <1>9, <2>5 DEF Leg1Filled, m, p
    <3>2. /\ Replaces(v, orders'[a], placed[a] + 1, Leg2Order(m))
          /\ placed[a] + 1 \in OrderIds
          /\ \A b \in Assets \ {a} : orders'[b] = Seen(a, n)[b]
      BY <3>1, PlacedRow DEF v
    <3>3. Sane(mgr[a], v, placed[a])
      BY <1>1, <2>1, <2>3, SeenKeeps DEF MarketInv, Takes
    <3>4. Positions(m, orders'[a], open[a] + 1)
      BY <1>1, <2>3, <2>4, <3>2, <3>3, Leg2Entered
    <3> QED BY <1>2, <2>2, <2>3, <3>2, <3>4
  <2>6. CASE mgr[a].state # "Leg1Pending"
    <3>1. orders' = Seen(a, n)
      BY <1>9, <2>6 DEF Leg1Filled
    <3> QED BY <1>2, <2>2, <2>3, <2>4, <3>1 DEF v
  <2> QED BY <2>5, <2>6
<1>10. ASSUME NEW a \in Assets, NEW n \in OrderIds, Leg1Refused(a, n) PROVE PositionInv'
  <2>1. /\ orders[a][n].kind = "Leg1" /\ orders[a][n].reply \in {"Rejected", "Err"}
        /\ orders[a][n].seenBy = 0 /\ orders' = Seen(a, n) /\ open' = open
    BY <1>10 DEF Leg1Refused, Answered
  <2>2. /\ mgr'[a] = OnLeg1Rejected(mgr[a])
        /\ \A b \in Assets \ {a} : mgr'[b] = mgr[b]
    BY <1>10 DEF Leg1Refused, TypeOK
  <2>3. /\ Takes(mgr[a], orders[a], orders'[a], n, "Leg1")
        /\ \A b \in Assets \ {a} : orders'[b] = orders[b]
    BY <1>8, <2>1 DEF Kinds
  <2>4. Positions(mgr'[a], orders'[a], open[a])
    BY <1>1, <2>1, <2>2, <2>3, Leg1RefusedPositions
  <2> QED BY <1>2, <2>1, <2>2, <2>3, <2>4
<1>11. ASSUME NEW a \in Assets, NEW n \in OrderIds, Leg2Filled(a, n) PROVE PositionInv'
  <2>1. /\ orders[a][n].kind = "Leg2" /\ orders[a][n].reply = "Filled"
        /\ orders[a][n].seenBy = 0 /\ orders' = Seen(a, n) /\ open' = open
    BY <1>11 DEF Leg2Filled, Answered
  <2>2. /\ mgr'[a] = OnLeg2Fill(mgr[a], orders[a][n].price)
        /\ \A b \in Assets \ {a} : mgr'[b] = mgr[b]
    BY <1>11 DEF Leg2Filled, TypeOK
  <2>3. /\ Takes(mgr[a], orders[a], orders'[a], n, "Leg2")
        /\ \A b \in Assets \ {a} : orders'[b] = orders[b]
    BY <1>8, <2>1 DEF Kinds
  <2>4. /\ mgr'[a].market = mgr[a].market
        /\ mgr'[a] = mgr[a] \/ mgr'[a].state = "Locked"
    BY <1>1, <2>2 DEF OnLeg2Fill, Managers, Manager
  <2>5. Positions(mgr'[a], orders'[a], open[a])
    BY <1>1, <2>1, <2>3, <2>4, OtherPositions DEF Kinds
  <2> QED BY <1>2, <2>1, <2>2, <2>3, <2>5
<1>12. ASSUME NEW a \in Assets, NEW n \in OrderIds, Leg2Rejected(a, n) PROVE PositionInv'
  <2> DEFINE v == Seen(a, n)[a]
  <2>1. /\ orders[a][n].kind = "Leg2" /\ orders[a][n].reply = "Rejected"
        /\ orders[a][n].seenBy = 0 /\ mgr' = mgr /\ open' = open
    BY <1>12 DEF Leg2Rejected, Answered
  <2>2. /\ Takes(mgr[a], orders[a], v, n, "Leg2") /\ v \in Tables
        /\ \A b \in Assets \ {a} : Seen(a, n)[b] = orders[b]
    BY <2>1, SeenRow DEF Kinds
  <2> HIDE DEF v
  <2>3. Positions(mgr[a], v, open[a])
    BY <1>1, <2>1, <2>2, OtherPositions DEF Kinds
  <2>4. CASE ReplacesLeg2(mgr[a])
    <3>1. SeenAndPlace(a, n, Leg2Order(mgr[a]))
      BY <1>12, <2>4 DEF Leg2Rejected
    <3>2. /\ Replaces(v, orders'[a], placed[a] + 1, Leg2Order(mgr[a]))
          /\ placed[a] + 1 \in OrderIds
          /\ \A b \in Assets \ {a} : orders'[b] = Seen(a, n)[b]
      BY <3>1, PlacedRow DEF v
    <3>3. Sane(mgr[a], v, placed[a])
      BY <1>1, <2>1, <2>2, SeenKeeps DEF MarketInv, Takes
    <3>4. Positions(mgr[a], orders'[a], open[a])
      BY <1>1, <2>2, <2>3, <3>2, <3>3, Leg2Entered
    <3> QED BY <1>2, <2>1, <2>2, <3>2, <3>4
  <2>5. CASE ~ReplacesLeg2(mgr[a])
    <3>1. orders' = Seen(a, n)
      BY <1>12, <2>5 DEF Leg2Rejected
    <3> QED BY <1>2, <2>1, <2>2, <2>3, <3>1 DEF v
  <2> QED BY <2>4, <2>5
<1>13. ASSUME NEW a \in Assets, NEW n \in OrderIds, ForceCloseFilled(a, n)
       PROVE  PositionInv'
  <2>1. /\ orders[a][n].kind = "ForceClose" /\ orders[a][n].reply = "Filled"
        /\ orders[a][n].seenBy = 0 /\ orders' = Seen(a, n) /\ mgr' = mgr
    BY <1>13 DEF ForceCloseFilled, Answered
  <2>2. /\ Takes(mgr[a], orders[a], orders'[a], n, "ForceClose")
        /\ \A b \in Assets \ {a} : orders'[b] = orders[b]
    BY <1>8, <2>1 DEF Kinds
  <2>3. open[a] # 0 /\ Positions(mgr[a], orders'[a], open[a] - 1)
    BY <1>1, <2>1, <2>2, CloseFilledPositions
  <2>4. open'[a] = open[a] - 1 /\ \A b \in Assets \ {a} : open'[b] = open[b]
    BY <1>13, <2>3 DEF ForceCloseFilled, TypeOK
  <2> QED BY <1>2, <2>1, <2>2, <2>3, <2>4
<1>14. ASSUME NEW a \in Assets, NEW n \in OrderIds, Logged(a, n) PROVE PositionInv'
  <2>1. PICK kind \in Kinds :
           /\ orders[a][n].kind = kind /\ orders[a][n].reply # "None"
           /\ orders[a][n].seenBy = 0
           /\ kind = "Leg2" \/ orders[a][n].reply # "Filled"
           /\ kind = "Leg1" => orders[a][n].reply = "Live"
    BY <1>14 DEF Logged, Answered, Kinds
  <2>2. orders' = Seen(a, n) /\ mgr' = mgr /\ open' = open
    BY <1>14 DEF Logged
  <2>3. /\ Takes(mgr[a], orders[a], orders'[a], n, kind)
        /\ \A b \in Assets \ {a} : orders'[b] = orders[b]
    BY <1>8, <2>1, <2>2
  <2>4. Positions(mgr[a], orders'[a], open[a])
    BY <1>1, <2>1, <2>3, OtherPositions
  <2> QED BY <1>2, <2>2, <2>3, <2>4
<1>15. CASE Elapse \/ UNCHANGED vars
  BY <1>3, <1>15 DEF Elapse, vars
<1> QED BY <1>4, <1>5, <1>6, <1>7, <1>9, <1>10, <1>11, <1>12, <1>13, <1>14, <1>15 DEF Next

\* The inductive invariant of the positions: every force-close sells a Leg1 fill
\* that was taken in, no two the same, and there is room for the fill a manager
\* waits for (risk.rs, main.rs:200-300).
THEOREM PositionCorrect == Spec => []PositionInv
<1>1. TypeOK /\ TypeOK' /\ CoreInv /\ PositionInv /\ [Next]_vars => PositionInv'
  BY PositionStep
<1> QED BY <1>1, PositionInit, TypeCorrect, CoreCorrect, PTL DEF Spec

\* The position count is the number of reported Leg1 fills less the number of
\* reported force-closes: saturating_sub never saturates.
THEOREM PositionAccountingHolds == Spec => []PositionAccounting
<1>1. PositionInv => PositionAccounting
  BY DEF PositionInv, Positions, Counted, Reported, PositionAccounting
<1> QED BY <1>1, PositionCorrect, PTL

\* While results reach the managers of their own markets the position count stays
\* within MAX_CONCURRENT_POSITIONS.
THEOREM PositionLimitHolds == Spec => []PositionLimit
<1>1. PositionInv => PositionLimit
  BY DEF PositionInv, Positions, Limited, AtHome, PositionLimit
<1> QED BY <1>1, PositionCorrect, PTL

\* An idle manager of a clean market holds nothing of it, but by an order that the
\* executor did not know was matched.
THEOREM IdleIsFlatHolds == Spec => []IdleIsFlat
<1>1. TypeOK /\ CoreInv /\ PositionInv => IdleIsFlat
  <2> SUFFICES ASSUME TypeOK, CoreInv, PositionInv, NEW a \in Assets, Clean(a),
                      mgr[a].state = "Idle", NEW n \in Own(a), Matched(orders[a][n])
               PROVE  orders[a][n].reply \in Unknowing
    BY DEF IdleIsFlat
  <2>1. /\ IsClean(mgr[a], orders[a]) /\ IsOwn(mgr[a], orders[a], n) /\ n \in OrderIds
        /\ Consistent(mgr[a], orders[a]) /\ Committed(mgr[a], orders[a])
    BY CleanIsClean DEF CoreInv, MarketInv, PositionInv, Positions
  <2>2. orders[a][n].kind \in Kinds
    BY <2>1 DEF TypeOK, Order, IsOwn
  <2>3. orders[a][n].kind = "Leg1" /\ orders[a][n].seenBy # 0
    BY <2>1, <2>2 DEF Kinds, Consistent, Known, Leg1Known, Leg2Known, CloseKnown, Filled1
  <2>4. ~Standing(mgr[a], orders[a], n)
    BY <2>1 DEF Committed
  <2> QED BY <2>1, <2>3, <2>4 DEF Committed, Standing, Fits
<1> QED BY <1>1, TypeCorrect, CoreCorrect, PositionCorrect, PTL

-----------------------------------------------------------------------------
(***************************************************************************)
(* The markets handed to the redeemer are exactly those before the current *)
(* one of their asset, and an order that was never placed holds nothing.   *)
(***************************************************************************)
HandedOver ==
    \A a \in Assets :
        /\ \A k \in Markets : <<a, k>> \in redeemTx <=> k < mgr[a].market
        /\ \A n \in OrderIds : orders[a][n].kind = "None" => orders[a][n].book = "Unsent"

\* Only a rotation changes the market of a manager.
LEMMA MarketStays ==
    ASSUME TypeOK, [Next]_vars, ~\E b \in Assets : Activate(b), NEW a \in Assets
    PROVE  mgr'[a].market = mgr[a].market /\ redeemTx' = redeemTx
<1> USE DEF TypeOK, Manager
<1>1. ASSUME NEW m \in Managers
      PROVE  /\ \A side : OnSignal(m, side).market = m.market
             /\ \A p, n : OnLeg1Fill(m, p, n).market = m.market
             /\ OnLeg1Rejected(m).market = m.market
             /\ \A d : OnTick(m, d, ForceCloseSecs).market = m.market
             /\ \A p : OnLeg2Fill(m, p).market = m.market
  BY DEF Managers, OnSignal, OnLeg1Fill, OnLeg1Rejected, OnTick, OnLeg2Fill, New, Fresh
<1>2. \A b \in Assets : mgr[b] \in Managers
  BY DEF Managers
<1>3. CASE Elapse \/ UNCHANGED vars
  BY <1>3 DEF Elapse, vars
<1>4. ASSUME NEW b \in Assets, NEW side \in Sides, NEW hint \in Quotes \cup {NoHint},
             HlSignal(b, side, hint)
      PROVE  mgr'[a].market = mgr[a].market /\ redeemTx' = redeemTx
  BY <1>1, <1>2, <1>4 DEF HlSignal
<1>5. ASSUME NEW b \in Assets, PolyBook(b)
      PROVE  mgr'[a].market = mgr[a].market /\ redeemTx' = redeemTx
  BY <1>1, <1>2, <1>5 DEF PolyBook
<1>6. ASSUME NEW b \in Assets, NEW n \in OrderIds,
             \/ Leg1Filled(b, n) \/ Leg1Refused(b, n) \/ Leg2Filled(b, n)
      PROVE  mgr'[a].market = mgr[a].market /\ redeemTx' = redeemTx
  <2>1. CASE Leg1Filled(b, n)
    BY <1>1, <1>2, <2>1 DEF Leg1Filled
  <2>2. CASE Leg1Refused(b, n)
    BY <1>1, <1>2, <2>2 DEF Leg1Refused
  <2>3. CASE Leg2Filled(b, n)
    BY <1>1, <1>2, <2>3 DEF Leg2Filled
  <2> QED BY <1>6, <2>1, <2>2, <2>3
<1>7. ASSUME NEW b \in Assets, NEW n \in OrderIds,
             \/ Fill(b, n) \/ Rest(b, n) \/ RestingFill(b, n) \/ Refuse(b, n)
             \/ Leg2Rejected(b, n) \/ ForceCloseFilled(b, n) \/ Logged(b, n)
      PROVE  mgr'[a].market = mgr[a].market /\ redeemTx' = redeemTx
  BY <1>7 DEF Fill, Rest, RestingFill, Refuse, Leg2Rejected, ForceCloseFilled, Logged
<1> QED BY <1>3, <1>4, <1>5, <1>6, <1>7 DEF Next

\* An answer, or a late fill, leaves an order of the kind it was.
LEMMA AnswerKind ==
    ASSUME NEW o \in Order
    PROVE  /\ \A book, p, r : Answer(o, book, p, r).kind = o.kind
           /\ \A book : [o EXCEPT !.book = book].kind = o.kind
           /\ \A k : [o EXCEPT !.seenBy = k].kind = o.kind
<1>1. ASSUME NEW book, NEW p, NEW r PROVE Answer(o, book, p, r).kind = o.kind
  <2>1. DOMAIN o = {"kind", "market", "side", "limit", "shares", "book", "price",
                    "reply", "seenBy"}
    BY DEF Order
  <2> QED BY <2>1 DEF Answer
<1>2. \A book : [o EXCEPT !.book = book].kind = o.kind
  BY DEF Order
<1>3. \A k : [o EXCEPT !.seenBy = k].kind = o.kind
  BY DEF Order
<1> QED BY <1>1, <1>2, <1>3

\* An order number that names no order after a step named none before it, and the
\* step leaves it alone.
LEMMA NoneStays ==
    ASSUME TypeOK, HandedOver, [Next]_vars, NEW a \in Assets, NEW n \in OrderIds,
           orders'[a][n].kind = "None"
    PROVE  orders'[a][n] = orders[a][n]
<1> USE DEF TypeOK
\* Another entry o in row i of b's table that names an order.
<1>1. ASSUME NEW t \in [Assets -> [OrderIds -> Order]], NEW b \in Assets, NEW i, NEW o,
             o.kind # "None", [t EXCEPT ![b][i] = o][a][n].kind = "None"
      PROVE  [t EXCEPT ![b][i] = o][a][n] = t[a][n]
  <2>1. ~(a = b /\ n = i)
    BY <1>1
  <2> QED BY <2>1
<1>2. \A b \in Assets, i \in OrderIds : orders[b][i] \in Order
  OBVIOUS
<1>3. ASSUME NEW b \in Assets, NEW i \in OrderIds, orders[b][i].kind # "None"
      PROVE  /\ Seen(b, i) \in [Assets -> [OrderIds -> Order]]
             /\ Seen(b, i)[a][n].kind = "None" => Seen(b, i)[a][n] = orders[a][n]
  <2> DEFINE o == [orders[b][i] EXCEPT !.seenBy = mgr[b].market]
  <2>1. o \in Order /\ o.kind = orders[b][i].kind
    <3>1. mgr[b].market \in Markets \cup {0}
      BY DEF Manager
    <3>2. o.kind = orders[b][i].kind
      BY <1>2, AnswerKind
    <3> QED BY <1>2, <3>1, <3>2, OrderUpdateTypes
  <2>2. Seen(b, i) = [orders EXCEPT ![b][i] = o]
    BY DEF Seen
  <2> HIDE DEF o
  <2> QED BY <1>1, <1>3, <2>1, <2>2, TableType
<1>4. \A kind, market, side, limit, shares :
         NewOrder(kind, market, side, limit, shares).kind = kind
  BY DEF NewOrder
<1>5. CASE Elapse \/ UNCHANGED vars
  BY <1>5 DEF Elapse, vars
<1>6. ASSUME NEW b \in Assets, Activate(b) PROVE orders'[a][n] = orders[a][n]
  BY <1>6 DEF Activate
<1>7. ASSUME NEW b \in Assets, NEW side \in Sides, NEW hint \in Quotes \cup {NoHint},
             HlSignal(b, side, hint)
      PROVE  orders'[a][n] = orders[a][n]
  BY <1>1, <1>4, <1>7 DEF HlSignal
<1>8. ASSUME NEW b \in Assets, PolyBook(b) PROVE orders'[a][n] = orders[a][n]
  BY <1>1, <1>4, <1>8 DEF PolyBook
<1>9. ASSUME NEW b \in Assets, NEW i \in OrderIds,
             Fill(b, i) \/ Rest(b, i) \/ RestingFill(b, i) \/ Refuse(b, i)
      PROVE  orders'[a][n] = orders[a][n]
  <2>1. orders[b][i].kind # "None"
    BY <1>9 DEF Fill, Rest, RestingFill, Refuse, Posted, HandedOver
  <2>2. ASSUME NEW o, orders' = [orders EXCEPT ![b][i] = o], o.kind = orders[b][i].kind
        PROVE  orders'[a][n] = orders[a][n]
    BY <1>1, <2>1, <2>2
  <2>3. CASE Fill(b, i)
    <3>1. PICK p, r, book : orders' = [orders EXCEPT ![b][i] = Answer(orders[b][i], book, p, r)]
      BY <2>3 DEF Fill
    <3> DEFINE o == Answer(orders[b][i], book, p, r)
    <3>2. o.kind = orders[b][i].kind
      BY <1>2, AnswerKind
    <3>3. orders' = [orders EXCEPT ![b][i] = o]
      BY <3>1
    <3> HIDE DEF o
    <3> QED BY <2>2, <3>2, <3>3
  <2>4. CASE Rest(b, i)
    <3>1. PICK p, r : orders' = [orders EXCEPT ![b][i] = Answer(orders[b][i], "Resting", p, r)]
      BY <2>4 DEF Rest
    <3> DEFINE o == Answer(orders[b][i], "Resting", p, r)
    <3>2. o.kind = orders[b][i].kind
      BY <1>2, AnswerKind
    <3>3. orders' = [orders EXCEPT ![b][i] = o]
      BY <3>1
    <3> HIDE DEF o
    <3> QED BY <2>2, <3>2, <3>3
  <2>5. CASE RestingFill(b, i)
    <3>0. \E book \in Matches(orders[b][i]) :
             /\ book \in Books
             /\ orders' = [orders EXCEPT ![b][i] = [orders[b][i] EXCEPT !.book = book]]
      <4>1. orders \in [Assets -> [OrderIds -> Order]]
        OBVIOUS
      <4> QED BY <2>5, <4>1, RestingFillChanges
    <3>1. PICK book : orders' = [orders EXCEPT ![b][i] = [orders[b][i] EXCEPT !.book = book]]
      BY <3>0
    <3> DEFINE o == [orders[b][i] EXCEPT !.book = book]
    <3>2. o.kind = orders[b][i].kind
      BY <1>2, AnswerKind
    <3>3. orders' = [orders EXCEPT ![b][i] = o]
      BY <3>1
    <3> HIDE DEF o
    <3> QED BY <2>2, <3>2, <3>3
  <2>6. CASE Refuse(b, i)
    <3>1. PICK r : orders' = [orders EXCEPT ![b][i] = Answer(orders[b][i], "Refused", 0, r)]
      BY <2>6 DEF Refuse
    <3> DEFINE o == Answer(orders[b][i], "Refused", 0, r)
    <3>2. o.kind = orders[b][i].kind
      BY <1>2, AnswerKind
    <3>3. orders' = [orders EXCEPT ![b][i] = o]
      BY <3>1
    <3> HIDE DEF o
    <3> QED BY <2>2, <3>2, <3>3
  <2> QED BY <1>9, <2>3, <2>4, <2>5, <2>6
<1>10. ASSUME NEW b \in Assets, NEW i \in OrderIds, NEW kind, NEW replies, kind # "None",
              Answered(b, i, kind, replies),
              \/ orders' = Seen(b, i)
              \/ \E m : SeenAndPlace(b, i, Leg2Order(m))
       PROVE  orders'[a][n] = orders[a][n]
  <2>1. orders[b][i].kind # "None"
    BY <1>10 DEF Answered
  <2>2. CASE orders' = Seen(b, i)
    BY <1>3, <2>1, <2>2
  <2>3. ASSUME NEW m, SeenAndPlace(b, i, Leg2Order(m)) PROVE orders'[a][n] = orders[a][n]
    <3>1. Leg2Order(m).kind # "None"
      BY <1>4 DEF Leg2Order
    <3>2. orders'[a][n] = Seen(b, i)[a][n]
      BY <1>1, <1>3, <2>1, <2>3, <3>1 DEF SeenAndPlace
    <3> QED BY <1>3, <2>1, <3>2
  <2> QED BY <1>10, <2>2, <2>3
<1>11. ASSUME NEW b \in Assets, NEW i \in OrderIds,
              \/ Leg1Filled(b, i) \/ Leg1Refused(b, i) \/ Leg2Filled(b, i)
              \/ Leg2Rejected(b, i) \/ ForceCloseFilled(b, i) \/ Logged(b, i)
       PROVE  orders'[a][n] = orders[a][n]
  <2>1. CASE Leg1Filled(b, i)
    BY <1>10, <2>1 DEF Leg1Filled
  <2>2. CASE Leg2Rejected(b, i)
    BY <1>10, <2>2 DEF Leg2Rejected
  <2>3. CASE Leg1Refused(b, i)
    BY <1>10, <2>3 DEF Leg1Refused
  <2>4. CASE Leg2Filled(b, i)
    BY <1>10, <2>4 DEF Leg2Filled
  <2>5. CASE ForceCloseFilled(b, i)
    BY <1>10, <2>5 DEF ForceCloseFilled
  <2>6. CASE Logged(b, i)
    BY <1>10, <2>6 DEF Logged
  <2> QED BY <1>11, <2>1, <2>2, <2>3, <2>4, <2>5, <2>6
<1> QED BY <1>5, <1>6, <1>7, <1>8, <1>9, <1>11 DEF Next

\* Every step keeps the markets handed over those before the current one.
LEMMA HandedOverStep == TypeOK /\ HandedOver /\ [Next]_vars => HandedOver'
<1> SUFFICES ASSUME TypeOK, HandedOver, [Next]_vars, NEW a \in Assets
             PROVE  /\ \A k \in Markets : <<a, k>> \in redeemTx' <=> k < mgr'[a].market
                    /\ \A n \in OrderIds :
                          orders'[a][n].kind = "None" => orders'[a][n].book = "Unsent"
  BY DEF HandedOver
<1>1. \A n \in OrderIds : orders'[a][n].kind = "None" => orders'[a][n].book = "Unsent"
  BY NoneStays DEF HandedOver
<1>2. ASSUME NEW b \in Assets, Activate(b), NEW k \in Markets
      PROVE  <<a, k>> \in redeemTx' <=> k < mgr'[a].market
  <2>1. k \in Nat /\ mgr[a].market \in Nat /\ k >= 1
    BY BoundAssumption DEF TypeOK, Manager, Markets
  <2>2. <<a, k>> \in redeemTx <=> k < mgr[a].market
    BY DEF HandedOver
  <2>3. CASE a # b
    BY <1>2, <2>2, <2>3 DEF Activate, TypeOK
  <2>4. CASE a = b
    <3>1. mgr'[a].market = mgr[a].market + 1
      BY <1>2, <2>4 DEF Activate, TypeOK, New, Fresh
    <3>2. <<a, k>> \in redeemTx' <=> k < mgr[a].market \/ k = mgr[a].market
      BY <1>2, <2>1, <2>2, <2>4 DEF Activate
    <3> QED BY <2>1, <3>1, <3>2
  <2> QED BY <2>3, <2>4
<1>3. ASSUME ~\E b \in Assets : Activate(b), NEW k \in Markets
      PROVE  <<a, k>> \in redeemTx' <=> k < mgr'[a].market
  BY <1>3, MarketStays DEF HandedOver
<1> QED BY <1>1, <1>2, <1>3

\* Everything bought of a market that is over, be its order answered or not, is of
\* a market handed to the redeemer, and the current market is not (main.rs:336-380).
THEOREM HoldingsRedeemedHolds == Spec => []HoldingsRedeemed
<1>1. Init => HandedOver
  <2> SUFFICES ASSUME Init, NEW a \in Assets
               PROVE  /\ \A k \in Markets : ~(k < mgr[a].market)
                      /\ \A n \in OrderIds : orders[a][n].book = "Unsent"
    BY DEF Init, HandedOver
  <2>1. mgr[a].market = 0 /\ \A n \in OrderIds : orders[a][n].book = "Unsent"
    BY DEF Init, NoManager, Fresh, NoOrder, NewOrder
  <2>2. \A k \in Markets : ~(k < 0)
    BY BoundAssumption DEF Markets
  <2> QED BY <2>1, <2>2
<1>2. TypeOK /\ CoreInv /\ HandedOver => HoldingsRedeemed
  <2> SUFFICES ASSUME TypeOK, CoreInv, HandedOver, NEW a \in Assets
               PROVE  /\ <<a, mgr[a].market>> \notin redeemTx
                      /\ \A n \in OrderIds : Matched(orders[a][n]) =>
                            \/ orders[a][n].market = mgr[a].market
                            \/ <<a, orders[a][n].market>> \in redeemTx
    BY DEF HoldingsRedeemed
  <2>1. mgr[a].market \in Nat /\ \A k \in Markets : k \in Nat
    BY BoundAssumption DEF TypeOK, Manager, Markets
  <2>2. <<a, mgr[a].market>> \notin redeemTx
    BY <2>1 DEF HandedOver, TypeOK
  <2>3. ASSUME NEW n \in OrderIds, Matched(orders[a][n]),
               orders[a][n].market # mgr[a].market
        PROVE  <<a, orders[a][n].market>> \in redeemTx
    <3>1. orders[a][n].market \in Markets /\ orders[a][n].market <= mgr[a].market
      BY <2>3 DEF HandedOver, CoreInv, MarketInv, Sane, TypeOK, Order, Matched
    <3> QED BY <2>1, <2>3, <3>1 DEF HandedOver
  <2> QED BY <2>2, <2>3
<1> QED BY <1>1, <1>2, HandedOverStep, TypeCorrect, CoreCorrect, PTL DEF Spec

-----------------------------------------------------------------------------
(***************************************************************************)
(* The refinement of HedgedTrade.  The stage of a trade is read off the    *)
(* orders of its market; in a clean market it is that of the manager.  As  *)
(* before, m is the manager of one asset and t the table of its orders.    *)
(***************************************************************************)
OrderedIn(m, t, kind) == \E n \in OrderIds : t[n].kind = kind /\ t[n].market = m.market

ToldIn(m, t, kind) == \E n \in OrderIds : /\ t[n].kind = kind /\ t[n].market = m.market
                                          /\ t[n].reply = "Filled" /\ t[n].seenBy # 0

BiddingIn(m, t) == \E n \in OrderIds : /\ t[n].kind = "Leg1" /\ t[n].market = m.market
                                       /\ t[n].seenBy = 0 \/ t[n].reply = "Live"

StageIn(m, t) ==
    IF ~IsClean(m, t) THEN "Mixed"
    ELSE IF OrderedIn(m, t, "ForceClose")
         THEN IF ToldIn(m, t, "ForceClose") THEN "Sold" ELSE "Selling"
    ELSE IF ToldIn(m, t, "Leg2") THEN "Hedged"
    ELSE IF ToldIn(m, t, "Leg1") THEN "Exposed"
    ELSE IF BiddingIn(m, t) THEN "Buying" ELSE "Flat"

\* The manager's state agrees with the results of its market.
Agrees(m, t) ==
    /\ m.state = "ForceClose" <=> OrderedIn(m, t, "ForceClose")
    /\ m.state \in Filled1 <=> ToldIn(m, t, "Leg1")
    /\ m.state = "Locked" => ToldIn(m, t, "Leg2")
    /\ ToldIn(m, t, "Leg2") => m.state \in {"Locked", "ForceClose"}
    /\ m.state = "Leg1Pending" => BiddingIn(m, t)
    /\ m.state \in {"None", "Idle"} => ~BiddingIn(m, t)

Matching(m, t) == IsClean(m, t) => Agrees(m, t)

MatchInv == \A a \in Assets : Matching(mgr[a], orders[a])

\* The stage by the manager's state.
LEMMA StageByState ==
    ASSUME NEW m \in Managers, NEW t, IsClean(m, t), Agrees(m, t)
    PROVE  /\ m.state \in {"None", "Idle"} <=> StageIn(m, t) = "Flat"
           /\ m.state = "Leg1Pending" <=> StageIn(m, t) = "Buying"
           /\ m.state = "Leg2Pending" <=> StageIn(m, t) = "Exposed"
           /\ m.state = "Locked" <=> StageIn(m, t) = "Hedged"
           /\ m.state = "ForceClose" =>
                 StageIn(m, t) = IF ToldIn(m, t, "ForceClose") THEN "Sold" ELSE "Selling"
<1>1. m.state \in LegStates
  BY MarketTypes
<1>2. CASE m.state \in {"None", "Idle"}
  BY <1>2 DEF Agrees, StageIn, Filled1
<1>3. CASE m.state = "Leg1Pending"
  BY <1>3 DEF Agrees, StageIn, Filled1
<1>4. CASE m.state = "Leg2Pending"
  BY <1>4 DEF Agrees, StageIn, Filled1
<1>5. CASE m.state = "Locked"
  BY <1>5 DEF Agrees, StageIn, Filled1
<1>6. CASE m.state = "ForceClose"
  BY <1>6 DEF Agrees, StageIn, Filled1
<1> QED BY <1>1, <1>2, <1>3, <1>4, <1>5, <1>6 DEF LegStates

\* The stage of a market with results of another one.
LEMMA MixedStage ==
    ASSUME NEW m, NEW t, ~IsClean(m, t)
    PROVE  StageIn(m, t) = "Mixed" /\ Matching(m, t)
BY DEF StageIn, Matching

-----------------------------------------------------------------------------
(* The steps of one asset.                                                 *)

\* Activate: nothing was ordered in the next market.
LEMMA RotatedStage ==
    ASSUME NEW m \in Managers, NEW t \in Tables, NEW k, Sane(m, t, k)
    PROVE  LET m2 == New(m.market + 1)
           IN  StageIn(m2, t) = "Flat" /\ Matching(m2, t)
<1> DEFINE m2 == New(m.market + 1)
<1>1. m2.state = "Idle" /\ m2.market = m.market + 1
  BY DEF New, Fresh
<1>2. \A n \in OrderIds : t[n].market # m2.market /\ t[n].seenBy # m2.market
  <2> SUFFICES ASSUME NEW n \in OrderIds
               PROVE  t[n].market # m.market + 1 /\ t[n].seenBy # m.market + 1
    BY <1>1
  <2>1. t[n].market <= m.market /\ t[n].seenBy <= m.market /\ m.market \in Nat
    BY MarketTypes DEF Sane
  <2> QED BY <2>1
<1> HIDE DEF m2
<1>3. /\ IsClean(m2, t) /\ ~BiddingIn(m2, t)
      /\ \A kind : ~OrderedIn(m2, t, kind) /\ ~ToldIn(m2, t, kind)
  BY <1>2 DEF IsClean, OrderedIn, ToldIn, BiddingIn
<1>4. StageIn(m2, t) = "Flat"
  BY <1>3 DEF StageIn
<1>5. Agrees(m2, t)
  BY <1>1, <1>3 DEF Agrees, Filled1
<1> QED BY <1>4, <1>5 DEF Matching, m2

\* What a stage is told from stays as it is.
Same(m, t, u) ==
    /\ IsClean(m, u) <=> IsClean(m, t)
    /\ OrderedIn(m, u, "ForceClose") <=> OrderedIn(m, t, "ForceClose")
    /\ \A kind \in Kinds : ToldIn(m, u, kind) <=> ToldIn(m, t, kind)
    /\ BiddingIn(m, u) <=> BiddingIn(m, t)

\* Then the stage is the same, and the state agrees with it as before.
LEMMA SameStage ==
    ASSUME NEW m, NEW t, NEW u, Same(m, t, u)
    PROVE  /\ StageIn(m, u) = StageIn(m, t)
           /\ Matching(m, t) => Matching(m, u)
<1>1. StageIn(m, u) = StageIn(m, t)
  BY DEF Same, StageIn, Kinds
<1>2. Agrees(m, t) => Agrees(m, u)
  BY DEF Same, Agrees, Kinds
<1> QED BY <1>1, <1>2 DEF Same, Matching

\* Fill, Rest, RestingFill, Refuse: nobody was told yet.
LEMMA AnsweredStage ==
    ASSUME NEW m, NEW t \in Tables, NEW u, NEW k, NEW n \in OrderIds,
           Sane(m, t, k), Changes(t, u, n)
    PROVE  Same(m, t, u)
<1>1. \A i \in OrderIds : /\ u[i].kind = t[i].kind /\ u[i].market = t[i].market
                          /\ u[i].seenBy = t[i].seenBy
                          /\ t[i].seenBy # 0 => u[i].reply = t[i].reply
  BY DEF Changes, Sane
<1>2. IsClean(m, u) <=> IsClean(m, t)
  BY <1>1 DEF IsClean
<1>3. \A kind : OrderedIn(m, u, kind) <=> OrderedIn(m, t, kind)
  BY <1>1 DEF OrderedIn
<1>4. \A kind : ToldIn(m, u, kind) <=> ToldIn(m, t, kind)
  BY <1>1 DEF ToldIn
<1>5. BiddingIn(m, u) <=> BiddingIn(m, t)
  BY <1>1 DEF BiddingIn
<1> QED BY <1>2, <1>3, <1>4, <1>5 DEF Same, Kinds

\* An order is entered.
LEMMA EnteredStage ==
    ASSUME NEW m, NEW t, NEW u, NEW n \in OrderIds, NEW o,
           Enters(t, u, n, o), o.market = m.market
    PROVE  /\ IsClean(m, u) <=> IsClean(m, t)
           /\ \A kind \in Kinds : OrderedIn(m, u, kind) <=> OrderedIn(m, t, kind) \/ kind = o.kind
           /\ \A kind \in Kinds : ToldIn(m, u, kind) <=> ToldIn(m, t, kind)
           /\ BiddingIn(m, u) <=> BiddingIn(m, t) \/ o.kind = "Leg1"
<1>1. /\ u[n] = o /\ \A i \in OrderIds : i # n => u[i] = t[i]
      /\ t[n].kind = "None" /\ t[n].seenBy = 0
      /\ o.kind # "None" /\ o.reply = "None" /\ o.seenBy = 0
  BY DEF Enters, Replaces
<1>2. IsClean(m, u) <=> IsClean(m, t)
  BY <1>1 DEF IsClean
<1>3. ASSUME NEW kind \in Kinds
      PROVE  OrderedIn(m, u, kind) <=> OrderedIn(m, t, kind) \/ kind = o.kind
  BY <1>1, <1>3 DEF OrderedIn, Kinds
<1>4. ASSUME NEW kind PROVE ToldIn(m, u, kind) <=> ToldIn(m, t, kind)
  BY <1>1 DEF ToldIn
<1>5. BiddingIn(m, u) <=> BiddingIn(m, t) \/ o.kind = "Leg1"
  BY <1>1 DEF BiddingIn
<1> QED BY <1>2, <1>3, <1>4, <1>5

\* An answer is taken in.
LEMMA TakenStage ==
    ASSUME NEW m, NEW t, NEW u, NEW n \in OrderIds, NEW kind \in Kinds,
           Taken(m, t, u, n, kind), t[n].kind = kind, t[n].seenBy = 0
    PROVE  /\ IsClean(m, u) => IsClean(m, t) /\ t[n].market = m.market
           /\ \A j \in Kinds : OrderedIn(m, u, j) <=> OrderedIn(m, t, j)
           /\ \A j \in Kinds :
                 ToldIn(m, u, j) <=> \/ ToldIn(m, t, j)
                                     \/ j = kind /\ t[n].reply = "Filled" /\ t[n].market = m.market
           /\ kind # "Leg1" \/ t[n].reply = "Live" => (BiddingIn(m, u) <=> BiddingIn(m, t))
<1>1. /\ \A i \in OrderIds : i # n => u[i] = t[i]
      /\ u[n].kind = kind /\ u[n].market = t[n].market /\ u[n].reply = t[n].reply
      /\ u[n].seenBy = m.market /\ m.market # 0
  BY DEF Taken
<1>2. IsClean(m, u) => IsClean(m, t) /\ t[n].market = m.market
  BY <1>1 DEF IsClean
<1>3. \A j \in Kinds : OrderedIn(m, u, j) <=> OrderedIn(m, t, j)
  BY <1>1 DEF OrderedIn
<1>4. ASSUME NEW j \in Kinds
      PROVE  ToldIn(m, u, j) <=> \/ ToldIn(m, t, j)
                                 \/ j = kind /\ t[n].reply = "Filled" /\ t[n].market = m.market
  BY <1>1 DEF ToldIn
<1>5. kind # "Leg1" \/ t[n].reply = "Live" => (BiddingIn(m, u) <=> BiddingIn(m, t))
  BY <1>1 DEF BiddingIn
<1> QED BY <1>2, <1>3, <1>4, <1>5

\* The stage depends on a manager by its market only.
LEMMA StageOfMarket ==
    ASSUME NEW m, NEW m2, NEW t, m2.market = m.market
    PROVE  /\ IsClean(m2, t) <=> IsClean(m, t)
           /\ \A kind : OrderedIn(m2, t, kind) <=> OrderedIn(m, t, kind)
           /\ \A kind : ToldIn(m2, t, kind) <=> ToldIn(m, t, kind)
           /\ BiddingIn(m2, t) <=> BiddingIn(m, t)
BY DEF IsClean, OrderedIn, ToldIn, BiddingIn

\* HlSignal.
LEMMA SignalStage ==
    ASSUME NEW m \in Managers, NEW m2 \in Managers, NEW t, NEW u, NEW n \in OrderIds, NEW o,
           Matching(m, t), Enters(t, u, n, o), o.market = m.market, o.kind = "Leg1",
           m.state = "Idle", m2.state = "Leg1Pending", m2.market = m.market
    PROVE  /\ Matching(m2, u)
           /\ \/ StageIn(m, t) = "Flat" /\ StageIn(m2, u) = "Buying"
              \/ StageIn(m, t) = "Mixed" /\ StageIn(m2, u) = "Mixed"
<1>1. /\ IsClean(m2, u) <=> IsClean(m, t)
      /\ \A kind \in Kinds : OrderedIn(m2, u, kind) <=> OrderedIn(m, t, kind) \/ kind = "Leg1"
      /\ \A kind \in Kinds : ToldIn(m2, u, kind) <=> ToldIn(m, t, kind)
      /\ BiddingIn(m2, u)
  <2>1. /\ IsClean(m, u) <=> IsClean(m, t)
        /\ \A kind \in Kinds : OrderedIn(m, u, kind) <=> OrderedIn(m, t, kind) \/ kind = "Leg1"
        /\ \A kind \in Kinds : ToldIn(m, u, kind) <=> ToldIn(m, t, kind)
        /\ BiddingIn(m, u)
    BY EnteredStage
  <2> QED BY <2>1, StageOfMarket
<1>2. CASE IsClean(m, t)
  <2>1. Agrees(m, t)
    BY <1>2 DEF Matching
  <2>2. Agrees(m2, u)
    BY <1>1, <2>1 DEF Agrees, Kinds, Filled1
  <2> QED BY <1>1, <1>2, <2>1, <2>2, StageByState DEF Matching
<1>3. CASE ~IsClean(m, t)
  BY <1>1, <1>3, MixedStage
<1> QED BY <1>2, <1>3

\* PolyBook.
LEMMA CloseStage ==
    ASSUME NEW m \in Managers, NEW m2 \in Managers, NEW t, NEW u, NEW n \in OrderIds, NEW o,
           Matching(m, t), Enters(t, u, n, o), o.market = m.market, o.kind = "ForceClose",
           m.state = "Leg2Pending", m2.state = "ForceClose", m2.market = m.market
    PROVE  /\ Matching(m2, u)
           /\ \/ StageIn(m, t) = "Exposed" /\ StageIn(m2, u) = "Selling"
              \/ StageIn(m, t) = "Mixed" /\ StageIn(m2, u) = "Mixed"
<1>1. /\ IsClean(m2, u) <=> IsClean(m, t)
      /\ \A kind \in Kinds :
            OrderedIn(m2, u, kind) <=> OrderedIn(m, t, kind) \/ kind = "ForceClose"
      /\ \A kind \in Kinds : ToldIn(m2, u, kind) <=> ToldIn(m, t, kind)
      /\ BiddingIn(m2, u) <=> BiddingIn(m, t)
  <2>1. /\ IsClean(m, u) <=> IsClean(m, t)
        /\ \A kind \in Kinds :
              OrderedIn(m, u, kind) <=> OrderedIn(m, t, kind) \/ kind = "ForceClose"
        /\ \A kind \in Kinds : ToldIn(m, u, kind) <=> ToldIn(m, t, kind)
        /\ BiddingIn(m, u) <=> BiddingIn(m, t)
    BY EnteredStage
  <2> QED BY <2>1, StageOfMarket
<1>2. CASE IsClean(m, t)
  <2>1. Agrees(m, t)
    BY <1>2 DEF Matching
  <2>2. Agrees(m2, u)
    BY <1>1, <2>1 DEF Agrees, Kinds, Filled1
  <2>3. ~ToldIn(m, t, "ForceClose")
    BY <2>1 DEF Agrees, OrderedIn, ToldIn
  <2>4. ~ToldIn(m2, u, "ForceClose")
    BY <1>1, <2>3 DEF Kinds
  <2> QED BY <1>1, <1>2, <2>1, <2>2, <2>4, StageByState DEF Matching
<1>3. CASE ~IsClean(m, t)
  BY <1>1, <1>3, MixedStage
<1> QED BY <1>2, <1>3

\* Leg1Filled.
LEMMA Leg1FilledStage ==
    ASSUME NEW m \in Managers, NEW t \in Tables, NEW u \in Tables, NEW n \in OrderIds,
           NEW k, NEW p, MarketInv(m, t, k), Matching(m, t),
           Takes(m, t, u, n, "Leg1"), t[n].reply = "Filled",
           OnLeg1Fill(m, p, n) \in Managers
    PROVE  LET m2 == OnLeg1Fill(m, p, n)
           IN  /\ Matching(m2, u)
               /\ \/ StageIn(m, t) = "Buying" /\ StageIn(m2, u) = "Exposed"
                  \/ StageIn(m2, u) = "Mixed"
<1> DEFINE m2 == OnLeg1Fill(m, p, n)
<1>1. /\ m2.market = m.market
      /\ m.state = "Leg1Pending" => m2.state = "Leg2Pending"
  BY DEF OnLeg1Fill, Managers, Manager
<1> HIDE DEF m2
<1>2. Taken(m, t, u, n, "Leg1") /\ t[n].kind = "Leg1" /\ t[n].seenBy = 0
  BY TakenReports DEF MarketInv, Takes
<1>3. /\ IsClean(m2, u) => IsClean(m, t) /\ t[n].market = m.market
      /\ \A j \in Kinds : OrderedIn(m2, u, j) <=> OrderedIn(m, t, j)
      /\ \A j \in Kinds :
            ToldIn(m2, u, j) <=> ToldIn(m, t, j) \/ (j = "Leg1" /\ t[n].market = m.market)
  <2>1. /\ IsClean(m, u) => IsClean(m, t) /\ t[n].market = m.market
        /\ \A j \in Kinds : OrderedIn(m, u, j) <=> OrderedIn(m, t, j)
        /\ \A j \in Kinds :
              ToldIn(m, u, j) <=> ToldIn(m, t, j) \/ (j = "Leg1" /\ t[n].market = m.market)
    BY <1>2, TakenStage DEF Kinds
  <2> QED BY <1>1, <2>1, StageOfMarket
<1>4. CASE IsClean(m2, u)
  <2>1. Agrees(m, t)
    BY <1>3, <1>4 DEF Matching
  <2>2. m.state = "Leg1Pending"
    BY <1>2, <1>3, <1>4, AwaitedOnce
  <2>3. Agrees(m2, u)
    BY <1>1, <1>3, <1>4, <2>1, <2>2 DEF Agrees, Kinds, Filled1
  <2>4. StageIn(m, t) = "Buying"
    BY <1>3, <1>4, <2>1, <2>2, StageByState
  <2>5. StageIn(m2, u) = "Exposed"
    BY <1>1, <1>4, <2>2, <2>3, StageByState DEF m2
  <2> QED BY <2>3, <2>4, <2>5 DEF Matching, m2
<1>5. CASE ~IsClean(m2, u)
  BY <1>5, MixedStage DEF m2
<1> QED BY <1>4, <1>5

\* Leg1Refused.
LEMMA Leg1RefusedStage ==
    ASSUME NEW m \in Managers, NEW t \in Tables, NEW u \in Tables, NEW n \in OrderIds,
           NEW k, NEW op, MarketInv(m, t, k), Positions(m, t, op), Matching(m, t),
           Takes(m, t, u, n, "Leg1"), t[n].reply \in {"Rejected", "Err"},
           OnLeg1Rejected(m) \in Managers
    PROVE  LET m2 == OnLeg1Rejected(m)
           IN  /\ Matching(m2, u)
               /\ \/ StageIn(m, t) = "Buying" /\ StageIn(m2, u) = "Flat"
                  \/ StageIn(m2, u) = "Mixed"
<1> DEFINE m2 == OnLeg1Rejected(m)
<1>1. m2.market = m.market /\ m2.state = "Idle"
  BY DEF OnLeg1Rejected, New, Fresh
<1> HIDE DEF m2
<1>2. Taken(m, t, u, n, "Leg1") /\ t[n].kind = "Leg1" /\ t[n].seenBy = 0
  BY TakenReports DEF MarketInv, Takes
<1>3. /\ IsClean(m2, u) => IsClean(m, t) /\ t[n].market = m.market
      /\ \A j \in Kinds : OrderedIn(m2, u, j) <=> OrderedIn(m, t, j)
      /\ \A j \in Kinds : ToldIn(m2, u, j) <=> ToldIn(m, t, j)
  BY <1>1, <1>2, TakenStage, StageOfMarket DEF Kinds
<1>4. CASE IsClean(m2, u)
  <2>1. Agrees(m, t)
    BY <1>3, <1>4 DEF Matching
  <2>2. /\ Awaited(m, t, n) /\ m.state = "Leg1Pending"
        /\ \A i \in OrderIds : Awaited(m, t, i) => i = n
    BY <1>2, <1>3, <1>4, AwaitedOnce
  <2>3. \A i \in OrderIds : ~Standing(m, t, i)
    BY <1>3, <1>4, <2>2 DEF Positions, Committed
  <2>4. ~BiddingIn(m, u)
    <3> SUFFICES ASSUME NEW i \in OrderIds, u[i].kind = "Leg1", u[i].market = m.market,
                        u[i].seenBy = 0 \/ u[i].reply = "Live"
                 PROVE  FALSE
      BY DEF BiddingIn
    <3>1. i # n
      BY <1>2 DEF Taken
    <3>2. u[i] = t[i]
      BY <1>2, <3>1 DEF Taken
    <3> QED BY <2>2, <2>3, <3>1, <3>2 DEF Standing, Awaited, IsOwn
  <2>5. ~BiddingIn(m2, u)
    BY <1>1, <2>4, StageOfMarket
  <2>6. Agrees(m2, u)
    BY <1>1, <1>3, <2>1, <2>2, <2>5 DEF Agrees, Kinds, Filled1
  <2>7. StageIn(m, t) = "Buying"
    BY <1>3, <1>4, <2>1, <2>2, StageByState
  <2>8. StageIn(m2, u) = "Flat"
    BY <1>1, <1>4, <2>6, StageByState DEF m2
  <2> QED BY <2>6, <2>7, <2>8 DEF Matching, m2
<1>5. CASE ~IsClean(m2, u)
  BY <1>5, MixedStage DEF m2
<1> QED BY <1>4, <1>5

\* Leg2Filled.
LEMMA Leg2FilledStage ==
    ASSUME NEW m \in Managers, NEW t \in Tables, NEW u \in Tables, NEW n \in OrderIds,
           NEW k, NEW p, MarketInv(m, t, k), Matching(m, t),
           Takes(m, t, u, n, "Leg2"), t[n].reply = "Filled",
           OnLeg2Fill(m, p) \in Managers
    PROVE  LET m2 == OnLeg2Fill(m, p)
           IN  /\ Matching(m2, u)
               /\ \/ StageIn(m, t) = "Exposed" /\ StageIn(m2, u) = "Hedged"
                  \/ StageIn(m2, u) = StageIn(m, t)
                  \/ StageIn(m2, u) = "Mixed"
<1> DEFINE m2 == OnLeg2Fill(m, p)
<1>1. /\ m2.market = m.market
      /\ m.state = "Leg2Pending" => m2.state = "Locked"
      /\ m.state # "Leg2Pending" => m2.state = m.state
  BY DEF OnLeg2Fill, Managers, Manager
<1> HIDE DEF m2
<1>2. Taken(m, t, u, n, "Leg2") /\ t[n].kind = "Leg2" /\ t[n].seenBy = 0
  BY TakenReports DEF MarketInv, Takes
<1>3. /\ IsClean(m2, u) => IsClean(m, t) /\ t[n].market = m.market
      /\ \A j \in Kinds : OrderedIn(m2, u, j) <=> OrderedIn(m, t, j)
      /\ \A j \in Kinds :
            ToldIn(m2, u, j) <=> ToldIn(m, t, j) \/ (j = "Leg2" /\ t[n].market = m.market)
      /\ BiddingIn(m2, u) <=> BiddingIn(m, t)
  <2>1. /\ IsClean(m, u) => IsClean(m, t) /\ t[n].market = m.market
        /\ \A j \in Kinds : OrderedIn(m, u, j) <=> OrderedIn(m, t, j)
        /\ \A j \in Kinds :
              ToldIn(m, u, j) <=> ToldIn(m, t, j) \/ (j = "Leg2" /\ t[n].market = m.market)
        /\ BiddingIn(m, u) <=> BiddingIn(m, t)
    BY <1>2, TakenStage DEF Kinds
  <2> QED BY <1>1, <2>1, StageOfMarket
<1>4. CASE IsClean(m2, u)
  <2>1. Agrees(m, t)
    BY <1>3, <1>4 DEF Matching
  <2>2. m.state \in Filled1
    BY <1>2, <1>3, <1>4 DEF MarketInv, Consistent, Known, IsOwn, Leg2Known
  <2>3. Agrees(m2, u)
    BY <1>1, <1>3, <1>4, <2>1, <2>2 DEF Agrees, Kinds, Filled1
  <2>4. CASE m.state = "Leg2Pending"
    BY <1>1, <1>3, <1>4, <2>1, <2>3, <2>4, StageByState DEF Matching, m2
  <2>5. CASE m.state = "Locked"
    BY <1>1, <1>3, <1>4, <2>1, <2>3, <2>5, StageByState DEF Matching, m2
  <2>6. CASE m.state = "ForceClose"
    <3>1. ToldIn(m2, u, "ForceClose") <=> ToldIn(m, t, "ForceClose")
      BY <1>3 DEF Kinds
    <3> QED BY <1>1, <1>3, <1>4, <2>1, <2>3, <2>6, <3>1, StageByState DEF Matching, m2
  <2> QED BY <2>2, <2>4, <2>5, <2>6 DEF Filled1
<1>5. CASE ~IsClean(m2, u)
  BY <1>5, MixedStage DEF m2
<1> QED BY <1>4, <1>5

\* The Leg2 order of a manager, entered after an answer was taken in.
LEMMA Leg2EnteredStage ==
    ASSUME NEW m, NEW m2, NEW t \in Tables, NEW u, NEW k \in Nat, k + 1 \in OrderIds,
           Sane(m, t, k), Replaces(t, u, k + 1, Leg2Order(m2))
    PROVE  Same(m2, t, u)
<1> DEFINE o == Leg2Order(m2)
<1>1. /\ o.kind = "Leg2" /\ o.book = "Unsent" /\ o.reply = "None" /\ o.seenBy = 0
      /\ o.market = m2.market
  BY DEF Leg2Order, NewOrder
<1> HIDE DEF o
<1>2. Enters(t, u, k + 1, o)
  BY <1>1, EntersRow DEF o
<1>3. /\ IsClean(m2, u) <=> IsClean(m2, t)
      /\ \A kind \in Kinds :
            OrderedIn(m2, u, kind) <=> OrderedIn(m2, t, kind) \/ kind = "Leg2"
      /\ \A kind \in Kinds : ToldIn(m2, u, kind) <=> ToldIn(m2, t, kind)
      /\ BiddingIn(m2, u) <=> BiddingIn(m2, t)
  BY <1>1, <1>2, EnteredStage
<1> QED BY <1>3 DEF Same, Kinds

\* ForceCloseFilled.
LEMMA CloseFilledStage ==
    ASSUME NEW m \in Managers, NEW t \in Tables, NEW u \in Tables, NEW n \in OrderIds,
           NEW k, MarketInv(m, t, k), Matching(m, t),
           Takes(m, t, u, n, "ForceClose"), t[n].reply = "Filled"
    PROVE  /\ Matching(m, u)
           /\ \/ StageIn(m, t) = "Selling" /\ StageIn(m, u) = "Sold"
              \/ StageIn(m, u) = "Mixed"
<1>1. Taken(m, t, u, n, "ForceClose") /\ t[n].kind = "ForceClose" /\ t[n].seenBy = 0
  BY TakenReports DEF MarketInv, Takes
<1>2. /\ IsClean(m, u) => IsClean(m, t) /\ t[n].market = m.market
      /\ \A j \in Kinds : OrderedIn(m, u, j) <=> OrderedIn(m, t, j)
      /\ \A j \in Kinds :
            ToldIn(m, u, j) <=> ToldIn(m, t, j) \/ (j = "ForceClose" /\ t[n].market = m.market)
      /\ BiddingIn(m, u) <=> BiddingIn(m, t)
  BY <1>1, TakenStage DEF Kinds
<1>3. CASE IsClean(m, u)
  <2>1. Agrees(m, t) /\ Consistent(m, t)
    BY <1>2, <1>3 DEF Matching, MarketInv
  <2>2. IsOwn(m, t, n) /\ m.state = "ForceClose"
    BY <1>1, <1>2, <1>3, <2>1 DEF IsOwn, Consistent, Known, CloseKnown
  <2>3. ~ToldIn(m, t, "ForceClose")
    BY <1>1, <2>1, <2>2 DEF ToldIn, Consistent, Single, IsOwn
  <2>4. Agrees(m, u)
    BY <1>2, <1>3, <2>1 DEF Agrees, Kinds
  <2>5. ToldIn(m, u, "ForceClose")
    BY <1>2, <1>3 DEF Kinds
  <2> QED BY <1>2, <1>3, <2>1, <2>2, <2>3, <2>4, <2>5, StageByState DEF Matching
<1>4. CASE ~IsClean(m, u)
  BY <1>4, MixedStage
<1> QED BY <1>3, <1>4

\* Leg2Rejected and Logged.
LEMMA LoggedStage ==
    ASSUME NEW m \in Managers, NEW t \in Tables, NEW u \in Tables, NEW n \in OrderIds,
           NEW k, NEW kind \in Kinds, MarketInv(m, t, k), Matching(m, t),
           Takes(m, t, u, n, kind), t[n].reply # "Filled",
           kind = "Leg1" => t[n].reply = "Live"
    PROVE  /\ Matching(m, u)
           /\ StageIn(m, u) = StageIn(m, t) \/ StageIn(m, u) = "Mixed"
<1>1. Taken(m, t, u, n, kind) /\ t[n].kind = kind /\ t[n].seenBy = 0
  BY TakenReports DEF MarketInv, Takes, Kinds
<1>2. /\ IsClean(m, u) => IsClean(m, t)
      /\ \A j \in Kinds : OrderedIn(m, u, j) <=> OrderedIn(m, t, j)
      /\ \A j \in Kinds : ToldIn(m, u, j) <=> ToldIn(m, t, j)
      /\ BiddingIn(m, u) <=> BiddingIn(m, t)
  BY <1>1, TakenStage DEF Kinds
<1>3. CASE IsClean(m, u)
  <2>1. Same(m, t, u)
    BY <1>2, <1>3 DEF Same, Kinds
  <2> QED BY <2>1, SameStage
<1>4. CASE ~IsClean(m, u)
  BY <1>4, MixedStage
<1> QED BY <1>3, <1>4

-----------------------------------------------------------------------------
\* The stages of the module are those of the managers and their tables.
LEMMA StagesAre ==
    ASSUME NEW a \in Assets
    PROVE  /\ StageOf(a) = StageIn(mgr[a], orders[a])
           /\ StageOf(a)' = StageIn(mgr'[a], orders'[a])
<1>1. /\ Clean(a) <=> IsClean(mgr[a], orders[a])
      /\ Clean(a)' <=> IsClean(mgr'[a], orders'[a])
  BY DEF Clean, IsClean
<1>2. \A kind : /\ Ordered(a, kind) <=> OrderedIn(mgr[a], orders[a], kind)
                /\ Ordered(a, kind)' <=> OrderedIn(mgr'[a], orders'[a], kind)
  BY DEF Ordered, OrderedIn
<1>3. \A kind : /\ Told(a, kind) <=> ToldIn(mgr[a], orders[a], kind)
                /\ Told(a, kind)' <=> ToldIn(mgr'[a], orders'[a], kind)
  BY DEF Told, ToldIn
<1>4. /\ Bidding(a) <=> BiddingIn(mgr[a], orders[a])
      /\ Bidding(a)' <=> BiddingIn(mgr'[a], orders'[a])
  BY DEF Bidding, BiddingIn
<1>5. StageOf(a) = StageIn(mgr[a], orders[a])
  BY <1>1, <1>2, <1>3, <1>4 DEF StageOf, StageIn
<1>6. StageOf(a)' = StageIn(mgr'[a], orders'[a])
  BY <1>1, <1>2, <1>3, <1>4 DEF StageOf, StageIn
<1> QED BY <1>5, <1>6

\* At the start every asset is flat.
LEMMA StageInit == Init => MatchInv /\ Trade!Init
<1> SUFFICES ASSUME Init PROVE MatchInv /\ Trade!Init
  OBVIOUS
<1>1. ASSUME NEW a \in Assets
      PROVE  Matching(mgr[a], orders[a]) /\ StageOf(a) = "Flat"
  <2>1. /\ mgr[a].state = "None"
        /\ \A n \in OrderIds : orders[a][n].kind = "None" /\ orders[a][n].seenBy = 0
    BY DEF Init, NoManager, Fresh, NoOrder, NewOrder
  <2>2. /\ IsClean(mgr[a], orders[a]) /\ ~BiddingIn(mgr[a], orders[a])
        /\ \A kind \in Kinds : /\ ~OrderedIn(mgr[a], orders[a], kind)
                               /\ ~ToldIn(mgr[a], orders[a], kind)
    BY <2>1 DEF IsClean, OrderedIn, ToldIn, BiddingIn, Kinds
  <2>3. Agrees(mgr[a], orders[a])
    BY <2>1, <2>2 DEF Agrees, Kinds, Filled1
  <2>4. StageIn(mgr[a], orders[a]) = "Flat"
    BY <2>2 DEF StageIn, Kinds
  <2> QED BY <2>3, <2>4, StagesAre DEF Matching
<1> QED BY <1>1 DEF MatchInv, Init, Trade!Init

\* Every step of the core is a step of HedgedTrade or leaves its variables alone.
LEMMA StageStep ==
    ASSUME TypeOK, TypeOK', CoreInv, PositionInv, MatchInv, [Next]_vars
    PROVE  MatchInv' /\ [Trade!Next]_(Trade!vars)
<1> DEFINE T == [b \in Assets |-> StageOf(b)]
           S(a) == StageIn(mgr[a], orders[a])
           Goal == MatchInv' /\ [Trade!Next]_(Trade!vars)
<1>1. ASSUME NEW a \in Assets
      PROVE  /\ mgr[a] \in Managers /\ mgr'[a] \in Managers
             /\ orders[a] \in Tables /\ orders'[a] \in Tables
             /\ placed[a] \in Nat /\ open[a] \in Nat
             /\ MarketInv(mgr[a], orders[a], placed[a])
             /\ Sane(mgr[a], orders[a], placed[a])
             /\ Positions(mgr[a], orders[a], open[a])
             /\ Matching(mgr[a], orders[a])
  <2>1. orders'[a] \in Tables /\ mgr'[a] \in Managers /\ open[a] \in Nat
    BY DEF TypeOK, Tables, Managers
  <2>2. /\ MarketInv(mgr[a], orders[a], placed[a]) /\ Positions(mgr[a], orders[a], open[a])
        /\ Matching(mgr[a], orders[a])
    BY DEF CoreInv, PositionInv, MatchInv
  <2> QED BY <2>1, <2>2, RowTypes DEF MarketInv
\* A step leaves every other asset as it is.
<1>2. ASSUME NEW a \in Assets, Matching(mgr'[a], orders'[a]),
             \A b \in Assets \ {a} : mgr'[b] = mgr[b] /\ orders'[b] = orders[b]
      PROVE  /\ MatchInv'
             /\ T[a] = StageIn(mgr[a], orders[a])
             /\ T' = [T EXCEPT ![a] = StageIn(mgr'[a], orders'[a])]
  <2>1. MatchInv'
    BY <1>1, <1>2 DEF MatchInv
  <2>2. \A b \in Assets : /\ StageOf(b) = StageIn(mgr[b], orders[b])
                          /\ StageOf(b)' = StageIn(mgr'[b], orders'[b])
    BY StagesAre
  <2>3. \A b \in Assets \ {a} : StageOf(b)' = StageOf(b)
    BY <1>2, <2>2
  <2>4. T' = [T EXCEPT ![a] = StageIn(mgr'[a], orders'[a])]
    BY <2>2, <2>3
  <2> QED BY <2>1, <2>2, <2>4
\* It may leave the stage and the count as they are, too.
<1>3. ASSUME NEW a \in Assets, Matching(mgr'[a], orders'[a]), open' = open,
             \A b \in Assets \ {a} : mgr'[b] = mgr[b] /\ orders'[b] = orders[b],
             StageIn(mgr'[a], orders'[a]) = StageIn(mgr[a], orders[a])
      PROVE  Goal
  BY <1>2, <1>3 DEF Trade!vars
\* A result that leaves a mixed account.
<1>4. ASSUME NEW a \in Assets, Matching(mgr'[a], orders'[a]),
             NEW d \in {-1, 0, 1}, open[a] + d >= 0, open' = [open EXCEPT ![a] = @ + d],
             \A b \in Assets \ {a} : mgr'[b] = mgr[b] /\ orders'[b] = orders[b],
             StageIn(mgr'[a], orders'[a]) = "Mixed"
      PROVE  Goal
  <2>1. Trade!Stray(a)
    BY <1>2, <1>4 DEF Trade!Stray, Trade!Counts
  <2> QED BY <1>2, <1>4, <2>1 DEF Trade!Next
<1>5. ASSUME open' = open, NEW a \in Assets
      PROVE  open[a] + 0 >= 0 /\ open' = [open EXCEPT ![a] = @ + 0]
  BY <1>5 DEF TypeOK
<1>6. CASE UNCHANGED <<mgr, orders, open>>
  <2>1. MatchInv'
    BY <1>1, <1>6 DEF MatchInv
  <2>2. T' = T
    BY <1>6, StagesAre
  <2> QED BY <1>6, <2>1, <2>2 DEF Trade!vars
<1>7. ASSUME NEW a \in Assets, Activate(a) PROVE Goal
  <2>1. /\ mgr'[a] = New(mgr[a].market + 1) /\ orders' = orders /\ open' = open
        /\ \A b \in Assets \ {a} : mgr'[b] = mgr[b]
    BY <1>7 DEF Activate, TypeOK
  <2>2. StageIn(mgr'[a], orders'[a]) = "Flat" /\ Matching(mgr'[a], orders'[a])
    BY <1>1, <2>1, RotatedStage
  <2>3. Trade!Rotate(a)
    BY <1>2, <2>1, <2>2 DEF Trade!Rotate
  <2> QED BY <1>2, <2>1, <2>2, <2>3 DEF Trade!Next
<1>8. ASSUME NEW a \in Assets, NEW side \in Sides,
             NEW hint \in Quotes \cup {NoHint}, HlSignal(a, side, hint)
      PROVE  Goal
  <2> DEFINE o == NewOrder("Leg1", mgr[a].market, side,
                           IF hint = NoHint THEN Dollar ELSE hint, 0)
  <2>1. placed[a] + 1 \in OrderIds
    BY <1>1, <1>8, BoundAssumption DEF HlSignal, OrderIds
  <2>2. /\ mgr'[a] = OnSignal(mgr[a], side) /\ open' = open
        /\ orders'[a] = [orders[a] EXCEPT ![placed[a] + 1] = o]
        /\ mgr[a].state = "Idle" /\ open[a] < MaxPositions
        /\ \A b \in Assets \ {a} : mgr'[b] = mgr[b] /\ orders'[b] = orders[b]
    BY <1>8, <2>1 DEF HlSignal, EntryAllowed, TypeOK
  <2>3. /\ o.kind = "Leg1" /\ o.book = "Unsent" /\ o.reply = "None" /\ o.seenBy = 0
        /\ o.market = mgr[a].market
    BY DEF NewOrder
  <2> HIDE DEF o
  <2>4. Enters(orders[a], orders'[a], placed[a] + 1, o)
    BY <1>1, <2>1, <2>2, <2>3, ExceptReplaces, EntersRow
  <2>5. mgr'[a].state = "Leg1Pending" /\ mgr'[a].market = mgr[a].market
    BY <1>1, <2>2 DEF OnSignal, Managers, Manager
  <2>6. /\ Matching(mgr'[a], orders'[a])
        /\ \/ StageIn(mgr[a], orders[a]) = "Flat" /\ StageIn(mgr'[a], orders'[a]) = "Buying"
           \/ StageIn(mgr[a], orders[a]) = "Mixed" /\ StageIn(mgr'[a], orders'[a]) = "Mixed"
    BY <1>1, <2>1, <2>2, <2>3, <2>4, <2>5, SignalStage
  <2>7. CASE StageIn(mgr[a], orders[a]) = "Flat" /\ StageIn(mgr'[a], orders'[a]) = "Buying"
    <3>1. Trade!Buy(a)
      BY <1>2, <2>2, <2>6, <2>7 DEF Trade!Buy, Trade!Moves
    <3> QED BY <1>2, <2>2, <2>6, <3>1 DEF Trade!Next
  <2> QED BY <1>3, <2>2, <2>6, <2>7
<1>9. ASSUME NEW a \in Assets, PolyBook(a) PROVE Goal
  <2> DEFINE o == NewOrder("ForceClose", mgr[a].market, mgr[a].side, Tick, mgr[a].shares)
  <2>1. placed[a] + 1 \in OrderIds
    BY <1>1, <1>9, BoundAssumption DEF PolyBook, OrderIds
  <2>2. /\ mgr'[a] = OnTick(mgr[a], Interval - age[a], ForceCloseSecs) /\ open' = open
        /\ orders'[a] = [orders[a] EXCEPT ![placed[a] + 1] = o]
        /\ ForceCloseDue(mgr[a], Interval - age[a], ForceCloseSecs)
        /\ \A b \in Assets \ {a} : mgr'[b] = mgr[b] /\ orders'[b] = orders[b]
    BY <1>9, <2>1 DEF PolyBook, TypeOK
  <2>3. /\ o.kind = "ForceClose" /\ o.book = "Unsent" /\ o.reply = "None" /\ o.seenBy = 0
        /\ o.market = mgr[a].market
    BY DEF NewOrder
  <2> HIDE DEF o
  <2>4. Enters(orders[a], orders'[a], placed[a] + 1, o)
    BY <1>1, <2>1, <2>2, <2>3, ExceptReplaces, EntersRow
  <2>5. /\ mgr[a].state = "Leg2Pending"
        /\ mgr'[a].state = "ForceClose" /\ mgr'[a].market = mgr[a].market
    BY <1>1, <2>2 DEF OnTick, ForceCloseDue, Managers, Manager
  <2>6. /\ Matching(mgr'[a], orders'[a])
        /\ \/ /\ StageIn(mgr[a], orders[a]) = "Exposed"
              /\ StageIn(mgr'[a], orders'[a]) = "Selling"
           \/ StageIn(mgr[a], orders[a]) = "Mixed" /\ StageIn(mgr'[a], orders'[a]) = "Mixed"
    BY <1>1, <2>1, <2>2, <2>3, <2>4, <2>5, CloseStage
  <2>7. CASE /\ StageIn(mgr[a], orders[a]) = "Exposed"
             /\ StageIn(mgr'[a], orders'[a]) = "Selling"
    <3>1. Trade!Sell(a)
      BY <1>2, <2>2, <2>6, <2>7 DEF Trade!Sell, Trade!Moves
    <3> QED BY <1>2, <2>2, <2>6, <3>1 DEF Trade!Next
  <2> QED BY <1>3, <2>2, <2>6, <2>7
<1>10. ASSUME NEW a \in Assets, NEW n \in OrderIds,
              Fill(a, n) \/ Rest(a, n) \/ RestingFill(a, n) \/ Refuse(a, n)
       PROVE  Goal
  <2>1. Changes(orders[a], orders'[a], n) /\ \A b \in Assets \ {a} : orders'[b] = orders[b]
    BY <1>10, AnswerChanges
  <2>2. mgr' = mgr /\ open' = open
    BY <1>10 DEF Fill, Rest, RestingFill, Refuse
  <2>3. Same(mgr[a], orders[a], orders'[a])
    BY <1>1, <2>1, AnsweredStage
  <2> QED BY <1>1, <1>3, <2>1, <2>2, <2>3, SameStage
\* An answer is taken in and nothing is ordered.
<1>11. ASSUME NEW a \in Assets, NEW n \in OrderIds, NEW kind \in Kinds,
              orders[a][n].kind = kind, orders[a][n].reply # "None",
              orders[a][n].seenBy = 0, orders' = Seen(a, n)
       PROVE  /\ Takes(mgr[a], orders[a], orders'[a], n, kind)
              /\ \A b \in Assets \ {a} : orders'[b] = orders[b]
  BY <1>11, SeenRow
\* The answer is taken in, and a Leg2 order of the manager is placed.
<1>12. ASSUME NEW a \in Assets, NEW n \in OrderIds, NEW kind \in Kinds, NEW m,
              orders[a][n].kind = kind, orders[a][n].reply # "None",
              orders[a][n].seenBy = 0, SeenAndPlace(a, n, Leg2Order(m))
       PROVE  /\ Takes(mgr[a], orders[a], Seen(a, n)[a], n, kind)
              /\ Seen(a, n)[a] \in Tables
              /\ Same(m, Seen(a, n)[a], orders'[a])
              /\ \A b \in Assets \ {a} : orders'[b] = orders[b]
  <2>1. /\ Takes(mgr[a], orders[a], Seen(a, n)[a], n, kind)
        /\ Seen(a, n)[a] \in Tables
        /\ \A b \in Assets \ {a} : Seen(a, n)[b] = orders[b]
    BY <1>12, SeenRow
  <2>2. /\ Replaces(Seen(a, n)[a], orders'[a], placed[a] + 1, Leg2Order(m))
        /\ placed[a] + 1 \in OrderIds
        /\ \A b \in Assets \ {a} : orders'[b] = Seen(a, n)[b]
    BY <1>12, PlacedRow
  <2>3. Sane(mgr[a], Seen(a, n)[a], placed[a])
    BY <1>1, <1>12, <2>1, SeenKeeps DEF MarketInv, Takes, Kinds
  <2>4. Same(m, Seen(a, n)[a], orders'[a])
    BY <1>1, <2>1, <2>2, <2>3, Leg2EnteredStage
  <2> QED BY <2>1, <2>2, <2>4
<1>13. ASSUME NEW a \in Assets, NEW n \in OrderIds, Leg1Filled(a, n) PROVE Goal
  <2> DEFINE p == orders[a][n].price   m == OnLeg1Fill(mgr[a], p, n)   v == Seen(a, n)[a]
  <2>1. /\ orders[a][n].kind = "Leg1" /\ orders[a][n].reply = "Filled"
        /\ orders[a][n].seenBy = 0
    BY <1>13 DEF Leg1Filled, Answered
  <2>2. /\ mgr'[a] = m /\ open' = [open EXCEPT ![a] = @ + 1]
        /\ \A b \in Assets \ {a} : mgr'[b] = mgr[b]
    BY <1>13 DEF Leg1Filled, TypeOK
  <2>3. Takes(mgr[a], orders[a], v, n, "Leg1") /\ v \in Tables
    BY <2>1, SeenRow DEF Kinds
  <2>4. /\ Matching(m, v)
        /\ \/ StageIn(mgr[a], orders[a]) = "Buying" /\ StageIn(m, v) = "Exposed"
           \/ StageIn(m, v) = "Mixed"
    BY <1>1, <2>1, <2>2, <2>3, Leg1FilledStage
  <2>5. /\ Matching(m, orders'[a]) /\ StageIn(m, orders'[a]) = StageIn(m, v)
        /\ \A b \in Assets \ {a} : orders'[b] = orders[b]
    <3>1. CASE mgr[a].state = "Leg1Pending"
      <4>1. SeenAndPlace(a, n, Leg2Order(m))
        BY <1>13, <3>1 DEF Leg1Filled
      <4> HIDE DEF m
      <4>2. Same(m, v, orders'[a]) /\ \A b \in Assets \ {a} : orders'[b] = orders[b]
        BY <1>12, <2>1, <4>1 DEF Kinds
      <4> QED BY <2>4, <4>2, SameStage
    <3>2. CASE mgr[a].state # "Leg1Pending"
      <4>1. orders' = Seen(a, n)
        BY <1>13, <3>2 DEF Leg1Filled
      <4>2. \A b \in Assets \ {a} : orders'[b] = orders[b]
        BY <1>11, <2>1, <4>1 DEF Kinds
      <4> QED BY <2>4, <4>1, <4>2
    <3> QED BY <3>1, <3>2
  <2> HIDE DEF m, v
  <2>6. CASE StageIn(mgr[a], orders[a]) = "Buying" /\ StageIn(m, v) = "Exposed"
    <3>1. open[a] + 1 >= 0
      BY <1>1
    <3>2. Trade!Bought(a)
      BY <1>2, <2>2, <2>5, <2>6, <3>1 DEF Trade!Bought, Trade!Moves, Trade!Counts
    <3> QED BY <1>2, <2>2, <2>5, <3>2 DEF Trade!Next
  <2>7. CASE StageIn(m, v) = "Mixed"
    <3>1. open[a] + 1 >= 0
      BY <1>1
    <3> QED BY <1>4, <2>2, <2>5, <2>7, <3>1
  <2> QED BY <2>4, <2>6, <2>7
<1>14. ASSUME NEW a \in Assets, NEW n \in OrderIds, Leg1Refused(a, n) PROVE Goal
  <2>1. /\ orders[a][n].kind = "Leg1" /\ orders[a][n].reply \in {"Rejected", "Err"}
        /\ orders[a][n].seenBy = 0 /\ orders' = Seen(a, n) /\ open' = open
    BY <1>14 DEF Leg1Refused, Answered
  <2>2. /\ mgr'[a] = OnLeg1Rejected(mgr[a])
        /\ \A b \in Assets \ {a} : mgr'[b] = mgr[b]
    BY <1>14 DEF Leg1Refused, TypeOK
  <2>3. /\ Takes(mgr[a], orders[a], orders'[a], n, "Leg1")
        /\ \A b \in Assets \ {a} : orders'[b] = orders[b]
    BY <1>11, <2>1 DEF Kinds
  <2>4. /\ Matching(mgr'[a], orders'[a])
        /\ \/ /\ StageIn(mgr[a], orders[a]) = "Buying"
              /\ StageIn(mgr'[a], orders'[a]) = "Flat"
           \/ StageIn(mgr'[a], orders'[a]) = "Mixed"
    BY <1>1, <2>1, <2>2, <2>3, Leg1RefusedStage
  <2>5. CASE StageIn(mgr[a], orders[a]) = "Buying" /\ StageIn(mgr'[a], orders'[a]) = "Flat"
    <3>1. Trade!Refused(a)
      BY <1>2, <2>1, <2>2, <2>3, <2>4, <2>5 DEF Trade!Refused, Trade!Moves
    <3> QED BY <1>2, <2>2, <2>3, <2>4, <3>1 DEF Trade!Next
  <2>6. CASE StageIn(mgr'[a], orders'[a]) = "Mixed"
    BY <1>4, <1>5, <2>1, <2>2, <2>3, <2>4, <2>6
  <2> QED BY <2>4, <2>5, <2>6
<1>15. ASSUME NEW a \in Assets, NEW n \in OrderIds, Leg2Filled(a, n) PROVE Goal
  <2>1. /\ orders[a][n].kind = "Leg2" /\ orders[a][n].reply = "Filled"
        /\ orders[a][n].seenBy = 0 /\ orders' = Seen(a, n) /\ open' = open
    BY <1>15 DEF Leg2Filled, Answered
  <2>2. /\ mgr'[a] = OnLeg2Fill(mgr[a], orders[a][n].price)
        /\ \A b \in Assets \ {a} : mgr'[b] = mgr[b]
    BY <1>15 DEF Leg2Filled, TypeOK
  <2>3. /\ Takes(mgr[a], orders[a], orders'[a], n, "Leg2")
        /\ \A b \in Assets \ {a} : orders'[b] = orders[b]
    BY <1>11, <2>1 DEF Kinds
  <2>4. /\ Matching(mgr'[a], orders'[a])
        /\ \/ /\ StageIn(mgr[a], orders[a]) = "Exposed"
              /\ StageIn(mgr'[a], orders'[a]) = "Hedged"
           \/ StageIn(mgr'[a], orders'[a]) = StageIn(mgr[a], orders[a])
           \/ StageIn(mgr'[a], orders'[a]) = "Mixed"
    BY <1>1, <2>1, <2>2, <2>3, Leg2FilledStage
  <2>5. CASE StageIn(mgr[a], orders[a]) = "Exposed" /\ StageIn(mgr'[a], orders'[a]) = "Hedged"
    <3>1. Trade!Hedge(a)
      BY <1>2, <2>1, <2>2, <2>3, <2>4, <2>5 DEF Trade!Hedge, Trade!Moves
    <3> QED BY <1>2, <2>2, <2>3, <2>4, <3>1 DEF Trade!Next
  <2>6. CASE StageIn(mgr'[a], orders'[a]) = StageIn(mgr[a], orders[a])
    BY <1>3, <2>1, <2>2, <2>3, <2>4, <2>6
  <2>7. CASE StageIn(mgr'[a], orders'[a]) = "Mixed"
    BY <1>4, <1>5, <2>1, <2>2, <2>3, <2>4, <2>7
  <2> QED BY <2>4, <2>5, <2>6, <2>7
\* An answer that leaves the manager and the count alone.
<1>16. ASSUME NEW a \in Assets, mgr' = mgr, open' = open,
              \A b \in Assets \ {a} : orders'[b] = orders[b],
              Matching(mgr[a], orders'[a]),
              \/ StageIn(mgr[a], orders'[a]) = StageIn(mgr[a], orders[a])
              \/ StageIn(mgr[a], orders'[a]) = "Mixed"
       PROVE  Goal
  <2>1. CASE StageIn(mgr[a], orders'[a]) = StageIn(mgr[a], orders[a])
    BY <1>3, <1>16, <2>1
  <2>2. CASE StageIn(mgr[a], orders'[a]) = "Mixed"
    BY <1>4, <1>5, <1>16, <2>2
  <2> QED BY <1>16, <2>1, <2>2
<1>17. ASSUME NEW a \in Assets, NEW n \in OrderIds, Leg2Rejected(a, n) PROVE Goal
  <2> DEFINE v == Seen(a, n)[a]
  <2>1. /\ orders[a][n].kind = "Leg2" /\ orders[a][n].reply = "Rejected"
        /\ orders[a][n].seenBy = 0 /\ mgr' = mgr /\ open' = open
    BY <1>17 DEF Leg2Rejected, Answered
  <2>2. Takes(mgr[a], orders[a], v, n, "Leg2") /\ v \in Tables
    BY <2>1, SeenRow DEF Kinds
  <2>3. /\ Matching(mgr[a], v)
        /\ \/ StageIn(mgr[a], v) = StageIn(mgr[a], orders[a])
           \/ StageIn(mgr[a], v) = "Mixed"
    BY <1>1, <2>1, <2>2, LoggedStage DEF Kinds
  <2>4. CASE ReplacesLeg2(mgr[a])
    <3>1. SeenAndPlace(a, n, Leg2Order(mgr[a]))
      BY <1>17, <2>4 DEF Leg2Rejected
    <3>2. /\ Same(mgr[a], v, orders'[a])
          /\ \A b \in Assets \ {a} : orders'[b] = orders[b]
      BY <1>12, <2>1, <3>1 DEF Kinds
    <3>3. /\ Matching(mgr[a], orders'[a])
          /\ StageIn(mgr[a], orders'[a]) = StageIn(mgr[a], v)
      BY <2>3, <3>2, SameStage
    <3> QED BY <1>16, <2>1, <2>3, <3>2, <3>3
  <2>5. CASE ~ReplacesLeg2(mgr[a])
    <3>1. orders' = Seen(a, n)
      BY <1>17, <2>5 DEF Leg2Rejected
    <3>2. \A b \in Assets \ {a} : orders'[b] = orders[b]
      BY <1>11, <2>1, <3>1 DEF Kinds
    <3> QED BY <1>16, <2>1, <2>3, <3>1, <3>2
  <2> QED BY <2>4, <2>5
<1>18. ASSUME NEW a \in Assets, NEW n \in OrderIds, ForceCloseFilled(a, n) PROVE Goal
  <2>1. /\ orders[a][n].kind = "ForceClose" /\ orders[a][n].reply = "Filled"
        /\ orders[a][n].seenBy = 0 /\ orders' = Seen(a, n) /\ mgr' = mgr
    BY <1>18 DEF ForceCloseFilled, Answered
  <2>2. /\ Takes(mgr[a], orders[a], orders'[a], n, "ForceClose")
        /\ \A b \in Assets \ {a} : orders'[b] = orders[b]
    BY <1>11, <2>1 DEF Kinds
  <2>3. open[a] # 0
    BY <1>1, <2>1, <2>2, CloseFilledPositions
  <2>4. open[a] + (-1) >= 0 /\ open' = [open EXCEPT ![a] = @ + (-1)]
    <3>1. open[a] - 1 = open[a] + (-1) /\ open[a] + (-1) >= 0
      BY <1>1, <2>3
    <3> QED BY <1>18, <2>3, <3>1 DEF ForceCloseFilled, TypeOK
  <2>5. /\ Matching(mgr[a], orders'[a])
        /\ \/ StageIn(mgr[a], orders[a]) = "Selling" /\ StageIn(mgr[a], orders'[a]) = "Sold"
           \/ StageIn(mgr[a], orders'[a]) = "Mixed"
    BY <1>1, <2>1, <2>2, CloseFilledStage
  <2>6. CASE StageIn(mgr[a], orders[a]) = "Selling" /\ StageIn(mgr[a], orders'[a]) = "Sold"
    <3>1. Trade!Sold(a)
      BY <1>2, <2>1, <2>2, <2>4, <2>5, <2>6 DEF Trade!Sold, Trade!Moves, Trade!Counts
    <3> QED BY <1>2, <2>1, <2>2, <2>5, <3>1 DEF Trade!Next
  <2>7. CASE StageIn(mgr[a], orders'[a]) = "Mixed"
    BY <1>4, <2>1, <2>2, <2>4, <2>5, <2>7
  <2> QED BY <2>5, <2>6, <2>7
<1>19. ASSUME NEW a \in Assets, NEW n \in OrderIds, Logged(a, n) PROVE Goal
  <2>1. PICK kind \in Kinds :
           /\ orders[a][n].kind = kind /\ orders[a][n].reply # "None"
           /\ orders[a][n].seenBy = 0 /\ orders[a][n].reply # "Filled"
           /\ kind = "Leg1" => orders[a][n].reply = "Live"
    BY <1>19 DEF Logged, Answered, Kinds
  <2>2. orders' = Seen(a, n) /\ mgr' = mgr /\ open' = open
    BY <1>19 DEF Logged
  <2>3. /\ Takes(mgr[a], orders[a], orders'[a], n, kind)
        /\ \A b \in Assets \ {a} : orders'[b] = orders[b]
    BY <1>11, <2>1, <2>2
  <2>4. /\ Matching(mgr[a], orders'[a])
        /\ \/ StageIn(mgr[a], orders'[a]) = StageIn(mgr[a], orders[a])
           \/ StageIn(mgr[a], orders'[a]) = "Mixed"
    BY <1>1, <2>1, <2>3, LoggedStage
  <2> QED BY <1>16, <2>2, <2>3, <2>4
<1>20. CASE Elapse \/ UNCHANGED vars
  BY <1>6, <1>20 DEF Elapse, vars
<1> QED BY <1>7, <1>8, <1>9, <1>10, <1>13, <1>14, <1>15, <1>17, <1>18, <1>19, <1>20 DEF Next

\* The trading core implements the hedged trade: whatever the order of its requests,
\* answers, rotations and ticks, a trade is bought once and then hedged or sold, and
\* counted as reported (main.rs:200-520).
THEOREM RefinesHedgedTrade == Spec => IsHedgedTrade
<1>1. /\ TypeOK /\ TypeOK' /\ CoreInv /\ PositionInv /\ MatchInv /\ [Next]_vars
           => MatchInv'
      /\ TypeOK /\ TypeOK' /\ CoreInv /\ PositionInv /\ MatchInv /\ [Next]_vars
           => [Trade!Next]_(Trade!vars)
  BY StageStep
<1> QED BY <1>1, StageInit, TypeCorrect, CoreCorrect, PositionCorrect, PTL
        DEF Spec, IsHedgedTrade, Trade!Spec
=============================================================================
