---------------------------- MODULE PriceSignal ----------------------------
(***************************************************************************)
(* From the order books of Hyperliquid to an entry signal: the feed task   *)
(* (feeds/hyperliquid.rs), the price aggregator, the book imbalance and    *)
(* evaluate_entry, which the loop of main.rs calls for every book, and the *)
(* open price that the loop takes when it activates a market.  The         *)
(* Chainlink feed (feeds/chainlink.rs) runs beside it; main.rs throws its  *)
(* prices away.                                                            *)
(*                                                                         *)
(* A coin of the exchange is an asset of the bot.  A mid-price is counted  *)
(* twice (bid + ask), so that it is a whole number; only ratios of prices  *)
(* are compared.  Trades are subscribed to as well, and the loop ignores   *)
(* them.                                                                   *)
(***************************************************************************)
EXTENDS Integers, SequencesExt

CONSTANTS Assets,            \* cfg.hyperliquid_assets
          Books,             \* order books the exchange may show
          DepthLevels,       \* levels counted for the imbalance
          BpsThreshold,      \* params.entry_bps_threshold
          ImbThreshold,      \* params.book_imb_threshold, in percent
          ChainlinkEnabled,  \* the keys of Chainlink are configured
          ChainlinkPrices,
          MaxMarkets,        \* bound: markets activated per asset
          MaxWire,           \* bound: messages sent and not yet read
          MaxEvents,         \* bound: books waiting for the loop
          MaxReports         \* bound: Chainlink prices waiting to be dropped

ASSUME AssetAssumption     == IsFiniteSet(Assets)
ASSUME BookAssumption      == LET Levels == (Nat \ {0}) \X Nat
                              IN  Books \subseteq [bids: Seq(Levels), asks: Seq(Levels)]
ASSUME ThresholdAssumption == /\ BpsThreshold \in Nat \ {0} /\ ImbThreshold \in Nat
                              /\ DepthLevels \in Nat
ASSUME SourceAssumption    == /\ ChainlinkEnabled \in BOOLEAN
                              /\ ChainlinkPrices \subseteq Nat \ {0}
ASSUME BoundAssumption     == /\ MaxMarkets \in Nat /\ MaxWire \in Nat
                              /\ MaxEvents \in Nat /\ MaxReports \in Nat

VARIABLES
    shown,        \* the exchange: the book of each coin
    hl,           \* where the Hyperliquid task is
    subscribed,   \* the exchange: the coins of the current connection
    wire,         \* messages of this connection that have not been read
    hl_rx,        \* events the loop has not taken in
    chainlink,    \* where the Chainlink task is
    chainlink_rx, \* its prices, not yet taken out of their channel
    agg,          \* the price aggregator, by asset
    market,       \* the number of the asset's active market, 0 for none
    idle,         \* leg_manager.is_idle()
    direction,    \* the direction of the manager's last signal
    seen,         \* history: the mid of the last two-sided book taken in
    atOpen        \* history: what it was when the market was activated

vars == <<shown, hl, subscribed, wire, hl_rx, chainlink, chainlink_rx, agg, market,
          idle, direction, seen, atOpen>>
feeds == <<hl, subscribed, wire, chainlink>>
bot   == <<agg, market, idle, direction, seen, atOpen>>

-----------------------------------------------------------------------------
(* indicators/: a book is [bids, asks], sequences of <<price, size>>.      *)

NoPrice == 0

\* main.rs: a book with one side empty has no mid.
Mid(book) ==
    IF book.bids # <<>> /\ book.asks # <<>>
    THEN Head(book.bids)[1] + Head(book.asks)[1] ELSE NoPrice

Depth(side) ==
    FoldLeft(LAMBDA sum, level : sum + level[1] * level[2], 0,
             SubSeq(side, 1, IF Len(side) < DepthLevels THEN Len(side) ELSE DepthLevels))

\* The imbalance is beyond the threshold, to the side that fits the direction.
Aligned(book, dir) ==
    LET more == Depth(book.bids) - Depth(book.asks)
        sum  == Depth(book.bids) + Depth(book.asks)
    IN  /\ sum > 0
        /\ IF dir = "Up" THEN more * 100 > ImbThreshold * sum
                         ELSE -more * 100 > ImbThreshold * sum

NewAggregator == [hl_mid |-> NoPrice, chainlink |-> NoPrice, open |-> NoPrice]

UpdateHlMid(g, mid) == [g EXCEPT !.hl_mid = mid]

GetBestPrice(g) == IF ChainlinkEnabled /\ g.chainlink # NoPrice
                   THEN g.chainlink ELSE g.hl_mid

SnapshotOpenPrice(g) == IF GetBestPrice(g) = NoPrice THEN g
                        ELSE [g EXCEPT !.open = GetBestPrice(g)]

\* get_state: the move in basis points since the open price, as a fraction.
Move(from, to) == [by |-> (to - from) * 10000, per |-> from]

\* signal.rs: the directions evaluate_entry finds for this price and book,
\* leaving open whether the time and the token price permit an entry.
Signals(g, book) ==
    LET move == Move(g.open, GetBestPrice(g))
        dir  == IF move.by > 0 THEN "Up" ELSE "Down"
        size == IF move.by > 0 THEN move.by ELSE -move.by
    IN  IF /\ GetBestPrice(g) # NoPrice /\ g.open # NoPrice
           /\ size >= BpsThreshold * move.per
           /\ Aligned(book, dir)
        THEN {dir} ELSE {}

-----------------------------------------------------------------------------
Init ==
    /\ shown \in [Assets -> Books]
    /\ hl = "Connect" /\ subscribed = {} /\ wire = <<>> /\ hl_rx = <<>>
    /\ chainlink = IF ChainlinkEnabled THEN "Connect" ELSE "Off"
    /\ chainlink_rx = <<>>
    /\ agg       = [a \in Assets |-> NewAggregator]
    /\ market    = [a \in Assets |-> 0]
    /\ idle      = [a \in Assets |-> FALSE]
    /\ direction = [a \in Assets |-> "None"]
    /\ seen      = [a \in Assets |-> NoPrice]
    /\ atOpen    = [a \in Assets |-> NoPrice]

-----------------------------------------------------------------------------
(* feeds/hyperliquid.rs, run_hyperliquid_feed.                             *)

Snapshot(coins) == LET cs == SetToSeq(coins)
                   IN  [i \in DOMAIN cs |-> [asset |-> cs[i], book |-> shown[cs[i]]]]

\* A connection is made and the subscriptions flushed.  The exchange answers
\* with the books.
Connected ==
    /\ hl = "Connect"
    /\ hl' = "Open" /\ subscribed' = Assets /\ wire' = Snapshot(Assets)
    /\ UNCHANGED <<shown, hl_rx, chainlink, chainlink_rx, bot>>

\* Some subscriptions cannot be written, which is only logged.
SubscribeFails ==
    /\ hl = "Connect"
    /\ \E coins \in SUBSET Assets \ {Assets} :
          hl' = "Open" /\ subscribed' = coins /\ wire' = Snapshot(coins)
    /\ UNCHANGED <<shown, hl_rx, chainlink, chainlink_rx, bot>>

\* Mutant: the task ends when a connection fails.
ConnectFailsForGood ==
    /\ hl = "Connect"
    /\ hl' = "Ended"
    /\ UNCHANGED <<shown, subscribed, wire, hl_rx, chainlink, chainlink_rx, bot>>

ConnectFails ==
    /\ hl = "Connect"
    /\ hl' = "Sleep"
    /\ UNCHANGED <<shown, subscribed, wire, hl_rx, chainlink, chainlink_rx, bot>>

\* Nothing more arrives on a connection that is not closed.  The task sends no
\* ping of its own and goes on waiting.
FallsSilent ==
    /\ hl = "Open" /\ subscribed # {}
    /\ subscribed' = {} /\ wire' = <<>>
    /\ UNCHANGED <<shown, hl, hl_rx, chainlink, chainlink_rx, bot>>

\* Mutant: what was not read is read on the next connection.
DisconnectedKeepsWire ==
    /\ hl = "Open"
    /\ hl' = "Sleep" /\ subscribed' = {}
    /\ UNCHANGED <<shown, wire, hl_rx, chainlink, chainlink_rx, bot>>

\* The connection is closed or fails.
Disconnected ==
    /\ hl = "Open"
    /\ hl' = "Sleep" /\ subscribed' = {} /\ wire' = <<>>
    /\ UNCHANGED <<shown, hl_rx, chainlink, chainlink_rx, bot>>

\* process_hl_message.
ReadBook ==
    /\ hl = "Open" /\ wire # <<>> /\ Len(hl_rx) < MaxEvents
    /\ hl_rx' = Append(hl_rx, Head(wire))
    /\ wire'  = Tail(wire)
    /\ UNCHANGED <<shown, hl, subscribed, chainlink, chainlink_rx, bot>>

\* Three seconds are over.
Wake ==
    /\ hl = "Sleep"
    /\ hl' = "Connect"
    /\ UNCHANGED <<shown, subscribed, wire, hl_rx, chainlink, chainlink_rx, bot>>

\* The exchange: the book of a coin changes; who is subscribed is told.
Requote(a, book) ==
    /\ book # shown[a]
    /\ shown' = [shown EXCEPT ![a] = book]
    /\ IF a \in subscribed
       THEN Len(wire) < MaxWire /\ wire' = Append(wire, [asset |-> a, book |-> book])
       ELSE UNCHANGED wire
    /\ UNCHANGED <<hl, subscribed, hl_rx, chainlink, chainlink_rx, bot>>

-----------------------------------------------------------------------------
(* feeds/chainlink.rs, run_chainlink_feed.  A subscription that cannot be  *)
(* sent makes the task pause and connect again.                            *)

ChainlinkMoves(from, to) ==
    /\ chainlink = from /\ chainlink' = to
    /\ UNCHANGED <<shown, hl, subscribed, wire, hl_rx, chainlink_rx, bot>>

ChainlinkConnects == \/ ChainlinkMoves("Connect", "Open")
                     \/ ChainlinkMoves("Connect", "Sleep")
                     \/ ChainlinkMoves("Sleep", "Connect")

ChainlinkDisconnects == ChainlinkMoves("Open", "Sleep")

\* process_message.
ChainlinkReport(a, price) ==
    /\ chainlink = "Open" /\ Len(chainlink_rx) < MaxReports
    /\ chainlink_rx' = Append(chainlink_rx, [asset |-> a, price |-> price])
    /\ UNCHANGED <<shown, feeds, hl_rx, bot>>

\* main.rs: a task of its own takes the prices out of the channel, no more.
Drain ==
    /\ chainlink_rx # <<>>
    /\ chainlink_rx' = Tail(chainlink_rx)
    /\ UNCHANGED <<shown, feeds, hl_rx, bot>>

-----------------------------------------------------------------------------
(* The loop of main.rs.                                                    *)

\* market_rx: the open price is taken before the manager is replaced.
Activate(a) ==
    /\ market[a] < MaxMarkets
    /\ agg'    = [agg EXCEPT ![a] = SnapshotOpenPrice(@)]
    /\ market' = [market EXCEPT ![a] = @ + 1]
    /\ idle'   = [idle EXCEPT ![a] = TRUE]
    /\ atOpen' = [atOpen EXCEPT ![a] = seen[a]]
    /\ UNCHANGED <<shown, feeds, hl_rx, chainlink_rx, direction, seen>>

\* Mutant: a one-sided book sets the price to 0.
PricedAlways(g, book) == UpdateHlMid(g, Mid(book))

\* The aggregator after a book.
Priced(g, book) == IF Mid(book) = NoPrice THEN g ELSE UpdateHlMid(g, Mid(book))

\* Mutant: prices are taken in while an entry is looked for.
TakeBookWhenIdle ==
    /\ hl_rx # <<>>
    /\ LET a == Head(hl_rx).asset   book == Head(hl_rx).book
           g == Priced(agg[a], book)
       IN  IF idle[a]
           THEN /\ agg'  = [agg EXCEPT ![a] = g]
                /\ seen' = [seen EXCEPT ![a] = IF Mid(book) = NoPrice THEN @ ELSE Mid(book)]
                /\ \/ UNCHANGED <<idle, direction>>
                   \/ \E dir \in Signals(g, book) :
                         /\ idle'      = [idle EXCEPT ![a] = FALSE]
                         /\ direction' = [direction EXCEPT ![a] = dir]
           ELSE UNCHANGED <<agg, seen, idle, direction>>
    /\ hl_rx' = Tail(hl_rx)
    /\ UNCHANGED <<shown, feeds, chainlink_rx, market, atOpen>>

\* hl_rx: prices first, then the signal if the manager is idle; the time, the
\* token price and the risk manager may forbid it.
TakeBook ==
    /\ hl_rx # <<>>
    /\ LET a == Head(hl_rx).asset   book == Head(hl_rx).book
           g == Priced(agg[a], book)
           dirs == IF idle[a] THEN Signals(g, book) ELSE {}
       IN  /\ agg'  = [agg EXCEPT ![a] = g]
           /\ seen' = [seen EXCEPT ![a] = IF Mid(book) = NoPrice THEN @ ELSE Mid(book)]
           /\ \/ UNCHANGED <<idle, direction>>
              \/ \E dir \in dirs : /\ idle'      = [idle EXCEPT ![a] = FALSE]
                                   /\ direction' = [direction EXCEPT ![a] = dir]
    /\ hl_rx' = Tail(hl_rx)
    /\ UNCHANGED <<shown, feeds, chainlink_rx, market, atOpen>>

\* A refused Leg1 order makes the manager idle again.
Leg1Refused(a) ==
    /\ market[a] # 0 /\ ~idle[a]
    /\ idle' = [idle EXCEPT ![a] = TRUE]
    /\ UNCHANGED <<shown, feeds, hl_rx, chainlink_rx, agg, market, direction, seen, atOpen>>

Next ==
    \/ Connected \/ SubscribeFails \/ ConnectFails \/ FallsSilent \/ Disconnected
    \/ ReadBook \/ Wake
    \/ ChainlinkConnects \/ ChainlinkDisconnects \/ Drain \/ TakeBook
    \/ \E a \in Assets :
          \/ Activate(a) \/ Leg1Refused(a)
          \/ \E book \in Books : Requote(a, book)
          \/ \E price \in ChainlinkPrices : ChainlinkReport(a, price)

Spec == Init /\ [][Next]_vars

\* The task and the loop run when they can.  Attempts to connect succeed again
\* and again, and connections last until something is read.  That a connection
\* without its subscriptions, or a silent one, ever ends is not assumed.
Fairness ==
    /\ WF_vars(TakeBook) /\ WF_vars(Wake)
    /\ SF_vars(ReadBook) /\ SF_vars(Connected)

FairSpec == Spec /\ Fairness

-----------------------------------------------------------------------------
(* Properties.                                                             *)

Events  == [asset: Assets, book: Books]
MidsOf  == {Mid(b) : b \in Books} \cup {NoPrice}
Running == {"Connect", "Open", "Sleep"}

\* Every variable has its type; there is a subscription, and there are messages,
\* only on an open connection.
TypeOK ==
    /\ shown \in [Assets -> Books]
    /\ hl \in Running /\ chainlink \in Running \cup {"Off"}
    /\ subscribed \in SUBSET Assets /\ wire \in Seq(Events) /\ hl_rx \in Seq(Events)
    /\ chainlink_rx \in Seq([asset: Assets, price: ChainlinkPrices])
    /\ agg \in [Assets -> [hl_mid: MidsOf, chainlink: ChainlinkPrices \cup {NoPrice},
                           open: MidsOf \cup ChainlinkPrices]]
    /\ market \in [Assets -> 0..MaxMarkets] /\ idle \in [Assets -> BOOLEAN]
    /\ direction \in [Assets -> {"None", "Up", "Down"}]
    /\ seen \in [Assets -> MidsOf] /\ atOpen \in [Assets -> MidsOf]
    /\ hl # "Open" => subscribed = {} /\ wire = <<>>

\* The price went from one to the other by the threshold or more.
Rose(from, to) == (to - from) * 10000 >= BpsThreshold * from

\* A signal of a market says that Hyperliquid's mid rose or fell, by the
\* threshold at least, between the last one the loop knew when it activated the
\* market and the last one it knows now.  The activation may be 30 seconds
\* before the opening, from which price_aggregator.rs:15 ("set when market
\* opens") and the README of the program count the move.  A one-sided book, a
\* lost connection or a Chainlink price never moves the price, an open price
\* never outlives its market, and a market activated before any price is known
\* has no signal.
SignalIsMove ==
    [][\A a \in Assets : idle[a] /\ ~idle'[a] =>
          /\ atOpen[a] # NoPrice
          /\ IF direction'[a] = "Up"
             THEN Rose(atOpen[a], seen'[a])
             ELSE (atOpen[a] - seen'[a]) * 10000 >= BpsThreshold * atOpen[a]]_vars

\* What is open is the price known at the activation, if one was: a market
\* that is activated when a price is known can be traded.
OpenAtActivation == \A a \in Assets : agg[a].open = atOpen[a]

Undelivered(a) == \/ \E i \in DOMAIN wire : wire[i].asset = a
                  \/ \E i \in DOMAIN hl_rx : hl_rx[i].asset = a

\* While a coin is subscribed and everything has been delivered, the mid that
\* the aggregator keeps of Hyperliquid is the exchange's: books of an earlier
\* connection do not overtake those of the present one, and prices are kept up
\* to date while the manager is not looking for an entry.
PriceCurrent ==
    \A a \in subscribed :
        ~Undelivered(a) /\ Mid(shown[a]) # NoPrice
        => agg[a].hl_mid = Mid(shown[a])

\* A book that no longer changes becomes the price of its asset, whatever
\* attempts and connections fail on the way, unless the task stays for ever on
\* an open connection that does not bring the coin, which it cannot notice.
PriceCatchesUp ==
    \A a \in Assets, book \in Books :
        /\ <>[](shown[a] = book) /\ Mid(book) # NoPrice
        /\ []<>(hl # "Open" \/ a \in subscribed)
        => <>[](agg[a].hl_mid = Mid(book))
=============================================================================
