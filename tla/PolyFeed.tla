------------------------------ MODULE PolyFeed ------------------------------
(***************************************************************************)
(* The Polymarket order book feed: the task run_poly_clob_ws               *)
(* (feeds/polymarket.rs), the channel through which the loop of main.rs    *)
(* gives it the tokens of each new market, and the channel through which   *)
(* it gives the loop their prices.                                         *)
(*                                                                         *)
(* The exchange takes one subscription per connection, so the task keeps   *)
(* every token it was ever given and reconnects when there are new ones.   *)
(* The two tokens of a market always go together and are named by the      *)
(* number of the market.                                                   *)
(***************************************************************************)
EXTENDS Integers, SequencesExt

CONSTANTS Prices,
          NoPrice,     \* a book without asks
          MaxMarkets,  \* bound on the markets activated
          MaxWire,     \* bound on the messages sent and not yet read
          MaxEvents    \* bound on the events waiting for the loop

ASSUME BoundsAssumption == /\ MaxMarkets \in Nat /\ MaxWire \in Nat \ {0}
                           /\ MaxEvents \in Nat /\ MaxEvents >= MaxMarkets
ASSUME NoPriceAssumption == NoPrice \notin Prices

VARIABLES
    sent,           \* number of markets activated
    sub_rx,         \* the markets the task has not been told of yet
    all_token_ids,  \* those it has been told of
    ws,             \* where the task is
    subscribed,     \* the exchange: the markets of the current subscription
    wire,           \* the exchange's messages on this connection, not yet read
    quote,          \* the exchange: the price of each market it last announced
    poly_rx,        \* events the loop has not taken in yet
    token_prices    \* the loop: the last price of each market

vars == <<sent, sub_rx, all_token_ids, ws, subscribed, wire, quote, poly_rx, token_prices>>

Markets == 1..MaxMarkets
Quotes  == Prices \cup {NoPrice}

\* A message has the prices of some markets, an event that of one.
Messages == UNION {[S -> Quotes] : S \in (SUBSET Markets) \ {{}}}

Init ==
    /\ sent = 0 /\ sub_rx = <<>> /\ all_token_ids = <<>>
    /\ ws = "Wait" /\ subscribed = {} /\ wire = <<>>
    /\ quote \in [Markets -> {NoPrice}]
    /\ poly_rx = <<>>
    /\ token_prices = [m \in Markets |-> NoPrice]

-----------------------------------------------------------------------------
(* The loop.                                                               *)

\* A market is activated and its tokens are sent to the feed.
Activate ==
    /\ sent < MaxMarkets
    /\ sent' = sent + 1
    /\ sub_rx' = Append(sub_rx, sent + 1)
    /\ UNCHANGED <<all_token_ids, ws, subscribed, wire, quote, poly_rx, token_prices>>

\* Mutant: the first price of a market is kept.
TakeInOnce ==
    /\ poly_rx # <<>>
    /\ LET e == Head(poly_rx) IN
       token_prices' = IF token_prices[e.market] # NoPrice THEN token_prices
                       ELSE [token_prices EXCEPT ![e.market] = e.price]
    /\ poly_rx' = Tail(poly_rx)
    /\ UNCHANGED <<sent, sub_rx, all_token_ids, ws, subscribed, wire, quote>>

\* A book without asks leaves the price as it was.  What a book does to the
\* managers, which does not depend on token_prices, is PolyBook of TwoLegBot.
TakeIn ==
    /\ poly_rx # <<>>
    /\ LET e == Head(poly_rx) IN
       token_prices' = IF e.price = NoPrice THEN token_prices
                       ELSE [token_prices EXCEPT ![e.market] = e.price]
    /\ poly_rx' = Tail(poly_rx)
    /\ UNCHANGED <<sent, sub_rx, all_token_ids, ws, subscribed, wire, quote>>

-----------------------------------------------------------------------------
(* The task.                                                               *)

\* The task has nothing to connect for until it is told of a market.
FirstBatch ==
    /\ ws = "Wait" /\ sub_rx # <<>>
    /\ all_token_ids' = <<Head(sub_rx)>>
    /\ sub_rx' = Tail(sub_rx)
    /\ ws' = "Connect"
    /\ UNCHANGED <<sent, subscribed, wire, quote, poly_rx, token_prices>>

\* Mutant: only the newest market is subscribed.
SubscribedLast == {Last(all_token_ids)}

\* What the subscription message asks for.
Subscription == Range(all_token_ids)

\* A connection is made and the subscription sent, which the exchange answers
\* with a snapshot of the books asked for.
Connected ==
    /\ ws = "Connect"
    /\ ws' = "Open"
    /\ subscribed' = Subscription
    /\ wire' = <<[m \in Subscription |-> quote[m]]>>
    /\ UNCHANGED <<sent, sub_rx, all_token_ids, quote, poly_rx, token_prices>>

\* The subscription cannot be sent.  This is only logged: the task goes on to
\* read a connection on which nothing comes.
SubscribeFails ==
    /\ ws = "Connect"
    /\ ws' = "Open"
    /\ UNCHANGED <<sent, sub_rx, all_token_ids, subscribed, wire, quote, poly_rx, token_prices>>

ConnectFails ==
    /\ ws = "Connect"
    /\ ws' = "Sleep"
    /\ UNCHANGED <<sent, sub_rx, all_token_ids, subscribed, wire, quote, poly_rx, token_prices>>

\* Mutant: what was not read is read on the next connection.
DropKeepsWire == ws' = "Sleep" /\ subscribed' = {} /\ wire' = wire

\* The task leaves the connection for its pause of a second: what it has not
\* read is lost.
Drop == ws' = "Sleep" /\ subscribed' = {} /\ wire' = <<>>

\* Mutant: the new market replaces the old ones.
NewTokensReplace ==
    /\ ws = "Open" /\ sub_rx # <<>>
    /\ all_token_ids' = <<Head(sub_rx)>>
    /\ sub_rx' = Tail(sub_rx)
    /\ Drop
    /\ UNCHANGED <<sent, quote, poly_rx, token_prices>>

\* Mutant: the task stays on the old connection.
NewTokensStay ==
    /\ ws = "Open" /\ sub_rx # <<>>
    /\ all_token_ids' = Append(all_token_ids, Head(sub_rx))
    /\ sub_rx' = Tail(sub_rx)
    /\ UNCHANGED <<sent, ws, subscribed, wire, quote, poly_rx, token_prices>>

\* There is a new market: the task reconnects with the longer list.
NewTokens ==
    /\ ws = "Open" /\ sub_rx # <<>>
    /\ all_token_ids' = Append(all_token_ids, Head(sub_rx))
    /\ sub_rx' = Tail(sub_rx)
    /\ Drop
    /\ UNCHANGED <<sent, quote, poly_rx, token_prices>>

\* A ping cannot be sent, or the connection ends or fails.
Disconnected ==
    /\ ws = "Open"
    /\ Drop
    /\ UNCHANGED <<sent, sub_rx, all_token_ids, quote, poly_rx, token_prices>>

\* The events of a message, in one of the orders a message can have.
Events(msg) ==
    LET ms == SetToSeq(DOMAIN msg)
    IN  [i \in DOMAIN ms |-> [market |-> ms[i], price |-> msg[ms[i]]]]

\* A message is read, and an event sent for every market in it.
ReadMessage ==
    /\ ws = "Open" /\ wire # <<>>
    /\ LET es == Events(Head(wire)) IN
       /\ Len(poly_rx) + Len(es) <= MaxEvents
       /\ poly_rx' = poly_rx \o es
    /\ wire' = Tail(wire)
    /\ UNCHANGED <<sent, sub_rx, all_token_ids, ws, subscribed, quote, token_prices>>

\* The pause before the next attempt to connect is over.
Wake ==
    /\ ws = "Sleep"
    /\ ws' = "Connect"
    /\ UNCHANGED <<sent, sub_rx, all_token_ids, subscribed, wire, quote, poly_rx, token_prices>>

-----------------------------------------------------------------------------
(* The exchange.                                                           *)

\* The price of a market changes.  Who is subscribed to it is told.
Requote(m, p) ==
    /\ quote[m] # p
    /\ quote' = [quote EXCEPT ![m] = p]
    /\ IF m \in subscribed
       THEN Len(wire) < MaxWire /\ wire' = Append(wire, [n \in {m} |-> p])
       ELSE UNCHANGED wire
    /\ UNCHANGED <<sent, sub_rx, all_token_ids, ws, subscribed, poly_rx, token_prices>>

Next ==
    \/ Activate \/ TakeIn
    \/ FirstBatch \/ Connected \/ SubscribeFails \/ ConnectFails
    \/ NewTokens \/ Disconnected \/ ReadMessage \/ Wake
    \/ \E m \in Markets, p \in Quotes : Requote(m, p)

\* The loop and the task run when they can, and select! chooses among the
\* branches that are ready at random.  A connection on which nothing can be sent
\* fails at the next ping.  Attempts to connect succeed again and again, and some
\* connections last until something is read.
Fairness ==
    /\ WF_vars(TakeIn) /\ WF_vars(FirstBatch) /\ WF_vars(Wake)
    /\ WF_vars(subscribed = {} /\ Disconnected)
    /\ SF_vars(NewTokens) /\ SF_vars(ReadMessage) /\ SF_vars(Connected)

Spec == Init /\ [][Next]_vars /\ Fairness

-----------------------------------------------------------------------------
(* Properties.                                                             *)

\* Every variable has its type; there is a subscription, and there are messages,
\* only on an open connection.
TypeOK ==
    /\ sent \in 0..MaxMarkets
    /\ sub_rx \in Seq(Markets) /\ all_token_ids \in Seq(Markets)
    /\ ws \in {"Wait", "Connect", "Open", "Sleep"}
    /\ subscribed \in SUBSET Markets
    /\ wire \in Seq(Messages) /\ Len(wire) <= MaxWire
    /\ quote \in [Markets -> Quotes]
    /\ poly_rx \in Seq([market : Markets, price : Quotes]) /\ Len(poly_rx) <= MaxEvents
    /\ token_prices \in [Markets -> Quotes]
    /\ ws # "Open" => subscribed = {} /\ wire = <<>>

\* No market is lost, doubled or reordered between its activation and the list
\* the task subscribes to (polymarket.rs:144), however often it reconnects.
TokensInOrder == all_token_ids \o sub_rx = [i \in 1..sent |-> i]

\* A connection is subscribed to nothing, because the subscription was not sent,
\* or to all the markets the task knows: a market is not left out because it was
\* announced while the task was connecting or paused (polymarket.rs:136-146).
SubscriptionComplete == subscribed \in {{}, Range(all_token_ids)}

\* Nothing about a market is still on its way to the loop.
Delivered(m) ==
    /\ \A i \in DOMAIN wire : m \notin DOMAIN wire[i]
    /\ \A i \in DOMAIN poly_rx : poly_rx[i].market # m

\* While a market is subscribed, what the loop believes of its price is what the
\* exchange last said, once everything has been delivered: events left over from an
\* earlier connection do not overtake the snapshot of the present one.
PriceCurrent ==
    \A m \in subscribed :
        Delivered(m) /\ quote[m] # NoPrice => token_prices[m] = quote[m]

\* A price that no longer changes becomes known to the loop for every market
\* that was activated, after any connections lost and however it was announced.
PricesCatchUp ==
    \A m \in Markets, p \in Prices :
        <>[](m <= sent /\ quote[m] = p) => <>[](token_prices[m] = p)
=============================================================================
