# A formal model of the two-leg trading bot

This directory holds TLA+ modules that model the bot under `src/src`, TLC
configurations that check them on small instances, and proofs, checked by the
TLA+ proof system, of the results that hold for every instance. Paths such as
`main.rs:201` are relative to `src/src`.

    tlc -workers 2 -config rotation.cfg MCTwoLegBot.tla     # a run
    tlapm TwoLegBot_proofs.tla                              # the proofs

`PROJECT.json` lists the runs, the source lines of every definition, the mutants
that show that each property can fail, the findings, the hazards and the theorems.

## 1. The system

The bot trades five-minute binary markets. For each asset there is one current
market with two tokens, Yes and No, of which one will pay a dollar. It buys one
token when the underlying moves (Leg1), at once places a limit order for the
other (Leg2) at a price at which the pair costs less than a dollar, and sells
Leg1 shortly before the market ends when Leg2 has not been filled.

| Part | State | Operations | Talks to | Modelled in |
|---|---|---|---|---|
| Main loop, `main.rs` | `active_markets`, `token_prices` | one `tokio::select!` with branches for order results, a ticker, new markets, Hyperliquid and Polymarket events | everything, by unbounded channels | `TwoLegBot`, `HedgedTrade`, `MarketDiscovery` |
| Leg manager, `strategy/leg_manager.rs` | a `LegState` | `on_signal`, `on_leg1_fill`, `on_leg1_rejected`, `on_tick`, `on_leg2_fill`, `on_leg2_rejected` | called by the loop, returns a `LegAction` | `LegManager`; `HedgedTrade` |
| Order executor, `execution/order_builder.rs` | cached CLOB client | one task per request, one result per request | requests from and results to the loop, the exchange | `TwoLegBot`, `ClobClient`, `OrderExecution` |
| Risk manager, `execution/risk.rs` | open positions per asset, halt, cooldown | `check_entry`, `on_position_opened`, `on_position_closed`; halt and cooldown are never activated | called by the loop | `TwoLegBot`, `HedgedTrade` |
| Entry signal, `strategy/signal.rs` | none | `evaluate_entry` | called by the loop | `PriceSignal` (price and book), guards of `TwoLegBot`, `MarketDiscovery` (time and token price) |
| Market discovery, `market_discovery/` and a task of `main.rs` | loop variables | sleep to 30 s before a boundary, prefetch each asset with back-off, sleep to the boundary | Gamma API, `market_tx` to the loop | `MarketDiscovery` |
| Redeemer, `execution/redeemer.rs` | queue of pending redemptions | `Schedule`, `tick` every 15 s | commands from the loop, the chain | `Redeemer`, `Redemption` |
| Polymarket feed, `feeds/polymarket.rs` | accumulated token ids | subscribes to all of them, reconnects whenever a market is added or the connection fails | token ids from the loop, events to it | `PolyFeed` |
| Ring buffer, `utils/ring_buffer.rs` | slots, head, length | `push`, `clear`, `latest`, `oldest`, `iter` | used by momentum | `RingBuffer` |
| Hyperliquid feed, `feeds/hyperliquid.rs` | the connection | subscribes once per connection, reads books, pauses 3 s after a lost connection | events to the loop | `PriceSignal` |
| Price aggregator, `indicators/price_aggregator.rs`; book imbalance | last and open price of each asset | `update_hl_mid`, `snapshot_open_price`, `get_state`; `update` of the imbalance | called by the loop | `PriceSignal` |
| Chainlink feed, `feeds/chainlink.rs` | the connection | as above; a task of `main.rs` drops what it sends | nothing | `PriceSignal` |
| Momentum, `indicators/momentum.rs` | samples in a ring buffer | updated with every mid; nothing reads it | called by the loop | its buffer |
| Order tracker, `execution/tracker.rs` | profit and loss counters | `record_trade`, which nothing calls | read by the loop | no |
| Portfolio file, configuration | none of interest | output, input | | no |

What is hard here is that a result names only its asset while the markets of an
asset follow one another, that orders, answers, the clock, rotations and book
events interleave freely, that answers get lost, that three tasks keep their
own sleeps and clocks, that each new market interrupts the prices of all, and
that concurrent orders share a client whose credentials can be replaced under
them. What must hold: an order is answered once and taken once, unless an error misleads the code;
a leg is not bought twice; a lock is a hedge and earns what it books; a
force-close sells what Leg1 bought and only once; positions are counted
correctly; a signal is a move of the present market; each market follows the one
before it; and every market is redeemed or given up after its attempts.

## 2. The modules

**`LegManager`** is a library of operators over records. Each method of the Rust
type is an operator from the record before the call to the record after. The
`LegAction` a method returns is represented by a predicate (`ForceCloseDue`,
`ReplacesLeg2`) and an operator that builds the order. Money is in micro-dollars, so
that 2 % of every price is exact. An amount of shares is named by the Leg1 order
that produced it: the logic never adds amounts. The executor floors amounts to
0.01 shares; that remainder is left out.

**`TwoLegBot`** composes the managers with the loop, the position counts, the
executor and the exchange. `orders[a][n]` is the n-th order placed for asset `a`,
with what became of it on the exchange (`book`), the `OrderResult` sent back
(`reply`) and the market whose manager got it (`seenBy`). An order without a reply
is in flight; one with a reply and `seenBy = 0` waits in the result channel, from
which results are taken in any order, because each comes from a task of its own.
Leg1 and the force-close are FOK orders, matched whole or not at all; Leg2 is a limit
order, of which some shares may be matched at once (`Part`, reported `Filled`) and
the others later or never. `Unknowing` are the replies that may go with an order the
exchange took without the executor's knowing: an error, or a rejection of the second
post after a misread error (`ClobClient` below).

| Action | Code |
|---|---|
| `Fill`, `Rest`, `Refuse` | the executor task of one request: matched, live or delayed, or refused; `Err` may go with each of the three, `Rejected` with the first two |
| `RestingFill` | the exchange matches what rests of an order, all or some; no code is told |
| `Leg1Filled`, `Leg1Refused`, `Leg2Filled`, `Leg2Rejected`, `ForceCloseFilled`, `Logged` | the arms of the result branch, `main.rs:200-274`, with the order the arm sends |
| `Activate` | the `market_rx` branch, `main.rs:336-380` |
| `HlSignal` | a Hyperliquid book for which `evaluate_entry` fires, `main.rs:402-474` |
| `PolyBook` | a book of the opposite token when the force-close is due, `main.rs:480-517` |
| `Elapse` | the clock |

An order that the exchange takes twice is not represented here: what it adds is the
same order once more, under the same answer.

**`HedgedTrade`** is what the core promises, without managers, executor and clock: the
stage of the trade in the current market of each asset, and the count of open positions.

    Flat --Buy--> Buying --Bought--> Exposed --Hedge--> Hedged
      ^--Refused--'                     '------Sell--> Selling --Sold--> Sold

A trade is bought at most once, only while there is room in the count, and is
then hedged or sold, not sold after it was hedged, and sold once. `Stray` is the result of an
earlier market: it leaves the stage `Mixed` until the next `Rotate`, but may change the count only by one
fill and never below zero. `StageOf` of `TwoLegBot` tells the stage from the orders the core placed and
the results it took in, not from the managers' states: that the managers place
the orders of such a trade is what `IsHedgedTrade` claims. The stages are those of the *reports*:
a Leg2 order that was live and then filled unnoticed leaves the trade `Exposed`
(`close_after_fill` below).

**`ClobClient`** looks inside those tasks. A request is at a step `pc` of
`execute_leg1`, `execute_leg2` or `execute_force_close`; a client is named by the
generation of the credentials it carries, of which the exchange accepts the
newest (`valid`).

| Action | Code |
|---|---|
| `Request`, `TakeIn` | the loop sends the request, and takes its result in |
| `Unpostable` | the checks before posting, which end in an error |
| `GetClient` | `get_client`: the cached client, or authentication; the lock is not held meanwhile |
| `Issue`, `IssueFails`, `Store` | `authenticate_fresh`, and the second lock that overwrites the cache with what this task got |
| `BuildFails`, `Responds`, `PostFails`, `AnswerLost` | building and signing; `post_order` with a response, with an error of an order not taken, and with an error of an order taken; either error may read like one of authentication |
| `Revoke` | the credentials are replaced outside of the bot |

An error whose text contains 401, 403 or UNAUTHENTICATED anywhere leads to a new client
and a second post (`AfterError`, `IsAuthError`). The text says nothing about whether the
order was taken (a gateway's error page, an id or an amount may contain the digits), so
the model lets both kinds of error go with an order that was taken. Such an order may then be
taken twice, or be reported `Rejected` because its second post was; `TwiceOnlyMisread`
says that this is the only way, and that there is no third time. A client lost to a race
may carry older credentials than the one it overwrites, so that the cache can go
backwards; `CacheCatchesUp` says that it comes right again.

**`OrderExecution`** is what the loop may rely on: each request gets one answer, and the
pair of the order's fate and the answer is `Known` (they agree), `Lost` (an error, which says
nothing) or `Misread` (the order was posted again although it had been taken). `ClobClient`
implements it. `Known`, `Lost` and the rejections of `Misread` are the outcomes of `Fill`, `Rest` and `Refuse` in
`TwoLegBot`, which is why `TwoLegBot` may treat a request as one step.

**`PriceSignal`** follows an order book from Hyperliquid to a signal.

| Action | Code |
|---|---|
| `Connected`, `SubscribeFails`, `ConnectFails`, `FallsSilent`, `Disconnected`, `Wake` | `run_hyperliquid_feed`; a subscription that cannot be written is only logged, and that nothing more arrives is not noticed |
| `ReadBook`, `TakeBook` | a message becomes an event; the loop's branch for it up to `evaluate_entry` and `on_signal` |
| `Activate`, `Leg1Refused` | the loop takes the open price of a new market; the manager is idle again |
| `ChainlinkConnects`, `ChainlinkDisconnects`, `ChainlinkReport`, `Drain` | the Chainlink task, and the one that drops its prices |
| `Requote` | the exchange |

A book is two sequences of price and size. Mids are counted twice (bid plus ask)
and ratios compared by multiplying out, so that there are no fractions; the
rounding of floating point is left out. The time window and the token price are open
here, and the price and the book are open in `TwoLegBot`.

**`MarketDiscovery`** models the discovery task with its two sleeps and the
`market_rx` branch. A market is named by the second it opens, as in its slug.
`Fetched` and `FetchFailed` answer one request to Gamma, after any time.

**`Redeemer`** models the task with one action per step of `tick`: `StartTick`
reads the clock, `Keep` and `Attempt` pop an entry, `Redeemed` and `Failed` answer
a transaction, `EndTick` replaces the queue. `paid` and `resolved` are the chain's.
A transaction that reports an error may have been executed; the market is then redeemed
again, and given up after its last attempt although it is paid, of which the code cannot know.

**`Redemption`** is what the redeemer promises, without queue, tick and timer: where each market
stands and how often it has failed. Transactions are sent one at a time (`Attempt`), the one after k
failures not before `Earliest(c, k)`; the first success (`Succeed`) or the last failure (`Fail`)
concludes the market. In `Redeemer` a market's failures are those its entry counts
(`FailuresOf`), wherever the entry is, so that an entry that lost or repeated its count would be no step of `Redemption`.

**`PolyFeed`** models the task `run_poly_clob_ws` between two channels of the loop:
`sub_rx`, by which it is told of new markets, and `poly_rx`, by which it sends
prices. `ws` says where the task is (waiting for the first market, connecting,
reading, pausing). `Connected`, `SubscribeFails` and `ConnectFails` are the outcomes
of an attempt; `NewTokens`, `ReadMessage` and `Disconnected` are the branches of the
inner `select!`; `Activate` and `TakeIn` are the loop's ends of the channels.
`subscribed`, `wire` and `quote` are the exchange's, which answers a subscription
with a snapshot and then reports changes. The two tokens of a market go together.
Book, trade and best-ask messages all set the loop's price and are not told
apart; messages are well formed.

**`RingBuffer`** has the buffer's operations as actions and its readers as
operators. **`SlidingWindow`** is the abstract specification, the last `Capacity`
values pushed, which `RingBuffer` implements when the window is what `iter` yields.

`MCTwoLegBot`, `MCMarketDiscovery`, `MCRedeemer` and `MCPriceSignal` define the
constants of the small instances; `ClobClient`, `PolyFeed` and `RingBuffer` are
checked directly. Each component's theorems are in a module named after it with
`_proofs`; `QueueLemmas` has the facts about queues that three of them share.

`TwoLegBot` lets a manager be replaced at any age. `MarketDiscovery` shows what is
true of the time of a rotation (`NotReplacedEarly`): it comes at most `Advance` before the end of the old
market. The manager may still be young, when its own market was activated late, and the
rotation may come before its force-close window; what then happens to its
legs is what `HoldingsRedeemed` and `Leg2Resolves` are about.

## 3. The runs

| Run | Question | Bounds |
|---|---|---|
| `rotation` | `OneOrderPerLeg`, `LockedIsHedged`, `ForceCloseSellsLeg1`, `NoSecondHedge`, `PositionLimit`, `PositionAccounting`, `IdleIsFlat`, `HoldingsRedeemed`, `IsHedgedTrade`: are legs, force-close and count consistent across a rotation, do they make one hedged trade per market, and is what was bought handed to the redeemer? | 1 asset, 2 markets, 5 orders, 1 price, interval of 1 with entry at 0 and force-close at 1, at most one order taken without the executor's knowing |
| `resolution` | `LockedMargin`, `Leg2Resolves`, `TradeConcludes`: what does a lock earn, and does every trade conclude? | 2 markets, 4 orders, so one trade in either market, 3 fill prices, interval of 2 with force-close from 1 |
| `discovery` | `RotatesForward`, `ConsecutiveMarkets`, `NotReplacedEarly`, `HandedOverOnTime`: which markets follow, when, and by what end are they redeemed? | 2 assets, interval 5, advance 2, 3 tries, time up to 19, at most 2 markets queued at the loop |
| `redemption` | `HeldOnce`, `IsRedemption`, `Concluded`: is every market kept, attempted when and as often as promised, and concluded? | 2 markets, 3 attempts, delays of 2, ticks of at most 3, time up to 25 |
| `feed` | `TokensInOrder`, `SubscriptionComplete`, `PriceCurrent`, `PricesCatchUp`: does the loop come to know the price of every market? | 2 markets, 2 prices, 2 messages unread, 2 events waiting |
| `window` | `ReadersAgree`, `IsSlidingWindow`: is the ring buffer a sliding window? | 3 values, capacity 4 |
| `orders` | `TwiceOnlyMisread`, `FreshRetry`, `IsOrderExecution`, `EveryRequestAnswered`, `CacheCatchesUp`: do concurrent orders with a shared client give each request one true answer? | 2 requests at a time, any number in sequence; 3 generations of credentials |
| `prices` | `PriceCurrent`, `SignalIsMove`, `PriceCatchesUp`: is a signal a move of the present market's price? | 1 asset, 4 books, 2 markets, 1 message unread, 2 events, 1 Chainlink price waiting |
| `stale_result`, `part_locked`, `close_after_fill`, `early_entry` | the four findings below | as the run they derive from |

Why these are enough. Assets share nothing but the clock in `TwoLegBot`, so one
is checked; in `MarketDiscovery` they share the task, so there are two. Two markets
give one rotation, which is all a stale result needs. Five orders are a full trade with a
repeated Leg2 and a force-close, and a second Leg1 after it; the last order number
is reserved for the force-close, and signals need `SignalRoom`, so that the bound
does not keep a position from being closed. The constraint
`FirstSideYes` fixes the side of the first order: the sides are interchangeable.
The constraint `OneMisled` of `rotation` lets one order of a behaviour be taken without the
executor's knowing; that order may be any, and the proofs have no such bound. Only the
order of the deadlines matters to the properties: an interval of 1 has the time before the
force-close window and the window, one of 2 also its beginning and its end.
The prices of `resolution` are one whose Leg2 limit lies on the grid (where
floating-point flooring may lose a tick), one just above it, and one for which
the limit is below a tick, so that the order is never posted. In `discovery` the
time covers more than three markets, and one try can take longer than the
interval. In `redemption` a tick can outlast the timer, so that timer ticks are
skipped. In `feed` the second market
can be announced at every point of the first one's connection, and a price can change
while the snapshot is unread and an older event waits. Capacity 4 in `window` wraps
around any number of times. In `orders` two tasks can find the cache empty together, and a slow
one can store credentials two generations old over the newest. The books of
`prices` are a calm one, one that rises and one that falls by 297 basis points with
an imbalance that fits, and one without bids; the rising book has a third
level which would tip its imbalance if it were counted. Assets share nothing there
but the connection. One unit of time stands for a second; only the order of the
deadlines matters. Timers are taken to be punctual to the second. The runs of the three modules with a clock set
`CHECK_DEADLOCK FALSE`, because the bounded clock and order numbers let them stop; the others cannot.

**Fairness.** `TwoLegBot!Fairness`: time passes; tokio polls every ready branch of
the `select!` and every task, so that each order is answered in some way and
each result is taken in (all of them, since finitely many orders are placed). No signal,
no rotation and no match of a resting order is relied upon. The two liveness properties need one
thing more, which the code does not ensure and which is therefore stated as a condition of its
own, `BooksKeepComing`: a force-close that stays due finds a book of the opposite
token in the end (`on_tick` is called from a book event only, `main.rs:500`).
`Redeemer!Fairness`: time passes, the task runs when
it can, and a transaction is answered one way or the other, for which `redeemer.rs:225` sets no timeout;
neither the rotation nor the oracle is relied upon. `PolyFeed!Fairness`: the loop, the task and its pauses go on;
`select!` chooses at random among the branches that are ready, so that one which is
ready again and again is taken (strong fairness); a ping fails on a connection on
which the subscription could not be sent; and attempts to connect succeed, and
connections last until something is read, again and again, without which there
are no prices. `PriceSignal!Fairness`: the task and the loop run, attempts to connect succeed and
connections last until something is read, again and again. Hyperliquid's task sends no ping, so that
nothing ends a connection that misses a coin or has fallen silent; no such end is assumed, and
`PriceCatchesUp` has it as its condition.
`ClobClient!Fairness`: tasks run, and each call of the exchange ends in some way, which is
assumed: `order_builder.rs` sets no timeout. That is all `EveryRequestAnswered` needs. `CacheCatchesUp` also needs that
orders keep coming, that not all of them fail before they are posted, and that
authentications and refusals of old credentials reach the bot again and again
(`OrdersKeepComing`).

**"Clean" markets.** Most invariants of `TwoLegBot` are about a market whose manager
has been given results of its own orders only. The run `stale_result` shows that the
code does not ensure it; the invariants say that nothing else goes wrong.
`PositionAccounting` holds without this condition.

### What the code does otherwise than it says

* `stale_result`: `main.rs:201` finds the manager by asset. A result that arrives
  after a rotation is applied to the next market. `leg_manager.rs:64` speaks of "a
  single market position".
* `part_locked`: a Leg2 limit order that is matched in part is reported `Matched` with the
  shares taken (`order_builder.rs:401-406`), which `main.rs:231` drops: the position is locked,
  as if all shares of Leg1 were hedged. `leg_manager.rs:24` says "position is locked for
  guaranteed payout". `LockedIsHedged` states what does hold.
* `close_after_fill`: a Leg2 order that was reported live (`main.rs:235`) and matched later is not
  noticed, and Leg1 of the hedged position is sold as "unfilled" (`leg_manager.rs:198`).
* `early_entry`: `open_ts` is the time of activation, up to 30 s before the market
  opens. Entries are considered 30 s after the opening, not 60 (`params.rs:18`). The open price
  is taken at the same moment (`main.rs:357`), not "when market opens"
  (`price_aggregator.rs:15`): the move of a signal (`SignalIsMove`) is counted from there.
  By the same shift the force-close and the redemption start early: 30 s after
  prefetches in time, and up to a whole interval after an answer so late that the next asset is
  given the market after the next (`HandedOverOnTime`, proved for all constants; the
  model reaches the bound). The redeemer waits 120 s from that end (`redeemer.rs:24`), and
  counts an attempt made too early like any other.

Read off the code, and not a run: a lock does not call `on_position_closed`
(`main.rs:232`), although `risk.rs:105` says "locked, force-closed, or expired", so that locked
positions use the limit up for good (`PositionAccounting` says what is counted); a force-close that fails is not sent again
(`main.rs:266`); a live or delayed Leg1 blocks its manager until the rotation
(`main.rs:226`, the exception in `TradeConcludes`); the price reported for a
sale is shares per dollar (`order_builder.rs:404`), which is only logged. The Leg2
limit leaves out the fee on the slippage that `on_leg2_fill` charges
(`leg_manager.rs:133`), so that a lock can earn 0.0002 dollars a share less than
the margin of `params.rs:30`; `LockedMargin` bounds the shortfall. The aggregator's
comments call Chainlink the authoritative source (`price_aggregator.rs:11`, `:33` and `:106`), but
`main.rs:83` drops its prices, so that Hyperliquid's mid is the only one; `PriceCurrent` and
`SignalIsMove` are about that mid. `clear_open_prices` is to be "called when rotating"
(`price_aggregator.rs:117`) and has no caller: an asset rotated before
any new price keeps the open price of the activation. A book with one side empty
leaves the price as it is and has an imbalance of one (`main.rs:386`), so that an
older price can meet a newer book in `evaluate_entry`.

## 4. The proofs

The proofs assume only the named `ASSUME`s of the modules: constants are naturals,
and the list of assets names each once. TLC
evaluates them in every run of the module.

**`TwoLegBot_proofs`.** `TypeCorrect` is the type invariant. The safety invariants
are not inductive: whether a Leg2 order may be repeated depends on the state of the
manager, which depends on which results it was given. `CoreInv` is, for each asset,
`MarketInv(mgr, orders, placed)`:

* `Sane`, unconditional: order numbers beyond `placed` are unused, and an order
  belongs to a market not later than the manager's;
* and if the market is clean, `Consistent`: `Known` (in each state, which orders
  exist and which of them are unanswered), `Single` (at most one unanswered order
  of each leg and one force-close), `BoughtLeg1` (a manager that recorded a Leg1
  fill recorded that of an order of its market that was filled, with its price, side
  and limit) and `Hedged` (a locked manager's Leg2 fill is that of an order for the
  opposite side and the same shares, matched at least in part).

Each method of the manager and each way an order changes has a lemma
(`SignalKeeps`, `Leg1FilledKeeps`, `AnswerKeeps`, ...) that `MarketInv` survives it;
`CoreStep` applies them to the actions. `CoreCorrect` is `Spec => []CoreInv`, and
`OneOrderPerLegHolds`, `NoSecondHedgeHolds`, `ForceCloseSellsLeg1Holds`,
`LockedIsHedgedHolds` and `LockedMarginHolds` follow from it. The last one also uses that a Leg2
order is not filled above its limit and that the profit falls with the price.

The second half of the module is about the positions. `PositionInv` adds to
`CoreInv`, for each asset: `Counted` (the count is the number of Leg1 fills less
the number of force-close fills taken in; each force-close sells a Leg1 fill that
was taken in, no two the same, and none the shares a manager in `Leg2Pending` holds),
`Limited` (a manager in `Leg1Pending` has room for the fill it waits for, as long as
results reach their own markets) and `Committed` (after a Leg1 answer
that is no refusal the manager of a clean market is not idle). That the count never falls below zero is
then a comparison of cardinalities: the map from force-closes to the fills they sell
is an injection (`ClosesBounded`). `PositionAccountingHolds`, `PositionLimitHolds`
and `IdleIsFlatHolds` follow. `HandedOver` says that the markets sent to the redeemer are exactly those
before the current one, whence `HoldingsRedeemedHolds`.

The last part is the refinement `RefinesHedgedTrade`, `Spec => Trade!Spec`. Guards of
the managers are about their states and the abstract stages about orders and results, so that a
second invariant is needed, `MatchInv`: in a clean market the manager's state agrees with what was
ordered and reported (`Agrees`), and therefore determines the stage (`StageByState`).
Each action has a lemma that it takes an agreeing market to an agreeing one by a step
of `HedgedTrade` or none (`SignalStage`, `Leg1FilledStage`, `CloseStage`, ...), with
`MixedStage` and `RotatedStage` for results of earlier markets and rotations; `StageStep` puts them
together. `CoreInv` gives what the orders of a clean market are, and `PositionInv` that a
reported sale has a position to count down (`Counts`).

**`MarketDiscovery_proofs`.** `DiscoveryInv` ties the markets sent to the place where the
task is: when it sleeps all of them have opened, and when it fetches those of the assets
still to come are earlier than the one fetched (`LatestOf`); a market is sent only when those
before it are ending (`Spaced`), and is ending for good (`Replaceable`); and while nothing was missed `InStep` says which
market exactly was sent last. The facts about boundaries
(`NextSlugIs`, `NextSlugUnique`, `NextSlugLater`) are about division, those about
the loop's queue (`SentInOrder`, `TakenInOrder`, `SentChained`, `TakenChained`) about
sequences. From it `RotatesForwardHolds`, `ConsecutiveMarketsHolds`, `NotReplacedEarlyHolds`.
`EndInv` bounds how far ahead of its opening a market can be, wherever it is on its way from the
task to the redeemer (`Near`), for `HandedOverOnTimeHolds`. The back-off of 2^k seconds is beyond
the provers' arithmetic; that it is a positive number (`PowerPositive`), which `DiscoveryTypeCorrect`
needs, is proved by counting the subsets of 1..k.
Two assumptions the code leaves to its configuration come out: that
no asset is listed twice, and that the prefetch is in advance at all; without the second the
loop would leave out every other market.

**`ClobClient_proofs`.** `ClientInv` says of each request that nothing of it has been taken
while it is worked on, unless it is at its second post after a misread error, and then once; that
its answer and what became of it are one of `Outcomes`; and that a
client of the second round is not older than the refusal of the first. `TwiceOnlyMisreadHolds` follows, and
`RefinesOrderExecution` is the refinement.

**`PriceSignal_proofs`.** `PriceInv`: the aggregator's prices are the last ones taken in and
the ones of the activation, and never Chainlink's; and of the events and messages on their
way, in a row, the last of each coin shows the exchange's book, or there is none
and the mid is the exchange's.

**`PolyFeed_proofs`.** `FeedInv` says the same of two queues whose elements differ: the last
message on the wire, if there is none the last event, if there is none either the loop's table carries
the exchange's price of a subscribed market.

**`Redeemer_proofs`.** `PaceInv` says of an entry, wherever it is held, that its
`redeem_after` is not before `Earliest(c, attempts)`. A failure is counted only in
a tick that found the entry due, so that the next time, counted from the clock
reading at the start of the tick, keeps the bound. `HeldInv` counts the copies of a market in
the channel, the queue, the awaited entry and the list of retries; each step moves a
copy or removes it (`TallySent`, `TallyReceived`, ...), so that `HeldOnceHolds`.
Both together give `RefinesRedemption`, `Spec => Promise!Spec`: a market that is held once has no
entry but the awaited one (`AwaitedEntry`), so that its failures are that entry's, and `PaceInv`
says that they were waited for; the steps of the queue leave the set of entries as it is
(`TickUnseen`).

**`RingBuffer_proofs`.** `RingInv` adds to the types that the slots in use hold
values. `WrapsAround` turns the remainder of an index into one subtraction; from it
`IterIs` says where the iterator finds its i-th value, and `PushRefines` that a push
shifts those places by one when the buffer is full. `RefinesSlidingWindow` is
`Spec => Window!Spec` for every capacity, `ReadersAgreeHolds` the agreement of the readers.

**Model-checked only.** The liveness properties `Leg2Resolves`, `TradeConcludes`,
`Concluded`, `PricesCatchUp`, `PriceCatchesUp`, `EveryRequestAnswered` and `CacheCatchesUp`: liveness under
fairness is out of the prover's reach. All other properties of passing runs, the four
refinements among them, are theorems.

## 5. What is not modelled

* Amounts of shares: flooring, how many shares a partial match takes, the amount a sale brings.
* An order taken twice, in `TwoLegBot`; `ClobClient` has it.
* Dry runs. The executor then reports a fill of Leg1 at 0.50 whatever price it was given
  (`order_builder.rs:143`), and the redeemer reports success without a transaction (`redeemer.rs:188`).
* Halt, cooldown and `execution/tracker.rs`: nothing calls `record_trade`,
  `activate_cooldown`, `check_daily_halt` or `reset_daily`, so that the totals stay 0 and
  `check_entry` reduces to the count, which `TwoLegBot` has.
* Momentum: nothing reads it. Its ring buffer is modelled.
* `execution/portfolio.rs` and the ticker that writes `state.json`: output only, read by nothing.
* The RTDS reader of `feeds/polymarket.rs`, which nothing starts, and malformed messages.
* `config.rs`: read once; its values are the CONSTANTS.
* `examples/setup_wallet.rs` and `examples/diagnose_clob.rs`: run by hand, one call after
  another, sharing no state with the bot.
* Restarts: the redeemer's queue and the managers are lost in one, and nothing is persisted, so that
  there is no recovery to model.

## 6. Plan

Done: the modules above, their runs, and a theorem for every property of a passing run that is
not a liveness property. What would add most next:

1. Amounts of shares as numbers, so that a partial match and its force-close can be settled.
2. `TwoLegBot` composed with `PolyFeed`, so that the quotes a force-close and a lock see are those
   the feed delivered.
