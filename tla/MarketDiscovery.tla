-------------------------- MODULE MarketDiscovery --------------------------
(***************************************************************************)
(* The market discovery task spawned by main.rs, with market_discovery/    *)
(* slug.rs and gamma.rs, and the market_rx branch of the main loop that    *)
(* rotates an asset to the market found.                                   *)
(*                                                                         *)
(* A market is named by the timestamp of its slug, the second it opens; 0  *)
(* is no market.  The task prefetches the assets one after the other, each *)
(* with its own call of next_slug, so that a slow answer for one asset can *)
(* push the next one past the boundary.                                    *)
(***************************************************************************)
EXTENDS Integers, Sequences

CONSTANTS Assets,      \* cfg.assets, in order
          Interval,    \* cfg.market_interval_secs
          Advance,     \* prefetch_advance
          MaxRetries,  \* max_retries of prefetch_market
          MinEntryTime, MaxEntryTime,   \* params.min/max_entry_time_secs
          MaxBacklog,  \* bound: markets waiting for the main loop as time passes
          MaxTime      \* bound: the clock stops there

\* ASSETS names an asset once, which nothing checks: of two copies the second
\* would be sent the market the first has.
ASSUME AssetsAssumption == /\ Assets \in Seq(STRING) /\ Len(Assets) > 0
                           /\ \A i, j \in DOMAIN Assets : Assets[i] = Assets[j] => i = j
ASSUME TimingAssumption == /\ Interval \in Nat \ {0} /\ Advance \in Nat \ {0}
                           /\ MaxRetries \in Nat \ {0} /\ MaxTime \in Nat
                           /\ MaxBacklog \in Nat
                           /\ MinEntryTime \in Nat /\ MaxEntryTime \in Nat

VARIABLES
    now,        \* Utc::now(), in whole seconds
    task,       \* the discovery task: what it awaits, and its loop variables
    market_rx,  \* markets sent and not yet taken in by the main loop
    active,     \* active_markets: market and open_ts of each asset
    redeem_tx,  \* the last market_end handed to the redeemer, by asset
    missed      \* history: a prefetch failed, or ended after the market opened

vars == <<now, task, market_rx, active, redeem_tx, missed>>

AssetSet == {Assets[i] : i \in DOMAIN Assets}

-----------------------------------------------------------------------------
(* slug.rs.                                                                *)

NextSlug(t)      == (t \div Interval) * Interval + Interval
SecsRemaining(t) == (t \div Interval + 1) * Interval - t

-----------------------------------------------------------------------------
(* The task of main.rs.                                                    *)

\* Mutant: the loop prefetches as soon as a market has opened.
SleepNot(t) == t

\* The sleep at the top of the loop, with its saturating_sub.
SleepUntil(t) ==
    t + (IF SecsRemaining(t) > Advance THEN SecsRemaining(t) - Advance ELSE 0)

\* Mutants: no sleep at the end of the loop; a sleep to the end of the market
\* that was just prefetched.
RestNot(t)   == t
RestTwice(t) == t + SecsRemaining(t) + Interval

\* The sleep at the end of the loop.
RestUntil(t) == t + SecsRemaining(t)

Awaiting(pc, wake) ==
    [pc |-> pc, wake |-> wake, asset |-> 1, attempt |-> 0, market |-> 0]

Fetching(i) ==
    [pc |-> "Fetch", wake |-> now, asset |-> i, attempt |-> 0,
     market |-> NextSlug(now)]

Init ==
    /\ now \in 0..(Interval - 1)
    /\ task      = Awaiting("Sleep", SleepUntil(now))
    /\ market_rx = <<>>
    /\ active    = [a \in AssetSet |-> [market |-> 0, open_ts |-> 0]]
    /\ redeem_tx = [a \in AssetSet |-> [market |-> 0, market_end |-> 0]]
    /\ missed    = FALSE

WakeUp ==
    /\ task.pc = "Sleep" /\ now >= task.wake
    /\ task' = Fetching(1)
    /\ UNCHANGED <<now, market_rx, active, redeem_tx, missed>>

\* The body of the for loop has ended for one asset.
NextAsset ==
    task' = IF task.asset < Len(Assets) THEN Fetching(task.asset + 1)
                                        ELSE Awaiting("Rest", RestUntil(now))

\* fetch_market_info yields the market.
Fetched ==
    LET a == Assets[task.asset]
    IN  /\ task.pc = "Fetch"
        /\ NextAsset
        /\ market_rx' = Append(market_rx, [asset |-> a, market |-> task.market])
        /\ missed'    = (missed \/ now >= task.market)
        /\ UNCHANGED <<now, active, redeem_tx>>

\* Mutant: one try too many.
LastAttemptPlusOne(attempt) == attempt >= MaxRetries

LastAttempt(attempt) == attempt >= MaxRetries - 1

\* fetch_market_info fails: back off, or give the market up.
FetchFailed ==
    /\ task.pc = "Fetch"
    /\ IF LastAttempt(task.attempt)
       THEN NextAsset /\ missed' = TRUE
       ELSE /\ task' = [task EXCEPT !.pc = "Backoff", !.attempt = @ + 1,
                                    !.wake = now + 2 ^ task.attempt]
            /\ UNCHANGED missed
    /\ UNCHANGED <<now, market_rx, active, redeem_tx>>

Retry ==
    /\ task.pc = "Backoff" /\ now >= task.wake
    /\ task' = [task EXCEPT !.pc = "Fetch"]
    /\ UNCHANGED <<now, market_rx, active, redeem_tx, missed>>

LoopAgain ==
    /\ task.pc = "Rest" /\ now >= task.wake
    /\ task' = Awaiting("Sleep", SleepUntil(now))
    /\ UNCHANGED <<now, market_rx, active, redeem_tx, missed>>

-----------------------------------------------------------------------------
(* The main loop.                                                          *)

\* market_rx: the previous market is handed to the redeemer with the end that
\* open_ts gives it, and a manager that opens now is installed.
MarketRx ==
    /\ market_rx # <<>>
    /\ LET a    == Head(market_rx).asset
           prev == active[a]
       IN  /\ redeem_tx' = IF prev.market = 0 THEN redeem_tx
                           ELSE [redeem_tx EXCEPT ![a] =
                                   [market     |-> prev.market,
                                    market_end |-> prev.open_ts + Interval]]
           /\ active' = [active EXCEPT ![a] =
                           [market |-> Head(market_rx).market, open_ts |-> now]]
    /\ market_rx' = Tail(market_rx)
    /\ UNCHANGED <<now, task, missed>>

\* evaluate_entry: the check of the entry window.
EntryWindow(a) ==
    /\ active[a].market # 0
    /\ now - active[a].open_ts \in MinEntryTime..MaxEntryTime

-----------------------------------------------------------------------------
\* Timers are punctual to the second; only the answers of Gamma take time.
Elapse ==
    /\ now < MaxTime /\ Len(market_rx) <= MaxBacklog
    /\ task.pc = "Fetch" \/ now < task.wake
    /\ now' = now + 1
    /\ UNCHANGED <<task, market_rx, active, redeem_tx, missed>>

Next == \/ WakeUp \/ Fetched \/ FetchFailed \/ Retry \/ LoopAgain
        \/ MarketRx \/ Elapse

Spec == Init /\ [][Next]_vars

-----------------------------------------------------------------------------
(* Properties.                                                             *)

Entries == [asset: AssetSet, market: Nat]

\* Every variable has its type; a fetch is tried at most MaxRetries times.
TypeOK ==
    /\ now  \in Nat
    /\ task \in [pc: {"Sleep", "Fetch", "Backoff", "Rest"}, wake: Nat,
                 asset: DOMAIN Assets, attempt: 0..(MaxRetries - 1), market: Nat]
    /\ market_rx \in Seq(Entries)
    /\ active    \in [AssetSet -> [market: Nat, open_ts: Nat]]
    /\ redeem_tx \in [AssetSet -> [market: Nat, market_end: Nat]]
    /\ missed    \in BOOLEAN

\* The rotations of an asset: steps in which it gets another manager.
Rotates(a) == active'[a] # active[a]

\* An asset is rotated to later markets only, whatever the delays and the
\* failures of Gamma: no market is activated twice, and so none is handed to
\* the redeemer again after it has been redeemed.
RotatesForward ==
    [][\A a \in AssetSet : Rotates(a) => active'[a].market > active[a].market]_vars

\* As long as every prefetch succeeded before its market opened, no market of
\* an asset is left out: the two sleeps of the loop lead from each boundary to
\* just before the next.
ConsecutiveMarkets ==
    [][\A a \in AssetSet :
          Rotates(a) /\ active[a].market # 0 /\ ~missed
          => active'[a].market = active[a].market + Interval]_vars

\* A manager is never replaced more than Advance before the end of its own market,
\* however late the answers of Gamma come and however far the main loop lags
\* behind the channel.  Nothing better holds: a manager activated late is replaced
\* before its own force-close window, which is counted from the activation.
NotReplacedEarly ==
    [][\A a \in AssetSet : Rotates(a) /\ active[a].market # 0
                           => now >= active[a].market + Interval - Advance]_vars

\* The end by which the redeemer times a market is counted from its activation,
\* which may be early: never by more than Interval, although an answer can come
\* so late that the next asset is given the market after the next, and not by
\* more than Advance as long as every prefetch came in time.
HandedOverOnTime ==
    \A a \in AssetSet : redeem_tx[a].market # 0 =>
        /\ redeem_tx[a].market_end >= redeem_tx[a].market
        /\ ~missed => redeem_tx[a].market_end >= redeem_tx[a].market + Interval - Advance

-----------------------------------------------------------------------------
(* What the repository says and the code does not do.                      *)

\* params.rs:18: min_entry_time_secs is the earliest time after market open at
\* which an entry is considered.
EntryAfterMarketOpen ==
    \A a \in AssetSet : EntryWindow(a) => now - active[a].market >= MinEntryTime
=============================================================================
