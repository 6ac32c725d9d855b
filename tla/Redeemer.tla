------------------------------ MODULE Redeemer ------------------------------
(***************************************************************************)
(* execution/redeemer.rs: the task that redeems the tokens of markets that *)
(* are over, with the contract on the chain behind it.                     *)
(*                                                                         *)
(* The task's select! takes commands and timer ticks.  A tick works the    *)
(* pending queue off: it pops every entry, awaits the transaction of those *)
(* that are due and keeps the others for later.  It reads the clock once,  *)
(* when it starts, and no command is taken in while it lasts.              *)
(***************************************************************************)
EXTENDS Integers, Sequences, FiniteSets

CONSTANTS Conditions,   \* the markets' condition ids
          MarketEnd,    \* market_end_ts of each, as the main loop computes it
          RedeemDelay,  \* REDEEM_DELAY_SECS
          RetryDelay,   \* the 30 seconds between two attempts
          MaxAttempts,  \* the 10 attempts after which a market is given up
          Period,       \* the 15 seconds of the timer
          MaxLag,       \* bound: how late a market is scheduled after its end
          MaxTick,      \* bound: how long a tick can last
          MaxTime       \* bound: the clock stops there

ASSUME MarketsAssumption == MarketEnd \in [Conditions -> Nat]
ASSUME DelayAssumption   == /\ RedeemDelay \in Nat /\ RetryDelay \in Nat
                            /\ MaxAttempts \in Nat \ {0}
                            /\ Period \in Nat \ {0} /\ MaxLag \in Nat
                            /\ MaxTick \in Nat /\ MaxTime \in Nat

VARIABLES
    now,       \* Utc::now()
    timer,     \* when the interval ticks next
    rx,        \* Schedule commands sent and not yet received
    pending,   \* self.pending
    tick,      \* the running tick
    result,    \* history: how the redemption of a market ended
    resolved,  \* the chain: markets whose outcome has been reported
    paid       \* the chain: markets whose collateral has been collected

vars == <<now, timer, rx, pending, tick, result, resolved, paid>>

Pending == [condition_id: Conditions, redeem_after: Nat, attempts: 0..(MaxAttempts - 1)]

\* A running tick: its now, its retry_later, and the entry whose transaction it
\* awaits (a sequence of at most one).
Tick == [running: BOOLEAN, now: Nat, retry_later: Seq(Pending), awaited: Seq(Pending)]

NoTick == [running |-> FALSE, now |-> 0, retry_later |-> <<>>, awaited |-> <<>>]

Init ==
    /\ now      = 0
    /\ timer    = 0
    /\ rx       = <<>>
    /\ pending  = <<>>
    /\ tick     = NoTick
    /\ result   = [c \in Conditions |-> "unscheduled"]
    /\ resolved = {}
    /\ paid     = {}

-----------------------------------------------------------------------------
(* The main loop and the chain.                                            *)

\* main.rs sends the command when the asset is rotated to its next market,
\* once per market.
Schedule(c) ==
    /\ result[c] = "unscheduled" /\ now <= MarketEnd[c] + MaxLag
    /\ rx'     = Append(rx, c)
    /\ result' = [result EXCEPT ![c] = "scheduled"]
    /\ UNCHANGED <<now, timer, pending, tick, resolved, paid>>

\* The oracle reports the outcome some time after the market's end.
Resolve(c) ==
    /\ c \notin resolved /\ now >= MarketEnd[c]
    /\ resolved' = resolved \cup {c}
    /\ UNCHANGED <<now, timer, rx, pending, tick, result, paid>>

-----------------------------------------------------------------------------
(* The task.                                                               *)

Queued(s, c) == \E i \in DOMAIN s : s[i].condition_id = c

\* schedule_redemption.
Receive ==
    /\ ~tick.running /\ rx # <<>>
    /\ rx' = Tail(rx)
    /\ pending' = IF Queued(pending, Head(rx)) THEN pending
                  ELSE Append(pending, [condition_id |-> Head(rx),
                                        redeem_after |-> MarketEnd[Head(rx)] + RedeemDelay,
                                        attempts     |-> 0])
    /\ UNCHANGED <<now, timer, tick, result, resolved, paid>>

\* A late tick is not made up for (MissedTickBehavior::Skip).
NextTimer == timer + ((now - timer) \div Period + 1) * Period

StartTick ==
    /\ ~tick.running /\ now >= timer
    /\ timer' = NextTimer
    /\ tick'  = [running |-> TRUE, now |-> now, retry_later |-> <<>>, awaited |-> <<>>]
    /\ UNCHANGED <<now, rx, pending, result, resolved, paid>>

Due(p) == tick.now >= p.redeem_after

Idling == tick.running /\ tick.awaited = <<>>

Keep ==
    /\ Idling /\ pending # <<>> /\ ~Due(Head(pending))
    /\ pending' = Tail(pending)
    /\ tick'    = [tick EXCEPT !.retry_later = Append(@, Head(pending))]
    /\ UNCHANGED <<now, timer, rx, result, resolved, paid>>

\* execute_redeem is called for the entry and awaited.
Attempt ==
    /\ Idling /\ pending # <<>> /\ Due(Head(pending))
    /\ pending' = Tail(pending)
    /\ tick'    = [tick EXCEPT !.awaited = <<Head(pending)>>]
    /\ UNCHANGED <<now, timer, rx, result, resolved, paid>>

\* execute_redeem returns Ok(true): the transaction is confirmed.
Redeemed ==
    /\ tick.running /\ tick.awaited # <<>>
    /\ LET c == Head(tick.awaited).condition_id
       IN  /\ c \in resolved
           /\ paid'   = paid \cup {c}
           /\ result' = [result EXCEPT ![c] = "redeemed"]
    /\ tick' = [tick EXCEPT !.awaited = <<>>]
    /\ UNCHANGED <<now, timer, rx, pending, resolved>>

\* Mutant: the retry is not delayed.
RetriedAtOnce(p) == [condition_id |-> p.condition_id, redeem_after |-> p.redeem_after,
                     attempts |-> p.attempts + 1]

\* The entry for the next attempt.
Retried(p) == [condition_id |-> p.condition_id, redeem_after |-> tick.now + RetryDelay,
               attempts |-> p.attempts + 1]

\* Mutant: one attempt too many.
LastAttemptPlusOne(p) == p.attempts >= MaxAttempts

LastAttempt(p) == p.attempts + 1 >= MaxAttempts

\* execute_redeem returns Ok(false) or an Err: the entry is put back, or
\* dropped after the last attempt.  After an Err the transaction may have been
\* executed all the same.
Failed ==
    /\ tick.running /\ tick.awaited # <<>>
    /\ LET p == Head(tick.awaited)
           c == p.condition_id
       IN  /\ paid' \in {paid, paid \cup ({c} \cap resolved)}
           /\ IF LastAttempt(p)
              THEN /\ tick' = [tick EXCEPT !.awaited = <<>>]
                   /\ result' = [result EXCEPT ![c] = "given up"]
              ELSE /\ tick' = [tick EXCEPT !.awaited = <<>>,
                                           !.retry_later = Append(@, Retried(p))]
                   /\ UNCHANGED result
    /\ UNCHANGED <<now, timer, rx, pending, resolved>>

\* Mutant: the tick stops at the first entry that is not due yet.
DrainedToFirst == \A i \in {1} \cap DOMAIN pending : ~Due(pending[i])

\* The while loop ends when the queue is empty.
Drained == pending = <<>>

EndTick ==
    /\ Idling /\ Drained
    /\ pending' = tick.retry_later
    /\ tick'    = NoTick
    /\ UNCHANGED <<now, timer, rx, result, resolved, paid>>

-----------------------------------------------------------------------------
\* A tick starts on time, takes time only in a transaction and ends at last;
\* a command is received before the idle task lets time pass.
Elapse ==
    /\ now < MaxTime
    /\ IF tick.running THEN tick.awaited # <<>> /\ now < tick.now + MaxTick
                       ELSE rx = <<>> /\ now < timer
    /\ now' = now + 1
    /\ UNCHANGED <<timer, rx, pending, tick, result, resolved, paid>>

Next == \/ \E c \in Conditions : Schedule(c) \/ Resolve(c)
        \/ Receive \/ StartTick \/ Keep \/ Attempt \/ Redeemed \/ Failed \/ EndTick
        \/ Elapse

Spec == Init /\ [][Next]_vars

(***************************************************************************)
(* Fairness: time passes, the task runs whenever it can, and a transaction *)
(* is answered one way or the other.  Neither a rotation nor the oracle is *)
(* relied upon.                                                            *)
(***************************************************************************)
Fairness == /\ WF_vars(Elapse) /\ WF_vars(Receive) /\ WF_vars(StartTick)
            /\ WF_vars(Keep \/ Attempt \/ EndTick) /\ WF_vars(Redeemed \/ Failed)

FairSpec == Spec /\ Fairness

-----------------------------------------------------------------------------
(* Properties.                                                             *)

\* Every variable has its type; an entry has failed fewer than MaxAttempts
\* times.
TypeOK ==
    /\ now \in Nat /\ timer \in Nat
    /\ rx       \in Seq(Conditions)
    /\ pending  \in Seq(Pending)
    /\ tick     \in Tick
    /\ result   \in [Conditions -> {"unscheduled", "scheduled", "redeemed", "given up"}]
    /\ resolved \subseteq Conditions
    /\ paid     \subseteq Conditions

\* The places where the program holds market c: commands and queue entries.
Commands(c) == {i \in DOMAIN rx : rx[i] = c}
Entries(c)  == LET s == pending \o tick.awaited \o tick.retry_later
               IN  {i \in DOMAIN s : s[i].condition_id = c}

\* A market is held in exactly one place from the moment it is scheduled until
\* it is redeemed or given up, and nowhere before and after: rebuilding the
\* queue at the end of a tick neither loses nor doubles an entry.
HeldOnce ==
    \A c \in Conditions :
        Cardinality(Commands(c)) + Cardinality(Entries(c))
            = IF result[c] = "scheduled" THEN 1 ELSE 0

\* The entries of market c, wherever the program keeps them, and what they say of
\* its failed attempts.
Members(s)   == {s[i] : i \in DOMAIN s}
EntriesIn(c) == {p \in Members(pending) \cup Members(tick.awaited)
                        \cup Members(tick.retry_later) : p.condition_id = c}

AttemptsOf(entries) == IF entries = {} THEN 0
                       ELSE (CHOOSE p \in entries : TRUE).attempts

FailuresOf(c) == IF result[c] = "given up" THEN MaxAttempts
                 ELSE AttemptsOf(EntriesIn(c))

StatusOf(c) ==
    IF result[c] # "scheduled" THEN result[c]
    ELSE IF \E p \in Members(tick.awaited) : p.condition_id = c
         THEN "attempting" ELSE "waiting"

Promise == INSTANCE Redemption WITH status   <- [c \in Conditions |-> StatusOf(c)],
                                    failures <- [c \in Conditions |-> FailuresOf(c)]

\* The redeemer keeps that promise.  No attempt comes before its time, although
\* the clock is read once per tick and retries are counted from that reading,
\* not from the answer; and a market passes from queue to tick to queue without
\* its failures being forgotten or counted twice.
IsRedemption == Promise!Spec

\* A market that is scheduled is eventually redeemed or given up, also while
\* transactions are slow and other markets keep arriving.
Concluded == \A c \in Conditions : result[c] = "scheduled"
                                   ~> result[c] \in {"redeemed", "given up"}
=============================================================================
