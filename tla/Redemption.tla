----------------------------- MODULE Redemption -----------------------------
(***************************************************************************)
(* What the redeemer promises of the markets handed to it, without queues, *)
(* ticks and timers: transactions are sent one at a time, the first of a   *)
(* market RedeemDelay after its end and each further one RetryDelay later  *)
(* at the earliest; a market is concluded by the first that succeeds or by *)
(* the MaxAttempts-th that fails, and never touched again.                 *)
(***************************************************************************)
EXTENDS Integers

CONSTANTS Conditions, MarketEnd, RedeemDelay, RetryDelay, MaxAttempts

VARIABLES now,
          status,     \* where each market stands
          failures,   \* the failed attempts of a market that is not redeemed
          paid        \* markets whose collateral has been collected

vars == <<now, status, failures, paid>>

Init == /\ now      = 0
        /\ status   = [c \in Conditions |-> "unscheduled"]
        /\ failures = [c \in Conditions |-> 0]
        /\ paid     = {}

\* The earliest time of the attempt after k failures.
Earliest(c, k) == MarketEnd[c] + RedeemDelay + k * RetryDelay

Becomes(c, from, to) == /\ status[c] = from
                        /\ status' = [status EXCEPT ![c] = to]

Schedule(c) == /\ Becomes(c, "unscheduled", "waiting")
               /\ UNCHANGED <<now, failures, paid>>

Attempt(c) == /\ \A d \in Conditions : status[d] # "attempting"
              /\ now >= Earliest(c, failures[c])
              /\ Becomes(c, "waiting", "attempting")
              /\ UNCHANGED <<now, failures, paid>>

Succeed(c) == /\ Becomes(c, "attempting", "redeemed")
              /\ failures' = [failures EXCEPT ![c] = 0]
              /\ paid' = paid \cup {c}
              /\ UNCHANGED now

\* The transaction may have been executed although it reports an error.
Fail(c) == /\ failures' = [failures EXCEPT ![c] = @ + 1]
           /\ Becomes(c, "attempting",
                      IF failures[c] + 1 = MaxAttempts THEN "given up" ELSE "waiting")
           /\ paid' \in {paid, paid \cup {c}}
           /\ UNCHANGED now

Elapse == now' = now + 1 /\ UNCHANGED <<status, failures, paid>>

Next == \/ \E c \in Conditions : Schedule(c) \/ Attempt(c) \/ Succeed(c) \/ Fail(c)
        \/ Elapse

Spec == Init /\ [][Next]_vars
=============================================================================
