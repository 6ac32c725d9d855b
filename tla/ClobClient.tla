----------------------------- MODULE ClobClient -----------------------------
(***************************************************************************)
(* execution/order_builder.rs: the tasks of the order executor, the        *)
(* authenticated client they share, and the exchange.                      *)
(*                                                                         *)
(* Every request runs in a task of its own.  cached_client is locked only  *)
(* while it is read or replaced, never across an await: tasks that find no *)
(* client authenticate side by side, and store what they get in any order. *)
(* A client is named by the generation of the credentials it carries; the  *)
(* exchange accepts the newest generation only.                            *)
(*                                                                         *)
(* A dry run answers every request at once and uses no client.             *)
(***************************************************************************)
EXTENDS Integers

CONSTANTS Requests,   \* requests that may be worked on at the same time
          MaxCreds    \* bound: generations of credentials

ASSUME CredsAssumption == MaxCreds \in Nat \ {0}

VARIABLES
    valid,    \* the exchange: generation of the credentials it accepts
    cache,    \* cached_client: NoClient, or the generation of the client
    task,     \* the task of each request
    posted    \* the exchange: what it did with the orders of each request

vars == <<valid, cache, task, posted>>

NoClient == 0

(***************************************************************************)
(* A task: what it does next, the client it holds, whether it has come to  *)
(* the second post, and its result.  since and error are history: the      *)
(* newest credentials when the first post failed, and the text of the      *)
(* error that led to the second one.                                       *)
(***************************************************************************)
Steps == {"Idle", "Start", "Authenticate", "Store", "Post", "Answered"}

NewTask(pc) == [pc |-> pc, client |-> NoClient, second |-> FALSE,
                reply |-> "None", since |-> NoClient, error |-> "None"]

NothingPosted == [status |-> "Unsent", times |-> 0]

\* main.rs calls warm before the executor is spawned: the first
\* authentication has succeeded or failed when the first request comes.
Init ==
    /\ valid  = 1
    /\ cache  \in {NoClient, valid}
    /\ task   = [r \in Requests |-> NewTask("Idle")]
    /\ posted = [r \in Requests |-> NothingPosted]

-----------------------------------------------------------------------------
(* The request and its result.                                             *)

At(r, pc) == task[r].pc = pc

\* The task ends: what it held is gone.
Answered(t, reply) == [pc |-> "Answered", client |-> NoClient, second |-> FALSE,
                       reply |-> reply, since |-> NoClient, error |-> t.error]

\* order_tx.send: the executor spawns a task.
Request(r) ==
    /\ At(r, "Idle")
    /\ task'   = [task EXCEPT ![r] = NewTask("Start")]
    /\ posted' = [posted EXCEPT ![r] = NothingPosted]
    /\ UNCHANGED <<valid, cache>>

\* execute_leg2 gives up on a price or an amount that is off the grid.
Unpostable(r) ==
    /\ At(r, "Start")
    /\ task' = [task EXCEPT ![r] = Answered(@, "Err")]
    /\ UNCHANGED <<valid, cache, posted>>

\* The loop takes the result in.
TakeIn(r) ==
    /\ At(r, "Answered")
    /\ task'   = [task EXCEPT ![r] = NewTask("Idle")]
    /\ posted' = [posted EXCEPT ![r] = NothingPosted]
    /\ UNCHANGED <<valid, cache>>

-----------------------------------------------------------------------------
(* The client.                                                             *)

\* Mutant: the cache is used without looking whether it holds a client.
GetClientUnchecked(r) ==
    /\ At(r, "Start")
    /\ task' = [task EXCEPT ![r].pc = "Post", ![r].client = cache]
    /\ UNCHANGED <<valid, cache, posted>>

\* get_client, up to the end of its first lock.
GetClient(r) ==
    /\ At(r, "Start")
    /\ task' = IF cache # NoClient
               THEN [task EXCEPT ![r].pc = "Post", ![r].client = cache]
               ELSE [task EXCEPT ![r].pc = "Authenticate"]
    /\ UNCHANGED <<valid, cache, posted>>

\* authenticate_fresh: the exchange issues the credentials it accepts now.
Issue(r) ==
    /\ At(r, "Authenticate")
    /\ task' = [task EXCEPT ![r].pc = "Store", ![r].client = valid]
    /\ UNCHANGED <<valid, cache, posted>>

\* The authentication fails: `?` ends the request.
IssueFails(r) ==
    /\ At(r, "Authenticate")
    /\ task' = [task EXCEPT ![r] = Answered(@, "Err")]
    /\ UNCHANGED <<valid, cache, posted>>

\* Mutant: refresh_client keeps the new client to itself.
StoreFirstOnly(r) ==
    /\ At(r, "Store")
    /\ cache' = IF task[r].second THEN cache ELSE task[r].client
    /\ task'  = [task EXCEPT ![r].pc = "Post"]
    /\ UNCHANGED <<valid, posted>>

\* The second lock of get_client, and that of refresh_client.
Store(r) ==
    /\ At(r, "Store")
    /\ cache' = task[r].client
    /\ task'  = [task EXCEPT ![r].pc = "Post"]
    /\ UNCHANGED <<valid, posted>>

-----------------------------------------------------------------------------
(* Building, signing and posting the order, the first or the second time.  *)

Accepted(r) == task[r].client = valid

Taken(r, status) ==
    posted' = [posted EXCEPT ![r] = [status |-> status, times |-> @.times + 1]]

\* Filled: matched for all its shares; Part: matched for some of them, the rest
\* stays on the book; Resting: Live or Delayed.
Takes == {"Filled", "Part", "Resting"}

\* Mutant: a live order is reported as filled.
ToOrderResultLiveFilled(status) == IF status \in Takes THEN "Filled" ELSE "Rejected"

\* to_order_result: Matched is a fill, for whatever number of shares; Canceled,
\* Unmatched and unknown statuses, and success = false, are Refused.
ToOrderResult(status) ==
    CASE status \in {"Filled", "Part"} -> "Filled"
      [] status = "Resting"            -> "Live"
      [] status = "Refused"            -> "Rejected"

\* post_order returns a response.
Responds(r) ==
    /\ At(r, "Post") /\ Accepted(r)
    /\ \E status \in Takes \cup {"Refused"} :
          /\ IF status = "Refused" THEN UNCHANGED posted ELSE Taken(r, status)
          /\ task' = [task EXCEPT ![r] = Answered(@, ToOrderResult(status))]
    /\ UNCHANGED <<valid, cache>>

\* Mutant: every error of post_order is taken for one of authentication.
AnyErrorRetried(error) == TRUE

\* The text of the error contains 401, 403 or UNAUTHENTICATED, wherever the
\* error comes from: the page of a gateway or an amount may contain them too.
IsAuthError(error) == error = "401"

\* Mutant: the order is posted again as long as authentication fails.
AfterErrorAgain(t, error) ==
    IF IsAuthError(error)
    THEN [t EXCEPT !.pc = "Authenticate", !.second = TRUE,
                   !.since = valid, !.error = error]
    ELSE Answered(t, "Err")

\* Mutant: the second post uses the cached client.
AfterErrorCached(t, error) ==
    IF IsAuthError(error) /\ ~t.second
    THEN [t EXCEPT !.pc = "Post", !.client = cache, !.second = TRUE,
                   !.since = valid, !.error = error]
    ELSE Answered(t, "Err")

\* The error arm: refresh_client, once; or the error is the result.
AfterError(t, error) ==
    IF IsAuthError(error) /\ ~t.second
    THEN [t EXCEPT !.pc = "Authenticate", !.second = TRUE,
                   !.since = valid, !.error = error]
    ELSE Answered(t, "Err")

\* post_order fails and the exchange has not taken the order.
PostFails(r) ==
    /\ At(r, "Post")
    /\ \E error \in {"401", "other"} :
          task' = [task EXCEPT ![r] = AfterError(@, error)]
    /\ UNCHANGED <<valid, cache, posted>>

\* post_order fails although the exchange has taken the order.
AnswerLost(r) ==
    /\ At(r, "Post") /\ Accepted(r)
    /\ \E status \in Takes : Taken(r, status)
    /\ \E error \in {"401", "other"} :
          task' = [task EXCEPT ![r] = AfterError(@, error)]
    /\ UNCHANGED <<valid, cache>>

\* The order cannot be built or signed.
BuildFails(r) ==
    /\ At(r, "Post")
    /\ task' = [task EXCEPT ![r] = Answered(@, "Err")]
    /\ UNCHANGED <<valid, cache, posted>>

\* The credentials are replaced; clients that carry older ones are refused.
Revoke ==
    /\ valid < MaxCreds
    /\ valid' = valid + 1
    /\ UNCHANGED <<cache, task, posted>>

Work(r) == \/ Unpostable(r) \/ GetClient(r) \/ Issue(r) \/ IssueFails(r) \/ Store(r)
           \/ Responds(r) \/ PostFails(r) \/ AnswerLost(r) \/ BuildFails(r)

Next == \/ Revoke
        \/ \E r \in Requests : Request(r) \/ Work(r) \/ TakeIn(r)

Spec == Init /\ [][Next]_vars

(***************************************************************************)
(* Fairness.  Tasks run, and each call of the exchange ends in some way.   *)
(* For CacheCatchesUp alone: requests keep coming and are taken in, not    *)
(* all of them fail before they are posted, and authentications and        *)
(* refusals of old credentials reach the bot again and again.              *)
(***************************************************************************)
Refusal(r) == PostFails(r) /\ ~Accepted(r) /\ task'[r].pc = "Authenticate"

Fairness == \A r \in Requests : WF_vars(Work(r))

OrdersKeepComing ==
    \A r \in Requests : /\ WF_vars(Request(r)) /\ WF_vars(TakeIn(r))
                        /\ SF_vars(GetClient(r)) /\ SF_vars(Issue(r))
                        /\ SF_vars(Refusal(r))

FairSpec == Spec /\ Fairness /\ OrdersKeepComing

-----------------------------------------------------------------------------
(* Properties.                                                             *)

\* Every variable has its type; no client carries credentials that were never
\* issued, and a task that posts holds a client.
TypeOK ==
    /\ valid \in 1..MaxCreds
    /\ cache \in 0..valid
    /\ task \in [Requests -> [pc: Steps, client: 0..valid, second: BOOLEAN,
                              reply: {"None", "Filled", "Live", "Rejected", "Err"},
                              since: 0..valid, error: {"None", "401", "other"}]]
    /\ posted \in [Requests -> [status: Takes \cup {"Unsent"}, times: Nat]]
    /\ \A r \in Requests : task[r].pc \in {"Store", "Post"} => task[r].client # NoClient

\* However posts fail, an order is taken by the exchange at most twice; and twice
\* only if the answer of the first post was lost with an error whose text names
\* 401 or 403, which the code takes for one of authentication.
TwiceOnlyMisread ==
    \A r \in Requests :
        posted[r].times \notin {0, 1} =>
            posted[r].times = 2 /\ task[r].error = "401"

\* The second post carries credentials that were issued after the first one
\* was refused, whatever other requests put into the cache meanwhile: a stale
\* client in the cache never makes a request fail.
FreshRetry == \A r \in Requests : At(r, "Post") /\ task[r].second
                                  => task[r].client >= task[r].since

\* An order counts as handled when its result is ready.
BookOf(r) ==
    IF ~At(r, "Answered") THEN "Unsent"
    ELSE IF posted[r].times = 0 THEN "Refused"
    ELSE IF posted[r].times = 1 THEN posted[r].status ELSE "Twice"

ReplyOf(r) ==
    IF At(r, "Idle") THEN "None"
    ELSE IF At(r, "Answered") THEN task[r].reply ELSE "Pending"

Execution == INSTANCE OrderExecution
             WITH book  <- [r \in Requests |-> BookOf(r)],
                  reply <- [r \in Requests |-> ReplyOf(r)]

\* The executor's tasks implement OrderExecution: whatever happens between the
\* request and its result, the request is answered once; a result other than an
\* error agrees with what the exchange did, unless the error of a taken order was
\* misread and the order posted again.
IsOrderExecution == Execution!Spec

\* Every request is answered: the retry is not repeated for ever.
EveryRequestAnswered == \A r \in Requests : At(r, "Start") ~> At(r, "Answered")

\* A late authentication may put older credentials over newer ones, but as
\* long as orders keep coming the cache ends up with the credentials that the
\* exchange accepts, and stays there until they are replaced again.
CacheCatchesUp == <>[](cache = valid)
=============================================================================
