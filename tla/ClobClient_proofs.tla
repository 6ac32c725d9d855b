-------------------------- MODULE ClobClient_proofs --------------------------
(***************************************************************************)
(* The safety properties of ClobClient for every set of requests and any   *)
(* number of replaced credentials, and the refinement of OrderExecution.   *)
(***************************************************************************)
EXTENDS ClobClient, TLAPS

Tasks  == [pc: Steps, client: 0..valid, second: BOOLEAN,
           reply: {"None", "Filled", "Live", "Rejected", "Err"}, since: 0..valid,
           error: {"None", "401", "other"}]
Orders == [status: Takes \cup {"Unsent"}, times: Nat]

Working == {"Start", "Authenticate", "Store", "Post"}

(***************************************************************************)
(* One request.  A request that is worked on has not been taken yet, or it *)
(* has been taken by a first post whose error named 401 or 403, and its    *)
(* second post is under way; a result is one of OrderExecution's; a client *)
(* of the second round is not older than the failure of the first.         *)
(***************************************************************************)
Pending(t, p) ==
    /\ p.times <= 1
    /\ p.times = 0 => p = NothingPosted
    /\ p.times = 1 => p.status \in Takes /\ t.second /\ t.error = "401"

Honest(r) ==
    /\ At(r, "Idle") => posted[r] = NothingPosted
    /\ task[r].pc \in Working => Pending(task[r], posted[r])
    /\ At(r, "Answered") => <<BookOf(r), task[r].reply>> \in Execution!Outcomes
    /\ posted[r].times <= 2
    /\ posted[r].times = 2 => task[r].error = "401"

Fresh(r) ==
    /\ At(r, "Start") => ~task[r].second
    /\ task[r].pc \in {"Store", "Post"} =>
          task[r].client # NoClient /\ (task[r].second => task[r].client >= task[r].since)

ClientInv == TypeOK /\ \A r \in Requests : Honest(r) /\ Fresh(r)

-----------------------------------------------------------------------------
(* Steps of one request leave the others as they are.                      *)

\* A step of request r that changes only its own task and orders keeps the
\* invariant if it does so for r.
LEMMA OtherRequests ==
    ASSUME ClientInv, NEW r \in Requests, valid' = valid, cache' \in 0..valid,
           NEW t \in Tasks, task' = [task EXCEPT ![r] = t],
           NEW p \in Orders, posted' = [posted EXCEPT ![r] = p],
           Honest(r)', Fresh(r)'
    PROVE  ClientInv'
  <1>1. TypeOK'
    <2>1. valid' \in 1..MaxCreds /\ cache' \in 0..valid'
      BY DEF ClientInv, TypeOK
    <2>2. task' \in [Requests -> Tasks] /\ posted' \in [Requests -> Orders]
      BY DEF ClientInv, TypeOK, Tasks, Orders
    <2>3. \A q \in Requests : task'[q].pc \in {"Store", "Post"} => task'[q].client # NoClient
      <3> TAKE q \in Requests
      <3>1. CASE q = r
        BY <3>1 DEF Fresh
      <3>2. CASE q # r
        BY <3>2 DEF ClientInv, TypeOK
      <3> QED BY <3>1, <3>2
    <2> QED BY <2>1, <2>2, <2>3 DEF TypeOK, Tasks, Orders
  <1>2. ASSUME NEW q \in Requests PROVE Honest(q)' /\ Fresh(q)'
    <2>1. CASE q = r
      BY <2>1
    <2>2. CASE q # r
      <3>1. task'[q] = task[q] /\ posted'[q] = posted[q]
        BY <2>2 DEF ClientInv, TypeOK
      <3> QED BY <3>1 DEF ClientInv, Honest, Fresh, At, BookOf, Pending, Execution!Outcomes
    <2> QED BY <2>1, <2>2
  <1> QED BY <1>1, <1>2 DEF ClientInv

\* What a task and its orders are in one state.
LEMMA RequestType ==
    ASSUME ClientInv, NEW r \in Requests
    PROVE  /\ task[r] \in Tasks /\ posted[r] \in Orders
           /\ valid \in Nat /\ cache \in 0..valid
           /\ task = [task EXCEPT ![r] = task[r]]
           /\ posted = [posted EXCEPT ![r] = posted[r]]
  BY CredsAssumption DEF ClientInv, TypeOK, Tasks, Orders

-----------------------------------------------------------------------------
(* The steps keep the invariant.                                           *)

\* At the start nothing is requested and the client has no credentials.
LEMMA InitInv == Init => ClientInv
  BY CredsAssumption DEF Init, ClientInv, TypeOK, Honest, Fresh, NewTask, NothingPosted,
     NoClient, Steps, At, Working, Takes

\* The exchange revoking credentials leaves the tasks alone.
LEMMA RevokeKeeps == ASSUME ClientInv, Revoke PROVE ClientInv'
  <1>1. valid' = valid + 1 /\ valid \in 1..MaxCreds /\ valid' \in 1..MaxCreds
    BY CredsAssumption DEF Revoke, ClientInv, TypeOK
  <1>2. 0..valid \subseteq 0..valid'
    BY <1>1
  <1>3. TypeOK'
    BY <1>1, <1>2 DEF Revoke, ClientInv, TypeOK, At
  <1>4. \A r \in Requests : Honest(r)' /\ Fresh(r)'
    BY DEF Revoke, ClientInv, Honest, Fresh, At, BookOf, Pending, Execution!Outcomes
  <1> QED BY <1>3, <1>4 DEF ClientInv

\* What each step of a task does to its request, seen from the main loop.
WorkIs(r) ==
    \/ BookOf(r)' = "Unsent" /\ ReplyOf(r)' = "Pending"
    \/ \E o \in Execution!Outcomes : BookOf(r)' = o[1] /\ ReplyOf(r)' = o[2]

\* What became of an answered request.
Booked(p) == IF p.times = 0 THEN "Refused" ELSE IF p.times = 1 THEN p.status ELSE "Twice"

\* A step by which request r is answered.
LEMMA AnswerKeeps ==
    ASSUME ClientInv, NEW r \in Requests, valid' = valid, cache' = cache,
           NEW p \in Orders, posted' = [posted EXCEPT ![r] = p],
           p.times <= 2, p.times = 2 => task[r].error = "401",
           NEW reply, <<Booked(p), reply>> \in Execution!Outcomes,
           task' = [task EXCEPT ![r] = Answered(@, reply)]
    PROVE  ClientInv' /\ WorkIs(r)
  <1> DEFINE t == Answered(task[r], reply)
  <1>0. reply \in {"Filled", "Live", "Rejected", "Err"}
    BY DEF Execution!Outcomes, Execution!Known, Execution!Lost, Execution!Misread
  <1>1. t \in Tasks /\ t.pc = "Answered" /\ t.reply = reply /\ t.error = task[r].error
    <2>1. task[r] \in Tasks /\ valid \in Nat
      BY RequestType
    <2>2. task[r].error \in {"None", "401", "other"}
      BY <2>1 DEF Tasks
    <2>3. t = [pc |-> "Answered", client |-> 0, second |-> FALSE,
               reply |-> reply, since |-> 0, error |-> task[r].error]
      BY DEF Answered, NoClient
    <2>4. 0 \in 0..valid
      BY <2>1
    <2> HIDE DEF t
    <2> QED BY <1>0, <2>2, <2>3, <2>4 DEF Tasks, Steps
  <1>2. task' = [task EXCEPT ![r] = t]
    OBVIOUS
  <1>3. task'[r] = t /\ posted'[r] = p
    BY <1>2 DEF ClientInv, TypeOK
  <1> HIDE DEF t
  <1>4. BookOf(r)' = Booked(p) /\ ReplyOf(r)' = reply
    BY <1>1, <1>3 DEF BookOf, Booked, ReplyOf, At
  <1>5. Honest(r)'
    <2>1. <<BookOf(r)', task'[r].reply>> \in Execution!Outcomes
      BY <1>1, <1>3, <1>4
    <2> QED BY <1>1, <1>3, <2>1 DEF Honest, At, Working
  <1>6. Fresh(r)'
    BY <1>1, <1>3 DEF Fresh, At
  <1>7. cache' \in 0..valid
    BY RequestType
  <1>8. ClientInv'
    BY <1>1, <1>2, <1>5, <1>6, <1>7, OtherRequests
  <1>9. WorkIs(r)
    BY <1>4, Zenon DEF WorkIs
  <1> QED BY <1>8, <1>9

\* A step by which the task of r goes on without an answer.
LEMMA GoOnKeeps ==
    ASSUME ClientInv, NEW r \in Requests, valid' = valid, cache' \in 0..valid,
           NEW p \in Orders, posted' = [posted EXCEPT ![r] = p],
           NEW t \in Tasks, task' = [task EXCEPT ![r] = t], t.pc \in Working,
           Pending(t, p), t.pc = "Start" => ~t.second,
           t.pc \in {"Store", "Post"} =>
               t.client # NoClient /\ (t.second => t.client >= t.since)
    PROVE  ClientInv' /\ WorkIs(r)
  <1>1. task'[r] = t /\ posted'[r] = p
    BY DEF ClientInv, TypeOK
  <1>2. BookOf(r)' = "Unsent" /\ ReplyOf(r)' = "Pending"
    BY <1>1 DEF BookOf, ReplyOf, At, Working
  <1>3. Honest(r)'
    <2>1. p.times \in Nat
      BY DEF Orders
    <2>2. p.times <= 2 /\ p.times # 2
      BY <2>1 DEF Pending
    <2>3. Pending(task[r], posted[r])'
      BY <1>1 DEF Pending
    <2> QED BY <1>1, <2>2, <2>3 DEF Honest, At, Working
  <1>4. Fresh(r)'
    BY <1>1 DEF Fresh, At, Working
  <1> QED BY <1>2, <1>3, <1>4, OtherRequests DEF WorkIs

\* A step by which request r comes or leaves.
LEMMA ResetKeeps ==
    ASSUME ClientInv, NEW r \in Requests, UNCHANGED <<valid, cache>>,
           NEW pc \in {"Idle", "Start"},
           task'   = [task EXCEPT ![r] = NewTask(pc)],
           posted' = [posted EXCEPT ![r] = NothingPosted]
    PROVE  /\ ClientInv' /\ BookOf(r)' = "Unsent"
           /\ ReplyOf(r)' = IF pc = "Idle" THEN "None" ELSE "Pending"
  <1>1. task'[r] = NewTask(pc) /\ posted'[r] = NothingPosted
    BY DEF ClientInv, TypeOK
  <1>2. NewTask(pc) \in Tasks /\ NothingPosted \in Orders
    BY RequestType DEF NewTask, Tasks, Steps, Orders, NothingPosted, NoClient
  <1>3. Honest(r)' /\ Fresh(r)'
    <2>1. Pending(task[r], posted[r])'
      BY <1>1 DEF Pending, NothingPosted
    <2> QED BY <1>1, <2>1 DEF Honest, Fresh, At, NewTask, NothingPosted
  <1>4. BookOf(r)' = "Unsent" /\ ReplyOf(r)' = IF pc = "Idle" THEN "None" ELSE "Pending"
    BY <1>1 DEF BookOf, ReplyOf, At, NewTask
  <1>5. cache' \in 0..valid
    BY RequestType
  <1> QED BY <1>2, <1>3, <1>4, <1>5, OtherRequests

-----------------------------------------------------------------------------
(* The mapping of one request, before a step.                              *)

\* What a request looks like to the main loop, by where its task is.
LEMMA MappedBefore ==
    ASSUME NEW r \in Requests
    PROVE  /\ At(r, "Idle") => BookOf(r) = "Unsent" /\ ReplyOf(r) = "None"
           /\ task[r].pc \in Working => BookOf(r) = "Unsent" /\ ReplyOf(r) = "Pending"
           /\ At(r, "Answered") => ReplyOf(r) = task[r].reply
  BY DEF BookOf, ReplyOf, At, Working

\* A post leaves the orders as they are, or the exchange takes one more.
PostOf(r, p) ==
    \/ p = posted[r]
    \/ \E status \in Takes : p = [status |-> status, times |-> posted[r].times + 1]

\* What a request has come to while it is posted, before and after the post.
LEMMA PostIs ==
    ASSUME ClientInv, NEW r \in Requests, task[r].pc \in Working, NEW p, PostOf(r, p)
    PROVE  /\ p \in Orders /\ p.times <= 2
           /\ p.times = 2 => task[r].error = "401"
           /\ <<Booked(p), "Err">> \in Execution!Outcomes
           /\ ~task[r].second => /\ posted[r] = NothingPosted /\ p.times <= 1
                                 /\ p.times = 0 => p = NothingPosted
                                 /\ p.times = 1 => p.status \in Takes
  <1>1. Pending(task[r], posted[r]) /\ posted[r] \in Orders
    BY RequestType DEF ClientInv, Honest
  <1>2. posted[r].times \in {0, 1} /\ posted[r].status \in Takes \cup {"Unsent"}
    BY <1>1 DEF Pending, Orders
  <1>3. posted[r].times = 0 => posted[r] = NothingPosted
    BY <1>1 DEF Pending
  <1>4. posted[r].times = 1 => /\ posted[r].status \in Takes
                               /\ task[r].second /\ task[r].error = "401"
    BY <1>1 DEF Pending
  <1>5. CASE p = posted[r]
    <2>1. Booked(p) \in Takes \cup {"Refused"}
      BY <1>2, <1>4, <1>5 DEF Booked
    <2>2. <<Booked(p), "Err">> \in Execution!Outcomes
      BY <2>1 DEF Takes, Execution!Outcomes, Execution!Lost
    <2> QED BY <1>1, <1>2, <1>3, <1>4, <1>5, <2>2
  <1>6. ASSUME NEW status \in Takes,
               p = [status |-> status, times |-> posted[r].times + 1]
        PROVE  /\ p \in Orders /\ p.times <= 2
               /\ p.times = 2 => task[r].error = "401"
               /\ <<Booked(p), "Err">> \in Execution!Outcomes
               /\ ~task[r].second => /\ posted[r] = NothingPosted /\ p.times <= 1
                                     /\ p.times = 0 => p = NothingPosted
                                     /\ p.times = 1 => p.status \in Takes
    <2>1. p.times = posted[r].times + 1 /\ p.status = status /\ p.times \in {1, 2}
      BY <1>2, <1>6
    <2>2. p \in Orders
      BY <1>2, <1>6 DEF Orders
    <2>3. Booked(p) \in Takes \cup {"Twice"}
      BY <2>1 DEF Booked
    <2>4. <<Booked(p), "Err">> \in Execution!Outcomes
      BY <2>3 DEF Takes, Execution!Outcomes, Execution!Lost, Execution!Misread
    <2> QED BY <1>2, <1>3, <1>4, <2>1, <2>2, <2>4
  <1> QED BY <1>5, <1>6 DEF PostOf

\* The error arm.
LEMMA ErrorKeeps ==
    ASSUME ClientInv, NEW r \in Requests, At(r, "Post"), UNCHANGED <<valid, cache>>,
           NEW error \in {"401", "other"},
           task' = [task EXCEPT ![r] = AfterError(@, error)],
           NEW p, PostOf(r, p), posted' = [posted EXCEPT ![r] = p]
    PROVE  ClientInv' /\ WorkIs(r)
  <1> DEFINE t == [task[r] EXCEPT !.pc = "Authenticate", !.second = TRUE,
                                  !.since = valid, !.error = error]
  <1>0. task[r].pc \in Working
    BY DEF At, Working
  <1>1. CASE IsAuthError(error) /\ ~task[r].second
    <2>1. task' = [task EXCEPT ![r] = t]
      BY <1>1 DEF AfterError
    <2>2. t \in Tasks /\ t.pc = "Authenticate" /\ t.second /\ t.error = "401"
      <3>1. task[r] \in Tasks /\ valid \in Nat
        BY RequestType DEF Tasks
      <3>2. valid \in 0..valid
        BY <3>1
      <3> QED BY <1>1, <3>1, <3>2 DEF Tasks, Steps, IsAuthError
    <2>3. cache' \in 0..valid
      BY RequestType
    <2> HIDE DEF t
    <2>4. p \in Orders /\ Pending(t, p)
      BY <1>0, <1>1, <2>2, PostIs DEF Pending
    <2> QED BY <2>1, <2>2, <2>3, <2>4, GoOnKeeps DEF Working
  <1>2. CASE ~(IsAuthError(error) /\ ~task[r].second)
    <2>1. task' = [task EXCEPT ![r] = Answered(@, "Err")]
      BY <1>2 DEF AfterError
    <2> QED BY <1>0, <2>1, PostIs, AnswerKeeps
  <1> QED BY <1>1, <1>2

\* A step that ends the request with an error and posts nothing.
LEMMA ErrKeeps ==
    ASSUME ClientInv, NEW r \in Requests, task[r].pc \in Working,
           task' = [task EXCEPT ![r] = Answered(@, "Err")],
           UNCHANGED <<valid, cache, posted>>
    PROVE  ClientInv' /\ WorkIs(r)
  <1>1. posted' = [posted EXCEPT ![r] = posted[r]] /\ PostOf(r, posted[r])
    BY RequestType DEF PostOf
  <1> QED BY <1>1, PostIs, AnswerKeeps

\* A step by which the task goes on and posts nothing.
LEMMA NoPostKeeps ==
    ASSUME ClientInv, NEW r \in Requests, valid' = valid, cache' \in 0..valid,
           UNCHANGED posted, task[r].pc \in Working,
           NEW t \in Tasks, task' = [task EXCEPT ![r] = t], t.pc \in Working,
           t.second = task[r].second, t.error = task[r].error,
           t.pc = "Start" => ~t.second,
           t.pc \in {"Store", "Post"} =>
               t.client # NoClient /\ (t.second => t.client >= t.since)
    PROVE  ClientInv' /\ WorkIs(r)
  <1>1. posted[r] \in Orders /\ posted' = [posted EXCEPT ![r] = posted[r]]
    BY RequestType
  <1>2. Pending(t, posted[r])
    BY DEF ClientInv, Honest, Pending
  <1> QED BY <1>1, <1>2, GoOnKeeps

\* A step of a task keeps the invariant and answers at most its own request.
LEMMA WorkKeeps ==
    ASSUME ClientInv, NEW r \in Requests, Work(r)
    PROVE  ClientInv' /\ WorkIs(r) /\ task[r].pc \in Working
  <1> USE RequestType
  <1>1. CASE Unpostable(r)
    BY <1>1, ErrKeeps DEF Unpostable, At, Working
  <1>2. CASE GetClient(r)
    <2> DEFINE t == IF cache # NoClient THEN [task[r] EXCEPT !.pc = "Post", !.client = cache]
                    ELSE [task[r] EXCEPT !.pc = "Authenticate"]
    <2>1. task' = [task EXCEPT ![r] = t]
      <3>1. CASE cache # NoClient
        BY <1>2, <3>1 DEF GetClient, ClientInv, TypeOK
      <3>2. CASE cache = NoClient
        BY <1>2, <3>2 DEF GetClient, ClientInv, TypeOK
      <3> QED BY <3>1, <3>2
    <2>2. /\ t \in Tasks /\ t.pc \in {"Post", "Authenticate"} /\ ~t.second
          /\ t.second = task[r].second /\ t.error = task[r].error
      BY <1>2 DEF GetClient, Tasks, Steps, ClientInv, Fresh, At
    <2>3. t.pc = "Post" => t.client # NoClient
      OBVIOUS
    <2>4. task[r].pc \in Working /\ UNCHANGED <<valid, cache, posted>>
      BY <1>2 DEF GetClient, At, Working
    <2> HIDE DEF t
    <2> QED BY <2>1, <2>2, <2>3, <2>4, NoPostKeeps DEF Working
  <1>3. CASE Issue(r)
    <2> DEFINE t == [task[r] EXCEPT !.pc = "Store", !.client = valid]
    <2>1. task' = [task EXCEPT ![r] = t]
      BY <1>3 DEF Issue, ClientInv, TypeOK
    <2>2. /\ t \in Tasks /\ t.pc = "Store" /\ t.client # NoClient /\ t.client >= t.since
          /\ t.second = task[r].second /\ t.error = task[r].error
      <3>1. task[r] \in Tasks /\ valid \in Nat \ {0}
        BY CredsAssumption DEF ClientInv, TypeOK, Tasks
      <3>2. valid \in 0..valid /\ valid # NoClient
        BY <3>1 DEF NoClient
      <3>3. /\ t.pc = "Store" /\ t.client = valid /\ t.since \in 0..valid
            /\ t.second = task[r].second /\ t.error = task[r].error
        BY <3>1 DEF Tasks
      <3>4. t \in Tasks
        BY <3>1, <3>2 DEF Tasks, Steps
      <3> QED BY <3>1, <3>2, <3>3, <3>4
    <2>3. task[r].pc \in Working /\ UNCHANGED <<valid, cache, posted>>
      BY <1>3 DEF Issue, At, Working
    <2> HIDE DEF t
    <2> QED BY <2>1, <2>2, <2>3, NoPostKeeps DEF Working
  <1>4. CASE IssueFails(r)
    BY <1>4, ErrKeeps DEF IssueFails, At, Working
  <1>5. CASE Store(r)
    <2> DEFINE t == [task[r] EXCEPT !.pc = "Post"]
    <2>1. task' = [task EXCEPT ![r] = t] /\ cache' \in 0..valid
      BY <1>5 DEF Store, ClientInv, TypeOK, Tasks
    <2>2. /\ t \in Tasks /\ t.pc = "Post"
          /\ t.second = task[r].second /\ t.error = task[r].error
      BY DEF Tasks, Steps
    <2>3. t.client # NoClient /\ (t.second => t.client >= t.since)
      BY <1>5 DEF Store, At, ClientInv, Fresh, Tasks
    <2>4. task[r].pc \in Working /\ UNCHANGED <<valid, posted>>
      BY <1>5 DEF Store, At, Working
    <2> HIDE DEF t
    <2> QED BY <2>1, <2>2, <2>3, <2>4, NoPostKeeps DEF Working
  <1>6. CASE Responds(r)
    <2>1. PICK status \in Takes \cup {"Refused"} :
             /\ IF status = "Refused" THEN UNCHANGED posted ELSE Taken(r, status)
             /\ task' = [task EXCEPT ![r] = Answered(@, ToOrderResult(status))]
      BY <1>6 DEF Responds
    <2> DEFINE p == IF status = "Refused" THEN posted[r]
                    ELSE [status |-> status, times |-> posted[r].times + 1]
    <2>2. posted' = [posted EXCEPT ![r] = p] /\ PostOf(r, p)
      BY <2>1 DEF Taken, PostOf, ClientInv, TypeOK
    <2>3. task[r].pc \in Working /\ UNCHANGED <<valid, cache>>
      BY <1>6 DEF Responds, At, Working
    <2>4. Pending(task[r], posted[r]) /\ posted[r] \in Orders
      BY <2>3 DEF ClientInv, Honest
    <2>5. posted[r].times \in {0, 1}
          /\ (posted[r].times = 1 => posted[r].status \in Takes)
      BY <2>4 DEF Pending, Orders
    <2>6. <<Booked(p), ToOrderResult(status)>> \in Execution!Outcomes
      <3>1. CASE status = "Refused"
        <4>1. Booked(p) \in Takes \cup {"Refused"} /\ ToOrderResult(status) = "Rejected"
          BY <2>5, <3>1 DEF Booked, ToOrderResult
        <4> QED BY <4>1 DEF Takes, Execution!Outcomes, Execution!Known, Execution!Misread
      <3>2. CASE status # "Refused"
        <4>1. Booked(p) = IF posted[r].times = 0 THEN status ELSE "Twice"
          BY <2>5, <3>2 DEF Booked
        <4> QED BY <4>1, <3>2 DEF Takes, ToOrderResult, Execution!Outcomes,
                Execution!Known, Execution!Misread
      <3> QED BY <3>1, <3>2
    <2> HIDE DEF p
    <2> QED BY <2>1, <2>2, <2>3, <2>6, PostIs, AnswerKeeps
  <1>7. CASE PostFails(r)
    <2>1. PICK error \in {"401", "other"} : task' = [task EXCEPT ![r] = AfterError(@, error)]
      BY <1>7 DEF PostFails
    <2>2. posted' = [posted EXCEPT ![r] = posted[r]] /\ PostOf(r, posted[r])
      BY <1>7 DEF PostFails, PostOf
    <2> QED BY <1>7, <2>1, <2>2, ErrorKeeps DEF PostFails, At, Working
  <1>8. CASE AnswerLost(r)
    <2>1. PICK status \in Takes : Taken(r, status)
      BY <1>8 DEF AnswerLost
    <2>2. PICK error \in {"401", "other"} : task' = [task EXCEPT ![r] = AfterError(@, error)]
      BY <1>8 DEF AnswerLost
    <2> DEFINE p == [status |-> status, times |-> posted[r].times + 1]
    <2>3. posted' = [posted EXCEPT ![r] = p] /\ PostOf(r, p)
      BY <2>1 DEF Taken, PostOf, ClientInv, TypeOK
    <2> HIDE DEF p
    <2> QED BY <1>8, <2>2, <2>3, ErrorKeeps DEF AnswerLost, At, Working
  <1>9. CASE BuildFails(r)
    BY <1>9, ErrKeeps DEF BuildFails, At, Working
  <1> QED BY <1>1, <1>2, <1>3, <1>4, <1>5, <1>6, <1>7, <1>8, <1>9 DEF Work

\* The invariant is kept by every step.
LEMMA ClientStep == ASSUME ClientInv, [Next]_vars PROVE ClientInv'
  <1>1. CASE Revoke
    BY <1>1, RevokeKeeps
  <1>2. ASSUME NEW r \in Requests, Request(r) PROVE ClientInv'
    BY <1>2, ResetKeeps DEF Request
  <1>3. ASSUME NEW r \in Requests, Work(r) PROVE ClientInv'
    BY <1>3, WorkKeeps
  <1>4. ASSUME NEW r \in Requests, TakeIn(r) PROVE ClientInv'
    BY <1>4, ResetKeeps DEF TakeIn
  <1>5. CASE UNCHANGED vars
    BY <1>5 DEF vars, ClientInv, TypeOK, Honest, Fresh, At, BookOf, Pending, Execution!Outcomes
  <1> QED BY <1>1, <1>2, <1>3, <1>4, <1>5 DEF Next

\* The inductive invariant of the executor: types, what has become of a request
\* while it is worked on and when it is answered, and that it is retried with
\* fresh credentials (order_builder.rs).
THEOREM ClientCorrect == Spec => []ClientInv
  BY InitInv, ClientStep, PTL DEF Spec

\* Every variable has its type, and a task that posts holds a client that was
\* issued to the bot (order_builder.rs:196).
THEOREM ClientTypeCorrect == Spec => []TypeOK
  <1>1. ClientInv => TypeOK
    BY DEF ClientInv
  <1> QED BY <1>1, ClientCorrect, PTL

\* However many requests run side by side, an order is taken at most twice, and
\* twice only if the error of a taken first post was misread (order_builder.rs:280).
THEOREM TwiceOnlyMisreadHolds == Spec => []TwiceOnlyMisread
  <1>1. ASSUME ClientInv PROVE TwiceOnlyMisread
    <2> SUFFICES ASSUME NEW r \in Requests, posted[r].times \notin {0, 1}
                 PROVE  posted[r].times = 2 /\ task[r].error = "401"
      BY DEF TwiceOnlyMisread
    <2>1. posted[r].times \in Nat
      BY <1>1 DEF ClientInv, TypeOK
    <2>2. posted[r].times <= 2 /\ (posted[r].times = 2 => task[r].error = "401")
      BY <1>1 DEF ClientInv, Honest
    <2> QED BY <2>1, <2>2
  <1> QED BY <1>1, ClientCorrect, PTL

\* The second post never carries credentials older than the refusal of the
\* first, however many requests replace the cached client (order_builder.rs:209).
THEOREM FreshRetryHolds == Spec => []FreshRetry
  <1>1. ClientInv => FreshRetry
    BY DEF ClientInv, Fresh, FreshRetry, At
  <1> QED BY <1>1, ClientCorrect, PTL

-----------------------------------------------------------------------------
(* Refinement.                                                             *)

\* A step of one request changes the mapping of that request only.
LEMMA OthersMapped ==
    ASSUME ClientInv, NEW r \in Requests, NEW q \in Requests \ {r},
           Request(r) \/ Work(r) \/ TakeIn(r)
    PROVE  BookOf(q)' = BookOf(q) /\ ReplyOf(q)' = ReplyOf(q)
  <1>1. task'[q] = task[q] /\ posted'[q] = posted[q]
    <2>1. \E t : task' = [task EXCEPT ![r] = t]
      <3>1. CASE GetClient(r)
        BY <3>1 DEF GetClient, ClientInv, TypeOK
      <3>2. CASE Issue(r) \/ Store(r)
        BY <3>2 DEF Issue, Store, ClientInv, TypeOK
      <3>3. CASE Responds(r)
        BY <3>3 DEF Responds
      <3>4. CASE PostFails(r)
        BY <3>4 DEF PostFails
      <3>5. CASE Unpostable(r) \/ IssueFails(r) \/ AnswerLost(r) \/ BuildFails(r)
        BY <3>5 DEF Unpostable, IssueFails, AnswerLost, BuildFails
      <3>6. CASE Request(r) \/ TakeIn(r)
        BY <3>6 DEF Request, TakeIn
      <3> QED BY <3>1, <3>2, <3>3, <3>4, <3>5, <3>6 DEF Work
    <2>2. posted' = posted \/ \E p : posted' = [posted EXCEPT ![r] = p]
      BY DEF Request, TakeIn, Work, Unpostable, GetClient, Issue, IssueFails, Store,
         Responds, PostFails, AnswerLost, BuildFails, Taken
    <2> QED BY <2>1, <2>2 DEF ClientInv, TypeOK
  <1> QED BY <1>1 DEF BookOf, ReplyOf, At

\* The tasks of the executor, with their shared client, implement the executor
\* that the main loop relies on (order_builder.rs:107).
THEOREM RefinesOrderExecution == Spec => IsOrderExecution
  <1>1. Init => Execution!Init
    BY DEF Init, Execution!Init, BookOf, ReplyOf, At, NewTask
  <1>2. ASSUME ClientInv, [Next]_vars PROVE [Execution!Next]_Execution!vars
    <2> DEFINE B == [r \in Requests |-> BookOf(r)]
               R == [r \in Requests |-> ReplyOf(r)]
    <2>1. ASSUME NEW r \in Requests, Request(r) \/ Work(r) \/ TakeIn(r)
          PROVE  B' = [B EXCEPT ![r] = BookOf(r)'] /\ R' = [R EXCEPT ![r] = ReplyOf(r)']
      BY <1>2, <2>1, OthersMapped
    <2>2. ASSUME NEW r \in Requests, Request(r) PROVE Execution!Place(r)
      <3>1. BookOf(r)' = "Unsent" /\ ReplyOf(r)' = "Pending"
        BY <1>2, <2>2, ResetKeeps DEF Request
      <3>2. BookOf(r) = "Unsent" /\ ReplyOf(r) = "None"
        BY <2>2, MappedBefore DEF Request
      <3> QED BY <2>1, <2>2, <3>1, <3>2 DEF Execution!Place
    <2>3. ASSUME NEW r \in Requests, TakeIn(r) PROVE Execution!TakeIn(r)
      <3>1. BookOf(r)' = "Unsent" /\ ReplyOf(r)' = "None"
        BY <1>2, <2>3, ResetKeeps DEF TakeIn
      <3>2. ReplyOf(r) \notin {"None", "Pending"}
        BY <1>2, <2>3, MappedBefore DEF TakeIn, ClientInv, Honest, Execution!Outcomes,
           Execution!Known, Execution!Lost, Execution!Misread
      <3> QED BY <2>1, <2>3, <3>1, <3>2 DEF Execution!TakeIn
    <2>4. ASSUME NEW r \in Requests, Work(r)
          PROVE  Execution!Answer(r) \/ UNCHANGED Execution!vars
      <3>1. WorkIs(r) /\ BookOf(r) = "Unsent" /\ ReplyOf(r) = "Pending"
        BY <1>2, <2>4, WorkKeeps, MappedBefore
      <3>2. CASE BookOf(r)' = "Unsent" /\ ReplyOf(r)' = "Pending"
        BY <2>1, <2>4, <3>1, <3>2 DEF Execution!vars
      <3>3. ASSUME NEW o \in Execution!Outcomes, BookOf(r)' = o[1], ReplyOf(r)' = o[2]
            PROVE  Execution!Answer(r)
        BY <2>1, <2>4, <3>1, <3>3 DEF Execution!Answer
      <3> QED BY <3>1, <3>2, <3>3 DEF WorkIs
    <2>5. CASE Revoke \/ UNCHANGED vars
      BY <2>5 DEF Revoke, vars, Execution!vars, BookOf, ReplyOf, At
    <2> QED BY <1>2, <2>2, <2>3, <2>4, <2>5 DEF Next, Execution!Next
  <1> QED BY <1>1, <1>2, ClientCorrect, PTL DEF Spec, IsOrderExecution, Execution!Spec
=============================================================================
