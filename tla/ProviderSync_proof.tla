-------------------------- MODULE ProviderSync_proof --------------------------
(***************************************************************************)
(* Proofs about ProviderSync: type correctness and the safety properties,  *)
(* for any number of concurrent requests and any bounds.                   *)
(***************************************************************************)
EXTENDS ProviderSync, TLAPS

------------------------------------------------------------------------------
(* The inductive invariant. *)

\* The import was queued some time.
Begun(j) == status[j] \notin {"none", "oauth_pending"}

\* Request r holds the number of a job it has not created yet.
Reserved(r) == act[r].at = "start" \/ act[r].then = "create"

Refreshing == {"refresh", "won", "lost", "erred"}
Importing == Refreshing \cup {"load", "import"}
Holding == Importing \cup {"schedule", "finish", "fail"}

\* Numbers are given out once, by requests, and jobs have given numbers.
Numbered ==
    /\ lastJob <= ops
    /\ \A j \in Jobs : j > lastJob => status[j] = "none"
    /\ \A r, q \in Requests :
         Reserved(r) /\ Reserved(q) /\ act[r].job = act[q].job => r = q

\* What the job a request knows of looks like by now.
RequestKnows(r) ==
    /\ act[r].at \in Refreshing => act[r].then \in {"idle", "create"}
    /\ act[r].at = "create" => act[r].then = "create"
    /\ act[r].then = "create" => act[r].at \in Refreshing \cup {"create"}
    /\ Reserved(r) => /\ act[r].job \in 1 .. lastJob
                      /\ status[act[r].job] = "none"
    /\ act[r].at \in {"code", "commit"} =>
         /\ act[r].job \in Jobs
         /\ status[act[r].job] # "none"
         /\ ~overlap => status[act[r].job] = "oauth_pending"
    /\ act[r].at = "enqueue" => act[r].job \in Jobs /\ Begun(act[r].job)

WorkerKnows ==
    /\ act[Worker].at # "idle" => act[Worker].then \in {"done", "import"}
    /\ act[Worker].at = "begin" => act[Worker].job \in Jobs
    /\ act[Worker].at # "idle" /\ act[Worker].job # 0 => Begun(act[Worker].job)
    /\ ~overlap /\ act[Worker].at \in Holding /\ act[Worker].job # 0
         => status[act[Worker].job] = "running"

OneCallback ==
    ~overlap => \A r, q \in Requests : InCallback(r) /\ InCallback(q) => r = q

QueueKnows == \A j \in Jobs : queue[j] # "absent" => Begun(j)

SessionKnows ==
    session.state = "oauth_pending" =>
        session.auth \in Jobs /\ status[session.auth] = "oauth_pending"

\* The worker has taken up job j and has not imported it yet.
InImport(j) == act[Worker].job = j /\ act[Worker].at \in Importing

\* Grants pay for the imports made and for the one that may be coming.
Owed(j) ==
    (IF status[j] = "queued" THEN 1 ELSE 0) + (IF InImport(j) THEN 1 ELSE 0)
Budget == \A j \in Jobs : runs[j] + Owed(j) <= grants[j]

Control ==
    /\ \A r \in Requests : RequestKnows(r)
    /\ WorkerKnows
    /\ OneCallback

Inv == TypeOK /\ Numbered /\ Control /\ QueueKnows /\ SessionKnows /\ Budget

LEMMA InvInit == Init => Inv
<1> SUFFICES ASSUME Init PROVE Inv
  OBVIOUS
<1> USE SyncAssumption DEF Init, Idle, NoSession
<1>1. TypeOK
  <2>1. session \in Session /\ status \in [Jobs -> Status]
    BY DEF Session, Status
  <2>2. [at |-> "idle", then |-> "idle", token |-> 0, job |-> 0] \in Activity
    BY DEF Activity, Where
  <2>3. act \in [Actors -> Activity]
    BY <2>2
  <2>4. /\ queue \in [0 .. MaxOps -> {"absent", "waiting", "active", "failed"}]
        /\ grants \in [Jobs -> Nat] /\ runs \in [Jobs -> Nat]
    OBVIOUS
  <2>5. overlap \in BOOLEAN
    OBVIOUS
  <2>6. /\ valid \subseteq 1 .. MaxTokens
        /\ lastJob \in 0 .. MaxOps /\ lastToken \in 0 .. MaxTokens
        /\ ops \in 0 .. MaxOps /\ crashes \in 0 .. MaxCrashes
    OBVIOUS
  <2> QED BY <2>1, <2>3, <2>4, <2>5, <2>6 DEF TypeOK
<1>2. \A a \in Actors : act[a] = Idle
  OBVIOUS
<1>3. Numbered
  BY <1>2 DEF Numbered, Reserved, Jobs, Actors
<1>4. Control
  BY <1>2 DEF Control, RequestKnows, WorkerKnows, OneCallback, Reserved, Refreshing,
     Holding, Importing, InCallback, Actors
<1>5. QueueKnows /\ SessionKnows
  BY DEF QueueKnows, SessionKnows, Jobs
<1>6. Budget
  BY <1>2 DEF Budget, Owed, InImport, Importing, Refreshing, Actors, Jobs
<1> QED BY <1>1, <1>3, <1>4, <1>5, <1>6 DEF Inv

------------------------------------------------------------------------------
(* How the helpers change act. *)

\* Everybody but a stays where it is.
Only(a) ==
    /\ act' \in [Actors -> Activity]
    /\ \A b \in Actors : b # a => act'[b] = act[b]

LEMMA GotoFields ==
    ASSUME TypeOK, NEW a \in Actors, NEW place \in Where, Goto(a, place)
    PROVE  /\ Only(a)
           /\ act'[a].at = place
           /\ act'[a].then = act[a].then
           /\ act'[a].job = act[a].job
  BY DEF TypeOK, Goto, Only, Activity

LEMMA EndFields ==
    ASSUME TypeOK, NEW a \in Actors, End(a)
    PROVE  Only(a) /\ act'[a] = Idle
<1>1. Idle \in Activity
  BY SyncAssumption DEF Idle, Activity, Where
<1> QED BY <1>1 DEF TypeOK, End, Only

LEMMA BeginFields ==
    ASSUME TypeOK, Numbered, NEW r \in Requests, NEW at \in Where, NEW then \in Where,
           NEW t \in 0 .. MaxTokens, NEW j \in 0 .. MaxOps, Begin(r, at, then, t, j)
    PROVE  /\ Only(r)
           /\ act[r] = Idle
           /\ act'[r] = [at |-> at, then |-> then, token |-> t, job |-> j]
           /\ ops' \in 0 .. MaxOps
           /\ ops' = ops + 1
<1>1. [at |-> at, then |-> then, token |-> t, job |-> j] \in Activity
  BY DEF Activity
<1> QED BY <1>1, SyncAssumption DEF TypeOK, Begin, Only, Actors

LEMMA SomeConstants ==
    /\ 0 \in 0 .. MaxTokens /\ 0 \in 0 .. MaxOps
    /\ {"idle", "start", "callback", "disconnect", "refresh", "create"} \subseteq Where
  BY SyncAssumption DEF Where

------------------------------------------------------------------------------
(* A step of one actor that leaves the jobs alone keeps the invariant if    *)
(* what it knows afterwards is right.                                       *)

LEMMA CalmStep ==
    ASSUME Inv, NEW a \in Actors, TypeOK', Only(a), lastJob' = lastJob, ops' >= ops,
           UNCHANGED <<status, grants, runs, overlap>>,
           a \in Requests => /\ RequestKnows(a)'
                             /\ Reserved(a)' => Reserved(a) /\ act'[a].job = act[a].job
                             /\ InCallback(a)' => InCallback(a),
           a = Worker => /\ WorkerKnows'
                         /\ \A j \in Jobs : InImport(j)' => InImport(j),
           \A j \in Jobs : queue'[j] # "absent" => Begun(j),
           session' = session \/ session'.state # "oauth_pending"
    PROVE  Inv'
<1> USE SyncAssumption DEF Inv, Actors
<1>1. Numbered'
  BY DEF Numbered, Reserved, Only, TypeOK
<1>2. Control'
  <2>1. ASSUME NEW r \in Requests PROVE RequestKnows(r)'
    <3>1. CASE r = a
      BY <3>1
    <3>2. CASE r # a
      BY <3>2 DEF Control, RequestKnows, Reserved, Begun, Only
    <3> QED BY <3>1, <3>2
  <2>2. WorkerKnows'
    <3>1. CASE Worker = a
      BY <3>1
    <3>2. CASE Worker # a
      BY <3>2 DEF Control, WorkerKnows, Begun, Only
    <3> QED BY <3>1, <3>2
  <2>3. OneCallback'
    BY DEF Control, OneCallback, InCallback, Only
  <2> QED BY <2>1, <2>2, <2>3 DEF Control
<1>3. QueueKnows'
  BY DEF QueueKnows, Begun
<1>4. SessionKnows'
  BY DEF SessionKnows
<1>5. Budget'
  <2> SUFFICES ASSUME NEW j \in Jobs PROVE runs'[j] + Owed(j)' <= grants'[j]
    BY DEF Budget
  <2>1. InImport(j)' => InImport(j)
    BY DEF InImport, Only
  <2> QED BY <2>1 DEF Budget, Owed, TypeOK
<1> QED BY <1>1, <1>2, <1>3, <1>4, <1>5

\* ... in the case of a request, and in the case of the worker.
LEMMA CalmRequest ==
    ASSUME Inv, NEW r \in Requests, TypeOK', Only(r), lastJob' = lastJob, ops' >= ops,
           UNCHANGED <<status, grants, runs, overlap>>,
           RequestKnows(r)',
           Reserved(r)' => Reserved(r) /\ act'[r].job = act[r].job,
           InCallback(r)' => InCallback(r),
           \A j \in Jobs : queue'[j] # "absent" => Begun(j),
           session' = session \/ session'.state # "oauth_pending"
    PROVE  Inv'
<1>1. r \in Actors /\ r # Worker
  BY SyncAssumption DEF Actors
<1> QED BY <1>1, CalmStep

LEMMA CalmWorker ==
    ASSUME Inv, TypeOK', Only(Worker), lastJob' = lastJob, ops' = ops,
           UNCHANGED <<status, grants, runs, overlap>>,
           WorkerKnows',
           \A j \in Jobs : InImport(j)' => InImport(j),
           \A j \in Jobs : queue'[j] # "absent" => Begun(j),
           session' = session \/ session'.state # "oauth_pending"
    PROVE  Inv'
<1>1. Worker \in Actors /\ Worker \notin Requests /\ ops' >= ops
  BY SyncAssumption DEF Actors, Inv, TypeOK
<1> QED BY <1>1, CalmStep

------------------------------------------------------------------------------
(* Requests that arrive. *)

\* A new request that knows of no job.
LEMMA PlainArrival ==
    ASSUME Inv, NEW r \in Requests, Disconnect(r) \/ AccessToken(r)
    PROVE  Inv'
<1> USE SyncAssumption DEF Inv
<1>0. UNCHANGED <<session, status, lastJob, grants, queue, overlap, runs, crashes, lastToken>>
  BY DEF Disconnect, AccessToken, Revoke, jobVars, provider
<1>1. PICK at \in {"disconnect", "refresh"}, t \in 0 .. MaxTokens : Begin(r, at, "idle", t, 0)
  BY DEF Disconnect, AccessToken, TypeOK, Session
<1>2. /\ Only(r)
      /\ act'[r] = [at |-> at, then |-> "idle", token |-> t, job |-> 0]
      /\ ops' \in 0 .. MaxOps /\ ops' = ops + 1
  <2>1. at \in Where /\ "idle" \in Where /\ 0 \in 0 .. MaxOps
    BY SomeConstants
  <2>2. TypeOK /\ Numbered
    OBVIOUS
  <2> HIDE DEF Inv
  <2> QED BY <1>1, <2>1, <2>2, BeginFields
<1>3. valid' \subseteq 1 .. MaxTokens
  BY DEF Disconnect, AccessToken, Revoke, provider, TypeOK
<1>4. TypeOK'
  BY <1>0, <1>2, <1>3 DEF TypeOK, Only
<1>5. RequestKnows(r)' /\ ~Reserved(r)' /\ ~InCallback(r)'
  BY <1>2 DEF RequestKnows, Reserved, InCallback
<1>6. ops' >= ops /\ \A j \in Jobs : queue'[j] # "absent" => Begun(j)
  BY <1>0, <1>2 DEF TypeOK, QueueKnows
<1> QED BY <1>0, <1>2, <1>4, <1>5, <1>6, CalmRequest

\* A new callback finds no other in progress, or notes the overlap.
LEMMA CallbackFindStep ==
    ASSUME Inv, NEW r \in Requests, CallbackFind(r)
    PROVE  Inv'
<1> USE SyncAssumption DEF Inv
<1>0. UNCHANGED <<session, status, lastJob, grants, queue, runs, crashes, valid, lastToken>>
  BY DEF CallbackFind, jobVars, provider
<1>1. /\ Only(r)
      /\ act'[r] = [at |-> "callback", then |-> "idle", token |-> 0, job |-> 0]
      /\ ops' \in 0 .. MaxOps /\ ops' = ops + 1
  <2>1. Begin(r, "callback", "idle", 0, 0)
    BY DEF CallbackFind
  <2>2. TypeOK /\ Numbered
    OBVIOUS
  <2> HIDE DEF Inv
  <2> QED BY <2>1, <2>2, SomeConstants, BeginFields
<1>2. /\ overlap' \in BOOLEAN
      /\ ~overlap' => ~overlap /\ \A q \in Requests : ~InCallback(q)
  BY DEF CallbackFind, TypeOK
<1>3. TypeOK'
  BY <1>0, <1>1, <1>2 DEF TypeOK, Only
<1>4. Numbered'
  <2>1. lastJob' <= ops' /\ \A j \in Jobs : j > lastJob' => status'[j] = "none"
    BY <1>0, <1>1 DEF Numbered, TypeOK
  <2>2. ~Reserved(r)' /\ \A q \in Requests : q # r => act'[q] = act[q]
    BY <1>1 DEF Reserved, Only, Actors
  <2> QED BY <2>1, <2>2 DEF Numbered, Reserved
<1>5. Control'
  <2>1. ASSUME NEW q \in Requests PROVE RequestKnows(q)'
    <3>1. CASE q = r
      BY <3>1, <1>1 DEF RequestKnows, Reserved, Refreshing
    <3>2. CASE q # r
      BY <3>2, <1>0, <1>1, <1>2 DEF Control, RequestKnows, Reserved, Begun, Only, Actors
    <3> QED BY <3>1, <3>2
  <2>2. act'[Worker] = act[Worker]
    BY <1>1 DEF Only, Actors
  <2>3. WorkerKnows'
    BY <2>2, <1>0, <1>2 DEF Control, WorkerKnows, Begun
  <2>4. OneCallback'
    BY <1>1, <1>2 DEF OneCallback, InCallback, Only, Actors
  <2> QED BY <2>1, <2>3, <2>4 DEF Control
<1>6. QueueKnows' /\ SessionKnows'
  BY <1>0 DEF QueueKnows, SessionKnows, Begun
<1>7. Budget'
  BY <1>0, <1>1 DEF Budget, Owed, InImport, Only, Actors
<1> QED BY <1>3, <1>4, <1>5, <1>6, <1>7

\* A new request is given the next number.
LEMMA NumberedArrival ==
    ASSUME Inv, NEW r \in Requests, StartAuthorization(r) \/ ImportNow(r)
    PROVE  Inv'
<1> USE SyncAssumption DEF Inv
<1>0. UNCHANGED <<session, status, grants, queue, overlap, runs, crashes, lastToken>>
  BY DEF StartAuthorization, ImportNow, Revoke, provider
<1>1. ops < MaxOps /\ lastJob' = lastJob + 1
  BY DEF StartAuthorization, ImportNow, Begin
<1>2. lastJob + 1 \in Jobs /\ lastJob + 1 \in 0 .. MaxOps
  BY <1>1 DEF TypeOK, Numbered, Jobs
<1>3. \E t \in 0 .. MaxTokens : \/ Begin(r, "start", "idle", t, lastJob + 1)
                                \/ Begin(r, "refresh", "create", t, lastJob + 1)
  BY DEF StartAuthorization, ImportNow, TypeOK, Session
<1>4. /\ Only(r)
      /\ \/ act'[r].at = "start" /\ act'[r].then = "idle"
         \/ act'[r].at = "refresh" /\ act'[r].then = "create"
      /\ act'[r].job = lastJob + 1
      /\ ops' \in 0 .. MaxOps /\ ops' = ops + 1
  <2>1. PICK t \in 0 .. MaxTokens : \/ Begin(r, "start", "idle", t, lastJob + 1)
                                   \/ Begin(r, "refresh", "create", t, lastJob + 1)
    BY <1>3
  <2>2. "idle" \in Where /\ "start" \in Where /\ "refresh" \in Where /\ "create" \in Where
    BY SomeConstants
  <2>3. TypeOK /\ Numbered
    OBVIOUS
  <2> HIDE DEF Inv
  <2>4. CASE Begin(r, "start", "idle", t, lastJob + 1)
    <3>1. /\ Only(r)
          /\ act'[r] = [at |-> "start", then |-> "idle", token |-> t, job |-> lastJob + 1]
          /\ ops' \in 0 .. MaxOps /\ ops' = ops + 1
      BY <2>2, <2>3, <2>4, <1>2, BeginFields
    <3> QED BY <3>1
  <2>5. CASE Begin(r, "refresh", "create", t, lastJob + 1)
    <3>1. /\ Only(r)
          /\ act'[r] = [at |-> "refresh", then |-> "create", token |-> t, job |-> lastJob + 1]
          /\ ops' \in 0 .. MaxOps /\ ops' = ops + 1
      BY <2>2, <2>3, <2>5, <1>2, BeginFields
    <3> QED BY <3>1
  <2> QED BY <2>1, <2>4, <2>5
<1>5. valid' \subseteq 1 .. MaxTokens
  BY DEF StartAuthorization, ImportNow, Revoke, provider, TypeOK
<1>6. TypeOK'
  BY <1>0, <1>1, <1>2, <1>4, <1>5 DEF TypeOK, Only
<1>7. \A q \in Requests : q # r => act'[q] = act[q]
  BY <1>4 DEF Only, Actors
<1>8. \A q \in Requests : Reserved(q) => act[q].job \in 1 .. lastJob
  BY DEF Control, RequestKnows
<1>9. Numbered'
  <2>1. lastJob' <= ops' /\ \A j \in Jobs : j > lastJob' => status'[j] = "none"
    BY <1>0, <1>1, <1>4 DEF Numbered, TypeOK, Jobs
  <2>2. ASSUME NEW p \in Requests, NEW q \in Requests, Reserved(p)', Reserved(q)',
               act'[p].job = act'[q].job
        PROVE  p = q
    <3>1. lastJob + 1 \notin 1 .. lastJob
      BY DEF TypeOK
    <3>2. \A q1 \in Requests : q1 # r /\ Reserved(q1)' => act'[q1].job \in 1 .. lastJob
      BY <1>7, <1>8 DEF Reserved
    <3>3. CASE p = r \/ q = r
      BY <2>2, <3>1, <3>2, <3>3, <1>4
    <3>4. CASE p # r /\ q # r
      BY <2>2, <3>4, <1>7 DEF Numbered, Reserved
    <3> QED BY <3>3, <3>4
  <2> QED BY <2>1, <2>2 DEF Numbered
<1>10. Control'
  <2>1. ASSUME NEW q \in Requests PROVE RequestKnows(q)'
    <3>1. CASE q = r
      <4>1. status'[lastJob + 1] = "none" /\ lastJob + 1 \in 1 .. lastJob'
        BY <1>0, <1>1, <1>2 DEF Numbered, TypeOK
      <4> QED BY <3>1, <4>1, <1>4 DEF RequestKnows, Reserved, Refreshing
    <3>2. CASE q # r
      <4>1. RequestKnows(q) /\ act'[q] = act[q]
        BY <3>2, <1>7 DEF Control
      <4>2. Reserved(q) => act[q].job \in 1 .. lastJob'
        BY <1>1, <4>1 DEF RequestKnows, TypeOK
      <4> HIDE DEF Inv
      <4> QED BY <4>1, <4>2, <1>0 DEF RequestKnows, Reserved, Begun
    <3> QED BY <3>1, <3>2
  <2>2. act'[Worker] = act[Worker]
    BY <1>4 DEF Only, Actors
  <2>3. WorkerKnows'
    BY <2>2, <1>0 DEF Control, WorkerKnows, Begun
  <2>4. OneCallback'
    BY <1>0, <1>4, <1>7 DEF Control, OneCallback, InCallback
  <2> QED BY <2>1, <2>3, <2>4 DEF Control
<1>11. QueueKnows' /\ SessionKnows'
  BY <1>0 DEF QueueKnows, SessionKnows, Begun
<1>12. Budget'
  BY <1>0, <1>4 DEF Budget, Owed, InImport, Only, Actors
<1> QED BY <1>6, <1>9, <1>10, <1>11, <1>12

------------------------------------------------------------------------------
(* Requests that go on. *)

\* A request ends, or moves on with what it holds, and leaves the jobs alone.
LEMMA RequestEnds ==
    ASSUME Inv, NEW r \in Requests, TypeOK', End(r), lastJob' = lastJob, ops' = ops,
           UNCHANGED <<status, grants, runs, overlap>>,
           \A j \in Jobs : queue'[j] # "absent" => Begun(j),
           session' = session \/ session'.state # "oauth_pending"
    PROVE  Inv'
<1>1. TypeOK /\ r \in Actors
  BY DEF Inv, Actors
<1>2. Only(r) /\ act'[r] = Idle
  BY <1>1, EndFields
<1>3. RequestKnows(r)' /\ ~Reserved(r)' /\ ~InCallback(r)'
  BY <1>2 DEF RequestKnows, Reserved, InCallback, Idle, Refreshing
<1>4. ops' >= ops
  BY <1>1 DEF TypeOK
<1> QED BY <1>2, <1>3, <1>4, CalmRequest

LEMMA CallbackJobStep ==
    ASSUME Inv, NEW r \in Requests, CallbackJob(r)
    PROVE  Inv'
<1> USE SyncAssumption DEF Inv
<1>0. UNCHANGED <<session, status, lastJob, grants, queue, overlap, runs, ops, crashes,
                  valid, lastToken>>
  BY DEF CallbackJob, jobVars, provider
<1>a. \A j \in Jobs : queue'[j] # "absent" => Begun(j)
  BY <1>0 DEF QueueKnows
<1>1. ASSUME NEW j \in Pending, act' = [act EXCEPT ![r].at = "code", ![r].job = j]
      PROVE  Inv'
  <2>1. j \in Jobs /\ status[j] = "oauth_pending" /\ act[r].at = "callback"
    BY <1>1 DEF Pending, CallbackJob, At
  <2>2. Only(r)
    <3>1. act[r] \in Activity
      BY DEF TypeOK, Actors
    <3>0. "code" \in Where /\ j \in 0 .. MaxOps
      BY <2>1 DEF Where, Jobs
    <3>2. [act[r] EXCEPT !.at = "code", !.job = j] \in Activity
      BY <3>0, <3>1 DEF Activity
    <3>3. act' = [act EXCEPT ![r] = [act[r] EXCEPT !.at = "code", !.job = j]]
      BY <1>1
    <3> QED BY <3>2, <3>3 DEF Only, TypeOK
  <2>3. act'[r].at = "code" /\ act'[r].job = j /\ act'[r].then = act[r].then
    BY <1>1 DEF TypeOK, Activity, Actors
  <2>4. TypeOK' /\ ops' >= ops
    BY <1>0, <2>2 DEF TypeOK, Only
  <2>5. ~Reserved(r) /\ InCallback(r)
    BY <2>1 DEF Control, RequestKnows, Reserved, InCallback, Refreshing
  <2>6. ~Reserved(r)' /\ RequestKnows(r)'
    BY <1>0, <2>1, <2>3, <2>5 DEF RequestKnows, Reserved, Refreshing
  <2> QED BY <1>0, <1>a, <2>2, <2>4, <2>5, <2>6, CalmRequest
<1>2. ASSUME End(r) PROVE Inv'
  <2>1. Only(r)
    BY <1>2, EndFields DEF Actors
  <2>2. TypeOK'
    BY <1>0, <2>1 DEF TypeOK, Only
  <2> QED BY <1>0, <1>a, <1>2, <2>2, RequestEnds
<1> QED BY <1>1, <1>2 DEF CallbackJob

\* The exchange of the code, which no other callback can see.
LEMMA CallbackExchangeStep ==
    ASSUME Inv, NEW r \in Requests, CallbackExchange(r)
    PROVE  Inv'
<1> USE SyncAssumption DEF Inv
<1>0. UNCHANGED <<session, status, lastJob, grants, queue, overlap, runs, ops, crashes>>
  BY DEF CallbackExchange, jobVars
<1>a. \A j \in Jobs : queue'[j] # "absent" => Begun(j)
  BY <1>0 DEF QueueKnows
<1>1. ASSUME lastToken < MaxTokens, lastToken' = lastToken + 1,
             valid' = valid \cup {lastToken + 1},
             act' = [act EXCEPT ![r].at = "commit", ![r].token = lastToken + 1]
      PROVE  Inv'
  <2>1. act[r].at = "code"
    BY DEF CallbackExchange, At
  <2>a. lastToken + 1 \in 1 .. MaxTokens
    BY <1>1 DEF TypeOK
  <2>2. Only(r)
    <3>0. "commit" \in Where /\ lastToken + 1 \in 0 .. MaxTokens
      BY <2>a DEF Where
    <3>1. act[r] \in Activity
      BY DEF TypeOK, Actors
    <3>2. [act[r] EXCEPT !.at = "commit", !.token = lastToken + 1] \in Activity
      BY <3>0, <3>1 DEF Activity
    <3>3. act' = [act EXCEPT ![r] = [act[r] EXCEPT !.at = "commit", !.token = lastToken + 1]]
      BY <1>1
    <3> QED BY <3>2, <3>3 DEF Only, TypeOK
  <2>3. act'[r].at = "commit" /\ act'[r].job = act[r].job /\ act'[r].then = act[r].then
    BY <1>1 DEF TypeOK, Activity, Actors
  <2>4. valid' \subseteq 1 .. MaxTokens
    BY <1>1, <2>a DEF TypeOK
  <2>5. TypeOK' /\ ops' >= ops
    BY <1>0, <1>1, <2>a, <2>2, <2>4 DEF TypeOK, Only
  <2>6. ~Reserved(r) /\ InCallback(r)
    BY <2>1 DEF Control, RequestKnows, Reserved, InCallback, Refreshing
  <2>7. ~Reserved(r)' /\ RequestKnows(r)'
    BY <1>0, <2>1, <2>3, <2>6 DEF Control, RequestKnows, Reserved, Refreshing
  <2> QED BY <1>0, <1>a, <2>2, <2>5, <2>6, <2>7, CalmRequest
<1>2. ASSUME End(r), UNCHANGED provider PROVE Inv'
  <2>1. Only(r)
    BY <1>2, EndFields DEF Actors
  <2>2. TypeOK'
    BY <1>0, <1>2, <2>1 DEF TypeOK, Only, provider
  <2> QED BY <1>0, <1>a, <1>2, <2>2, RequestEnds
<1> QED BY <1>1, <1>2 DEF CallbackExchange

\* Queue.add for a job that has begun adds nothing the invariant minds.
LEMMA AddFields ==
    ASSUME TypeOK, QueueKnows, NEW k \in 0 .. MaxOps, k \in Jobs => Begun(k), Add(k)
    PROVE  /\ queue' \in [0 .. MaxOps -> {"absent", "waiting", "active", "failed"}]
           /\ \A j \in Jobs : queue'[j] # "absent" => Begun(j)
  BY DEF TypeOK, QueueKnows, Add, Jobs

LEMMA EnqueueStep ==
    ASSUME Inv, NEW r \in Requests, Enqueue(r)
    PROVE  Inv'
<1> USE SyncAssumption DEF Inv
<1>0. UNCHANGED <<session, status, lastJob, grants, overlap, runs, ops, crashes, valid, lastToken>>
  BY DEF Enqueue, jobVars, provider
<1>1. act[r].at = "enqueue" /\ Add(act[r].job)
  BY DEF Enqueue, At
<1>2. act[r].job \in 0 .. MaxOps /\ Begun(act[r].job)
  BY <1>1 DEF Control, RequestKnows, Jobs
<1>3. /\ queue' \in [0 .. MaxOps -> {"absent", "waiting", "active", "failed"}]
      /\ \A j \in Jobs : queue'[j] # "absent" => Begun(j)
  BY <1>1, <1>2, AddFields
<1>4. CASE Goto(r, "schedule")
  <2>1. /\ Only(r)
        /\ act'[r].at = "schedule"
        /\ act'[r].then = act[r].then
        /\ act'[r].job = act[r].job
    <3>1. "schedule" \in Where /\ r \in Actors
      BY DEF Where, Actors
    <3> QED BY <1>4, <3>1, GotoFields
  <2>2. TypeOK' /\ ops' >= ops
    BY <1>0, <1>3, <2>1 DEF TypeOK, Only
  <2>3. ~Reserved(r)
    BY <1>1 DEF Control, RequestKnows, Reserved, Refreshing
  <2>4. ~Reserved(r)' /\ ~InCallback(r)' /\ RequestKnows(r)'
    BY <2>1, <2>3 DEF RequestKnows, Reserved, Refreshing, InCallback
  <2> QED BY <1>0, <1>3, <2>1, <2>2, <2>4, CalmRequest
<1>5. CASE End(r)
  <2>1. Only(r)
    BY <1>5, EndFields DEF Actors
  <2>2. TypeOK'
    BY <1>0, <1>3, <2>1 DEF TypeOK, Only
  <2> QED BY <1>0, <1>3, <1>5, <2>2, RequestEnds
<1> QED BY <1>4, <1>5 DEF Enqueue

LEMMA DisconnectCommitStep ==
    ASSUME Inv, NEW r \in Requests, DisconnectCommit(r)
    PROVE  Inv'
<1> USE SyncAssumption DEF Inv
<1>0. UNCHANGED <<status, lastJob, grants, queue, overlap, runs, ops, crashes, valid, lastToken>>
  BY DEF DisconnectCommit, jobVars, provider
<1>1. End(r) /\ \A j \in Jobs : queue'[j] # "absent" => Begun(j)
  BY <1>0 DEF DisconnectCommit, QueueKnows
<1>2. session' \in Session /\ session'.state # "oauth_pending"
  BY DEF DisconnectCommit, NoSession, Session
<1>3. Only(r)
  BY <1>1, EndFields DEF Actors
<1>4. TypeOK'
  BY <1>0, <1>2, <1>3 DEF TypeOK, Only
<1> QED BY <1>0, <1>1, <1>2, <1>4, RequestEnds

------------------------------------------------------------------------------
(* Requests that write a job. *)

\* Request r moves job k on, and nobody else counts on what k was.
LEMMA JobStep ==
    ASSUME Inv, NEW r \in Requests, NEW k \in Jobs, NEW st \in Status, TypeOK', Only(r),
           lastJob' = lastJob, ops' = ops, UNCHANGED <<runs, queue>>,
           ~overlap' => ~overlap,
           k <= lastJob, st # "none", Begun(k) => st = "queued",
           status' = [status EXCEPT ![k] = st],
           IF st = "queued" THEN grants' = [grants EXCEPT ![k] = @ + 1] ELSE grants' = grants,
           \A q \in Requests : q # r /\ Reserved(q) => act[q].job # k,
           ~overlap => /\ ~Begun(k)
                       /\ \A q \in Requests :
                            q # r /\ act[q].at \in {"code", "commit"} => act[q].job # k,
           RequestKnows(r)', ~Reserved(r)', ~InCallback(r)',
           \/ session' = session /\ status[k] = "none"
           \/ session'.state # "oauth_pending"
           \/ session'.auth = k /\ st = "oauth_pending"
    PROVE  Inv'
<1> USE SyncAssumption DEF Inv
<1>1. /\ status'[k] = st
      /\ \A j \in Jobs : j # k => status'[j] = status[j]
      /\ \A j \in Jobs : Begun(j) => Begun(j)'
  BY DEF TypeOK, Begun
<1>2. /\ act'[Worker] = act[Worker]
      /\ \A q \in Requests : q # r => act'[q] = act[q]
  BY DEF Only, Actors
<1>3. Numbered'
  <2>1. lastJob' <= ops' /\ \A j \in Jobs : j > lastJob' => status'[j] = "none"
    BY <1>1 DEF Numbered, TypeOK, Jobs
  <2> QED BY <2>1, <1>2 DEF Numbered, Reserved
<1>4. Control'
  <2>1. ASSUME NEW q \in Requests, q # r PROVE RequestKnows(q)'
    <3>1. RequestKnows(q)
      BY DEF Control
    <3>2. act'[q] = act[q]
      BY <2>1, <1>2
    <3>3. Reserved(q) => /\ act[q].job \in Jobs /\ act[q].job # k
                         /\ status'[act[q].job] = "none"
      <4>1. Reserved(q) => act[q].job \in 1 .. lastJob /\ status[act[q].job] = "none"
        BY <3>1 DEF RequestKnows
      <4>2. \A n \in 1 .. lastJob : n \in Jobs
        BY DEF TypeOK, Jobs
      <4> QED BY <4>1, <4>2, <2>1, <1>1
    <3>4. act[q].at \in {"code", "commit"} =>
             /\ act[q].job \in Jobs
             /\ status'[act[q].job] # "none"
             /\ ~overlap' => status'[act[q].job] = "oauth_pending"
      BY <3>1, <2>1, <1>1 DEF RequestKnows
    <3>5. act[q].at = "enqueue" => act[q].job \in Jobs /\ Begun(act[q].job)'
      BY <3>1, <3>2, <1>1 DEF RequestKnows, Begun
    <3> HIDE DEF Inv
    <3> QED BY <3>1, <3>2, <3>3, <3>4, <3>5 DEF RequestKnows, Reserved, Begun
  <2>2. WorkerKnows'
    <3>1. WorkerKnows /\ act[Worker].job \in 0 .. MaxOps
      BY DEF Control, TypeOK, Activity, Actors
    <3>2. act[Worker].job # 0 => act[Worker].job \in Jobs
      BY <3>1 DEF Jobs
    <3>3. act[Worker].job # 0 /\ Begun(act[Worker].job) => Begun(act[Worker].job)'
      BY <3>2, <1>1, <1>2 DEF Begun
    <3>4. ~overlap' /\ act[Worker].at \in Holding /\ act[Worker].job # 0
            => status'[act[Worker].job] = "running"
      BY <3>1, <3>2, <1>1 DEF WorkerKnows, Begun
    <3> QED BY <3>1, <3>3, <3>4, <1>2 DEF WorkerKnows, Begun
  <2>3. OneCallback'
    BY <1>2 DEF Control, OneCallback, InCallback
  <2> QED BY <2>1, <2>2, <2>3 DEF Control
<1>5. QueueKnows'
  BY <1>1 DEF QueueKnows, Begun
<1>6. SessionKnows'
  BY <1>1 DEF SessionKnows
<1>7. Budget'
  <2> SUFFICES ASSUME NEW j \in Jobs PROVE runs'[j] + Owed(j)' <= grants'[j]
    BY DEF Budget
  <2>1. InImport(j)' <=> InImport(j)
    BY <1>2 DEF InImport
  <2>2. runs[j] + Owed(j) <= grants[j] /\ runs[j] \in Nat /\ grants[j] \in Nat
    BY DEF Budget, TypeOK
  <2>3. CASE j # k
    <3>1. status'[j] = status[j] /\ grants'[j] = grants[j]
      BY <2>3, <1>1 DEF TypeOK
    <3> QED BY <3>1, <2>1, <2>2 DEF Owed
  <2>4. CASE j = k /\ st = "queued"
    <3>1. grants'[j] = grants[j] + 1
      BY <2>4 DEF TypeOK
    <3>2. Owed(j)' <= Owed(j) + 1
      BY <2>1 DEF Owed
    <3>3. Owed(j) \in 0 .. 2 /\ Owed(j)' \in 0 .. 2
      BY DEF Owed
    <3> QED BY <3>1, <3>2, <3>3, <2>2
  <2>5. CASE j = k /\ st # "queued"
    <3>1. status'[j] # "queued" /\ grants'[j] = grants[j]
      BY <2>5, <1>1
    <3>2. Owed(j)' <= Owed(j)
      BY <3>1, <2>1 DEF Owed
    <3>3. Owed(j) \in 0 .. 2 /\ Owed(j)' \in 0 .. 2
      BY DEF Owed
    <3> QED BY <3>1, <3>2, <3>3, <2>2
  <2> QED BY <2>3, <2>4, <2>5
<1> QED BY <1>3, <1>4, <1>5, <1>6, <1>7

LEMMA StartCommitStep ==
    ASSUME Inv, NEW r \in Requests, StartCommit(r)
    PROVE  Inv'
<1> USE SyncAssumption DEF Inv
<1> DEFINE k == act[r].job
<1>0. UNCHANGED <<lastJob, queue, grants, runs, ops, crashes, valid, lastToken>>
  BY DEF StartCommit, provider
<1>1. act[r].at = "start" /\ End(r) /\ status' = [status EXCEPT ![k] = "oauth_pending"]
  BY DEF StartCommit, At
<1>2. Reserved(r) /\ k \in 1 .. lastJob /\ status[k] = "none"
  BY <1>1 DEF Control, RequestKnows, Reserved
<1>3. k \in Jobs /\ k \in 0 .. MaxOps /\ k <= lastJob
  BY <1>2 DEF TypeOK, Jobs
<1>4. Only(r) /\ act'[r] = Idle
  BY <1>1, EndFields DEF Actors
<1>5. session' \in Session /\ session'.auth = k
  BY <1>3 DEF StartCommit, Session
<1>6. overlap' \in BOOLEAN /\ (~overlap' => ~overlap)
  BY DEF StartCommit, TypeOK
<1>7. "oauth_pending" \in Status
  BY DEF Status
<1>8. TypeOK'
  BY <1>0, <1>1, <1>4, <1>5, <1>6, <1>7 DEF TypeOK, Only
<1>9. \A q \in Requests : q # r /\ Reserved(q) => act[q].job # k
  BY <1>2 DEF Numbered
<1>10. \A q \in Requests : act[q].at \in {"code", "commit"} => act[q].job # k
  BY <1>2 DEF Control, RequestKnows
<1>11. RequestKnows(r)' /\ ~Reserved(r)' /\ ~InCallback(r)'
  BY <1>4 DEF RequestKnows, Reserved, InCallback, Idle, Refreshing
<1>12. ~Begun(k)
  BY <1>2 DEF Begun
<1> HIDE DEF Inv, k
<1> QED BY <1>0, <1>1, <1>3, <1>4, <1>5, <1>6, <1>7, <1>8, <1>9, <1>10, <1>11, <1>12, JobStep

LEMMA CreateImportStep ==
    ASSUME Inv, NEW r \in Requests, CreateImport(r)
    PROVE  Inv'
<1> USE SyncAssumption DEF Inv
<1> DEFINE k == act[r].job
<1>0. UNCHANGED <<session, lastJob, queue, overlap, runs, ops, crashes, valid, lastToken>>
  BY DEF CreateImport, provider
<1>1. /\ act[r].at = "create"
      /\ status' = [status EXCEPT ![k] = "queued"]
      /\ grants' = [grants EXCEPT ![k] = @ + 1]
  BY DEF CreateImport, At, Queued
<1>2. Reserved(r) /\ k \in 1 .. lastJob /\ status[k] = "none"
  BY <1>1 DEF Control, RequestKnows, Reserved
<1>3. k \in Jobs /\ k <= lastJob
  BY <1>2 DEF TypeOK, Jobs
<1>4. /\ Only(r)
      /\ act'[r].at = "enqueue" /\ act'[r].then = "idle" /\ act'[r].job = k
  <2>1. act[r] \in Activity
    BY DEF TypeOK, Actors
  <2>2. "enqueue" \in Where /\ "idle" \in Where
    BY DEF Where
  <2>3. [act[r] EXCEPT !.at = "enqueue", !.then = "idle"] \in Activity
    BY <2>1, <2>2 DEF Activity
  <2>4. act' = [act EXCEPT ![r] = [act[r] EXCEPT !.at = "enqueue", !.then = "idle"]]
    BY DEF CreateImport
  <2>5. act'[r] = [act[r] EXCEPT !.at = "enqueue", !.then = "idle"]
    BY <2>4 DEF TypeOK, Actors
  <2> QED BY <2>1, <2>3, <2>4, <2>5 DEF Only, TypeOK, Activity
<1>5. "queued" \in Status
  BY DEF Status
<1>6. TypeOK'
  <2>1. status' \in [Jobs -> Status]
    BY <1>1, <1>5 DEF TypeOK
  <2>2. grants' \in [Jobs -> Nat]
    BY <1>1, <1>3 DEF TypeOK
  <2> QED BY <1>0, <1>4, <2>1, <2>2 DEF TypeOK, Only
<1>7. \A q \in Requests : q # r /\ Reserved(q) => act[q].job # k
  BY <1>2 DEF Numbered
<1>8. \A q \in Requests : act[q].at \in {"code", "commit"} => act[q].job # k
  BY <1>2 DEF Control, RequestKnows
<1>9. status'[k] = "queued"
  BY <1>1, <1>3 DEF TypeOK
<1>10. RequestKnows(r)' /\ ~Reserved(r)' /\ ~InCallback(r)'
  BY <1>3, <1>4, <1>9 DEF RequestKnows, Reserved, InCallback, Refreshing, Begun
<1>11. ~Begun(k)
  BY <1>2 DEF Begun
<1> HIDE DEF Inv, k
<1> QED BY <1>0, <1>1, <1>2, <1>3, <1>4, <1>5, <1>6, <1>7, <1>8, <1>10, <1>11, JobStep

\* Without an overlap the job is still pending, and no other callback has it.
LEMMA CallbackCommitStep ==
    ASSUME Inv, NEW r \in Requests, CallbackCommit(r)
    PROVE  Inv'
<1> USE SyncAssumption DEF Inv
<1> DEFINE k == act[r].job
<1>0. UNCHANGED <<lastJob, queue, overlap, runs, ops, crashes, valid, lastToken>>
  BY DEF CallbackCommit, provider
<1>1. /\ act[r].at = "commit"
      /\ status' = [status EXCEPT ![k] = "queued"]
      /\ grants' = [grants EXCEPT ![k] = @ + 1]
      /\ session' = Connected(act[r].token)
  BY DEF CallbackCommit, At, Queued
<1>2. /\ k \in Jobs /\ status[k] # "none"
      /\ ~overlap => status[k] = "oauth_pending"
  BY <1>1 DEF Control, RequestKnows
<1>3. k <= lastJob
  BY <1>2 DEF Numbered, TypeOK, Jobs
<1>4. act[r] \in Activity
  BY DEF TypeOK, Actors
<1>5. /\ Only(r)
      /\ act'[r].at = "enqueue" /\ act'[r].then = "schedule" /\ act'[r].job = k
  <2>2. "enqueue" \in Where /\ "schedule" \in Where
    BY DEF Where
  <2>3. [act[r] EXCEPT !.at = "enqueue", !.then = "schedule"] \in Activity
    BY <1>4, <2>2 DEF Activity
  <2>4. act' = [act EXCEPT ![r] = [act[r] EXCEPT !.at = "enqueue", !.then = "schedule"]]
    BY DEF CallbackCommit
  <2>5. act'[r] = [act[r] EXCEPT !.at = "enqueue", !.then = "schedule"]
    BY <2>4 DEF TypeOK, Actors
  <2> QED BY <1>4, <2>3, <2>4, <2>5 DEF Only, TypeOK, Activity
<1>6. session' \in Session /\ session'.state # "oauth_pending"
  BY <1>1, <1>4 DEF Connected, Session, Activity
<1>7. "queued" \in Status
  BY DEF Status
<1>8. TypeOK'
  <2>1. status' \in [Jobs -> Status]
    BY <1>1, <1>7 DEF TypeOK
  <2>2. grants' \in [Jobs -> Nat]
    BY <1>1, <1>2 DEF TypeOK
  <2> QED BY <1>0, <1>5, <1>6, <2>1, <2>2 DEF TypeOK, Only
<1>9. \A q \in Requests : q # r /\ Reserved(q) => act[q].job # k
  BY <1>2 DEF Control, RequestKnows
<1>10. ~overlap => /\ ~Begun(k)
                   /\ \A q \in Requests : q # r => ~InCallback(q)
  BY <1>1, <1>2 DEF Control, OneCallback, InCallback, Begun
<1>11. status'[k] = "queued"
  BY <1>1, <1>2 DEF TypeOK
<1>12. RequestKnows(r)' /\ ~Reserved(r)' /\ ~InCallback(r)'
  BY <1>2, <1>5, <1>11 DEF RequestKnows, Reserved, InCallback, Refreshing, Begun
<1>13. ~overlap => \A q \in Requests :
          q # r /\ act[q].at \in {"code", "commit"} => act[q].job # k
  BY <1>10 DEF InCallback
<1> HIDE DEF Inv, k
<1> QED BY <1>0, <1>1, <1>2, <1>3, <1>5, <1>6, <1>7, <1>8, <1>9, <1>10, <1>12, <1>13, JobStep

------------------------------------------------------------------------------
(* Steps that requests and the worker share. *)

LEMMA ScheduleStep ==
    ASSUME Inv, NEW a \in Actors, Schedule(a)
    PROVE  Inv'
<1> USE SyncAssumption DEF Inv
<1>0. UNCHANGED <<session, status, lastJob, grants, overlap, runs, ops, crashes, valid, lastToken>>
  BY DEF Schedule, jobVars, provider
<1>1. act[a].at = "schedule"
  BY DEF Schedule, At
<1>2. /\ queue' \in [0 .. MaxOps -> {"absent", "waiting", "active", "failed"}]
      /\ \A j \in Jobs : queue'[j] # "absent" => Begun(j)
  <2>1. CASE Add(0)
    <3>1. 0 \in 0 .. MaxOps /\ 0 \notin Jobs
      BY DEF Jobs
    <3> QED BY <2>1, <3>1, AddFields
  <2>2. CASE UNCHANGED queue
    BY <2>2 DEF TypeOK, QueueKnows
  <2> QED BY <2>1, <2>2 DEF Schedule
<1>3. CASE a = Worker
  <2>1. Only(a) /\ act'[a].at = "finish" /\ act'[a].then = act[a].then /\ act'[a].job = act[a].job
    <3>1. "finish" \in Where /\ Goto(a, "finish")
      BY <1>3 DEF Where, Schedule
    <3> QED BY <3>1, GotoFields
  <2>2. TypeOK'
    BY <1>0, <1>2, <2>1 DEF TypeOK, Only
  <2>3. WorkerKnows'
    BY <1>0, <1>1, <1>3, <2>1 DEF Control, WorkerKnows, Begun, Holding
  <2>4. \A j \in Jobs : ~InImport(j)'
    BY <1>3, <2>1 DEF InImport, Importing, Refreshing
  <2> QED BY <1>0, <1>2, <1>3, <2>1, <2>2, <2>3, <2>4, CalmWorker
<1>4. CASE a \in Requests
  <2>1. End(a)
    BY <1>4 DEF Schedule
  <2>2. Only(a)
    BY <2>1, EndFields
  <2>3. TypeOK'
    BY <1>0, <1>2, <2>2 DEF TypeOK, Only
  <2> QED BY <1>0, <1>2, <1>4, <2>1, <2>3, RequestEnds
<1> QED BY <1>3, <1>4 DEF Actors

\* The provider's answers have the types of tokens.
LEMMA RotateFields ==
    ASSUME TypeOK, NEW t, Rotate(t) \/ UNCHANGED provider
    PROVE  /\ valid' \subseteq 1 .. MaxTokens
           /\ lastToken' \in 0 .. MaxTokens
<1>1. CASE UNCHANGED provider
  BY <1>1 DEF TypeOK, provider
<1>2. ASSUME lastToken < MaxTokens, lastToken' = lastToken + 1,
             valid' = (valid \ {t}) \cup {lastToken + 1}
      PROVE  valid' \subseteq 1 .. MaxTokens /\ lastToken' \in 0 .. MaxTokens
  <2>1. lastToken + 1 \in 1 .. MaxTokens /\ lastToken + 1 \in 0 .. MaxTokens
    BY <1>2, SyncAssumption DEF TypeOK
  <2> QED BY <1>2, <2>1 DEF TypeOK
<1> QED BY <1>1, <1>2 DEF Rotate

\* After the token request the actor holds what it held, but for the token.
LEMMA ExchangeFields ==
    ASSUME TypeOK, NEW a \in Actors, RefreshExchange(a)
    PROVE  /\ Only(a)
           /\ act'[a].at \in {"won", "lost", "erred"}
           /\ act'[a].then = act[a].then
           /\ act'[a].job = act[a].job
           /\ valid' \subseteq 1 .. MaxTokens
           /\ lastToken' \in 0 .. MaxTokens
<1>1. act[a] \in Activity /\ {"won", "lost", "erred"} \subseteq Where
  BY DEF TypeOK, Where
<1>2. Rotate(act[a].token) \/ UNCHANGED provider
  BY DEF RefreshExchange
<1>3. valid' \subseteq 1 .. MaxTokens /\ lastToken' \in 0 .. MaxTokens
  BY <1>2, RotateFields
<1>4. \/ \E t \in 0 .. MaxTokens : act' = [act EXCEPT ![a].at = "won", ![a].token = t]
      \/ Goto(a, "lost")
      \/ Goto(a, "erred")
  BY <1>1, <1>3 DEF RefreshExchange, Activity
<1>5. ASSUME NEW t \in 0 .. MaxTokens, act' = [act EXCEPT ![a].at = "won", ![a].token = t]
      PROVE  /\ Only(a)
             /\ act'[a].at = "won" /\ act'[a].then = act[a].then /\ act'[a].job = act[a].job
  <2>1. [act[a] EXCEPT !.at = "won", !.token = t] \in Activity
    BY <1>1 DEF Activity
  <2>2. act' = [act EXCEPT ![a] = [act[a] EXCEPT !.at = "won", !.token = t]]
    BY <1>5
  <2>3. act'[a] = [act[a] EXCEPT !.at = "won", !.token = t]
    BY <2>2 DEF TypeOK
  <2> QED BY <1>1, <2>1, <2>2, <2>3 DEF Only, TypeOK, Activity
<1>6. CASE Goto(a, "lost")
  BY <1>1, <1>3, <1>6, GotoFields
<1>7. CASE Goto(a, "erred")
  BY <1>1, <1>3, <1>7, GotoFields
<1> QED BY <1>3, <1>4, <1>5, <1>6, <1>7

LEMMA RefreshExchangeStep ==
    ASSUME Inv, NEW a \in Actors, RefreshExchange(a)
    PROVE  Inv'
<1> USE SyncAssumption DEF Inv
<1>0. UNCHANGED <<session, status, lastJob, grants, queue, overlap, runs, ops, crashes>>
  BY DEF RefreshExchange, jobVars
<1>1. act[a].at = "refresh"
  BY DEF RefreshExchange, At
<1>2. /\ Only(a)
      /\ act'[a].at \in {"won", "lost", "erred"}
      /\ act'[a].then = act[a].then
      /\ act'[a].job = act[a].job
      /\ valid' \subseteq 1 .. MaxTokens
      /\ lastToken' \in 0 .. MaxTokens
  BY ExchangeFields
<1>3. TypeOK' /\ ops' >= ops
  BY <1>0, <1>2 DEF TypeOK, Only
<1>4. \A j \in Jobs : queue'[j] # "absent" => Begun(j)
  BY <1>0 DEF QueueKnows
<1>5. CASE a = Worker
  <2>1. WorkerKnows'
    BY <1>0, <1>1, <1>2, <1>5 DEF Control, WorkerKnows, Begun, Holding, Importing, Refreshing
  <2>2. \A j \in Jobs : InImport(j)' => InImport(j)
    BY <1>1, <1>2, <1>5 DEF InImport, Importing, Refreshing
  <2> QED BY <1>0, <1>2, <1>3, <1>4, <1>5, <2>1, <2>2, CalmWorker
<1>6. CASE a \in Requests
  <2>1. Reserved(a)' => Reserved(a)
    BY <1>2 DEF Reserved
  <2>2. RequestKnows(a)' /\ ~InCallback(a)'
    BY <1>0, <1>1, <1>2, <1>6 DEF Control, RequestKnows, Reserved, Refreshing, InCallback
  <2> QED BY <1>0, <1>2, <1>3, <1>4, <1>6, <2>1, <2>2, CalmRequest
<1> QED BY <1>5, <1>6 DEF Actors

LEMMA RefreshWriteStep ==
    ASSUME Inv, NEW a \in Actors, RefreshWrite(a)
    PROVE  Inv'
<1> USE SyncAssumption DEF Inv
<1>0. UNCHANGED <<status, lastJob, grants, queue, overlap, runs, ops, crashes, valid, lastToken>>
  BY DEF RefreshWrite, jobVars, provider
<1>1. act[a].at \in {"won", "lost", "erred"} /\ act[a] \in Activity
  BY DEF RefreshWrite, At, TypeOK
<1>2. session' \in Session /\ session'.state # "oauth_pending"
  BY <1>1 DEF RefreshWrite, Connected, NoSession, Session, Activity
<1>3. \A j \in Jobs : queue'[j] # "absent" => Begun(j)
  BY <1>0 DEF QueueKnows
<1>4. CASE a = Worker
  <2>1. act[a].then \in {"done", "import"} /\ act[a].then # "idle" /\ a \notin Requests
    BY <1>1, <1>4 DEF Control, WorkerKnows
  <2>2. PICK place \in {"done", "import", "failed", "fail"} : Goto(a, place)
    BY <2>1 DEF RefreshWrite, Throw
  <2>3. Only(a) /\ act'[a].at = place /\ act'[a].then = act[a].then /\ act'[a].job = act[a].job
    <3>1. place \in Where
      BY <2>2 DEF Where
    <3> QED BY <2>2, <3>1, GotoFields
  <2>4. TypeOK'
    BY <1>0, <1>2, <2>3 DEF TypeOK, Only
  <2>5. WorkerKnows'
    BY <1>0, <1>1, <1>4, <2>2, <2>3 DEF Control, WorkerKnows, Begun, Holding, Importing, Refreshing
  <2>6. \A j \in Jobs : InImport(j)' => InImport(j)
    BY <1>1, <1>4, <2>3 DEF InImport, Importing, Refreshing
  <2> QED BY <1>0, <1>2, <1>3, <1>4, <2>3, <2>4, <2>5, <2>6, CalmWorker
<1>5. CASE a \in Requests /\ End(a)
  <2>1. Only(a)
    BY <1>5, EndFields
  <2>2. TypeOK'
    BY <1>0, <1>2, <2>1 DEF TypeOK, Only
  <2> QED BY <1>0, <1>2, <1>3, <1>5, <2>2, RequestEnds
<1>6. CASE a \in Requests /\ ~End(a)
  <2>1. act[a].then = "create" /\ Goto(a, "create")
    <3>1. act[a].then \in {"idle", "create"}
      BY <1>1, <1>6 DEF Control, RequestKnows, Refreshing
    <3> QED BY <1>6, <3>1 DEF RefreshWrite, Throw
  <2>2. Only(a) /\ act'[a].at = "create" /\ act'[a].then = act[a].then /\ act'[a].job = act[a].job
    BY <2>1, SomeConstants, GotoFields
  <2>3. TypeOK' /\ ops' >= ops
    BY <1>0, <1>2, <2>2 DEF TypeOK, Only
  <2>4. Reserved(a)
    BY <2>1 DEF Reserved
  <2>5. RequestKnows(a)' /\ ~InCallback(a)'
    BY <1>0, <1>6, <2>1, <2>2, <2>4 DEF Control, RequestKnows, Reserved, Refreshing, InCallback
  <2> QED BY <1>0, <1>2, <1>3, <1>6, <2>2, <2>3, <2>4, <2>5, CalmRequest
<1> QED BY <1>4, <1>5, <1>6 DEF Actors

------------------------------------------------------------------------------
(* The worker. *)

LEMMA WorkerTakeStep ==
    ASSUME Inv, NEW k \in 0 .. MaxOps, WorkerTake(k)
    PROVE  Inv'
<1> USE SyncAssumption DEF Inv
<1>0. UNCHANGED <<session, status, lastJob, grants, overlap, runs, ops, crashes, valid, lastToken>>
  BY DEF WorkerTake, jobVars, provider
<1>1. queue[k] = "waiting" /\ queue' = [queue EXCEPT ![k] = "active"]
  BY DEF WorkerTake
<1>2. queue' \in [0 .. MaxOps -> {"absent", "waiting", "active", "failed"}]
  BY <1>1 DEF TypeOK
<1>3. \A j \in Jobs : queue'[j] # "absent" => Begun(j)
  BY <1>1 DEF TypeOK, QueueKnows, Jobs
<1>4. k # 0 => k \in Jobs /\ Begun(k)
  BY <1>1 DEF QueueKnows, Jobs
<1> DEFINE taken == [at |-> IF k = 0 THEN "load" ELSE "begin",
                     then |-> IF k = 0 THEN "done" ELSE "import",
                     token |-> 0, job |-> k]
<1>5. taken \in Activity
  <2>1. {"load", "begin", "done", "import"} \subseteq Where /\ 0 \in 0 .. MaxTokens
    BY DEF Where
  <2> QED BY <2>1 DEF Activity
<1>6. Worker \in Actors /\ act' = [act EXCEPT ![Worker] = taken]
  BY DEF WorkerTake, Actors
<1>7. Only(Worker) /\ act'[Worker] = taken
  <2> HIDE DEF taken
  <2> QED BY <1>5, <1>6 DEF Only, TypeOK
<1>8. TypeOK'
  BY <1>0, <1>2, <1>7 DEF TypeOK, Only
<1>9. WorkerKnows'
  BY <1>0, <1>4, <1>7 DEF WorkerKnows, Begun, Holding, Importing, Refreshing
<1>10. \A j \in Jobs : ~InImport(j)'
  BY <1>7 DEF InImport, Importing, Refreshing, Jobs
<1> QED BY <1>0, <1>3, <1>7, <1>8, <1>9, <1>10, CalmWorker

LEMMA WorkerLoadStep ==
    ASSUME Inv, WorkerLoad
    PROVE  Inv'
<1> USE SyncAssumption DEF Inv
<1>0. UNCHANGED <<session, status, lastJob, grants, queue, overlap, runs, ops, crashes,
                  valid, lastToken>>
  BY DEF WorkerLoad, jobVars, provider
<1>1. act[Worker].at = "load" /\ act[Worker] \in Activity /\ Worker \in Actors
  BY DEF WorkerLoad, At, TypeOK, Actors
<1>2. act[Worker].then \in {"done", "import"}
  BY <1>1 DEF Control, WorkerKnows
<1>3. \/ act' = [act EXCEPT ![Worker].at = "refresh", ![Worker].token = session.token]
      \/ \E place \in {"done", "import", "fail"} : Goto(Worker, place)
  BY <1>2 DEF WorkerLoad
<1> DEFINE Moved ==
             /\ Only(Worker)
             /\ act'[Worker].at \in {"refresh", "done", "import", "fail"}
             /\ act'[Worker].then = act[Worker].then
             /\ act'[Worker].job = act[Worker].job
<1>4. Moved
  <2>1. ASSUME NEW place \in {"done", "import", "fail"}, Goto(Worker, place)
        PROVE  Moved
    <3>1. place \in Where
      BY DEF Where
    <3> QED BY <1>1, <2>1, <3>1, GotoFields
  <2>2. ASSUME act' = [act EXCEPT ![Worker].at = "refresh", ![Worker].token = session.token]
        PROVE  Moved
    <3>1. "refresh" \in Where /\ session.token \in 0 .. MaxTokens
      BY DEF Where, TypeOK, Session
    <3>2. [act[Worker] EXCEPT !.at = "refresh", !.token = session.token] \in Activity
      BY <1>1, <3>1 DEF Activity
    <3>3. act' = [act EXCEPT ![Worker] =
                    [act[Worker] EXCEPT !.at = "refresh", !.token = session.token]]
      BY <2>2
    <3>4. act'[Worker] = [act[Worker] EXCEPT !.at = "refresh", !.token = session.token]
      BY <1>1, <3>3 DEF TypeOK
    <3> QED BY <1>1, <3>2, <3>3, <3>4 DEF Only, TypeOK, Activity
  <2> QED BY <1>3, <2>1, <2>2
<1>5. TypeOK'
  BY <1>0, <1>4 DEF TypeOK, Only
<1>6. WorkerKnows'
  BY <1>0, <1>1, <1>4 DEF Control, WorkerKnows, Begun, Holding, Importing, Refreshing
<1>7. \A j \in Jobs : InImport(j)' => InImport(j)
  BY <1>1, <1>4 DEF InImport, Importing, Refreshing
<1>8. \A j \in Jobs : queue'[j] # "absent" => Begun(j)
  BY <1>0 DEF QueueKnows
<1> QED BY <1>0, <1>4, <1>5, <1>6, <1>7, <1>8, CalmWorker

\* The worker goes idle, having returned its job or died.
LEMMA WorkerIdle ==
    ASSUME Inv, TypeOK', End(Worker), ops' = ops,
           UNCHANGED <<session, status, lastJob, grants, overlap, runs>>,
           \A j \in Jobs : queue'[j] # "absent" => Begun(j)
    PROVE  Inv'
<1>1. Only(Worker) /\ act'[Worker] = Idle
  BY EndFields DEF Inv, Actors
<1>2. WorkerKnows' /\ \A j \in Jobs : ~InImport(j)'
  BY <1>1 DEF WorkerKnows, InImport, Importing, Holding, Refreshing, Idle
<1> QED BY <1>1, <1>2, CalmWorker

LEMMA WorkerReturnStep ==
    ASSUME Inv, WorkerReturn
    PROVE  Inv'
<1> USE SyncAssumption DEF Inv
<1> DEFINE k == act[Worker].job
           e == IF act[Worker].at = "done" THEN "absent" ELSE "failed"
<1>0. UNCHANGED <<session, status, lastJob, grants, overlap, runs, ops, crashes, valid, lastToken>>
  BY DEF WorkerReturn, jobVars, provider
<1>1. /\ act[Worker].at \in {"done", "failed"} /\ End(Worker)
      /\ queue' = [queue EXCEPT ![k] = e]
  BY DEF WorkerReturn
<1>2. k \in 0 .. MaxOps /\ (k # 0 => Begun(k))
  BY <1>1 DEF Control, WorkerKnows, TypeOK, Activity, Actors
<1>3. /\ queue' \in [0 .. MaxOps -> {"absent", "waiting", "active", "failed"}]
      /\ \A j \in Jobs : queue'[j] # "absent" => Begun(j)
  <2>1. e \in {"absent", "failed"}
    OBVIOUS
  <2> HIDE DEF k, e
  <2> QED BY <1>1, <1>2, <2>1 DEF TypeOK, QueueKnows, Jobs
<1>4. Only(Worker)
  BY <1>1, EndFields DEF Actors
<1>5. TypeOK'
  BY <1>0, <1>3, <1>4 DEF TypeOK, Only
<1> QED BY <1>0, <1>1, <1>3, <1>5, WorkerIdle

\* The job of a dead worker waits again.
LEMMA WorkerCrashStep ==
    ASSUME Inv, WorkerCrash
    PROVE  Inv'
<1> USE SyncAssumption DEF Inv
<1>0. UNCHANGED <<session, status, lastJob, grants, overlap, runs, ops, valid, lastToken>>
  BY DEF WorkerCrash, jobVars, provider
<1>1. /\ queue' \in [0 .. MaxOps -> {"absent", "waiting", "active", "failed"}]
      /\ \A j \in Jobs : queue'[j] # "absent" => Begun(j)
  BY DEF WorkerCrash, TypeOK, QueueKnows, Jobs
<1>2. End(Worker)
  BY DEF WorkerCrash, End
<1>3. Only(Worker)
  BY <1>2, EndFields DEF Actors
<1>4. crashes' \in 0 .. MaxCrashes
  BY DEF WorkerCrash, TypeOK
<1>5. TypeOK'
  BY <1>0, <1>1, <1>3, <1>4 DEF TypeOK, Only
<1> QED BY <1>0, <1>1, <1>2, <1>5, WorkerIdle

\* A step of the worker that moves its own job on, once that has begun.
LEMMA WorkStep ==
    ASSUME Inv, NEW k \in Jobs, NEW st \in Status, TypeOK', Only(Worker),
           UNCHANGED <<session, lastJob, grants, queue, overlap, ops>>,
           k = act[Worker].job, act[Worker].at # "idle",
           st \notin {"none", "oauth_pending"},
           status' = [status EXCEPT ![k] = st],
           WorkerKnows',
           runs'[k] + Owed(k)' <= grants[k],
           act'[Worker].job = k, \A j \in Jobs : j # k => runs'[j] = runs[j]
    PROVE  Inv'
<1> USE SyncAssumption DEF Inv
<1>1. /\ Begun(k) /\ status'[k] = st
      /\ \A j \in Jobs : j # k => status'[j] = status[j]
      /\ \A j \in Jobs : Begun(j) => Begun(j)'
  BY DEF Control, WorkerKnows, TypeOK, Begun, Jobs
<1>2. \A q \in Requests : act'[q] = act[q]
  BY DEF Only, Actors
<1>3. Numbered'
  <2>1. k <= lastJob
    BY <1>1 DEF Numbered, Begun, TypeOK, Jobs
  <2>2. lastJob' <= ops'
    BY DEF Numbered
  <2>3. ASSUME NEW j \in Jobs, j > lastJob' PROVE status'[j] = "none"
    <3>1. j # k
      BY <2>1, <2>3 DEF TypeOK, Jobs
    <3> QED BY <3>1, <2>3, <1>1 DEF Numbered
  <2> QED BY <2>2, <2>3, <1>2 DEF Numbered, Reserved
<1>4. Control'
  <2>1. ASSUME NEW q \in Requests PROVE RequestKnows(q)'
    <3>1. RequestKnows(q) /\ act'[q] = act[q]
      BY <1>2 DEF Control
    <3>2. Reserved(q) => act[q].job \in Jobs /\ act[q].job # k /\ status'[act[q].job] = "none"
      <4>1. Reserved(q) => act[q].job \in 1 .. lastJob /\ status[act[q].job] = "none"
        BY <3>1 DEF RequestKnows
      <4>2. \A n \in 1 .. lastJob : n \in Jobs
        BY DEF TypeOK, Jobs
      <4> QED BY <4>1, <4>2, <1>1 DEF Begun
    <3>3. act[q].at \in {"code", "commit"} =>
             /\ act[q].job \in Jobs
             /\ status'[act[q].job] # "none"
             /\ ~overlap => status'[act[q].job] = "oauth_pending"
      BY <3>1, <1>1 DEF RequestKnows, Begun
    <3>4. act[q].at = "enqueue" => act[q].job \in Jobs /\ Begun(act[q].job)'
      BY <3>1, <1>1 DEF RequestKnows, Begun
    <3> HIDE DEF Inv
    <3> QED BY <3>1, <3>2, <3>3, <3>4 DEF RequestKnows, Reserved, Begun
  <2>2. OneCallback'
    BY <1>2 DEF Control, OneCallback, InCallback
  <2> QED BY <2>1, <2>2 DEF Control
<1>5. QueueKnows'
  BY <1>1 DEF QueueKnows, Begun
<1>6. SessionKnows'
  BY <1>1 DEF SessionKnows, Begun
<1>7. Budget'
  <2> SUFFICES ASSUME NEW j \in Jobs PROVE runs'[j] + Owed(j)' <= grants'[j]
    BY DEF Budget
  <2>1. CASE j = k
    BY <2>1
  <2>2. CASE j # k
    <3>1. ~InImport(j)' /\ ~InImport(j)
      BY <2>2 DEF InImport
    <3> QED BY <3>1, <2>2, <1>1 DEF Budget, Owed
  <2> QED BY <2>1, <2>2
<1> QED BY <1>3, <1>4, <1>5, <1>6, <1>7

LEMMA WorkerBeginStep ==
    ASSUME Inv, WorkerBegin
    PROVE  Inv'
<1> USE SyncAssumption DEF Inv
<1>0. UNCHANGED <<session, lastJob, grants, queue, overlap, runs, ops, crashes, valid, lastToken>>
  BY DEF WorkerBegin, provider
<1>1. act[Worker].at = "begin" /\ Worker \in Actors
  BY DEF WorkerBegin, At, Actors
<1>2. PICK k \in Jobs : k = act[Worker].job
  BY <1>1 DEF Control, WorkerKnows
<1>a. Begun(k) /\ act[Worker].then \in {"done", "import"}
  BY <1>1, <1>2 DEF Control, WorkerKnows, Jobs
<1>3. ASSUME status[k] = "queued", status' = [status EXCEPT ![k] = "running"],
             Goto(Worker, "load")
      PROVE  Inv'
  <2>1. /\ Only(Worker) /\ act'[Worker].at = "load"
        /\ act'[Worker].then = act[Worker].then /\ act'[Worker].job = k
    <3>1. "load" \in Where
      BY DEF Where
    <3> QED BY <1>1, <1>2, <1>3, <3>1, GotoFields
  <2>2. "running" \in Status
    BY DEF Status
  <2>3. status' \in [Jobs -> Status] /\ status'[k] = "running"
    BY <1>2, <1>3, <2>2 DEF TypeOK
  <2>4. TypeOK'
    BY <1>0, <2>1, <2>3 DEF TypeOK, Only
  <2>5. WorkerKnows'
    BY <1>a, <1>2, <2>1, <2>3 DEF WorkerKnows, Begun
  <2>6. runs'[k] + Owed(k)' <= grants[k]
    <3>1. InImport(k)' /\ ~InImport(k)
      BY <1>1, <2>1 DEF InImport, Importing, Refreshing
    <3>2. Owed(k)' = 1 /\ Owed(k) = 1
      BY <3>1, <1>3, <2>3 DEF Owed
    <3> QED BY <3>2, <1>0, <1>2 DEF Budget
  <2> HIDE DEF Inv
  <2> QED BY <1>0, <1>1, <1>2, <1>3, <2>1, <2>2, <2>4, <2>5, <2>6, WorkStep
<1>4. ASSUME Goto(Worker, "done"), UNCHANGED status
      PROVE  Inv'
  <2>1. /\ Only(Worker) /\ act'[Worker].at = "done"
        /\ act'[Worker].then = act[Worker].then /\ act'[Worker].job = k
    <3>1. "done" \in Where
      BY DEF Where
    <3> QED BY <1>1, <1>2, <1>4, <3>1, GotoFields
  <2>2. TypeOK'
    BY <1>0, <1>4, <2>1 DEF TypeOK, Only
  <2>3. WorkerKnows' /\ \A j \in Jobs : ~InImport(j)'
    BY <1>a, <1>2, <1>4, <2>1 DEF WorkerKnows, Begun, InImport, Holding, Importing, Refreshing
  <2>4. \A j \in Jobs : queue'[j] # "absent" => Begun(j)
    BY <1>0 DEF QueueKnows
  <2> QED BY <1>0, <1>4, <2>1, <2>2, <2>3, <2>4, CalmWorker
<1> QED BY <1>2, <1>3, <1>4 DEF WorkerBegin, Runnable

LEMMA WorkerImportStep ==
    ASSUME Inv, WorkerImport
    PROVE  Inv'
<1> USE SyncAssumption DEF Inv
<1>0. UNCHANGED <<session, status, lastJob, grants, queue, overlap, ops, crashes, valid, lastToken>>
  BY DEF WorkerImport, jobVars, provider
<1>1. act[Worker].at = "import" /\ Worker \in Actors /\ act[Worker].job \in 0 .. MaxOps
  BY DEF WorkerImport, At, Actors, TypeOK, Activity
<1>2. act[Worker].job # 0 => act[Worker].job \in Jobs
  BY <1>1 DEF Jobs
<1>3. PICK place \in {"schedule", "fail"} : Goto(Worker, place)
  BY DEF WorkerImport
<1>4. /\ Only(Worker) /\ act'[Worker].at = place
      /\ act'[Worker].then = act[Worker].then /\ act'[Worker].job = act[Worker].job
  <2>1. place \in Where
    BY DEF Where
  <2> QED BY <1>1, <1>3, <2>1, GotoFields
<1>5. runs' \in [Jobs -> Nat]
  BY <1>1 DEF WorkerImport, TypeOK
<1>6. TypeOK'
  BY <1>0, <1>4, <1>5 DEF TypeOK, Only
<1>7. WorkerKnows'
  BY <1>0, <1>1, <1>3, <1>4 DEF Control, WorkerKnows, Begun, Holding, Importing
<1>8. \A j \in Jobs : ~InImport(j)'
  BY <1>3, <1>4 DEF InImport, Importing, Refreshing
<1>9. \A j \in Jobs : queue'[j] # "absent" => Begun(j)
  BY <1>0 DEF QueueKnows
<1>10. CASE runs' = runs
  BY <1>0, <1>4, <1>6, <1>7, <1>8, <1>9, <1>10, CalmWorker
<1>11. CASE act[Worker].job \in Jobs /\ runs' = [runs EXCEPT ![act[Worker].job] = @ + 1]
  <2>1. PICK k \in Jobs : k = act[Worker].job
    BY <1>11
  <2>2. status[k] \in Status /\ status[k] \notin {"none", "oauth_pending"}
    BY <1>1, <1>2, <2>1 DEF Control, WorkerKnows, Begun, TypeOK, Jobs
  <2>3. status' = [status EXCEPT ![k] = status[k]]
    BY <1>0 DEF TypeOK
  <2>4. runs'[k] = runs[k] + 1 /\ \A j \in Jobs : j # k => runs'[j] = runs[j]
    BY <1>11, <2>1 DEF TypeOK
  <2>5. runs'[k] + Owed(k)' <= grants[k]
    <3>1. InImport(k) /\ ~InImport(k)'
      BY <1>1, <1>8, <2>1 DEF InImport, Importing
    <3>2. Owed(k)' + 1 = Owed(k) /\ Owed(k)' \in 0 .. 2
      BY <3>1, <1>0 DEF Owed
    <3>3. runs[k] + Owed(k) <= grants[k] /\ runs[k] \in Nat /\ grants[k] \in Nat
      BY DEF Budget, TypeOK
    <3> QED BY <3>2, <3>3, <2>4
  <2> HIDE DEF Inv
  <2> QED BY <1>0, <1>1, <1>4, <1>6, <1>7, <2>1, <2>2, <2>3, <2>4, <2>5, WorkStep
<1>12. act[Worker].job \notin Jobs => runs' = runs
  <2>1. act[Worker].job \notin Jobs => [runs EXCEPT ![act[Worker].job] = @ + 1] = runs
    BY DEF TypeOK
  <2> QED BY <2>1 DEF WorkerImport
<1> QED BY <1>10, <1>11, <1>12 DEF WorkerImport

LEMMA WorkerMarkStep ==
    ASSUME Inv, WorkerMark
    PROVE  Inv'
<1> USE SyncAssumption DEF Inv
<1>0. UNCHANGED <<session, lastJob, grants, queue, overlap, runs, ops, crashes, valid, lastToken>>
  BY DEF WorkerMark, provider
<1>1. /\ act[Worker].at \in {"finish", "fail"} /\ Worker \in Actors
      /\ act[Worker].job \in 0 .. MaxOps
  BY DEF WorkerMark, At, Actors, TypeOK, Activity
<1>2. PICK st \in Final : status' = [status EXCEPT ![act[Worker].job] = st]
  BY DEF WorkerMark, Final
<1>3. PICK place \in {"done", "failed"} : Goto(Worker, place)
  BY DEF WorkerMark
<1>4. /\ Only(Worker) /\ act'[Worker].at = place
      /\ act'[Worker].then = act[Worker].then /\ act'[Worker].job = act[Worker].job
  <2>1. place \in Where
    BY DEF Where
  <2> QED BY <1>1, <1>3, <2>1, GotoFields
<1>5. st \in Status /\ st \notin {"none", "oauth_pending", "queued"}
  BY DEF Status, Final
<1>6. status' \in [Jobs -> Status]
  BY <1>2, <1>5 DEF TypeOK
<1>7. TypeOK'
  BY <1>0, <1>4, <1>6 DEF TypeOK, Only
<1>8. act[Worker].job # 0 =>
         act[Worker].job \in Jobs /\ status'[act[Worker].job] = st
  BY <1>1, <1>2 DEF Jobs, TypeOK
<1>9. WorkerKnows'
  BY <1>1, <1>3, <1>4, <1>5, <1>8 DEF Control, WorkerKnows, Begun, Holding, Importing, Refreshing
<1>10. \A j \in Jobs : ~InImport(j)'
  BY <1>3, <1>4 DEF InImport, Importing, Refreshing
<1>11. CASE act[Worker].job \in Jobs
  <2>1. PICK k \in Jobs : k = act[Worker].job
    BY <1>11
  <2>2. runs'[k] + Owed(k)' <= grants[k]
    <3>1. Owed(k)' = 0
      BY <1>5, <1>8, <1>10, <2>1 DEF Owed, Jobs
    <3>2. runs[k] + Owed(k) <= grants[k] /\ Owed(k) \in 0 .. 2
      BY DEF Budget, Owed
    <3> QED BY <3>1, <3>2, <1>0 DEF TypeOK
  <2> HIDE DEF Inv
  <2> QED BY <1>0, <1>1, <1>2, <1>4, <1>5, <1>7, <1>9, <2>1, <2>2, WorkStep
<1>12. CASE act[Worker].job \notin Jobs
  <2>1. status' = status
    BY <1>2, <1>12 DEF TypeOK
  <2>2. \A j \in Jobs : queue'[j] # "absent" => Begun(j)
    BY <1>0 DEF QueueKnows
  <2> QED BY <1>0, <1>4, <1>7, <1>9, <1>10, <2>1, <2>2, CalmWorker
<1> QED BY <1>11, <1>12

------------------------------------------------------------------------------
(* The invariant is kept. *)

LEMMA ApiCrashStep ==
    ASSUME Inv, ApiCrash
    PROVE  Inv'
<1> USE SyncAssumption DEF Inv
<1>0. UNCHANGED <<session, status, lastJob, grants, queue, overlap, runs, ops, valid, lastToken>>
  BY DEF ApiCrash, jobVars, provider
<1>1. Idle \in Activity
  BY DEF Idle, Activity, Where
<1>2. /\ act' \in [Actors -> Activity]
      /\ act'[Worker] = act[Worker]
      /\ \A r \in Requests : act'[r] = Idle
  BY <1>1 DEF ApiCrash, TypeOK, Actors
<1>3. crashes' \in 0 .. MaxCrashes
  BY DEF ApiCrash, TypeOK
<1>4. TypeOK'
  BY <1>0, <1>2, <1>3 DEF TypeOK
<1>5. Numbered'
  <2>1. \A r \in Requests : ~Reserved(r)'
    BY <1>2 DEF Reserved, Idle
  <2> QED BY <2>1, <1>0 DEF Numbered
<1>6. Control'
  <2>1. \A r \in Requests : RequestKnows(r)'
    BY <1>2 DEF RequestKnows, Reserved, Refreshing, Idle
  <2>2. WorkerKnows'
    BY <1>0, <1>2 DEF Control, WorkerKnows, Begun
  <2>3. OneCallback'
    BY <1>2 DEF OneCallback, InCallback, Idle
  <2> QED BY <2>1, <2>2, <2>3 DEF Control
<1>7. QueueKnows' /\ SessionKnows'
  BY <1>0 DEF QueueKnows, SessionKnows, Begun
<1>8. Budget'
  BY <1>0, <1>2 DEF Budget, Owed, InImport
<1> QED BY <1>4, <1>5, <1>6, <1>7, <1>8

LEMMA InvStutter ==
    ASSUME Inv, UNCHANGED vars
    PROVE  Inv'
  BY DEF Inv, vars, TypeOK, Numbered, Control, RequestKnows, WorkerKnows, OneCallback,
     QueueKnows, SessionKnows, Budget, Owed, InImport, InCallback, Reserved, Begun

LEMMA InvStep == Inv /\ [Next]_vars => Inv'
<1> SUFFICES ASSUME Inv, [Next]_vars PROVE Inv'
  OBVIOUS
<1>1. ASSUME NEW r \in Requests, Arrive(r) PROVE Inv'
  BY <1>1, NumberedArrival, CallbackFindStep, PlainArrival DEF Arrive
<1>2. ASSUME NEW r \in Requests, Proceed(r) PROVE Inv'
  BY <1>2, StartCommitStep, CallbackJobStep, CallbackExchangeStep, CallbackCommitStep,
     EnqueueStep, DisconnectCommitStep, CreateImportStep DEF Proceed
<1>3. ASSUME NEW a \in Actors, Shared(a) PROVE Inv'
  BY <1>3, ScheduleStep, RefreshExchangeStep, RefreshWriteStep DEF Shared
<1>4. ASSUME NEW j \in 0 .. MaxOps, WorkerTake(j) PROVE Inv'
  BY <1>4, WorkerTakeStep
<1>5. CASE Work
  BY <1>5, WorkerBeginStep, WorkerLoadStep, WorkerImportStep, WorkerMarkStep,
     WorkerReturnStep DEF Work
<1>6. CASE ApiCrash \/ WorkerCrash
  BY <1>6, ApiCrashStep, WorkerCrashStep
<1>7. CASE UNCHANGED vars
  BY <1>7, InvStutter
<1> QED BY <1>1, <1>2, <1>3, <1>4, <1>5, <1>6, <1>7 DEF Next

LEMMA Invariance == Spec => []Inv
<1> QED BY InvInit, InvStep, PTL DEF Spec

------------------------------------------------------------------------------
(* The theorems. *)

\* Every variable keeps its type; in particular the session is in a state
\* that the readers of provider_sessions know.
THEOREM ProviderTypeCorrect == Spec => []TypeOK
<1>1. Inv => TypeOK
  BY DEF Inv
<1> QED BY <1>1, Invariance, PTL

\* While an authorization is pending its job is too, so that the callback of
\* the authorization finds one.
THEOREM PendingHasItsJobTheorem == Spec => []PendingHasItsJob
<1>1. Inv => PendingHasItsJob
  BY DEF Inv, SessionKnows, PendingHasItsJob
<1> QED BY <1>1, Invariance, PTL

\* Redelivery and crashes never make a job replace the local rows more often
\* than it was queued.
THEOREM ImportedOncePerGrantTheorem == Spec => []ImportedOncePerGrant
<1>1. Inv => ImportedOncePerGrant
  <2> SUFFICES ASSUME Inv, NEW j \in Jobs PROVE runs[j] <= grants[j]
    BY DEF ImportedOncePerGrant
  <2>1. runs[j] + Owed(j) <= grants[j] /\ runs[j] \in Nat /\ grants[j] \in Nat
    BY DEF Inv, Budget, TypeOK
  <2>2. Owed(j) \in 0 .. 2
    BY DEF Owed
  <2> QED BY <2>1, <2>2
<1> QED BY <1>1, Invariance, PTL

\* One job moves forward and the others stay.
LEMMA ForwardStep ==
    ASSUME TypeOK, NEW k \in Jobs, NEW st, status' = [status EXCEPT ![k] = st],
           Rank(st) > Rank(status[k]), status[k] \notin Final
    PROVE  \A j \in Jobs :
              \/ status'[j] = status[j]
              \/ Rank(status'[j]) > Rank(status[j]) /\ status[j] \notin Final
  BY DEF TypeOK

LEMMA Ranks ==
    /\ Rank("none") = 0 /\ Rank("oauth_pending") = 1 /\ Rank("queued") = 2
    /\ Rank("running") = 3 /\ Rank("succeeded") = 4 /\ Rank("failed") = 4
  BY DEF Rank

\* Without overlapping callbacks a job only moves forward and stays ended.
THEOREM JobsMoveForwardTheorem == Spec => JobsMoveForward
<1> DEFINE Forward ==
             ~overlap' =>
               \A j \in Jobs :
                  \/ status'[j] = status[j]
                  \/ Rank(status'[j]) > Rank(status[j]) /\ status[j] \notin Final
<1>1. Inv /\ Next => Forward
  <2> SUFFICES ASSUME Inv, Next, ~overlap' PROVE Forward
    OBVIOUS
  <2>1. TypeOK
    BY DEF Inv
  <2>2. CASE status' = status
    BY <2>2
  <2>3. ASSUME NEW r \in Requests, StartCommit(r) PROVE Forward
    <3>0. Reserved(r)
      BY <2>3 DEF Inv, Control, RequestKnows, Reserved, StartCommit, At
    <3>1. act[r].job \in Jobs /\ status[act[r].job] = "none"
      <4>1. act[r].job \in 1 .. lastJob /\ status[act[r].job] = "none"
        BY <3>0 DEF Inv, Control, RequestKnows
      <4> QED BY <2>1, <4>1, SyncAssumption DEF TypeOK, Jobs
    <3>2. status' = [status EXCEPT ![act[r].job] = "oauth_pending"]
      BY <2>3 DEF StartCommit
    <3> QED BY <2>1, <3>1, <3>2, Ranks, ForwardStep DEF Final
  <2>4. ASSUME NEW r \in Requests, CallbackCommit(r) PROVE Forward
    <3>1. act[r].job \in Jobs /\ status[act[r].job] = "oauth_pending"
      BY <2>4 DEF Inv, Control, RequestKnows, CallbackCommit, At
    <3>2. status' = [status EXCEPT ![act[r].job] = "queued"]
      BY <2>4 DEF CallbackCommit
    <3> QED BY <2>1, <3>1, <3>2, Ranks, ForwardStep DEF Final
  <2>5. ASSUME NEW r \in Requests, CreateImport(r) PROVE Forward
    <3>0. Reserved(r)
      BY <2>5 DEF Inv, Control, RequestKnows, Reserved, CreateImport, At
    <3>1. act[r].job \in Jobs /\ status[act[r].job] = "none"
      <4>1. act[r].job \in 1 .. lastJob /\ status[act[r].job] = "none"
        BY <3>0 DEF Inv, Control, RequestKnows
      <4> QED BY <2>1, <4>1, SyncAssumption DEF TypeOK, Jobs
    <3>2. status' = [status EXCEPT ![act[r].job] = "queued"]
      BY <2>5 DEF CreateImport
    <3> QED BY <2>1, <3>1, <3>2, Ranks, ForwardStep DEF Final
  <2>6. CASE WorkerBegin
    <3>1. act[Worker].job \in Jobs
      BY <2>6 DEF Inv, Control, WorkerKnows, WorkerBegin, At
    <3>2. \/ status' = status
          \/ /\ status[act[Worker].job] = "queued"
             /\ status' = [status EXCEPT ![act[Worker].job] = "running"]
      BY <2>6 DEF WorkerBegin, Runnable
    <3> QED BY <2>1, <2>2, <3>1, <3>2, Ranks, ForwardStep DEF Final
  <2>7. CASE WorkerMark
    <3>1. /\ act[Worker].at \in {"finish", "fail"} /\ overlap' = overlap
          /\ act[Worker].job \in 0 .. MaxOps
      BY <2>7, <2>1 DEF WorkerMark, At, TypeOK, Actors, Activity
    <3>2. act[Worker].job \in Jobs => status[act[Worker].job] = "running"
      BY <3>1 DEF Inv, Control, WorkerKnows, Holding, Jobs
    <3>3. PICK st \in Final : status' = [status EXCEPT ![act[Worker].job] = st]
      BY <2>7 DEF WorkerMark, Final
    <3>4. CASE act[Worker].job \in Jobs
      <4>1. Rank(st) = 4
        BY <3>3, Ranks DEF Final
      <4> QED BY <2>1, <3>2, <3>3, <3>4, <4>1, Ranks, ForwardStep DEF Final
    <3>5. CASE act[Worker].job \notin Jobs
      BY <2>1, <3>3, <3>5 DEF TypeOK
    <3> QED BY <3>4, <3>5
  <2>8. \/ status' = status
        \/ \E r \in Requests : StartCommit(r) \/ CallbackCommit(r) \/ CreateImport(r)
        \/ WorkerBegin \/ WorkerMark
    BY DEF Next, Arrive, Proceed, Shared, Work, StartAuthorization, CallbackFind, Disconnect,
       AccessToken, ImportNow, CallbackJob, CallbackExchange, Enqueue, DisconnectCommit,
       Schedule, RefreshExchange, RefreshWrite, WorkerTake, WorkerLoad, WorkerImport,
       WorkerReturn, ApiCrash, WorkerCrash, jobVars
  <2> QED BY <2>2, <2>3, <2>4, <2>5, <2>6, <2>7, <2>8
<1>2. Inv /\ [Next]_vars => [Forward]_vars
  BY <1>1
<1> QED BY <1>2, Invariance, PTL DEF Spec, JobsMoveForward
==============================================================================
