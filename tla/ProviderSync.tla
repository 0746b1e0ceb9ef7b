---------------------------- MODULE ProviderSync ----------------------------
(***************************************************************************)
(* The connection of one profile to one import provider (Trakt or Simkl):  *)
(* the provider_sessions row with its rotating refresh token, the import   *)
(* jobs and their BullMQ queue, the requests of the API process that       *)
(* authorize, refresh, import and disconnect, and the worker process.      *)
(*                                                                         *)
(* Transactions run at READ COMMITTED and lock nothing when they read, so  *)
(* every await between a read and the write that relies on it is a step    *)
(* boundary.  The provider is external: it accepts the tokens in valid.    *)
(* An authorization is known by the number of the job created with it;     *)
(* session.auth is a history variable that says whose the session is.      *)
(***************************************************************************)
EXTENDS Integers

CONSTANTS
    Requests,    \* API requests in progress at once
    Worker,      \* the worker process, which runs one job at a time
    MaxOps,      \* bound: requests, hence jobs
    MaxTokens,   \* bound: refresh tokens the provider hands out
    MaxCrashes   \* bound: crashes of either process

ASSUME SyncAssumption ==
    /\ Worker \notin Requests
    /\ MaxOps \in Nat
    /\ MaxTokens \in Nat
    /\ MaxCrashes \in Nat

VARIABLES
    session,    \* the provider_sessions row
    status,     \* status[j]: status of import job j
    queue,      \* queue[j]: BullMQ entry of import j; entry 0: provider-refresh
    act,        \* act[a]: what actor a is doing and what it has read
    valid,      \* refresh tokens the provider accepts
    lastJob, lastToken,
    overlap,    \* an authorization or a callback began during a callback
    grants,     \* grants[j]: times j was marked queued (observation)
    runs,       \* runs[j]: times j replaced the local rows (observation)
    ops, crashes

jobVars == <<status, lastJob, grants>>
provider == <<valid, lastToken>>
vars == <<session, status, queue, act, valid, lastJob, lastToken, overlap,
          grants, runs, ops, crashes>>

Jobs == 1 .. MaxOps
Actors == Requests \cup {Worker}
Final == {"succeeded", "failed"}
Status == {"none", "oauth_pending", "queued", "running"} \cup Final
Session == [state : {"none", "oauth_pending", "connected", "reauth_required",
                     "disconnected_by_user"},
            token : 0 .. MaxTokens, auth : 0 .. MaxOps]
Where == {"idle", "start", "callback", "code", "commit", "disconnect", "refresh",
          "won", "lost", "erred", "create", "enqueue", "schedule", "begin",
          "load", "import", "finish", "fail", "done", "failed"}
Activity == [at : Where, then : Where, token : 0 .. MaxTokens, job : 0 .. MaxOps]

TypeOK ==
    /\ session \in Session
    /\ status \in [Jobs -> Status]
    /\ queue \in [0 .. MaxOps -> {"absent", "waiting", "active", "failed"}]
    /\ act \in [Actors -> Activity]
    /\ valid \subseteq 1 .. MaxTokens
    /\ lastJob \in 0 .. MaxOps
    /\ lastToken \in 0 .. MaxTokens
    /\ overlap \in BOOLEAN
    /\ grants \in [Jobs -> Nat]
    /\ runs \in [Jobs -> Nat]
    /\ ops \in 0 .. MaxOps
    /\ crashes \in 0 .. MaxCrashes

Idle == [at |-> "idle", then |-> "idle", token |-> 0, job |-> 0]
NoSession == [state |-> "none", token |-> 0, auth |-> 0]
Connected(t) == [state |-> "connected", token |-> t, auth |-> 0]

Init ==
    /\ session = NoSession
    /\ status = [j \in Jobs |-> "none"]
    /\ queue = [j \in 0 .. MaxOps |-> "absent"]
    /\ act = [a \in Actors |-> Idle]
    /\ valid = {}
    /\ lastJob = 0 /\ lastToken = 0
    /\ overlap = FALSE
    /\ grants = [j \in Jobs |-> 0]
    /\ runs = [j \in Jobs |-> 0]
    /\ ops = 0 /\ crashes = 0

------------------------------------------------------------------------------
(* Helpers. *)

\* A new request r starts at a place, with a token and a job it knows of.
Begin(r, at, then, t, j) ==
    /\ act[r] = Idle
    /\ ops < MaxOps
    /\ ops' = ops + 1
    /\ act' = [act EXCEPT ![r] = [at |-> at, then |-> then, token |-> t, job |-> j]]

At(a, place) == act[a].at = place
Goto(a, place) == act' = [act EXCEPT ![a].at = place]
End(a) == act' = [act EXCEPT ![a] = Idle]

\* Queue.add with a fixed job id: ignored while an entry has the id, be it
\* waiting, active or a failure that is kept.
Add(j) ==
    queue' = IF queue[j] = "absent" THEN [queue EXCEPT ![j] = "waiting"] ELSE queue

InCallback(a) == act[a].at \in {"callback", "code", "commit"}

\* The provider's revoke endpoint may fail; that is only logged.
Revoke(t) ==
    /\ valid' \in {valid, valid \ {t}}
    /\ UNCHANGED lastToken

Queued(j) == grants' = [grants EXCEPT ![j] = @ + 1]

------------------------------------------------------------------------------
(* Connect, reconnect and the OAuth callback. *)

\* startProviderAuthorization reads the session and revokes its token ...
\* The job is numbered here: its created_at is when the transaction began.
StartAuthorization(r) ==
    /\ Begin(r, "start", "idle", 0, lastJob + 1)
    /\ lastJob' = lastJob + 1
    /\ Revoke(session.token)
    /\ UNCHANGED <<session, status, grants, queue, overlap, runs, crashes>>

\* ... then commits the pending session and the pending job together.
StartCommit(r) ==
    /\ At(r, "start")
    /\ status' = [status EXCEPT ![act[r].job] = "oauth_pending"]
    /\ session' = [state |-> "oauth_pending", token |-> 0, auth |-> act[r].job]
    /\ overlap' = (overlap \/ \E q \in Requests : InCallback(q))
    /\ End(r)
    /\ UNCHANGED <<provider, queue, lastJob, grants, runs, ops, crashes>>

\* completeOAuthCallback finds the session of its state token ...
CallbackFind(r) ==
    /\ session.state = "oauth_pending"
    /\ Begin(r, "callback", "idle", 0, 0)
    /\ overlap' = (overlap \/ \E q \in Requests : InCallback(q))
    /\ UNCHANGED <<session, jobVars, queue, provider, runs, crashes>>

Pending == {j \in Jobs : status[j] = "oauth_pending"}

\* ... then the pending job of the profile that was created last.  An expired or refused
\* authorization marks both and throws, which rolls both marks back.
CallbackJob(r) ==
    /\ At(r, "callback")
    /\ \/ \E j \in Pending :
            /\ \A k \in Pending : k <= j
            /\ act' = [act EXCEPT ![r].at = "code", ![r].job = j]
       \/ End(r)
    /\ UNCHANGED <<session, jobVars, queue, provider, overlap, runs, ops, crashes>>

CallbackExchange(r) ==
    /\ At(r, "code")
    /\ \/ /\ lastToken < MaxTokens
          /\ lastToken' = lastToken + 1
          /\ valid' = valid \cup {lastToken + 1}
          /\ act' = [act EXCEPT ![r].at = "commit", ![r].token = lastToken + 1]
       \/ /\ End(r)
          /\ UNCHANGED provider
    /\ UNCHANGED <<session, jobVars, queue, overlap, runs, ops, crashes>>

\* (mutant) the pending job is looked up again, and markConnected spares a
\* session that was authorized anew meanwhile
CallbackCommitSparesPending(r) ==
    /\ At(r, "commit")
    /\ session' = IF session.auth \in {0, act[r].job} THEN Connected(act[r].token)
                  ELSE session
    /\ status' = [status EXCEPT ![lastJob] = "queued"]
    /\ Queued(lastJob)
    /\ act' = [act EXCEPT ![r].at = "enqueue", ![r].then = "schedule"]
    /\ UNCHANGED <<lastJob, queue, provider, overlap, runs, ops, crashes>>

\* markConnected and markQueued, whatever both rows hold by now.
CallbackCommit(r) ==
    /\ At(r, "commit")
    /\ session' = Connected(act[r].token)
    /\ status' = [status EXCEPT ![act[r].job] = "queued"]
    /\ Queued(act[r].job)
    /\ act' = [act EXCEPT ![r].at = "enqueue", ![r].then = "schedule"]
    /\ UNCHANGED <<lastJob, queue, provider, overlap, runs, ops, crashes>>

\* (mutant) enqueued only if the session is still connected
EnqueueIfConnected(r) ==
    /\ At(r, "enqueue")
    /\ IF session.state = "connected" THEN Add(act[r].job) ELSE UNCHANGED queue
    /\ IF act[r].then = "schedule" THEN Goto(r, "schedule") ELSE End(r)
    /\ UNCHANGED <<session, jobVars, provider, overlap, runs, ops, crashes>>

\* After the commit: enqueueProviderImport.
Enqueue(r) ==
    /\ At(r, "enqueue")
    /\ Add(act[r].job)
    /\ IF act[r].then = "schedule" THEN Goto(r, "schedule") ELSE End(r)
    /\ UNCHANGED <<session, jobVars, provider, overlap, runs, ops, crashes>>

\* scheduleProviderRefresh, by a callback or by the worker after an import.
Schedule(a) ==
    /\ At(a, "schedule")
    /\ IF session.state = "connected" THEN Add(0) ELSE UNCHANGED queue
    /\ IF a = Worker THEN Goto(a, "finish") ELSE End(a)
    /\ UNCHANGED <<session, jobVars, provider, overlap, runs, ops, crashes>>

------------------------------------------------------------------------------
(* The other requests. *)

\* disconnectProviderSession: read, revoke, then mark.
Disconnect(r) ==
    /\ Begin(r, "disconnect", "idle", 0, 0)
    /\ Revoke(session.token)
    /\ UNCHANGED <<session, jobVars, queue, overlap, runs, crashes>>

\* (mutant) a state that no reader of the row knows
DisconnectCommitUnknown(r) ==
    /\ At(r, "disconnect")
    /\ session' = [NoSession EXCEPT !.state = "disconnected"]
    /\ End(r)
    /\ UNCHANGED <<jobVars, queue, provider, overlap, runs, ops, crashes>>

DisconnectCommit(r) ==
    /\ At(r, "disconnect")
    /\ session' = [NoSession EXCEPT !.state = "disconnected_by_user"]
    /\ End(r)
    /\ UNCHANGED <<jobVars, queue, provider, overlap, runs, ops, crashes>>

\* getAccessTokenForAccountProfile and importProviderNow refresh what they
\* have read; the second then creates a job.
AccessToken(r) ==
    /\ session.state = "connected"
    /\ Begin(r, "refresh", "idle", session.token, 0)
    /\ UNCHANGED <<session, jobVars, queue, provider, overlap, runs, crashes>>

ImportNow(r) ==
    /\ session.state = "connected"
    /\ Begin(r, "refresh", "create", session.token, lastJob + 1)
    /\ lastJob' = lastJob + 1
    /\ UNCHANGED <<session, status, grants, queue, provider, overlap, runs, crashes>>

CreateImport(r) ==
    /\ At(r, "create")
    /\ status' = [status EXCEPT ![act[r].job] = "queued"]
    /\ Queued(act[r].job)
    /\ act' = [act EXCEPT ![r].at = "enqueue", ![r].then = "idle"]
    /\ UNCHANGED <<session, lastJob, queue, provider, overlap, runs, ops, crashes>>

------------------------------------------------------------------------------
(* refreshConnectedSession, for requests and for the worker. *)

\* The provider rotates the token or keeps it.
Rotate(t) ==
    \/ /\ lastToken < MaxTokens
       /\ lastToken' = lastToken + 1
       /\ valid' = (valid \ {t}) \cup {lastToken + 1}
    \/ UNCHANGED provider

\* The token request: answered with tokens, with invalid_grant, or not.
RefreshExchange(a) ==
    /\ At(a, "refresh")
    /\ \/ /\ act[a].token \in valid
          /\ Rotate(act[a].token)
          /\ act' = [act EXCEPT ![a].at = "won",
                                ![a].token = IF lastToken' > lastToken THEN lastToken'
                                             ELSE @]
       \/ /\ act[a].token \notin valid
          /\ Goto(a, "lost")
          /\ UNCHANGED provider
       \/ /\ IF act[a].token \in valid THEN Rotate(act[a].token) ELSE UNCHANGED provider
          /\ Goto(a, "erred")
    /\ UNCHANGED <<session, jobVars, queue, overlap, runs, ops, crashes>>

\* The error goes up: a request ends, an import fails, the refresh job fails.
Throw(a) ==
    IF a \in Requests THEN End(a)
    ELSE Goto(a, IF act[a].job = 0 THEN "failed" ELSE "fail")

\* updateConnectedTokens or markReauthRequired, whatever the row holds by now.
RefreshWrite(a) ==
    /\ \/ /\ At(a, "won")
          /\ session' = Connected(act[a].token)
          /\ IF act[a].then = "idle" THEN End(a) ELSE Goto(a, act[a].then)
       \/ /\ At(a, "lost")
          /\ session' = [NoSession EXCEPT !.state = "reauth_required"]
          /\ Throw(a)
       \/ /\ At(a, "erred")
          /\ session' = Connected(act[a].token)
          /\ Throw(a)
    /\ UNCHANGED <<jobVars, queue, provider, overlap, runs, ops, crashes>>

------------------------------------------------------------------------------
(* The worker: provider-import jobs, and provider-refresh as job 0. *)

WorkerTake(j) ==
    /\ act[Worker] = Idle
    /\ queue[j] = "waiting"
    /\ queue' = [queue EXCEPT ![j] = "active"]
    /\ act' = [act EXCEPT ![Worker] =
                 [at |-> IF j = 0 THEN "load" ELSE "begin",
                  then |-> IF j = 0 THEN "done" ELSE "import",
                  token |-> 0, job |-> j]]
    /\ UNCHANGED <<session, jobVars, provider, overlap, runs, ops, crashes>>

\* (mutant) an interrupted import is taken up again
RunnableAgain(j) == status[j] \in {"queued", "running"}

\* (mutant) the status is not looked at
RunnableAlways(j) == TRUE

Runnable(j) == status[j] = "queued"

\* runQueuedImport runs a job only if it is still queued.
WorkerBegin ==
    /\ At(Worker, "begin")
    /\ LET j == act[Worker].job
       IN  \/ /\ Runnable(j)
              /\ status' = [status EXCEPT ![j] = "running"]
              /\ Goto(Worker, "load")
           \/ /\ ~Runnable(j)
              /\ Goto(Worker, "done")
              /\ UNCHANGED status
    /\ UNCHANGED <<session, lastJob, grants, queue, provider, overlap, runs, ops,
                   crashes>>

\* The session must be connected; its token is refreshed when it expires soon.
WorkerLoad ==
    /\ At(Worker, "load")
    /\ \/ /\ session.state = "connected"
          /\ \/ act' = [act EXCEPT ![Worker].at = "refresh", ![Worker].token = session.token]
             \/ Goto(Worker, act[Worker].then)
       \/ /\ session.state # "connected"
          /\ Goto(Worker, IF act[Worker].job = 0 THEN "done" ELSE "fail")
    /\ UNCHANGED <<session, jobVars, queue, provider, overlap, runs, ops, crashes>>

\* Fetch, and replace the local rows (see WatchState).
WorkerImport ==
    /\ At(Worker, "import")
    /\ \/ /\ runs' = [runs EXCEPT ![act[Worker].job] = @ + 1]
          /\ Goto(Worker, "schedule")
       \/ /\ Goto(Worker, "fail")
          /\ UNCHANGED runs
    /\ UNCHANGED <<session, jobVars, queue, provider, overlap, ops, crashes>>

\* markSucceeded (with or without warnings), or markFailed.
WorkerMark ==
    /\ \/ /\ At(Worker, "finish")
          /\ status' = [status EXCEPT ![act[Worker].job] = "succeeded"]
          /\ Goto(Worker, "done")
       \/ /\ At(Worker, "fail")
          /\ status' = [status EXCEPT ![act[Worker].job] = "failed"]
          /\ Goto(Worker, "failed")
    /\ UNCHANGED <<session, lastJob, grants, queue, provider, overlap, runs, ops,
                   crashes>>

\* BullMQ removes a completed job and keeps a failed one.  The refresh job
\* has added its own successor by then, which its own entry made a no-op.
WorkerReturn ==
    /\ act[Worker].at \in {"done", "failed"}
    /\ queue' = [queue EXCEPT ![act[Worker].job] =
                   IF act[Worker].at = "done" THEN "absent" ELSE "failed"]
    /\ End(Worker)
    /\ UNCHANGED <<session, jobVars, provider, overlap, runs, ops, crashes>>

------------------------------------------------------------------------------
(* Crashes: requests are lost; the worker's job is delivered again. *)

ApiCrash ==
    /\ crashes < MaxCrashes
    /\ crashes' = crashes + 1
    /\ act' = [a \in Actors |-> IF a \in Requests THEN Idle ELSE act[a]]
    /\ UNCHANGED <<session, jobVars, queue, provider, overlap, runs, ops>>

WorkerCrash ==
    /\ crashes < MaxCrashes
    /\ crashes' = crashes + 1
    /\ act' = [act EXCEPT ![Worker] = Idle]
    /\ queue' = [j \in 0 .. MaxOps |-> IF queue[j] = "active" THEN "waiting" ELSE queue[j]]
    /\ UNCHANGED <<session, jobVars, provider, overlap, runs, ops>>

------------------------------------------------------------------------------
Arrive(r) ==
    \/ StartAuthorization(r)
    \/ CallbackFind(r)
    \/ Disconnect(r)
    \/ AccessToken(r)
    \/ ImportNow(r)

Proceed(r) ==
    \/ StartCommit(r)
    \/ CallbackJob(r)
    \/ CallbackExchange(r)
    \/ CallbackCommit(r)
    \/ Enqueue(r)
    \/ DisconnectCommit(r)
    \/ CreateImport(r)

Shared(a) == Schedule(a) \/ RefreshExchange(a) \/ RefreshWrite(a)

Work == WorkerBegin \/ WorkerLoad \/ WorkerImport \/ WorkerMark \/ WorkerReturn

Next ==
    \/ \E r \in Requests : Arrive(r) \/ Proceed(r)
    \/ \E a \in Actors : Shared(a)
    \/ \E j \in 0 .. MaxOps : WorkerTake(j)
    \/ Work
    \/ ApiCrash
    \/ WorkerCrash

Spec == Init /\ [][Next]_vars

\* The event loops run what they have begun, the provider answers in the end
\* (if only with an error), and BullMQ delivers what is waiting.
Fairness ==
    /\ \A r \in Requests : WF_vars(Proceed(r))
    /\ \A a \in Actors : WF_vars(Shared(a))
    /\ WF_vars(Work)
    /\ \A j \in 0 .. MaxOps : SF_vars(WorkerTake(j))

FairSpec == Spec /\ Fairness

------------------------------------------------------------------------------
(* What is promised. *)

\* While an authorization is pending, the job created with it is pending
\* too, so its callback finds one, however many authorizations and callbacks
\* overlap.
PendingHasItsJob ==
    session.state = "oauth_pending" => status[session.auth] = "oauth_pending"

\* A job replaces the local rows at most once for every time it was queued,
\* however often the queue delivers it and whenever the worker dies.
ImportedOncePerGrant == \A j \in Jobs : runs[j] <= grants[j]

Rank(st) ==
    CASE st = "none" -> 0 [] st = "oauth_pending" -> 1 [] st = "queued" -> 2
      [] st = "running" -> 3 [] OTHER -> 4

\* A job only moves forward, and never once it has ended, unless callbacks
\* overlap: nothing a crash or a redelivery does reopens it.
JobsMoveForward ==
    [][~overlap' =>
         \A j \in Jobs :
            \/ status'[j] = status[j]
            \/ Rank(status'[j]) > Rank(status[j]) /\ status[j] \notin Final]_vars

\* Without a crash a queued job is run to an end, whatever becomes of the
\* session meanwhile.
QueuedJobEnds ==
    [](crashes = 0 /\ ~overlap) =>
        \A j \in Jobs : (status[j] = "queued") ~> (status[j] \in Final)

\* Reauthorization is asked for only when the stored refresh token is no
\* longer accepted.
ReauthOnlyWhenInvalid ==
    [][session.state = "connected" /\ session'.state = "reauth_required"
         => session.token \notin valid]_vars
==============================================================================
