----------------------------- MODULE AiInsights ------------------------------
(***************************************************************************)
(* AI insights of one title and locale: calls of                           *)
(* AiInsightsService.getInsights, the ai-generation queue (BullMQ) and the *)
(* workers that generate into ai_insights_cache.                           *)
(*                                                                         *)
(* A row and a job belong to a generation version, the provider and model  *)
(* of a user's settings.  Callers whose settings give the same version     *)
(* share one job; it runs as the user who enqueued it, and its row is      *)
(* stored under the version that user's settings give when it runs.        *)
(***************************************************************************)
EXTENDS Naturals, FiniteSets

CONSTANTS
    Caller,        \* users, each with one call of getInsights
    GenVersion,    \* generation versions settings may give
    GenSlot,       \* jobs the workers run at once
    NoGen          \* no version, no user

ASSUME AiInsightsAssumption == NoGen \notin GenVersion \cup Caller

VARIABLES
    aiSettings,  \* aiSettings[c]: the version the settings of c give
    aiRow,       \* aiRow[v]: none, legacy (backdrop_paths NULL) or full
    aiJob,       \* aiJob[v]: the job of version v in the queue
    aiRun,       \* aiRun[e]: what slot e generates
    aiCall,      \* aiCall[c]: where caller c is, and the version it asked for
    aiStoredBy,  \* aiStoredBy[c]: the user whose job stored a row while c
                 \* waited for it (observation)
    aiChanged,   \* users who changed their settings after asking (observation)
    aiStalled    \* versions whose job was failed as stalled (observation)

aiVars == <<aiSettings, aiRow, aiJob, aiRun, aiCall, aiStoredBy, aiChanged,
            aiStalled>>
aiQueue == <<aiJob, aiRun>>
aiSeen == <<aiStoredBy, aiChanged, aiStalled>>

User == Caller \cup {NoGen}
NoJob == [at |-> "none", by |-> NoGen, runs |-> 0]
IdleSlot == [step |-> "idle", job |-> NoGen, by |-> NoGen, to |-> NoGen,
             owns |-> FALSE]

AiTypeOK ==
    /\ aiSettings \in [Caller -> GenVersion]
    /\ aiRow \in [GenVersion -> {"none", "legacy", "full"}]
    /\ aiJob \in [GenVersion -> [at : {"none", "waiting", "active", "failed"},
                                 by : User, runs : Nat]]
    /\ aiRun \in [GenSlot -> [step : {"idle", "context", "model", "stored"},
                              job : GenVersion \cup {NoGen}, by : User,
                              to : GenVersion \cup {NoGen}, owns : BOOLEAN]]
    /\ aiCall \in [Caller -> [step : {"new", "asked", "missed", "waiting",
                                      "served", "failed"},
                              asks : GenVersion \cup {NoGen}]]
    /\ aiStoredBy \in [Caller -> User]
    /\ aiChanged \subseteq Caller
    /\ aiStalled \subseteq GenVersion

AiInit ==
    /\ aiSettings \in [Caller -> GenVersion]
    /\ aiRow \in [GenVersion -> {"none", "legacy"}]
    /\ aiJob = [v \in GenVersion |-> NoJob]
    /\ aiRun = [e \in GenSlot |-> IdleSlot]
    /\ aiCall = [c \in Caller |-> [step |-> "new", asks |-> NoGen]]
    /\ aiStoredBy = [c \in Caller |-> NoGen]
    /\ aiChanged = {}
    /\ aiStalled = {}

-----------------------------------------------------------------------------
(* getInsights *)

\* The settings are resolved, then the title page is fetched.
AiAsk(c) ==
    /\ aiCall[c].step = "new"
    /\ aiCall' = [aiCall EXCEPT ![c] = [step |-> "asked", asks |-> aiSettings[c]]]
    /\ UNCHANGED <<aiSettings, aiRow, aiQueue, aiSeen>>

\* serveFromCache: a row without backdrop paths gets them.
ServeRow(c) ==
    LET v == aiCall[c].asks IN
    /\ aiRow[v] # "none"
    /\ aiRow' = [aiRow EXCEPT ![v] = "full"]
    /\ aiCall' = [aiCall EXCEPT ![c].step = "served"]

NoRowFor(c, step) ==
    /\ aiRow[aiCall[c].asks] = "none"
    /\ aiCall' = [aiCall EXCEPT ![c].step = step]
    /\ UNCHANGED aiRow

AiReadCache(c) ==
    /\ aiCall[c].step = "asked"
    /\ ServeRow(c) \/ NoRowFor(c, "missed")
    /\ UNCHANGED <<aiSettings, aiQueue, aiSeen>>

NewJob(c) == [at |-> "waiting", by |-> c, runs |-> 0]

\* enqueueAiInsightsJob: to add a job under an id that exists adds nothing.
AiEnqueue(c) ==
    /\ aiCall[c].step = "missed"
    /\ aiJob' = [aiJob EXCEPT ![aiCall[c].asks] =
                    IF @.at = "none" THEN NewJob(c) ELSE @]
    /\ aiCall' = [aiCall EXCEPT ![c].step = "waiting"]
    /\ UNCHANGED <<aiSettings, aiRow, aiRun, aiSeen>>

AiRereadNot(c) ==          \* a wait that is not confirmed is a 504 (mutant)
    /\ aiCall[c].step = "waiting"
    /\ aiCall' = [aiCall EXCEPT ![c].step = "failed"]
    /\ UNCHANGED <<aiSettings, aiRow, aiQueue, aiSeen>>

\* waitForInsights ends: the job is gone, ended, its event was missed, or
\* aiRequestWaitMs passed.  The row decides alone: served, or 504.
AiReread(c) ==
    /\ aiCall[c].step = "waiting"
    /\ ServeRow(c) \/ NoRowFor(c, "failed")
    /\ UNCHANGED <<aiSettings, aiQueue, aiSeen>>

\* The user picks another provider or model; after asking, once (a bound).
AiChangeSettings(c) ==
    /\ c \notin aiChanged
    /\ \E v \in GenVersion \ {aiSettings[c]} :
          aiSettings' = [aiSettings EXCEPT ![c] = v]
    /\ aiChanged' = IF aiCall[c].step = "new" THEN aiChanged ELSE aiChanged \cup {c}
    /\ UNCHANGED <<aiRow, aiQueue, aiCall, aiStoredBy, aiStalled>>

-----------------------------------------------------------------------------
(* The workers: attempts 1, removeOnComplete, removeOnFail, maxStalledCount 0 *)

AiTake(e, v) ==
    /\ aiRun[e].step = "idle"
    /\ aiJob[v].at = "waiting"
    /\ aiJob' = [aiJob EXCEPT ![v].at = "active", ![v].runs = @ + 1]
    /\ aiRun' = [aiRun EXCEPT ![e] = [step |-> "context", job |-> v,
                     by |-> aiJob[v].by, to |-> NoGen, owns |-> TRUE]]
    /\ UNCHANGED <<aiSettings, aiRow, aiCall, aiSeen>>

\* generateJsonForUser resolves the request of the user anew.
AiResolve(e) ==
    /\ aiRun[e].step = "context"
    /\ aiRun' = [aiRun EXCEPT ![e].step = "model", ![e].to = aiSettings[aiRun[e].by]]
    /\ UNCHANGED <<aiSettings, aiRow, aiJob, aiCall, aiSeen>>

AiStore(e) ==
    /\ aiRun[e].step = "model"
    /\ aiRow' = [aiRow EXCEPT ![aiRun[e].to] = "full"]
    /\ aiRun' = [aiRun EXCEPT ![e].step = "stored"]
    /\ aiStoredBy' = [c \in Caller |->
           IF aiCall[c] = [step |-> "waiting", asks |-> aiRun[e].job] /\ aiRun[e].owns
             THEN aiRun[e].by ELSE aiStoredBy[c]]
    /\ UNCHANGED <<aiSettings, aiJob, aiCall, aiChanged, aiStalled>>

JobIsGone(e) == [aiJob EXCEPT ![aiRun[e].job] = IF aiRun[e].owns THEN NoJob ELSE @]

AiEndKeepsFailed(e) ==     \* removeOnFail: false (mutant)
    /\ aiRun[e].step # "idle"
    /\ aiJob' = IF aiRun[e].step = "stored" THEN JobIsGone(e)
                ELSE [aiJob EXCEPT ![aiRun[e].job].at =
                         IF aiRun[e].owns THEN "failed" ELSE @]
    /\ aiRun' = [aiRun EXCEPT ![e] = IdleSlot]
    /\ UNCHANGED <<aiSettings, aiRow, aiCall, aiSeen>>

\* The processor returns (row stored, no title context, invalid payload) or
\* throws (the provider failed); either way the job is removed, by the worker
\* that still holds its lock.
AiEnd(e) ==
    /\ aiRun[e].step # "idle"
    /\ aiJob' = JobIsGone(e)
    /\ aiRun' = [aiRun EXCEPT ![e] = IdleSlot]
    /\ UNCHANGED <<aiSettings, aiRow, aiCall, aiSeen>>

\* The worker dies with its job active.
AiWorkerDies(e) ==
    /\ aiRun[e].step # "idle"
    /\ aiRun' = [aiRun EXCEPT ![e] = IdleSlot]
    /\ UNCHANGED <<aiSettings, aiRow, aiJob, aiCall, aiSeen>>

Unlocked(v) == \A e \in GenSlot : ~(aiRun[e].job = v /\ aiRun[e].owns)
LoseLock(v) == [e \in GenSlot |-> IF aiRun[e].job = v THEN [aiRun[e] EXCEPT !.owns = FALSE]
                                  ELSE aiRun[e]]

AiStallRetries(v) ==       \* maxStalledCount 1, the default (mutant)
    /\ aiJob[v].at = "active"
    /\ aiJob' = [aiJob EXCEPT ![v].at = "waiting"]
    /\ aiRun' = LoseLock(v)
    /\ aiStalled' = aiStalled \cup {v}
    /\ UNCHANGED <<aiSettings, aiRow, aiCall, aiStoredBy, aiChanged>>

\* The lock of an active job is not renewed (its worker died, is blocked or
\* cannot reach Redis): the job is failed and removed.  A worker that still
\* runs goes on generating.
AiStall(v) ==
    /\ aiJob[v].at = "active"
    /\ aiJob' = [aiJob EXCEPT ![v] = NoJob]
    /\ aiRun' = LoseLock(v)
    /\ aiStalled' = aiStalled \cup {v}
    /\ UNCHANGED <<aiSettings, aiRow, aiCall, aiStoredBy, aiChanged>>

AiCallStep(c) == AiAsk(c) \/ AiReadCache(c) \/ AiEnqueue(c) \/ AiReread(c)
AiSlotStep(e) == (\E v \in GenVersion : AiTake(e, v)) \/ AiResolve(e) \/ AiStore(e) \/ AiEnd(e)
AiNext ==
    \/ \E c \in Caller : AiCallStep(c) \/ AiChangeSettings(c)
    \/ \E e \in GenSlot : AiSlotStep(e) \/ AiWorkerDies(e)
    \/ \E v \in GenVersion : AiStall(v)

\* Workers run, and the stalled check comes round for a job without a lock.
AiFairness ==
    /\ WF_aiVars(\E e \in GenSlot : AiSlotStep(e))
    /\ WF_aiVars(\E v \in GenVersion : Unlocked(v) /\ AiStall(v))
AiSpec == AiInit /\ [][AiNext]_aiVars /\ AiFairness

-----------------------------------------------------------------------------
\* One job runs at most once, whatever dies or stalls, and no two workers
\* generate for one job id at a time unless one was failed as stalled while its
\* worker went on (attempts 1, maxStalledCount 0).  Callers are coalesced only
\* while the job is there: one that read the cache before the row was stored
\* and enqueues after the job is removed generates a second time.
JobRunsOnce ==
    \A v \in GenVersion :
        /\ aiJob[v].runs <= 1
        /\ v \notin aiStalled => Cardinality({e \in GenSlot : aiRun[e].job = v}) <= 1

\* A caller whose job stored a row while it waited is answered with it, event
\* or no event; it is told 504 only when the user the job ran as has changed
\* settings since asking (getInsights re-reads its own version, the worker
\* stores under the version it resolved).
GeneratedIsServed ==
    \A c \in Caller :
        aiCall[c].step = "failed" /\ aiStoredBy[c] # NoGen
            => aiStoredBy[c] \in aiChanged

\* No job id stays taken: whatever fails or dies, the job leaves the queue and
\* a later caller may generate again (removeOnComplete, removeOnFail, the
\* stalled check).
JobsLeave == []<>(\A v \in GenVersion : aiJob[v].at = "none")
==============================================================================
