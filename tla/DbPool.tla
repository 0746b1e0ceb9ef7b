------------------------------- MODULE DbPool --------------------------------
(***************************************************************************)
(* The Postgres pool (lib/db.ts): withDbClient and withTransaction hold a  *)
(* client while their work runs, and the work of several services asks for *)
(* others meanwhile, either one inside the other (device poll,             *)
(* HomeResolverService.rebuild, the default-home admin routes) or several  *)
(* side by side under Promise.all (nextVersion of every list inside        *)
(* writeHome's transaction).  The pool serves first come first served and  *)
(* rejects who has waited for connectionTimeoutMillis; the first rejection *)
(* ends a Promise.all, and its other queries go on without anybody waiting *)
(* for them.                                                               *)
(***************************************************************************)
EXTENDS Naturals, Sequences, FiniteSets, SequencesExt

CONSTANTS
    DbClient,    \* the clients of the pool, databasePoolMax of them
    DbRequest,   \* requests of the server
    DbDepth,     \* DbDepth[r]: clients r holds at once when it goes deepest
    DbQuery,     \* statements that run beside each other, each on a client
    DbParallel,  \* DbParallel[r]: those r starts at its deepest, in order
    NoRequest

DbTask == DbRequest \cup DbQuery
QueriesOf(t) == IF t \in DbRequest
                THEN {DbParallel[t][i] : i \in 1..Len(DbParallel[t])}
                ELSE {}

ASSUME DbPoolAssumption ==
    /\ NoRequest \notin DbTask
    /\ DbRequest \cap DbQuery = {}
    /\ DbDepth \in [DbRequest -> Nat \ {0}]
    /\ DbParallel \in [DbRequest -> Seq(DbQuery)]
    /\ \A r \in DbRequest : \A i, j \in 1..Len(DbParallel[r]) :
          DbParallel[r][i] = DbParallel[r][j] => i = j
    /\ \A r, s \in DbRequest : r # s => QueriesOf(r) \cap QueriesOf(s) = {}

VARIABLES
    dbHolder,    \* dbHolder[c]: the request or query that holds c
    dbQueue,     \* who waits for a client, oldest first
    dbRun,       \* dbRun[t]: where the work of t is
    dbFailed     \* those whose work was rejected

dbVars == <<dbHolder, dbQueue, dbRun, dbFailed>>

DbTypeOK ==
    /\ dbHolder \in [DbClient -> DbTask \cup {NoRequest}]
    /\ dbQueue \in Seq(DbTask)
    /\ dbRun \in [DbTask -> {"new", "going", "unwinding", "ended"}]
    /\ dbFailed \subseteq DbTask

DbInit ==
    /\ dbHolder = [c \in DbClient |-> NoRequest]
    /\ dbQueue = <<>>
    /\ dbRun = [t \in DbTask |-> "new"]
    /\ dbFailed = {}

Held(t) == {c \in DbClient : dbHolder[c] = t}
Queued(t) == Contains(dbQueue, t)
Started(t) == {q \in QueriesOf(t) : dbRun[q] # "new"}
Pending(t) == {q \in QueriesOf(t) : dbRun[q] \in {"going", "unwinding"}}

-----------------------------------------------------------------------------
DbBegin(r) ==
    /\ dbRun[r] = "new"
    /\ dbRun' = [dbRun EXCEPT ![r] = "going"]
    /\ UNCHANGED <<dbHolder, dbQueue, dbFailed>>

\* db.connect(), also inside the work of another client.
DbConnect(r) ==
    /\ dbRun[r] = "going" /\ ~Queued(r)
    /\ Started(r) = {}
    /\ Cardinality(Held(r)) < DbDepth[r]
    /\ dbQueue' = Append(dbQueue, r)
    /\ UNCHANGED <<dbHolder, dbRun, dbFailed>>

\* Promise.all over db.query: all of them ask for a client before any has one.
DbFanOut(r) ==
    /\ dbRun[r] = "going" /\ ~Queued(r)
    /\ Started(r) = {} /\ QueriesOf(r) # {}
    /\ Cardinality(Held(r)) = DbDepth[r]
    /\ dbQueue' = dbQueue \o DbParallel[r]
    /\ dbRun' = [t \in DbTask |-> IF t \in QueriesOf(r) THEN "going" ELSE dbRun[t]]
    /\ UNCHANGED <<dbHolder, dbFailed>>

\* An idle client goes to the oldest who waits.
DbServe ==
    /\ dbQueue # <<>>
    /\ \E c \in Held(NoRequest) : dbHolder' = [dbHolder EXCEPT ![c] = Head(dbQueue)]
    /\ dbQueue' = Tail(dbQueue)
    /\ UNCHANGED <<dbRun, dbFailed>>

DbTimeoutNever(t) == FALSE /\ DbServe /\ t = t   \* connectionTimeoutMillis: 0 (mutant)

\* connectionTimeoutMillis: connect rejects, the place in the queue is given up
\* and the work unwinds.
DbTimeout(t) ==
    /\ \E i \in 1..Len(dbQueue) : dbQueue[i] = t /\ dbQueue' = RemoveAt(dbQueue, i)
    /\ dbRun' = [dbRun EXCEPT ![t] = "unwinding"]
    /\ dbFailed' = dbFailed \cup {t}
    /\ UNCHANGED dbHolder

AtWork(t) == dbRun[t] = "going" /\ ~Queued(t) /\ Held(t) # {}

\* The work is done: Promise.all has every result.
DbReturn(t) ==
    /\ AtWork(t)
    /\ Pending(t) = {} /\ QueriesOf(t) \cap dbFailed = {}
    /\ dbRun' = [dbRun EXCEPT ![t] = "unwinding"]
    /\ UNCHANGED <<dbHolder, dbQueue, dbFailed>>

\* A statement of its own fails, or Promise.all rejects with the first of its
\* queries that does.
DbFail(t) ==
    /\ AtWork(t)
    /\ Pending(t) = {} \/ QueriesOf(t) \cap dbFailed # {}
    /\ dbRun' = [dbRun EXCEPT ![t] = "unwinding"]
    /\ dbFailed' = dbFailed \cup {t}
    /\ UNCHANGED <<dbHolder, dbQueue>>

DbReleaseLast(t) ==        \* only the outermost client is released (mutant)
    /\ dbRun[t] = "unwinding" /\ Held(t) # {}
    /\ LET c == CHOOSE c \in Held(t) : TRUE IN
       dbHolder' = [dbHolder EXCEPT ![c] = NoRequest]
    /\ dbRun' = [dbRun EXCEPT ![t] = "ended"]
    /\ UNCHANGED <<dbQueue, dbFailed>>

\* finally (or the end of db.query): the client is idle again.
DbRelease(t) ==
    /\ dbRun[t] = "unwinding"
    /\ \E c \in Held(t) : dbHolder' = [dbHolder EXCEPT ![c] = NoRequest]
    /\ UNCHANGED <<dbQueue, dbRun, dbFailed>>

DbEnd(t) ==
    /\ dbRun[t] = "unwinding" /\ Held(t) = {}
    /\ dbRun' = [dbRun EXCEPT ![t] = "ended"]
    /\ UNCHANGED <<dbHolder, dbQueue, dbFailed>>

DbAsk(r) == DbConnect(r) \/ DbFanOut(r)
DbStep(t) == DbTimeout(t) \/ DbReturn(t) \/ DbFail(t) \/ DbRelease(t) \/ DbEnd(t)
DbMove == \/ \E r \in DbRequest : DbAsk(r)
          \/ \E t \in DbTask : DbStep(t)
          \/ DbServe
DbNext == (\E r \in DbRequest : DbBegin(r)) \/ DbMove

\* Work that has its client goes on, the pool hands out what is idle, and the
\* connect timer of pg fires.
DbFairness == WF_dbVars(DbMove)
DbSpec == DbInit /\ [][DbNext]_dbVars /\ DbFairness

-----------------------------------------------------------------------------
\* However the work of a request ends (its result, a failed statement, a
\* connect that timed out at some depth or in one of its parallel queries), it
\* has given back every client it took itself; what still waits for a client or
\* holds one on its behalf then are queries of a Promise.all that one of them
\* has rejected.  In particular a transaction never commits while one of the
\* queries it waits for is out.
NoClientLeaks ==
    /\ \A c \in DbClient : dbHolder[c] # NoRequest => dbRun[dbHolder[c]] # "ended"
    /\ \A r \in DbRequest :
          dbRun[r] \in {"unwinding", "ended"} /\ Pending(r) # {}
              => r \in dbFailed /\ QueriesOf(r) \cap dbFailed # {}

\* Requests that all hold a client and wait for another, or for as many as they
\* have lists, do not wait for ever: whatever began ends, the queries a request
\* has left behind included.
EveryRequestEnds == []<>(\A t \in DbTask : dbRun[t] \in {"new", "ended"})
==============================================================================
