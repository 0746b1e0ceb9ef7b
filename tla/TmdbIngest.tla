----------------------------- MODULE TmdbIngest ------------------------------
(***************************************************************************)
(* The ingest of a TMDB title: one request, then the core row, the         *)
(* translations, the reviews and the relations in one transaction on the   *)
(* client the caller passes.  A 40P01 aborts the transaction and is tried  *)
(* again; any other error is thrown after a ROLLBACK.                      *)
(*                                                                         *)
(* ConnOf says which client an ingest was given: TmdbCacheService.getTitles*)
(* passes one client to several ingests that run at the same time.  Images *)
(* (the first writer decides) and the rows of related titles, which        *)
(* persistSummaries writes with the relations, are left out.               *)
(***************************************************************************)
EXTENDS Naturals, Sequences

CONSTANTS
    Ingest,        \* calls of ingestTitle
    TmdbTitle,
    Connection,
    TitleOf,       \* TitleOf[i]: the title i ingests
    ConnOf,        \* ConnOf[i]: the client i runs on
    IngestTries,   \* DEADLOCK_RETRY_ATTEMPTS
    NoWriter,      \* nothing written yet
    NotFound       \* markTitleNotFound wrote the core row

ASSUME TmdbIngestAssumption ==
    /\ TitleOf \in [Ingest -> TmdbTitle]
    /\ ConnOf \in [Ingest -> Connection]
    /\ IngestTries \in Nat \ {0}
    /\ NoWriter \notin Ingest /\ NotFound \notin Ingest

VARIABLES
    tmPhase,       \* tmPhase[i]: where ingest i is
    tmDone,        \* tmDone[i]: parts written in this attempt
    tmTries,       \* tmTries[i]: attempts that ended with a deadlock
    tmTx,          \* tmTx[c]: the transaction of connection c
    tmPend,        \* tmPend[c][t][p]: uncommitted writer of part p of title t
    tmRow          \* tmRow[t][p]: who last wrote part p of title t, committed

tmVars == <<tmPhase, tmDone, tmTries, tmTx, tmPend, tmRow>>

TmParts == <<"core", "translations", "reviews", "relations">>
TmPart == {"core", "translations", "reviews", "relations"}
TmWriter == Ingest \cup {NoWriter, NotFound}
Blank == [t \in TmdbTitle |-> [p \in TmPart |-> NoWriter]]

TmTypeOK ==
    /\ tmPhase \in [Ingest -> {"new", "mark", "begin", "write", "undo",
                               "undoDeadlock", "ended"}]
    /\ tmDone \in [Ingest -> 0..Len(TmParts)]
    /\ tmTries \in [Ingest -> 0..IngestTries]
    /\ tmTx \in [Connection -> {"none", "open", "aborted"}]
    /\ tmPend \in [Connection -> [TmdbTitle -> [TmPart -> TmWriter]]]
    /\ tmRow \in [TmdbTitle -> [TmPart -> TmWriter]]

TmInit ==
    /\ tmPhase = [i \in Ingest |-> "new"]
    /\ tmDone = [i \in Ingest |-> 0]
    /\ tmTries = [i \in Ingest |-> 0]
    /\ tmTx = [c \in Connection |-> "none"]
    /\ tmPend = [c \in Connection |-> Blank]
    /\ tmRow = Blank

Goes(i, phase) == tmPhase' = [tmPhase EXCEPT ![i] = phase]

-----------------------------------------------------------------------------
\* The statements.  A row another connection has written and not committed
\* blocks the statement.
LockFree(i, p) ==
    \A c \in Connection \ {ConnOf[i]} : tmPend[c][TitleOf[i]][p] = NoWriter

\* An upsert of part p: part of the open transaction, or on its own.
Put(i, p, who) ==
    /\ tmTx[ConnOf[i]] # "aborted" /\ LockFree(i, p)
    /\ IF tmTx[ConnOf[i]] = "open"
       THEN /\ tmPend' = [tmPend EXCEPT ![ConnOf[i]][TitleOf[i]][p] = who]
            /\ UNCHANGED tmRow
       ELSE /\ tmRow' = [tmRow EXCEPT ![TitleOf[i]][p] = who]
            /\ UNCHANGED tmPend
    /\ UNCHANGED tmTx

\* What is pending on c is gone; its locks are released.
Dropped(c) == tmPend' = [tmPend EXCEPT ![c] = Blank]

\* A statement fails: an open transaction is aborted.
SqlError(c) ==
    IF tmTx[c] = "open"
    THEN tmTx' = [tmTx EXCEPT ![c] = "aborted"] /\ Dropped(c)
    ELSE UNCHANGED <<tmTx, tmPend>>

-----------------------------------------------------------------------------
\* The TMDB request: the payload, a 404, or an error that is thrown.
TmFetch(i) ==
    /\ tmPhase[i] = "new"
    /\ \E next \in {"begin", "mark", "ended"} : Goes(i, next)
    /\ UNCHANGED <<tmDone, tmTries, tmTx, tmPend, tmRow>>

\* markTitleNotFound keeps what the other tables hold.
TmMark(i) ==
    /\ tmPhase[i] = "mark"
    /\ Goes(i, "ended")
    /\ \/ Put(i, "core", NotFound)
       \/ SqlError(ConnOf[i]) /\ UNCHANGED tmRow
    /\ UNCHANGED <<tmDone, tmTries>>

\* BEGIN, outside the try block.  In an open transaction it only warns; in
\* an aborted one it fails.
TmBegin(i) ==
    /\ tmPhase[i] = "begin"
    /\ IF tmTx[ConnOf[i]] = "aborted"
       THEN Goes(i, "ended") /\ UNCHANGED <<tmDone, tmTx>>
       ELSE /\ Goes(i, "write")
            /\ tmDone' = [tmDone EXCEPT ![i] = 0]
            /\ tmTx' = [tmTx EXCEPT ![ConnOf[i]] = "open"]
    /\ UNCHANGED <<tmTries, tmPend, tmRow>>

TmWrite(i) ==
    /\ tmPhase[i] = "write" /\ tmDone[i] < Len(TmParts)
    /\ Put(i, TmParts[tmDone[i] + 1], i)
    /\ tmDone' = [tmDone EXCEPT ![i] = @ + 1]
    /\ UNCHANGED <<tmPhase, tmTries>>

\* The next statement fails, as a deadlock victim or otherwise; or fetchImages
\* fails between the statements of the relations, on TMDB's side.
TmWriteFails(i) ==
    /\ tmPhase[i] = "write" /\ tmDone[i] < Len(TmParts)
    /\ \/ /\ SqlError(ConnOf[i])
          /\ \/ Goes(i, "undo")
             \/ tmTx[ConnOf[i]] # "aborted" /\ Goes(i, "undoDeadlock")
       \/ /\ tmDone[i] = Len(TmParts) - 1
          /\ Goes(i, "undo") /\ UNCHANGED <<tmTx, tmPend>>
    /\ UNCHANGED <<tmDone, tmTries, tmRow>>

ReadyEarly(i) == tmDone[i] >= Len(TmParts) - 1  \* relations after COMMIT (mutant)
Ready(i) == tmDone[i] = Len(TmParts)

\* COMMIT: what is pending is stored.  An aborted transaction is rolled back
\* and COMMIT still succeeds; without a transaction it only warns.
TmCommit(i) ==
    LET c == ConnOf[i] IN
    /\ tmPhase[i] = "write" /\ Ready(i)
    /\ Goes(i, "ended")
    /\ tmRow' = [t \in TmdbTitle |-> [p \in TmPart |->
                    IF tmPend[c][t][p] = NoWriter THEN tmRow[t][p]
                                                  ELSE tmPend[c][t][p]]]
    /\ tmTx' = [tmTx EXCEPT ![c] = "none"]
    /\ Dropped(c)
    /\ UNCHANGED <<tmDone, tmTries>>

\* ROLLBACK, then the error goes to withDeadlockRetry.
TmRollback(i) ==
    /\ tmPhase[i] \in {"undo", "undoDeadlock"}
    /\ tmTx' = [tmTx EXCEPT ![ConnOf[i]] = "none"]
    /\ Dropped(ConnOf[i])
    /\ IF tmPhase[i] = "undoDeadlock"
       THEN /\ tmTries' = [tmTries EXCEPT ![i] = @ + 1]
            /\ Goes(i, IF tmTries[i] + 1 < IngestTries THEN "begin" ELSE "ended")
       ELSE Goes(i, "ended") /\ UNCHANGED tmTries
    /\ UNCHANGED <<tmDone, tmRow>>

\* The connection, or the server, is lost: what runs on it fails.
TmLost(c) ==
    LET of == {i \in Ingest : ConnOf[i] = c} IN
    /\ \E i \in of : tmPhase[i] \notin {"new", "ended"}
    /\ tmPhase' = [i \in Ingest |-> IF i \in of THEN "ended" ELSE tmPhase[i]]
    /\ tmTx' = [tmTx EXCEPT ![c] = "none"]
    /\ Dropped(c)
    /\ UNCHANGED <<tmDone, tmTries, tmRow>>

TmNext ==
    \/ \E i \in Ingest : \/ TmFetch(i) \/ TmMark(i) \/ TmBegin(i) \/ TmWrite(i)
                         \/ TmWriteFails(i) \/ TmCommit(i) \/ TmRollback(i)
    \/ \E c \in Connection : TmLost(c)
TmSpec == TmInit /\ [][TmNext]_tmVars

-----------------------------------------------------------------------------
\* A title whose core row is of one ingest has the translations, reviews and
\* relations of that ingest: a reader that finds the detail row finds the
\* rest of it, whatever failed, died or was tried again.
IngestIsAtomic ==
    \A t \in TmdbTitle :
        tmRow[t]["core"] \in Ingest =>
            \A p \in TmPart : tmRow[t][p] = tmRow[t]["core"]
==============================================================================
