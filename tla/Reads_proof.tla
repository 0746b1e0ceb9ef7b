----------------------------- MODULE Reads_proof -----------------------------
(***************************************************************************)
(* Proofs about what a client reads of rows that others write meanwhile:   *)
(* the rows of a TMDB title, the content ids of provider refs, the leased  *)
(* pages of a snapshot, the pages of a watch list.  Any number of calls,   *)
(* connections, items, rows and readers, any page size.                    *)
(***************************************************************************)
EXTENDS SnapshotLease, WatchPages, TmdbIngest, ContentIdentity, FiniteSetTheorems,
        TLAPS

(***************************************************************************)
(* TmdbIngest                                                              *)
(***************************************************************************)
\* An attempt is made only while some are left.
TmTrying ==
    /\ TmTypeOK
    /\ \A i \in Ingest : tmPhase[i] # "ended" => tmTries[i] < IngestTries

LEMMA TmTryingInit == TmInit => TmTrying
BY TmdbIngestAssumption DEF TmInit, TmTrying, TmTypeOK, TmParts, TmPart, TmWriter, Blank

LEMMA BlankType == Blank \in [TmdbTitle -> [TmPart -> TmWriter]]
BY DEF Blank, TmWriter

\* What a failed statement, and what a written part, leaves behind.
LEMMA SqlErrorType ==
    ASSUME TmTypeOK, NEW c \in Connection, SqlError(c)
    PROVE  /\ tmTx' \in [Connection -> {"none", "open", "aborted"}]
           /\ tmPend' \in [Connection -> [TmdbTitle -> [TmPart -> TmWriter]]]
BY BlankType DEF TmTypeOK, SqlError, Dropped

LEMMA PutType ==
    ASSUME TmTypeOK, NEW i \in Ingest, NEW p \in TmPart, NEW who \in TmWriter,
           Put(i, p, who)
    PROVE  /\ tmTx' \in [Connection -> {"none", "open", "aborted"}]
           /\ tmPend' \in [Connection -> [TmdbTitle -> [TmPart -> TmWriter]]]
           /\ tmRow' \in [TmdbTitle -> [TmPart -> TmWriter]]
<1> DEFINE c == ConnOf[i]
           t == TitleOf[i]
<1>0. c \in Connection /\ t \in TmdbTitle
  BY TmdbIngestAssumption
<1>1. CASE tmTx[c] = "open"
  <2> DEFINE parts == [tmPend[c][t] EXCEPT ![p] = who]
             titles == [tmPend[c] EXCEPT ![t] = parts]
  <2>1. parts \in [TmPart -> TmWriter]
    BY <1>0 DEF TmTypeOK
  <2>2. titles \in [TmdbTitle -> [TmPart -> TmWriter]]
    BY <1>0, <2>1 DEF TmTypeOK
  <2>3. tmPend' = [tmPend EXCEPT ![c] = titles] /\ UNCHANGED <<tmTx, tmRow>>
    BY <1>1 DEF Put
  <2> QED BY <1>0, <2>2, <2>3 DEF TmTypeOK
<1>2. CASE tmTx[c] # "open"
  <2> DEFINE parts == [tmRow[t] EXCEPT ![p] = who]
  <2>1. parts \in [TmPart -> TmWriter]
    BY <1>0 DEF TmTypeOK
  <2>2. tmRow' = [tmRow EXCEPT ![t] = parts] /\ UNCHANGED <<tmTx, tmPend>>
    BY <1>2 DEF Put
  <2> QED BY <1>0, <2>1, <2>2 DEF TmTypeOK
<1> QED BY <1>1, <1>2

LEMMA TmTryingNext == TmTrying /\ [TmNext]_tmVars => TmTrying'
<1> SUFFICES ASSUME TmTrying, [TmNext]_tmVars PROVE TmTrying'
  OBVIOUS
<1>0. TmTypeOK
  BY DEF TmTrying
<1>1. CASE UNCHANGED tmVars
  BY <1>1 DEF TmTrying, TmTypeOK, tmVars
<1>2. ASSUME NEW i \in Ingest, TmFetch(i) PROVE TmTrying'
  BY <1>2 DEF TmTrying, TmTypeOK, TmFetch, Goes
<1>3. ASSUME NEW i \in Ingest, TmMark(i) PROVE TmTrying'
  <2>1. /\ tmTx' \in [Connection -> {"none", "open", "aborted"}]
        /\ tmPend' \in [Connection -> [TmdbTitle -> [TmPart -> TmWriter]]]
        /\ tmRow' \in [TmdbTitle -> [TmPart -> TmWriter]]
    <3>1. CASE Put(i, "core", NotFound)
      BY <1>0, <3>1, PutType DEF TmPart, TmWriter
    <3>2. CASE SqlError(ConnOf[i]) /\ UNCHANGED tmRow
      BY <1>0, <3>2, SqlErrorType, TmdbIngestAssumption DEF TmTypeOK
    <3> QED BY <1>3, <3>1, <3>2 DEF TmMark
  <2> QED BY <1>3, <2>1 DEF TmTrying, TmTypeOK, TmMark, Goes
<1>4. ASSUME NEW i \in Ingest, TmBegin(i) PROVE TmTrying'
  <2>1. 0 \in 0..Len(TmParts)
    BY DEF TmParts
  <2>2. CASE tmTx[ConnOf[i]] = "aborted"
    BY <1>4, <2>2 DEF TmTrying, TmTypeOK, TmBegin, Goes
  <2>3. CASE tmTx[ConnOf[i]] # "aborted"
    <3>1. /\ tmTx' \in [Connection -> {"none", "open", "aborted"}]
          /\ tmDone' \in [Ingest -> 0..Len(TmParts)]
      <4>1. /\ tmTx' = [tmTx EXCEPT ![ConnOf[i]] = "open"]
            /\ tmDone' = [tmDone EXCEPT ![i] = 0]
        BY <1>4, <2>3 DEF TmBegin
      <4>2. tmTx \in [Connection -> {"none", "open", "aborted"}]
        BY <1>0 DEF TmTypeOK
      <4>3. tmDone \in [Ingest -> 0..Len(TmParts)]
        BY <1>0 DEF TmTypeOK
      <4>4. tmTx' \in [Connection -> {"none", "open", "aborted"}]
        BY <4>1, <4>2
      <4>5. tmDone' \in [Ingest -> 0..Len(TmParts)]
        BY <2>1, <4>1, <4>3
      <4> QED BY <4>4, <4>5
    <3> QED BY <1>4, <2>3, <3>1 DEF TmTrying, TmTypeOK, TmBegin, Goes
  <2> QED BY <2>2, <2>3
<1>5. ASSUME NEW i \in Ingest, TmWrite(i) PROVE TmTrying'
  <2>1. tmDone[i] + 1 \in 1..4 /\ Len(TmParts) = 4
    <3>1. tmDone[i] \in 0..Len(TmParts)
      BY <1>0 DEF TmTypeOK
    <3>2. tmDone[i] < Len(TmParts)
      BY <1>5 DEF TmWrite
    <3>3. Len(TmParts) = 4
      BY DEF TmParts
    <3> QED BY <3>1, <3>2, <3>3
  <2>2. TmParts[tmDone[i] + 1] \in TmPart
    BY <2>1 DEF TmParts, TmPart
  <2>3. /\ tmTx' \in [Connection -> {"none", "open", "aborted"}]
        /\ tmPend' \in [Connection -> [TmdbTitle -> [TmPart -> TmWriter]]]
        /\ tmRow' \in [TmdbTitle -> [TmPart -> TmWriter]]
    BY <1>0, <1>5, <2>2, PutType DEF TmWrite, TmWriter
  <2> QED BY <1>5, <2>1, <2>3 DEF TmTrying, TmTypeOK, TmWrite
<1>6. ASSUME NEW i \in Ingest, TmWriteFails(i) PROVE TmTrying'
  <2>1. /\ tmTx' \in [Connection -> {"none", "open", "aborted"}]
        /\ tmPend' \in [Connection -> [TmdbTitle -> [TmPart -> TmWriter]]]
    BY <1>0, <1>6, SqlErrorType, TmdbIngestAssumption DEF TmWriteFails, TmTypeOK
  <2> QED BY <1>6, <2>1 DEF TmTrying, TmTypeOK, TmWriteFails, Goes
<1>7. ASSUME NEW i \in Ingest, TmCommit(i) PROVE TmTrying'
  <2>1. tmRow' \in [TmdbTitle -> [TmPart -> TmWriter]]
    BY <1>0, <1>7, TmdbIngestAssumption DEF TmTypeOK, TmCommit
  <2>2. /\ tmTx' \in [Connection -> {"none", "open", "aborted"}]
        /\ tmPend' \in [Connection -> [TmdbTitle -> [TmPart -> TmWriter]]]
    BY <1>0, <1>7, BlankType, TmdbIngestAssumption DEF TmTypeOK, TmCommit, Dropped
  <2> QED BY <1>7, <2>1, <2>2 DEF TmTrying, TmTypeOK, TmCommit, Goes
<1>8. ASSUME NEW i \in Ingest, TmRollback(i) PROVE TmTrying'
  <2>2. /\ tmTx' \in [Connection -> {"none", "open", "aborted"}]
        /\ tmPend' \in [Connection -> [TmdbTitle -> [TmPart -> TmWriter]]]
    BY <1>0, <1>8, BlankType, TmdbIngestAssumption DEF TmTypeOK, TmRollback, Dropped
  <2>3. CASE tmPhase[i] = "undoDeadlock"
    <3>0. tmTries[i] \in 0..IngestTries /\ tmTries[i] < IngestTries
      BY <2>3 DEF TmTrying, TmTypeOK
    <3>1. tmTries[i] + 1 \in 0..IngestTries
      BY <3>0, TmdbIngestAssumption
    <3> DEFINE next == IF tmTries[i] + 1 < IngestTries THEN "begin" ELSE "ended"
    <3>2. /\ tmTries' = [tmTries EXCEPT ![i] = tmTries[i] + 1]
          /\ tmPhase' = [tmPhase EXCEPT ![i] = next]
      BY <1>8, <2>3 DEF TmRollback, Goes
    <3>3. tmTries' \in [Ingest -> 0..IngestTries]
      BY <1>0, <3>1, <3>2 DEF TmTypeOK
    <3>4. TmTypeOK'
      BY <1>8, <2>2, <3>2, <3>3 DEF TmTrying, TmTypeOK, TmRollback
    <3> QED BY <3>1, <3>2, <3>4 DEF TmTrying, TmTypeOK
  <2>4. CASE tmPhase[i] # "undoDeadlock"
    BY <1>8, <2>2, <2>4 DEF TmTrying, TmTypeOK, TmRollback, Goes
  <2> QED BY <2>3, <2>4
<1>9. ASSUME NEW c \in Connection, TmLost(c) PROVE TmTrying'
  <2>2. /\ tmTx' \in [Connection -> {"none", "open", "aborted"}]
        /\ tmPend' \in [Connection -> [TmdbTitle -> [TmPart -> TmWriter]]]
    BY <1>0, <1>9, BlankType DEF TmTypeOK, TmLost, Dropped
  <2> QED BY <1>9, <2>2 DEF TmTrying, TmTypeOK, TmLost
<1> QED BY <1>1, <1>2, <1>3, <1>4, <1>5, <1>6, <1>7, <1>8, <1>9 DEF TmNext

\* Each ingest has a client of its own, as every caller but getTitles sees to.
OwnClient == \A i, j \in Ingest : ConnOf[i] = ConnOf[j] => i = j

\* A client has a transaction exactly while its ingest writes, and what is
\* pending in it are the parts that attempt has written, of its own title.
TmTransactions ==
    \A i \in Ingest :
        /\ tmPhase[i] \in {"new", "mark", "begin", "ended"} => tmTx[ConnOf[i]] = "none"
        /\ tmPhase[i] = "write" =>
              /\ tmTx[ConnOf[i]] = "open"
              /\ \A k \in 1..tmDone[i] : tmPend[ConnOf[i]][TitleOf[i]][TmParts[k]] = i
        /\ \A t \in TmdbTitle \ {TitleOf[i]} : \A p \in TmPart :
              tmPend[ConnOf[i]][t][p] = NoWriter

TmInv == TmTrying /\ TmTransactions /\ IngestIsAtomic
\* What the steps share: the transactions they leave and the parts in them.
LEMMA TmTransactionsKept ==
    ASSUME OwnClient, TmTransactions, NEW i \in Ingest,
           \A j \in Ingest \ {i} : /\ tmPhase'[j] = tmPhase[j] /\ tmDone'[j] = tmDone[j]
                                  /\ tmTx'[ConnOf[j]] = tmTx[ConnOf[j]]
                                  /\ tmPend'[ConnOf[j]] = tmPend[ConnOf[j]],
           tmPhase'[i] \in {"new", "mark", "begin", "ended"} => tmTx'[ConnOf[i]] = "none",
           tmPhase'[i] = "write" =>
              /\ tmTx'[ConnOf[i]] = "open"
              /\ \A k \in 1..tmDone'[i] : tmPend'[ConnOf[i]][TitleOf[i]][TmParts[k]] = i,
           \A t \in TmdbTitle \ {TitleOf[i]} : \A p \in TmPart :
              tmPend'[ConnOf[i]][t][p] = NoWriter
    PROVE  TmTransactions'
<1> SUFFICES ASSUME NEW j \in Ingest
             PROVE  (/\ tmPhase[j] \in {"new", "mark", "begin", "ended"} => tmTx[ConnOf[j]] = "none"
                     /\ tmPhase[j] = "write" =>
                          /\ tmTx[ConnOf[j]] = "open"
                          /\ \A k \in 1..tmDone[j] :
                               tmPend[ConnOf[j]][TitleOf[j]][TmParts[k]] = j
                     /\ \A t \in TmdbTitle \ {TitleOf[j]} : \A p \in TmPart :
                          tmPend[ConnOf[j]][t][p] = NoWriter)'
  BY DEF TmTransactions
<1>1. CASE j = i
  BY <1>1
<1>2. CASE j # i
  BY <1>2 DEF TmTransactions
<1> QED BY <1>1, <1>2

LEMMA BlankIsBlank == \A t \in TmdbTitle, p \in TmPart : Blank[t][p] = NoWriter
BY DEF Blank

LEMMA TmInvInit == TmInit => TmInv
<1> HAVE TmInit
<1>1. TmTrying
  BY TmTryingInit
<1>2. TmTransactions
  BY BlankIsBlank, TmdbIngestAssumption DEF TmInit, TmTransactions
<1>3. IngestIsAtomic
  BY BlankIsBlank, TmdbIngestAssumption DEF TmInit, IngestIsAtomic, TmPart
<1> QED BY <1>1, <1>2, <1>3 DEF TmInv

LEMMA TmInvNext == OwnClient /\ TmInv /\ [TmNext]_tmVars => TmInv'
<1> SUFFICES ASSUME OwnClient, TmInv, [TmNext]_tmVars PROVE TmInv'
  OBVIOUS
<1>0. TmTrying /\ TmTypeOK /\ TmTransactions /\ IngestIsAtomic
  BY DEF TmInv, TmTrying
<1>t. TmTrying'
  BY <1>0, TmTryingNext
<1>c. \A i, j \in Ingest : j # i => ConnOf[j] # ConnOf[i]
  BY DEF OwnClient
<1>d. \A i \in Ingest : ConnOf[i] \in Connection /\ TitleOf[i] \in TmdbTitle
  BY TmdbIngestAssumption
<1>1. CASE UNCHANGED tmVars
  BY <1>0, <1>1, <1>t DEF TmInv, TmTransactions, IngestIsAtomic, tmVars
<1>2. ASSUME NEW i \in Ingest, TmFetch(i) PROVE TmInv'
  <2>1. TmTransactions'
    BY <1>0, <1>2 DEF TmTypeOK, TmTransactions, TmFetch, Goes
  <2> QED BY <1>0, <1>2, <1>t, <2>1 DEF TmInv, TmFetch, IngestIsAtomic
<1>3. ASSUME NEW i \in Ingest, TmMark(i) PROVE TmInv'
  <2>1. tmTx[ConnOf[i]] = "none" /\ tmPhase[i] = "mark"
    BY <1>0, <1>3 DEF TmMark, TmTransactions
  <2>2. UNCHANGED <<tmTx, tmPend, tmDone>>
    BY <1>3, <2>1 DEF TmMark, Put, SqlError
  <2>3. TmTransactions'
    BY <1>0, <1>3, <2>1, <2>2 DEF TmTypeOK, TmMark, Goes, TmTransactions
  <2>4. \/ UNCHANGED tmRow
        \/ tmRow' = [tmRow EXCEPT ![TitleOf[i]] = [tmRow[TitleOf[i]] EXCEPT !["core"] = NotFound]]
    BY <1>3, <2>1 DEF TmMark, Put
  <2>5. IngestIsAtomic'
    <3>1. CASE UNCHANGED tmRow
      BY <1>0, <3>1 DEF IngestIsAtomic
    <3>2. ASSUME tmRow' = [tmRow EXCEPT ![TitleOf[i]] =
                             [tmRow[TitleOf[i]] EXCEPT !["core"] = NotFound]]
          PROVE  IngestIsAtomic'
      <4>1. tmRow'[TitleOf[i]] = [tmRow[TitleOf[i]] EXCEPT !["core"] = NotFound]
        BY <1>0, <1>d, <3>2 DEF TmTypeOK
      <4>2. "core" \in TmPart /\ tmRow[TitleOf[i]] \in [TmPart -> TmWriter]
        BY <1>0, <1>d DEF TmTypeOK, TmPart
      <4>3. tmRow'[TitleOf[i]]["core"] = NotFound
        BY <4>1, <4>2
      <4>4. \A t \in TmdbTitle \ {TitleOf[i]} : tmRow'[t] = tmRow[t]
        BY <1>0, <3>2 DEF TmTypeOK
      <4> QED BY <1>0, <4>3, <4>4, TmdbIngestAssumption DEF IngestIsAtomic
    <3> QED BY <2>4, <3>1, <3>2
  <2> QED BY <1>t, <2>3, <2>5 DEF TmInv
<1>4. ASSUME NEW i \in Ingest, TmBegin(i) PROVE TmInv'
  <2>1. tmTx[ConnOf[i]] = "none" /\ tmPhase[i] = "begin"
    BY <1>0, <1>4 DEF TmBegin, TmTransactions
  <2>2. /\ tmPhase' = [tmPhase EXCEPT ![i] = "write"]
        /\ tmDone' = [tmDone EXCEPT ![i] = 0]
        /\ tmTx' = [tmTx EXCEPT ![ConnOf[i]] = "open"]
        /\ UNCHANGED <<tmPend, tmRow>>
    BY <1>4, <2>1 DEF TmBegin, Goes
  <2>3. tmPhase'[i] = "write" /\ tmDone'[i] = 0 /\ tmTx'[ConnOf[i]] = "open"
    BY <1>0, <1>d, <2>2 DEF TmTypeOK
  <2>4. TmTransactions'
    <3>1. \A j \in Ingest \ {i} : /\ tmPhase'[j] = tmPhase[j] /\ tmDone'[j] = tmDone[j]
                                  /\ tmTx'[ConnOf[j]] = tmTx[ConnOf[j]]
                                  /\ tmPend'[ConnOf[j]] = tmPend[ConnOf[j]]
      BY <1>0, <1>c, <1>d, <2>2 DEF TmTypeOK
    <3>2. \A t \in TmdbTitle \ {TitleOf[i]} : \A p \in TmPart :
              tmPend'[ConnOf[i]][t][p] = NoWriter
      BY <1>0, <2>2 DEF TmTransactions
    <3>3. \A k \in 1..tmDone'[i] : tmPend'[ConnOf[i]][TitleOf[i]][TmParts[k]] = i
      BY <2>3
    <3> QED BY <1>0, <2>3, <3>1, <3>2, <3>3, TmTransactionsKept
  <2> QED BY <1>0, <1>t, <2>2, <2>4 DEF TmInv, IngestIsAtomic
<1>5. ASSUME NEW i \in Ingest, TmWrite(i) PROVE TmInv'
  <2> DEFINE c == ConnOf[i]
             t == TitleOf[i]
             k == tmDone[i] + 1
             parts == [tmPend[c][t] EXCEPT ![TmParts[k]] = i]
             titles == [tmPend[c] EXCEPT ![t] = parts]
  <2>1. tmPhase[i] = "write" /\ tmTx[c] = "open"
    BY <1>0, <1>5 DEF TmWrite, TmTransactions
  <2>2. /\ tmPend' = [tmPend EXCEPT ![c] = titles]
        /\ tmDone' = [tmDone EXCEPT ![i] = k]
        /\ UNCHANGED <<tmTx, tmRow, tmPhase>>
    BY <1>5, <2>1 DEF TmWrite, Put
  <2>3. k \in 1..4 /\ tmDone'[i] = k /\ TmParts[k] \in TmPart
    <3>1. k \in 1..4
      <4>1. tmDone[i] \in 0..Len(TmParts)
        BY <1>0 DEF TmTypeOK
      <4>2. tmDone[i] < Len(TmParts)
        BY <1>5 DEF TmWrite
      <4>3. Len(TmParts) = 4
        BY DEF TmParts
      <4> QED BY <4>1, <4>2, <4>3
    <3>2. TmParts[k] \in TmPart
      BY <3>1 DEF TmParts, TmPart
    <3> QED BY <1>0, <2>2, <3>1, <3>2 DEF TmTypeOK
  <2>4. tmPend'[c] = titles /\ \A d \in Connection \ {c} : tmPend'[d] = tmPend[d]
    <3>1. tmPend \in [Connection -> [TmdbTitle -> [TmPart -> TmWriter]]] /\ c \in Connection
      BY <1>0, <1>d DEF TmTypeOK
    <3> HIDE DEF titles, c
    <3> QED BY <2>2, <3>1
  <2>5. tmPend[c] \in [TmdbTitle -> [TmPart -> TmWriter]]
    BY <1>0, <1>d DEF TmTypeOK
  <2>6. titles[t] = parts /\ \A u \in TmdbTitle \ {t} : titles[u] = tmPend[c][u]
    BY <1>d, <2>5
  <2>7. parts[TmParts[k]] = i /\ \A p \in TmPart \ {TmParts[k]} : parts[p] = tmPend[c][t][p]
    BY <1>d, <2>3, <2>5
  <2>8. TmTransactions'
    <3>1. \A j \in Ingest \ {i} : /\ tmPhase'[j] = tmPhase[j] /\ tmDone'[j] = tmDone[j]
                                  /\ tmTx'[ConnOf[j]] = tmTx[ConnOf[j]]
                                  /\ tmPend'[ConnOf[j]] = tmPend[ConnOf[j]]
      BY <1>0, <1>c, <1>d, <2>2, <2>4 DEF TmTypeOK
    <3>2. \A u \in TmdbTitle \ {t} : \A p \in TmPart : tmPend'[c][u][p] = NoWriter
      BY <1>0, <2>4, <2>6 DEF TmTransactions
    <3>3. ASSUME NEW n \in 1..tmDone'[i] PROVE tmPend'[c][t][TmParts[n]] = i
      <4>1. TmParts[n] \in TmPart /\ n \in Nat /\ (n = k \/ n \in 1..tmDone[i])
        <5>1. n \in 1..4 /\ (n = k \/ n \in 1..tmDone[i])
          <6>1. tmDone[i] \in Nat
            BY <1>0 DEF TmTypeOK
          <6> QED BY <2>3, <6>1
        <5> QED BY <5>1 DEF TmParts, TmPart
      <4>2. n \in 1..tmDone[i] => tmPend[c][t][TmParts[n]] = i
        BY <1>0, <2>1 DEF TmTransactions
      <4> QED BY <2>4, <2>6, <2>7, <4>1, <4>2
    <3>4. tmPhase'[i] = "write" /\ tmTx'[c] = "open"
      BY <2>1, <2>2
    <3> HIDE DEF titles, parts, k
    <3> QED BY <1>0, <3>1, <3>2, <3>3, <3>4, TmTransactionsKept
  <2> QED BY <1>0, <1>t, <2>2, <2>8 DEF TmInv, IngestIsAtomic
<1>6. ASSUME NEW i \in Ingest, TmWriteFails(i) PROVE TmInv'
  <2>1. tmPhase[i] = "write" /\ tmTx[ConnOf[i]] = "open"
    BY <1>0, <1>6 DEF TmWriteFails, TmTransactions
  <2>2. tmPhase'[i] \in {"undo", "undoDeadlock"} /\ UNCHANGED <<tmDone, tmRow>>
    BY <1>0, <1>6 DEF TmWriteFails, Goes, TmTypeOK
  <2>3. \/ UNCHANGED <<tmTx, tmPend>>
        \/ /\ tmTx' = [tmTx EXCEPT ![ConnOf[i]] = "aborted"]
           /\ tmPend' = [tmPend EXCEPT ![ConnOf[i]] = Blank]
    BY <1>6, <2>1 DEF TmWriteFails, SqlError, Dropped
  <2>4. TmTransactions'
    <3>1. \A j \in Ingest \ {i} : /\ tmPhase'[j] = tmPhase[j] /\ tmDone'[j] = tmDone[j]
                                  /\ tmTx'[ConnOf[j]] = tmTx[ConnOf[j]]
                                  /\ tmPend'[ConnOf[j]] = tmPend[ConnOf[j]]
      BY <1>0, <1>6, <1>c, <1>d, <2>2, <2>3 DEF TmTypeOK, TmWriteFails, Goes
    <3>2. \A u \in TmdbTitle \ {TitleOf[i]} : \A p \in TmPart :
             tmPend'[ConnOf[i]][u][p] = NoWriter
      BY <1>0, <1>d, <2>3, BlankIsBlank DEF TmTransactions, TmTypeOK
    <3> QED BY <1>0, <2>2, <3>1, <3>2, TmTransactionsKept
  <2> QED BY <1>0, <1>t, <2>2, <2>4 DEF TmInv, IngestIsAtomic
<1>7. ASSUME NEW i \in Ingest, TmCommit(i) PROVE TmInv'
  <2> DEFINE c == ConnOf[i]
  <2>1. /\ tmPhase[i] = "write" /\ tmDone[i] = Len(TmParts)
        /\ tmPhase' = [tmPhase EXCEPT ![i] = "ended"]
        /\ tmTx' = [tmTx EXCEPT ![c] = "none"]
        /\ tmPend' = [tmPend EXCEPT ![c] = Blank]
        /\ UNCHANGED tmDone
    BY <1>7 DEF TmCommit, Ready, Goes, Dropped
  <2>2. tmPhase'[i] = "ended" /\ tmTx'[c] = "none" /\ tmPend'[c] = Blank
    BY <1>0, <1>d, <2>1 DEF TmTypeOK
  <2>3. TmTransactions'
    <3>1. \A j \in Ingest \ {i} : /\ tmPhase'[j] = tmPhase[j] /\ tmDone'[j] = tmDone[j]
                                  /\ tmTx'[ConnOf[j]] = tmTx[ConnOf[j]]
                                  /\ tmPend'[ConnOf[j]] = tmPend[ConnOf[j]]
      BY <1>0, <1>c, <1>d, <2>1 DEF TmTypeOK
    <3> QED BY <1>0, <2>2, <3>1, TmTransactionsKept, BlankIsBlank
  <2>4. \A p \in TmPart : tmPend[c][TitleOf[i]][p] = i
    <3>1. \A k \in 1..4 : tmPend[c][TitleOf[i]][TmParts[k]] = i
      BY <1>0, <2>1 DEF TmTransactions, TmParts
    <3>2. \A p \in TmPart : \E k \in 1..4 : p = TmParts[k]
      <4>1. /\ TmParts[1] = "core" /\ TmParts[2] = "translations"
            /\ TmParts[3] = "reviews" /\ TmParts[4] = "relations"
        BY DEF TmParts
      <4> QED BY <4>1 DEF TmPart
    <3> QED BY <3>1, <3>2
  <2>5. \A t \in TmdbTitle, p \in TmPart :
          tmRow'[t][p] = IF tmPend[c][t][p] = NoWriter THEN tmRow[t][p] ELSE tmPend[c][t][p]
    BY <1>7 DEF TmCommit
  <2>6. \A t \in TmdbTitle \ {TitleOf[i]} : \A p \in TmPart : tmRow'[t][p] = tmRow[t][p]
    BY <1>0, <2>5 DEF TmTransactions
  <2>7. \A p \in TmPart : tmRow'[TitleOf[i]][p] = i
    BY <1>d, <2>4, <2>5, TmdbIngestAssumption
  <2>8. IngestIsAtomic'
    <3>1. "core" \in TmPart
      BY DEF TmPart
    <3> QED BY <1>0, <2>6, <2>7, <3>1 DEF IngestIsAtomic
  <2> QED BY <1>t, <2>3, <2>8 DEF TmInv
<1>8. ASSUME NEW i \in Ingest, TmRollback(i) PROVE TmInv'
  <2> DEFINE c == ConnOf[i]
  <2>1. /\ tmTx' = [tmTx EXCEPT ![c] = "none"]
        /\ tmPend' = [tmPend EXCEPT ![c] = Blank]
        /\ UNCHANGED <<tmDone, tmRow>>
    BY <1>8 DEF TmRollback, Dropped
  <2>2. tmPhase'[i] \in {"begin", "ended"} /\ tmTx'[c] = "none" /\ tmPend'[c] = Blank
    BY <1>0, <1>8, <1>d, <2>1 DEF TmTypeOK, TmRollback, Goes
  <2>3. \A j \in Ingest \ {i} : /\ tmPhase'[j] = tmPhase[j] /\ tmDone'[j] = tmDone[j]
                                /\ tmTx'[ConnOf[j]] = tmTx[ConnOf[j]]
                                /\ tmPend'[ConnOf[j]] = tmPend[ConnOf[j]]
    BY <1>0, <1>8, <1>c, <1>d, <2>1 DEF TmTypeOK, TmRollback, Goes
  <2>4. TmTransactions'
    BY <1>0, <2>2, <2>3, TmTransactionsKept, BlankIsBlank
  <2> QED BY <1>0, <1>t, <2>1, <2>4 DEF TmInv, IngestIsAtomic
<1>9. ASSUME NEW c \in Connection, TmLost(c) PROVE TmInv'
  <2>1. PICK i \in Ingest : ConnOf[i] = c
    BY <1>9 DEF TmLost
  <2>2. /\ tmTx' = [tmTx EXCEPT ![c] = "none"]
        /\ tmPend' = [tmPend EXCEPT ![c] = Blank]
        /\ UNCHANGED <<tmDone, tmRow>>
    BY <1>9 DEF TmLost, Dropped
  <2>3. tmPhase'[i] = "ended" /\ tmTx'[c] = "none" /\ tmPend'[c] = Blank
    BY <1>0, <1>9, <2>1, <2>2 DEF TmTypeOK, TmLost
  <2>4. \A j \in Ingest \ {i} : /\ tmPhase'[j] = tmPhase[j] /\ tmDone'[j] = tmDone[j]
                                /\ tmTx'[ConnOf[j]] = tmTx[ConnOf[j]]
                                /\ tmPend'[ConnOf[j]] = tmPend[ConnOf[j]]
    BY <1>0, <1>9, <1>c, <1>d, <2>1, <2>2 DEF TmTypeOK, TmLost
  <2>5. TmTransactions'
    BY <1>0, <2>1, <2>3, <2>4, TmTransactionsKept, BlankIsBlank
  <2> QED BY <1>0, <1>t, <2>2, <2>5 DEF TmInv, IngestIsAtomic
<1> QED BY <1>1, <1>2, <1>3, <1>4, <1>5, <1>6, <1>7, <1>8, <1>9 DEF TmNext

\* When every ingest has a client of its own, a reader that finds the detail row
\* of a title finds the translations, reviews and relations of the same ingest,
\* whatever failed, died or was tried again (ingestTitle, withDeadlockRetry).
\* Without the hypothesis the run of a shared client refutes it.
THEOREM TitlesAreAtomic == ASSUME OwnClient PROVE TmSpec => []IngestIsAtomic
<1>1. TmInit => TmInv
  BY TmInvInit
<1>2. TmInv /\ [TmNext]_tmVars => TmInv'
  BY TmInvNext
<1>3. TmInv => IngestIsAtomic
  BY DEF TmInv
<1> QED BY <1>1, <1>2, <1>3, PTL DEF TmSpec

LEMMA TmSpecTypes == TmSpec => []TmTypeOK
<1>1. TmTrying => TmTypeOK
  BY DEF TmTrying
<1> QED BY <1>1, TmTryingInit, TmTryingNext, PTL DEF TmSpec

(***************************************************************************)
(* The first few of a finite set                                           *)
(***************************************************************************)
\* Before[i] are the elements listed before i.  Those with fewer than n before
\* them are at least n, or all there are: an element with n or more before it,
\* of which none has as many, leaves n of them.
LEMMA FirstFew ==
    ASSUME NEW S, IsFiniteSet(S), NEW Before, NEW n \in Nat,
           \A i \in S : Before[i] \subseteq S /\ i \notin Before[i],
           \A i \in S : \A j \in Before[i] : Before[j] \subseteq Before[i],
           NEW first, first = {i \in S : Cardinality(Before[i]) < n}
    PROVE  /\ IsFiniteSet(first)
           /\ first = S \/ Cardinality(first) >= n
<1>1. IsFiniteSet(first)
  BY FS_Subset
<1>2. \A i \in S : IsFiniteSet(Before[i]) /\ Cardinality(Before[i]) \in Nat
  BY FS_Subset, FS_CardinalityType
<1>3. ASSUME first # S PROVE Cardinality(first) >= n
  <2> DEFINE Long == {Before[i] : i \in {k \in S : Cardinality(Before[k]) >= n}}
  <2>1. Long # {}
    BY <1>2, <1>3
  <2>2. Long \subseteq FiniteSubsetsOf(S)
    BY <1>2 DEF FiniteSubsetsOf
  <2>3. IsWellFoundedOn(StrictSubsetOrdering(S), FiniteSubsetsOf(S))
    BY FS_StrictSubsetOrderingWellFounded
  <2>4. \E u \in Long : \A v \in Long : <<v, u>> \notin StrictSubsetOrdering(S)
    <3> HIDE DEF Long
    <3> QED BY <2>1, <2>2, <2>3, WFMin
  <2>5. PICK u \in Long : \A v \in Long : <<v, u>> \notin StrictSubsetOrdering(S)
    BY <2>4
  <2>6. PICK k \in S : u = Before[k] /\ Cardinality(Before[k]) >= n
    BY <2>5
  <2>7. ASSUME NEW j \in Before[k] PROVE j \in first
    <3>1. j \in S /\ Before[j] \subseteq Before[k] /\ j \notin Before[j]
      BY <2>6
    <3>2. <<Before[j], u>> \in StrictSubsetOrdering(S)
      BY <2>6, <2>7, <3>1 DEF StrictSubsetOrdering
    <3>3. Before[j] \notin Long
      BY <2>5, <3>2
    <3> QED BY <1>2, <3>1, <3>3
  <2>8. Cardinality(Before[k]) <= Cardinality(first)
    BY <1>1, <2>7, FS_Subset
  <2> QED BY <1>1, <1>2, <2>6, <2>8, FS_CardinalityType
<1> QED BY <1>1, <1>3

(***************************************************************************)
(* SnapshotLease                                                           *)
(***************************************************************************)
SlSelected(t) == slPage[t].step = "selected"

\* Who holds an item holds a lease, and has met whoever else is about to take
\* the item; two that have selected and not updated have met.
SlHolding ==
    /\ \A h \in slHolds : slLease[h[2]] = "leased"
    /\ \A t, u \in Traversal : SlSelected(t) /\ SlSelected(u) /\ t # u => {t, u} \in slMet
    /\ \A t \in Traversal : SlSelected(t) =>
          \A h \in slHolds : h[2] \in slPage[t].chosen /\ h[1] # t => {h[1], t} \in slMet

SlPageType == [step : {"idle", "selected", "ended"}, cursor : -1..LastItem,
               chosen : SUBSET SlItem]

LEMMA SlSelectsType == \A c, n : SlSelects(c, n) \in SUBSET SlItem
BY DEF SlSelects

\* What a traversal does to its page leaves the others'.
SlMoves(t, step, chosen) ==
    /\ slPage' \in [Traversal -> SlPageType]
    /\ slPage'[t].step = step /\ slPage'[t].chosen = chosen
    /\ \A u \in Traversal \ {t} : slPage'[u] = slPage[u]

LEMMA SlSelectMoves ==
    ASSUME SlTypeOK, NEW t \in Traversal, SlSelect(t)
    PROVE  /\ SlMoves(t, "selected", SlSelects(slPage[t].cursor, PageLimit + 1))
           /\ slPage'[t].cursor = slPage[t].cursor
<1> DEFINE chosen == SlSelects(slPage[t].cursor, PageLimit + 1)
           page == [slPage[t] EXCEPT !.step = "selected", !.chosen = chosen]
<1>1. chosen \in SUBSET SlItem
  BY SlSelectsType
<1>2. slPage[t] \in SlPageType
  BY DEF SlTypeOK, SlPageType
<1>3. /\ page \in SlPageType /\ page.step = "selected" /\ page.chosen = chosen
      /\ page.cursor = slPage[t].cursor
  <2> HIDE DEF chosen
  <2> QED BY <1>1, <1>2 DEF SlPageType
<1>4. slPage' = [slPage EXCEPT ![t] = page]
  BY <1>2 DEF SlSelect, SlTypeOK
<1> HIDE DEF page
<1> QED BY <1>3, <1>4 DEF SlTypeOK, SlMoves, SlPageType

\* A free item after the cursor is chosen, unless a full page of items, and the
\* one looked at ahead, lies between the cursor and it.
LEMMA SlSelectsFirst ==
    ASSUME NEW c \in -1..LastItem, NEW chosen, chosen = SlSelects(c, PageLimit + 1),
           NEW i \in SlItem, i > c, SlFree(i), i \notin chosen
    PROVE  i > c + PageLimit /\ Cardinality(chosen) > PageLimit
<1> USE SnapshotLeaseAssumption
<1> DEFINE free == {k \in SlItem : k > c /\ SlFree(k)}
           before == [k \in free |-> {j \in free : j < k}]
<1>1. IsFiniteSet(free)
  <2>1. IsFiniteSet(0..LastItem)
    BY FS_Interval
  <2> QED BY <2>1, FS_Subset DEF SlItem
<1>2. chosen = {k \in free : Cardinality(before[k]) < PageLimit + 1}
  BY DEF SlSelects
<1>3. \A k \in free : before[k] \subseteq free /\ k \notin before[k]
  BY DEF SlItem
<1>4. \A k \in free : \A j \in before[k] : before[j] \subseteq before[k]
  BY DEF SlItem
<1>5. i \in free /\ free # chosen
  OBVIOUS
<1>6. IsFiniteSet(chosen) /\ Cardinality(chosen) >= PageLimit + 1
  <2> HIDE DEF free, before
  <2> QED BY <1>1, <1>2, <1>3, <1>4, <1>5, FirstFew
<1>7. Cardinality(before[i]) >= PageLimit + 1
  <2> HIDE DEF free, before
  <2>1. IsFiniteSet(before[i])
    BY <1>1, <1>3, <1>5, FS_Subset
  <2>2. Cardinality(before[i]) \in Nat
    BY <2>1, FS_CardinalityType
  <2>3. i \in free /\ i \notin chosen
    BY <1>5
  <2>4. ~(Cardinality(before[i]) < PageLimit + 1)
    BY <1>2, <2>3
  <2> QED BY <2>2, <2>4
<1>8. IsFiniteSet((c + 1)..(i - 1)) /\ Cardinality((c + 1)..(i - 1)) = i - 1 - c
  <2>1. c + 1 \in Int /\ i - 1 \in Int /\ c \in Int /\ i \in Int
    BY DEF SlItem
  <2>2. /\ IsFiniteSet((c + 1)..(i - 1))
        /\ Cardinality((c + 1)..(i - 1)) = IF c + 1 > i - 1 THEN 0 ELSE (i - 1) - (c + 1) + 1
    BY <2>1, FS_Interval
  <2> QED BY <2>1, <2>2
<1>9. before[i] \subseteq (c + 1)..(i - 1)
  BY <1>5 DEF SlItem
<1>10. Cardinality(before[i]) <= i - 1 - c
  BY <1>8, <1>9, FS_Subset
<1>11. Cardinality(before[i]) \in Nat /\ Cardinality(chosen) \in Nat
  <2> HIDE DEF free, before
  <2> QED BY <1>1, <1>3, <1>5, <1>6, FS_Subset, FS_CardinalityType
<1> QED BY <1>6, <1>7, <1>10, <1>11 DEF SlItem

\* What a page has leased, for its reader or for nobody.
SlCovered == slGiven \cup slAhead

\* No item before a cursor is passed over; and of the items after it, a
\* statement leaves out only those that are covered or lie beyond a full page.
SlReading ==
    /\ \A i \in SlItem : slLease[i] # "pending" => i \in SlCovered
    /\ \A t \in Traversal : \A i \in SlItem : i <= slPage[t].cursor => i \in SlCovered
    /\ \A t \in Traversal : SlSelected(t) =>
          /\ \A i \in slPage[t].chosen : i > slPage[t].cursor
          /\ \A i \in SlItem \ slPage[t].chosen :
                i > slPage[t].cursor /\ i \notin SlCovered =>
                   /\ i > slPage[t].cursor + PageLimit
                   /\ Cardinality(slPage[t].chosen) > PageLimit

SlInv == SlTypeOK /\ SlHolding /\ SlReading /\ HeldByOne /\ MissedWasLeased

LEMMA SlInvInit == SlInit => SlInv
<1> HAVE SlInit
<1>1. SlTypeOK
  BY SnapshotLeaseAssumption DEF SlInit, SlTypeOK
<1>2. SlHolding /\ HeldByOne /\ MissedWasLeased
  BY DEF SlInit, SlHolding, SlSelected, HeldByOne, MissedWasLeased
<1>3. SlReading
  BY DEF SlInit, SlReading, SlSelected, SlItem
<1> QED BY <1>1, <1>2, <1>3 DEF SlInv

LEMMA SlSelectStep == ASSUME SlInv, NEW t \in Traversal, SlSelect(t) PROVE SlInv'
<1> DEFINE cursor == slPage[t].cursor
           chosen == SlSelects(cursor, PageLimit + 1)
<1>0. SlTypeOK /\ SlHolding /\ SlReading /\ HeldByOne /\ MissedWasLeased
  BY DEF SlInv
<1>1. /\ SlMoves(t, "selected", chosen) /\ slPage'[t].cursor = cursor
      /\ slPage[t].step = "idle" /\ cursor \in -1..LastItem
      /\ UNCHANGED <<slLease, slHolds, slGiven, slAhead>>
      /\ slMet' = slMet \cup {{t, u} : u \in {x \in Traversal : slPage[x].step = "selected"}}
  BY <1>0, SlSelectMoves DEF SlSelect, SlTypeOK
<1>2. SlTypeOK'
  BY <1>0, <1>1 DEF SlTypeOK, SlMoves, SlPageType
<1>3. \A i \in chosen : i \in SlItem /\ i > cursor /\ slLease[i] # "leased"
  BY DEF SlSelects, SlFree
<1>4. SlHolding'
  <2> HIDE DEF chosen
  <2>1. \A t1, t2 \in Traversal :
          SlSelected(t1)' /\ SlSelected(t2)' /\ t1 # t2 => {t1, t2} \in slMet'
    BY <1>0, <1>1 DEF SlHolding, SlSelected, SlMoves
  <2>2. \A t1 \in Traversal : SlSelected(t1)' =>
          \A h \in slHolds : h[2] \in slPage'[t1].chosen /\ h[1] # t1 => {h[1], t1} \in slMet'
    BY <1>0, <1>1, <1>3 DEF SlHolding, SlSelected, SlMoves
  <2> QED BY <1>0, <1>1, <2>1, <2>2 DEF SlHolding
<1>5. SlReading'
  <2>1. SlCovered' = SlCovered
    BY <1>1 DEF SlCovered
  <2>2. ASSUME NEW i \in SlItem \ chosen, i > cursor, i \notin SlCovered
        PROVE  i > cursor + PageLimit /\ Cardinality(chosen) > PageLimit
    <3>1. SlFree(i)
      BY <1>0, <2>2 DEF SlReading, SlFree
    <3> QED BY <1>1, <2>2, <3>1, SlSelectsFirst
  <2> HIDE DEF chosen
  <2> QED BY <1>0, <1>1, <1>3, <2>1, <2>2 DEF SlReading, SlSelected, SlMoves
<1>6. HeldByOne' /\ MissedWasLeased'
  <2> HIDE DEF chosen
  <2> QED BY <1>0, <1>1 DEF HeldByOne, MissedWasLeased, SlMoves
<1> QED BY <1>2, <1>4, <1>5, <1>6 DEF SlInv

LEMMA SlLeasedFacts ==
    ASSUME SlTypeOK, NEW t \in Traversal
    PROVE  /\ SlLeased(t) \in [SlItem -> {"pending", "leased", "over"}]
           /\ \A i \in SlItem : /\ i \in slPage[t].chosen => SlLeased(t)[i] = "leased"
                                /\ i \notin slPage[t].chosen => SlLeased(t)[i] = slLease[i]
BY DEF SlTypeOK, SlLeased

\* A full page's cursor stays below the last item: more than PageLimit lie
\* after the one it started from.
LEMMA SlCursorStays ==
    ASSUME SlTypeOK, SlReading, NEW t \in Traversal, SlSelected(t),
           Cardinality(slPage[t].chosen) > PageLimit
    PROVE  slPage[t].cursor + PageLimit \in -1..LastItem
<1> USE SnapshotLeaseAssumption
<1> DEFINE cursor == slPage[t].cursor
           chosen == slPage[t].chosen
<1>1. cursor \in -1..LastItem /\ chosen \in SUBSET SlItem
  BY DEF SlTypeOK
<1>2. \A i \in chosen : i > cursor
  BY DEF SlReading
<1> HIDE DEF cursor, chosen
<1>3. chosen \in SUBSET ((cursor + 1)..LastItem)
  BY <1>1, <1>2 DEF SlItem
<1>4. /\ IsFiniteSet((cursor + 1)..LastItem)
      /\ Cardinality((cursor + 1)..LastItem) =
            IF cursor + 1 > LastItem THEN 0 ELSE LastItem - (cursor + 1) + 1
  BY <1>1, FS_Interval
<1>5. IsFiniteSet(chosen) /\ Cardinality(chosen) <= Cardinality((cursor + 1)..LastItem)
  BY <1>3, <1>4, FS_Subset
<1>6. Cardinality(chosen) \in Nat
  BY <1>5, FS_CardinalityType
<1>7. Cardinality(chosen) > PageLimit
  BY DEF chosen
<1>8. cursor + PageLimit \in -1..LastItem
  BY <1>1, <1>4, <1>5, <1>6, <1>7
<1> QED BY <1>8 DEF cursor

LEMMA SlUpdateStep == ASSUME SlInv, NEW t \in Traversal, SlUpdate(t) PROVE SlInv'
<1> USE SnapshotLeaseAssumption
<1> DEFINE cursor == slPage[t].cursor
           chosen == slPage[t].chosen
           more == Cardinality(chosen) > PageLimit
           next == IF more THEN cursor + PageLimit ELSE cursor
<1>0. SlTypeOK /\ SlHolding /\ SlReading /\ HeldByOne /\ MissedWasLeased
  BY DEF SlInv
<1>1. /\ SlSelected(t) /\ slLease' = SlLeased(t) /\ UNCHANGED slMet
      /\ cursor \in -1..LastItem /\ chosen \in SUBSET SlItem
  BY <1>0 DEF SlUpdate, SlSelected, SlTypeOK
<1>2. PICK items \in SlReturns(t) :
            /\ slHolds' = slHolds \cup ({t} \X items)
            /\ slGiven' = slGiven \cup items
            /\ slAhead' = (slAhead \cup chosen) \ slGiven'
            /\ slPage' = [slPage EXCEPT ![t] =
                   [step |-> IF more THEN "idle" ELSE "ended",
                    cursor |-> IF more THEN cursor + Cardinality(items) ELSE cursor,
                    chosen |-> {}]]
  BY DEF SlUpdate, SlHasMore
<1>3. items \in SUBSET chosen /\ (more => Cardinality(items) = PageLimit)
  <2>1. IsFiniteSet(chosen)
    <3>1. IsFiniteSet(0..LastItem)
      BY FS_Interval
    <3> QED BY <1>1, <3>1, FS_Subset DEF SlItem
  <2>2. Cardinality(chosen) \in Nat
    BY <2>1, FS_CardinalityType
  <2> QED BY <1>2, <2>2 DEF SlReturns
<1>4. next \in -1..LastItem
  BY <1>0, <1>1, SlCursorStays
<1> HIDE DEF more
<1>5. /\ slPage' \in [Traversal -> SlPageType]
      /\ slPage'[t].step = (IF more THEN "idle" ELSE "ended")
      /\ slPage'[t].cursor = next /\ slPage'[t].chosen = {}
      /\ \A u \in Traversal \ {t} : slPage'[u] = slPage[u]
  <2> DEFINE page == [step |-> IF more THEN "idle" ELSE "ended", cursor |-> next, chosen |-> {}]
  <2>1. page \in SlPageType
    BY <1>4 DEF SlPageType
  <2>2. slPage' = [slPage EXCEPT ![t] = page]
    BY <1>2, <1>3
  <2>3. page.step = (IF more THEN "idle" ELSE "ended") /\ page.cursor = next /\ page.chosen = {}
    OBVIOUS
  <2> HIDE DEF page
  <2> QED BY <1>0, <2>1, <2>2, <2>3 DEF SlTypeOK, SlPageType
<1>6. ~SlSelected(t)'
  BY <1>5 DEF SlSelected
<1>7. SlCovered' = SlCovered \cup chosen
  BY <1>2, <1>3 DEF SlCovered
<1>8. /\ slLease' \in [SlItem -> {"pending", "leased", "over"}]
      /\ \A i \in SlItem : /\ i \in chosen => slLease'[i] = "leased"
                           /\ i \notin chosen => slLease'[i] = slLease[i]
  BY <1>0, <1>1, SlLeasedFacts
<1>9. \A h \in slHolds' : h \in slHolds \/ (h[1] = t /\ h[2] \in items)
  BY <1>2
<1>a. \A h \in slHolds : h[1] \in Traversal /\ h[2] \in SlItem
  BY <1>0 DEF SlTypeOK
<1> HIDE DEF next, chosen
<1>10. SlTypeOK'
  BY <1>0, <1>1, <1>2, <1>3, <1>5, <1>8 DEF SlTypeOK, SlPageType
<1>11. SlHolding'
  <2>1. \A h \in slHolds' : slLease'[h[2]] = "leased"
    BY <1>0, <1>1, <1>3, <1>8, <1>9, <1>a DEF SlHolding
  <2>2. \A v, u \in Traversal : SlSelected(v)' /\ SlSelected(u)' /\ v # u => {v, u} \in slMet'
    BY <1>0, <1>1, <1>5, <1>6 DEF SlHolding, SlSelected
  <2>3. ASSUME NEW v \in Traversal, SlSelected(v)', NEW h \in slHolds',
               h[2] \in slPage'[v].chosen, h[1] # v
        PROVE  {h[1], v} \in slMet'
    <3>1. v # t /\ SlSelected(v) /\ slPage'[v] = slPage[v]
      BY <1>5, <1>6, <2>3 DEF SlSelected
    <3>2. CASE h \in slHolds
      BY <1>0, <1>1, <2>3, <3>1, <3>2 DEF SlHolding
    <3>3. CASE h[1] = t
      BY <1>0, <1>1, <3>1, <3>3 DEF SlHolding
    <3> QED BY <1>9, <3>2, <3>3
  <2> QED BY <2>1, <2>2, <2>3 DEF SlHolding
<1>12. HeldByOne'
  <2> SUFFICES ASSUME NEW h \in slHolds', NEW k \in slHolds', h[2] = k[2], h[1] # k[1]
               PROVE  {h[1], k[1]} \in slMet
    BY <1>1 DEF HeldByOne
  <2>1. CASE h \in slHolds /\ k \in slHolds
    BY <1>0, <2>1 DEF HeldByOne
  <2>2. CASE h \in slHolds /\ k[1] = t /\ k[2] \in items
    BY <1>0, <1>1, <1>3, <2>2 DEF SlHolding, chosen
  <2>3. CASE k \in slHolds /\ h[1] = t /\ h[2] \in items
    <3>1. {k[1], t} \in slMet
      BY <1>0, <1>1, <1>3, <2>3 DEF SlHolding, chosen
    <3>2. {h[1], k[1]} = {k[1], t}
      BY <2>3
    <3> QED BY <3>1, <3>2
  <2> QED BY <1>9, <2>1, <2>2, <2>3
<1>13. \A i \in SlItem : i > cursor /\ i \notin SlCovered' =>
          i > cursor + PageLimit /\ more
  BY <1>0, <1>1, <1>7 DEF SlReading, chosen, more
<1>14. \A i \in SlItem : i <= cursor => i \in SlCovered
  BY <1>0 DEF SlReading
<1>15. SlReading'
  <2>1. \A i \in SlItem : slLease'[i] # "pending" => i \in SlCovered'
    BY <1>0, <1>7, <1>8 DEF SlReading
  <2>2. \A i \in SlItem : i <= next => i \in SlCovered'
    <3> SUFFICES ASSUME NEW i \in SlItem, i <= next, i \notin SlCovered' PROVE FALSE
      OBVIOUS
    <3>1. i > cursor
      BY <1>1, <1>7, <1>14 DEF SlItem
    <3>2. i > cursor + PageLimit /\ next = cursor + PageLimit
      BY <1>13, <3>1 DEF next
    <3>3. i \in Int /\ cursor \in Int
      BY <1>1 DEF SlItem
    <3> QED BY <3>2, <3>3
  <2>3. \A u \in Traversal \ {t} : \A i \in SlItem : i <= slPage'[u].cursor => i \in SlCovered'
    BY <1>0, <1>5, <1>7 DEF SlReading
  <2>4. \A u \in Traversal : SlSelected(u)' => u # t /\ SlSelected(u) /\ slPage'[u] = slPage[u]
    BY <1>5, <1>6 DEF SlSelected
  <2>5. \A u \in Traversal : SlSelected(u)' =>
          /\ \A i \in slPage'[u].chosen : i > slPage'[u].cursor
          /\ \A i \in SlItem \ slPage'[u].chosen :
                i > slPage'[u].cursor /\ i \notin SlCovered' =>
                   /\ i > slPage'[u].cursor + PageLimit
                   /\ Cardinality(slPage'[u].chosen) > PageLimit
    BY <1>0, <1>7, <2>4 DEF SlReading
  <2> QED BY <1>5, <2>1, <2>2, <2>3, <2>5 DEF SlReading
<1>16. MissedWasLeased'
  <2>1. SlCovered' \subseteq SlItem
    BY <1>10 DEF SlTypeOK, SlCovered
  <2>2. SUFFICES ASSUME NEW u \in Traversal, slPage'[u].step = "ended", NEW i \in SlItem
                 PROVE  i \in SlCovered'
    BY <2>1 DEF MissedWasLeased, SlCovered
  <2>3. CASE u = t
    <3>1. ~more
      BY <1>5, <2>2, <2>3
    <3>2. i > cursor \/ i <= cursor
      BY <1>1 DEF SlItem
    <3> QED BY <1>7, <1>13, <1>14, <3>1, <3>2
  <2>4. CASE u # t
    BY <1>0, <1>5, <1>7, <2>2, <2>4 DEF MissedWasLeased, SlCovered
  <2> QED BY <2>3, <2>4
<1> QED BY <1>10, <1>11, <1>12, <1>15, <1>16 DEF SlInv

\* The rows of a lost response stay leased; nobody was given them.
LEMMA SlResponseLostStep ==
    ASSUME SlInv, NEW t \in Traversal, SlResponseLost(t) PROVE SlInv'
<1> DEFINE chosen == slPage[t].chosen
<1>0. SlTypeOK /\ SlHolding /\ SlReading /\ HeldByOne /\ MissedWasLeased
  BY DEF SlInv
<1>1. /\ SlSelected(t) /\ slLease' = SlLeased(t) /\ UNCHANGED <<slHolds, slGiven, slMet>>
      /\ chosen \in SUBSET SlItem /\ slAhead' = slAhead \cup (chosen \ slGiven)
  BY <1>0 DEF SlResponseLost, SlSelected, SlTypeOK
<1>2. /\ SlMoves(t, "idle", {}) /\ slPage'[t].cursor = slPage[t].cursor
  <2> DEFINE page == [slPage[t] EXCEPT !.step = "idle", !.chosen = {}]
  <2>1. slPage[t] \in SlPageType
    BY <1>0 DEF SlTypeOK, SlPageType
  <2>2. /\ page \in SlPageType /\ page.step = "idle" /\ page.chosen = {}
        /\ page.cursor = slPage[t].cursor
    BY <2>1 DEF SlPageType
  <2>3. slPage' = [slPage EXCEPT ![t] = page]
    BY DEF SlResponseLost
  <2> HIDE DEF page
  <2> QED BY <1>0, <2>2, <2>3 DEF SlTypeOK, SlMoves, SlPageType
<1>3. SlCovered' = SlCovered \cup chosen
  BY <1>1 DEF SlCovered
<1>4. /\ slLease' \in [SlItem -> {"pending", "leased", "over"}]
      /\ \A i \in SlItem : /\ i \in chosen => slLease'[i] = "leased"
                           /\ i \notin chosen => slLease'[i] = slLease[i]
  BY <1>0, <1>1, SlLeasedFacts
<1>5. \A h \in slHolds : h[1] \in Traversal /\ h[2] \in SlItem
  BY <1>0 DEF SlTypeOK
<1> HIDE DEF chosen
<1>6. SlTypeOK'
  BY <1>0, <1>1, <1>2, <1>4 DEF SlTypeOK, SlMoves, SlPageType
<1>7. \A u \in Traversal : SlSelected(u)' => SlSelected(u) /\ slPage'[u] = slPage[u]
  BY <1>2 DEF SlSelected, SlMoves
<1>8. \A u \in Traversal : slPage'[u].cursor = slPage[u].cursor
  BY <1>2 DEF SlMoves
<1>9. SlHolding'
  <2>1. \A h \in slHolds' : slLease'[h[2]] = "leased"
    BY <1>0, <1>1, <1>4, <1>5 DEF SlHolding
  <2> QED BY <1>0, <1>1, <1>7, <2>1 DEF SlHolding
<1>10. SlReading'
  BY <1>0, <1>3, <1>4, <1>7, <1>8 DEF SlReading
<1>11. HeldByOne'
  BY <1>0, <1>1 DEF HeldByOne
<1>12. MissedWasLeased'
  <2>1. SlCovered' \subseteq SlItem
    BY <1>6 DEF SlTypeOK, SlCovered
  <2> QED BY <1>0, <1>2, <1>3, <2>1 DEF MissedWasLeased, SlCovered, SlMoves
<1> QED BY <1>6, <1>9, <1>10, <1>11, <1>12 DEF SlInv

LEMMA SlLapseStep == ASSUME SlInv, NEW i \in SlItem, SlLapse(i) PROVE SlInv'
<1>0. SlTypeOK /\ SlHolding /\ SlReading /\ HeldByOne /\ MissedWasLeased
  BY DEF SlInv
<1>1. /\ slLease' = [slLease EXCEPT ![i] = "over"] /\ slLease[i] = "leased"
      /\ slHolds' = {h \in slHolds : h[2] # i} /\ UNCHANGED <<slPage, slGiven, slAhead, slMet>>
  BY DEF SlLapse
<1>2. SlTypeOK'
  BY <1>0, <1>1 DEF SlTypeOK
<1>3. \A h \in slHolds : h[2] \in SlItem
  BY <1>0 DEF SlTypeOK
<1>4. SlHolding'
  <2>1. \A h \in slHolds' : h \in slHolds /\ slLease'[h[2]] = "leased"
    BY <1>0, <1>1, <1>3 DEF SlHolding, SlTypeOK
  <2> QED BY <1>0, <1>1, <2>1 DEF SlHolding, SlSelected
<1>5. SlReading'
  BY <1>0, <1>1 DEF SlReading, SlSelected, SlCovered, SlTypeOK
<1>6. HeldByOne' /\ MissedWasLeased'
  BY <1>0, <1>1 DEF HeldByOne, MissedWasLeased
<1> QED BY <1>2, <1>4, <1>5, <1>6 DEF SlInv

LEMMA SlInvNext == SlInv /\ [SlNext]_slVars => SlInv'
<1>1. SlInv /\ UNCHANGED slVars => SlInv'
  BY DEF SlInv, SlTypeOK, SlHolding, SlReading, SlSelected, SlCovered, HeldByOne,
         MissedWasLeased, slVars
<1>2. SlInv /\ SlNext => SlInv'
  BY SlSelectStep, SlUpdateStep, SlResponseLostStep, SlLapseStep DEF SlNext
<1> QED BY <1>1, <1>2

LEMMA SlSpecInv == SlSpec => []SlInv
BY SlInvInit, SlInvNext, PTL DEF SlSpec

\* An item is in two clients' hands at once only when their statements
\* overlapped, for any number of clients and items and any page size: the lease
\* keeps every other page off it (listAndLeaseItems).
THEOREM LeasesKeepApart == SlSpec => []HeldByOne
<1>1. SlInv => HeldByOne
  BY DEF SlInv
<1> QED BY <1>1, SlSpecInv, PTL

\* When a client has read to the end, a page has leased every item, whatever
\* the others took and whichever responses were lost: nextOffset passes over no
\* item that was free (listItems).
THEOREM TraversalsPassNothing == SlSpec => []MissedWasLeased
<1>1. SlInv => MissedWasLeased
  BY DEF SlInv
<1> QED BY <1>1, SlSpecInv, PTL

(***************************************************************************)
(* WatchPages                                                              *)
(***************************************************************************)
LEMMA DivisionFacts ==
    ASSUME NEW a \in Nat, NEW p \in Nat \ {0}
    PROVE  /\ a % p \in 0..(p - 1) /\ a \div p \in Nat
           /\ a = p * (a \div p) + (a % p)
OBVIOUS

\* Numbers of one block of p start at the same multiple of p.
LEMMA SameBlock ==
    ASSUME NEW p \in Nat \ {0}, NEW q \in Nat, NEW r \in Nat, p * q <= p * r, p * r < p * q + p
    PROVE  q = r
<1>1. p * (r - q) < p
  OBVIOUS
<1>2. ~(r - q >= 1)
  <2>1. ASSUME r - q >= 1 PROVE FALSE
    <3>1. p * (r - q) >= p
      BY <2>1
    <3> QED BY <1>1, <3>1
  <2> QED BY <2>1
<1>3. ~(q - r >= 1)
  <2>1. ASSUME q - r >= 1 PROVE FALSE
    <3>1. p * (q - r) >= p
      BY <2>1
    <3> QED BY <3>1
  <2> QED BY <2>1
<1> QED BY <1>2, <1>3

LEMMA TruncatedFacts ==
    ASSUME NEW a \in Nat
    PROVE  Truncated(a) \in Nat /\ Truncated(a) <= a
<1>1. a % PerMilli \in 0..(PerMilli - 1) /\ a \div PerMilli \in Nat
      /\ a = PerMilli * (a \div PerMilli) + (a % PerMilli)
  BY DivisionFacts, WatchPagesAssumption
<1>2. PerMilli * (a \div PerMilli) \in Nat
  BY <1>1, WatchPagesAssumption
<1>3. Truncated(a) = a - (a % PerMilli)
  BY WatchPagesAssumption DEF Truncated
<1> QED BY <1>1, <1>2, <1>3, WatchPagesAssumption

LEMMA TruncatedSame ==
    ASSUME NEW a \in Nat, NEW b \in Nat, Truncated(b) <= a, a <= b
    PROVE  Truncated(a) = Truncated(b)
<1> DEFINE p == PerMilli
           q == a \div p
           r == b \div p
<1>1. p \in Nat \ {0}
  BY WatchPagesAssumption
<1>2. /\ a % p \in 0..(p - 1) /\ q \in Nat /\ a = p * q + (a % p)
      /\ b % p \in 0..(p - 1) /\ r \in Nat /\ b = p * r + (b % p)
  BY <1>1, DivisionFacts
<1>3. Truncated(a) = a - (a % p) /\ Truncated(b) = b - (b % p)
  BY WatchPagesAssumption DEF Truncated
<1> HIDE DEF p, q, r
<1>4. p * q \in Nat /\ p * r \in Nat
  BY <1>1, <1>2
<1>5. p * r <= a /\ p * q <= a /\ a < p * q + p /\ a < p * r + p
  BY <1>1, <1>2, <1>3, <1>4
<1>6. q = r
  <2>1. CASE p * q <= p * r
    BY <1>1, <1>2, <1>4, <1>5, <2>1, SameBlock
  <2>2. CASE p * r <= p * q
    BY <1>1, <1>2, <1>4, <1>5, <2>2, SameBlock
  <2> QED BY <1>4, <2>1, <2>2
<1> QED BY <1>2, <1>3, <1>4, <1>6

\* The order of the lists.
LEMMA EarlierOrders ==
    ASSUME WpTypeOK
    PROVE  /\ \A i \in WpItem : ~Earlier(i, i)
           /\ \A i, j, k \in WpItem : Earlier(i, j) /\ Earlier(j, k) => Earlier(i, k)
           /\ \A i, j \in WpItem : i = j \/ Earlier(i, j) \/ Earlier(j, i)
<1>1. \A i \in WpItem : i \in Nat /\ (wpStamp[i] = NoStamp \/ wpStamp[i] \in Nat)
  BY WatchPagesAssumption DEF WpTypeOK, WpItem, WpStamp
<1> QED BY <1>1, WatchPagesAssumption DEF Earlier

LEMMA WpItemsFinite == \A rows \in SUBSET WpItem : IsFiniteSet(rows)
<1>1. IsFiniteSet(1..WpItems)
  BY FS_Interval, WatchPagesAssumption
<1> QED BY <1>1, FS_Subset DEF WpItem

\* A LIMIT leaves n rows or all of them, leaves all when they are no more than
\* n, and with a row every earlier one.
LEMMA FirstOfFacts ==
    ASSUME WpTypeOK, NEW rows \in SUBSET WpItem, NEW n \in Nat
    PROVE  /\ FirstOf(rows, n) \in SUBSET rows
           /\ Cardinality(FirstOf(rows, n)) < n => FirstOf(rows, n) = rows
           /\ Cardinality(rows) <= n => FirstOf(rows, n) = rows
           /\ \A i \in rows, last \in FirstOf(rows, n) :
                 Earlier(i, last) => i \in FirstOf(rows, n)
<1> DEFINE before == [i \in rows |-> {j \in rows : Earlier(j, i)}]
           first == FirstOf(rows, n)
<1>1. IsFiniteSet(rows)
  BY WpItemsFinite
<1>2. first = {i \in rows : Cardinality(before[i]) < n}
  BY DEF FirstOf
<1>3. \A i \in rows : before[i] \subseteq rows /\ i \notin before[i]
  BY EarlierOrders
<1>4. \A i \in rows : \A j \in before[i] : before[j] \subseteq before[i]
  BY EarlierOrders
<1>5. \A i, j \in rows : Earlier(i, j) <=> i \in before[j]
  OBVIOUS
<1> HIDE DEF before, first
<1>6. IsFiniteSet(first) /\ (first = rows \/ Cardinality(first) >= n)
  BY <1>1, <1>2, <1>3, <1>4, FirstFew
<1>7. Cardinality(first) < n => first = rows
  <2>1. Cardinality(first) \in Nat
    BY <1>6, FS_CardinalityType
  <2> QED BY <1>6, <2>1
<1>8. \A i \in rows : IsFiniteSet(before[i]) /\ Cardinality(before[i]) \in Nat
  BY <1>1, <1>3, FS_Subset, FS_CardinalityType
<1>9. ASSUME Cardinality(rows) <= n, NEW i \in rows PROVE i \in first
  <2>1. /\ Cardinality(before[i]) <= Cardinality(rows)
        /\ Cardinality(before[i]) # Cardinality(rows)
    BY <1>1, <1>3, FS_Subset
  <2>2. Cardinality(rows) \in Nat
    BY <1>1, FS_CardinalityType
  <2>3. Cardinality(before[i]) < n
    BY <1>8, <1>9, <2>1, <2>2
  <2> QED BY <1>2, <2>3
<1>10. ASSUME NEW i \in rows, NEW last \in first, Earlier(i, last) PROVE i \in first
  <2>1. last \in rows /\ Cardinality(before[last]) < n
    BY <1>2
  <2>2. before[i] \in SUBSET before[last]
    BY <1>4, <1>5, <1>10, <2>1
  <2>3. Cardinality(before[i]) <= Cardinality(before[last])
    BY <1>8, <2>1, <2>2, FS_Subset
  <2>4. Cardinality(before[i]) < n
    BY <1>8, <2>1, <2>3
  <2> QED BY <1>2, <2>4
<1>11. first \in SUBSET rows
  BY <1>2
<1> QED BY <1>7, <1>9, <1>10, <1>11 DEF first

LEMMA WpCardinality == \A rows \in SUBSET WpItem : Cardinality(rows) \in Nat
BY WpItemsFinite, FS_CardinalityType

\* One row more than the page is read to see whether there are more.  With more,
\* what the page leaves out is listed after its last row; without, nothing is
\* left out.
LEMMA PageFacts ==
    ASSUME WpTypeOK, NEW below \in SUBSET WpItem, NEW rows, NEW items,
           rows = FirstOf(below, WpLimit + 1), items = FirstOf(rows, WpLimit)
    PROVE  /\ items \in SUBSET below
           /\ ~(Cardinality(rows) > WpLimit) => items = below
           /\ \A last \in items :
                 (\A i \in items : i = last \/ Earlier(i, last)) =>
                    \A i \in below \ items : Earlier(last, i)
<1>0. WpLimit \in Nat /\ WpLimit + 1 \in Nat
  BY WatchPagesAssumption
<1>1. /\ rows \in SUBSET below
      /\ Cardinality(rows) < WpLimit + 1 => rows = below
      /\ \A i \in below, last \in rows : Earlier(i, last) => i \in rows
  BY <1>0, FirstOfFacts
<1>2. /\ items \in SUBSET rows
      /\ Cardinality(rows) <= WpLimit => items = rows
      /\ \A i \in rows, last \in items : Earlier(i, last) => i \in items
  BY <1>0, <1>1, FirstOfFacts
<1>3. Cardinality(rows) \in Nat
  BY <1>1, WpCardinality
<1>4. ~(Cardinality(rows) > WpLimit) => items = below
  BY <1>0, <1>1, <1>2, <1>3
<1>5. ASSUME NEW last \in items, \A i \in items : i = last \/ Earlier(i, last),
             NEW i \in below \ items
      PROVE  Earlier(last, i)
  BY <1>1, <1>2, <1>5, EarlierOrders
<1> QED BY <1>1, <1>2, <1>4, <1>5

\* Rows written before the first page are stamped below WpClock; a cursor is
\* made of one of them.
WpPast ==
    /\ wpNow >= WpClock
    /\ \A i \in WpItem \ wpTouched : wpStamp[i] = NoStamp \/ wpStamp[i] < WpClock
    /\ wpCursor.at # NoStamp => wpCursor.at < WpClock
    /\ wpReader = "new" => wpCursor = NoCursor /\ wpSeen = {} /\ wpTouched = {}
    /\ wpImported => wpTouched = WpItem
    /\ wpReader = "going" => wpCursor.item # 0
    /\ wpList = "history" /\ wpCursor.item # 0 => wpCursor.at # NoStamp

\* While the client reads on: what it has is above the cursor until an import,
\* and what it has not, and nothing wrote, is below it or lost a fraction.
WpReads ==
    wpReader = "going" /\ wpCursor.at # NoStamp =>
        /\ ~wpImported => \A i \in wpSeen : ~Below(i, wpCursor)
        /\ \A i \in Shown \ wpTouched :
              i \in wpSeen \/ Below(i, wpCursor) \/ LostBelow(wpStamp[i])

WpInv == WpTypeOK /\ WpPast /\ WpReads /\ PagesMissOnlyByCursor

LEMMA WpInvInit == WpInit => WpInv
<1> HAVE WpInit
<1>1. WpTypeOK
  <2>1. WpItems \in Nat /\ WpClock \in Nat \ {0} /\ WpWrites \in Nat /\ NoStamp \notin Nat
    BY WatchPagesAssumption
  <2>2. wpStamp \in [WpItem -> WpStamp] /\ wpNow \in WpStamp \ {NoStamp}
        /\ wpCursor \in [at : WpStamp, item : 0..WpItems]
    BY <2>1 DEF WpInit, NoCursor, WpStamp
  <2> QED BY <2>2 DEF WpInit, WpTypeOK
<1>2. WpPast
  BY WatchPagesAssumption DEF WpInit, WpPast, NoCursor
<1>3. WpReads /\ PagesMissOnlyByCursor
  BY DEF WpInit, WpReads, PagesMissOnlyByCursor
<1> QED BY <1>1, <1>2, <1>3 DEF WpInv

\* A write stamps its rows with now(), clears the stamp or leaves it, and leaves
\* the other rows as they are: no row moves below the cursor.
LEMMA WpWriteStep ==
    ASSUME WpInv, NEW rows \in SUBSET WpItem, Touch(rows),
           wpStamp' \in [WpItem -> WpStamp], wpMarked' \in SUBSET WpItem,
           \A i \in WpItem : wpStamp'[i] \in {wpStamp[i], wpNow, NoStamp},
           \A i \in WpItem \ rows : /\ wpStamp'[i] = wpStamp[i]
                                    /\ i \in wpMarked' <=> i \in wpMarked,
           UNCHANGED wpImported
    PROVE  WpInv'
<1> USE WatchPagesAssumption
<1>0. WpTypeOK /\ WpPast /\ WpReads /\ PagesMissOnlyByCursor
  BY DEF WpInv
<1>1. /\ wpReader # "new" /\ wpNow < WpClock + WpWrites /\ wpNow' = wpNow + 1
      /\ wpTouched' = wpTouched \cup rows
      /\ UNCHANGED <<wpList, wpReader, wpCursor, wpSeen, wpTwice, wpCuts>>
  BY DEF Touch, wpRead
<1>2. WpTypeOK'
  BY <1>0, <1>1 DEF WpTypeOK, WpStamp
<1>3. WpPast'
  <2>1. wpNow' >= WpClock
    BY <1>0, <1>1 DEF WpPast, WpTypeOK, WpStamp
  <2>2. \A i \in WpItem \ wpTouched' : wpStamp'[i] = NoStamp \/ wpStamp'[i] < WpClock
    BY <1>0, <1>1 DEF WpPast
  <2>3. wpImported => wpTouched' = WpItem
    BY <1>0, <1>1 DEF WpPast
  <2> QED BY <1>0, <1>1, <2>1, <2>2, <2>3 DEF WpPast
<1>4. \A i \in WpItem \ wpTouched' : i \in Shown' => i \in Shown /\ wpStamp'[i] = wpStamp[i]
  BY <1>1 DEF Shown
<1>5. \A i \in Shown' : i \in WpItem
  BY DEF Shown
<1>6. \A i \in WpItem : wpStamp'[i] = wpStamp[i] =>
                             (LostBelow(wpStamp[i])' <=> LostBelow(wpStamp[i]))
  BY <1>1 DEF LostBelow
<1>7. WpReads'
  <2> SUFFICES ASSUME wpReader = "going", wpCursor.at # NoStamp
               PROVE  /\ ~wpImported => \A i \in wpSeen : ~Below(i, wpCursor)'
                      /\ \A i \in Shown' \ wpTouched' :
                            \/ i \in wpSeen \/ Below(i, wpCursor)'
                            \/ LostBelow(wpStamp[i])'
    BY <1>1 DEF WpReads
  <2>1. wpCursor # NoCursor /\ wpCursor.at \in Nat /\ wpCursor.at < WpClock
    BY <1>0 DEF WpPast, WpTypeOK, WpStamp, NoCursor
  <2>2. ASSUME ~wpImported, NEW i \in wpSeen PROVE ~Below(i, wpCursor)'
    <3>1. i \in WpItem /\ ~Below(i, wpCursor)
      BY <1>0, <2>2 DEF WpReads, WpTypeOK
    <3>2. CASE wpStamp'[i] = wpStamp[i]
      BY <1>1, <3>1, <3>2 DEF Below
    <3>3. CASE wpStamp'[i] = NoStamp
      BY <1>1, <2>1, <3>3 DEF Below
    <3>4. CASE wpStamp'[i] = wpNow
      <4>1. wpNow \in Nat /\ wpNow > wpCursor.at
        BY <1>0, <2>1 DEF WpPast, WpTypeOK, WpStamp
      <4> QED BY <1>1, <2>1, <3>4, <4>1 DEF Below
    <3> QED BY <3>1, <3>2, <3>3, <3>4
  <2>3. ASSUME NEW i \in Shown' \ wpTouched'
        PROVE  i \in wpSeen \/ Below(i, wpCursor)' \/ LostBelow(wpStamp[i])'
    <3>1. i \in Shown \ wpTouched /\ wpStamp'[i] = wpStamp[i] /\ i \in WpItem
      BY <1>1, <1>4, <1>5
    <3>2. i \in wpSeen \/ Below(i, wpCursor) \/ LostBelow(wpStamp[i])
      BY <1>0, <3>1 DEF WpReads
    <3>3. Below(i, wpCursor)' <=> Below(i, wpCursor)
      BY <1>1, <3>1 DEF Below
    <3> QED BY <1>6, <3>1, <3>2, <3>3
  <2> QED BY <2>2, <2>3
<1>8. PagesMissOnlyByCursor'
  <2>1. ASSUME wpReader = "ended", NEW i \in Shown' \ wpTouched'
        PROVE  i \in wpSeen \/ LostBelow(wpStamp[i])'
    <3>1. i \in Shown \ wpTouched /\ wpStamp'[i] = wpStamp[i] /\ i \in WpItem
      BY <1>1, <1>4, <1>5
    <3>2. i \in wpSeen \/ LostBelow(wpStamp[i])
      BY <1>0, <2>1, <3>1 DEF PagesMissOnlyByCursor
    <3> QED BY <1>6, <3>1, <3>2
  <2> QED BY <1>0, <1>1, <2>1 DEF PagesMissOnlyByCursor
<1> QED BY <1>2, <1>3, <1>7, <1>8 DEF WpInv

\* An import leaves no row that nothing wrote.
LEMMA WpImportStep == ASSUME WpInv, WpImport PROVE WpInv'
<1> USE WatchPagesAssumption
<1>0. WpTypeOK /\ WpPast /\ WpReads /\ PagesMissOnlyByCursor
  BY DEF WpInv
<1>1. /\ wpReader # "new" /\ wpNow < WpClock + WpWrites /\ wpNow' = wpNow + 1
      /\ wpTouched' = wpTouched \cup WpItem /\ wpImported' = TRUE
      /\ UNCHANGED <<wpList, wpReader, wpCursor, wpSeen, wpTwice, wpCuts>>
  BY DEF WpImport, Touch, wpRead
<1>2. wpStamp' \in [WpItem -> WpStamp] /\ wpMarked' \in SUBSET WpItem
  BY DEF WpImport
<1>3. wpTouched' = WpItem
  BY <1>0, <1>1 DEF WpTypeOK
<1>4. WpTypeOK'
  BY <1>0, <1>1, <1>2, <1>3 DEF WpTypeOK, WpStamp
<1>5. WpPast'
  <2>1. wpNow' >= WpClock
    BY <1>0, <1>1 DEF WpPast, WpTypeOK, WpStamp
  <2> QED BY <1>0, <1>1, <1>3, <2>1 DEF WpPast
<1>6. Shown' \ wpTouched' = {}
  BY <1>3 DEF Shown
<1>7. WpReads' /\ PagesMissOnlyByCursor'
  BY <1>0, <1>1, <1>6 DEF WpReads, PagesMissOnlyByCursor
<1> QED BY <1>4, <1>5, <1>7 DEF WpInv

LEMMA WpWritesStep ==
    ASSUME WpInv,
           \/ \E rows \in SUBSET WpItem \ {{}} : WpPlay(rows) \/ WpUnmark(rows) \/ WpDelete(rows)
           \/ \E i \in WpItem : WpMark(i) \/ WpClear(i)
    PROVE  WpInv'
<1>0. /\ wpStamp \in [WpItem -> WpStamp] /\ wpMarked \in SUBSET WpItem
      /\ wpNow \in WpStamp /\ NoStamp \in WpStamp
  BY DEF WpInv, WpTypeOK, WpStamp
<1>1. ASSUME NEW rows \in SUBSET WpItem, WpPlay(rows) PROVE WpInv'
  BY <1>0, <1>1, WpWriteStep DEF WpPlay
<1>2. ASSUME NEW rows \in SUBSET WpItem, WpUnmark(rows) PROVE WpInv'
  BY <1>0, <1>2, WpWriteStep DEF WpUnmark
<1>3. ASSUME NEW rows \in SUBSET WpItem, WpDelete(rows) PROVE WpInv'
  BY <1>0, <1>3, WpWriteStep DEF WpDelete
<1>4. ASSUME NEW i \in WpItem, WpMark(i) PROVE WpInv'
  BY <1>0, <1>4, WpWriteStep DEF WpMark
<1>5. ASSUME NEW i \in WpItem, WpClear(i) PROVE WpInv'
  BY <1>0, <1>5, WpWriteStep DEF WpClear
<1> QED BY <1>1, <1>2, <1>3, <1>4, <1>5

\* A cursor made of the last row of a page that began below another cursor:
\* what lies below the new one lay below the other, and of what is listed after
\* the row only its own millisecond is not below it.
LEMMA CursorFacts ==
    ASSUME WpTypeOK, NEW last \in WpItem, wpStamp[last] # NoStamp, NEW cut,
           cut = [at |-> Truncated(wpStamp[last]), item |-> last], NEW i \in WpItem
    PROVE  /\ i = last \/ Earlier(i, last) => ~Below(i, cut)
           /\ Earlier(last, i) => \/ Below(i, cut)
                                  \/ /\ Truncated(wpStamp[last]) # wpStamp[last]
                                     /\ wpStamp[i] # NoStamp /\ wpStamp[i] <= wpStamp[last]
                                     /\ Truncated(wpStamp[i]) = Truncated(wpStamp[last])
           /\ /\ Below(last, wpCursor) /\ wpCursor # NoCursor /\ wpCursor.at # NoStamp
              /\ Below(i, cut)
              => Below(i, wpCursor)
<1> USE WatchPagesAssumption
<1> DEFINE s == wpStamp[last]
           at == Truncated(s)
<1>1. /\ s \in Nat /\ i \in Nat /\ last \in Nat \ {0}
      /\ wpStamp[i] = NoStamp \/ wpStamp[i] \in Nat
      /\ wpCursor.at = NoStamp \/ wpCursor.at \in Nat
      /\ wpCursor.item \in Nat
  BY DEF WpTypeOK, WpStamp, WpItem
<1>2. at \in Nat /\ at <= s
  BY <1>1, TruncatedFacts
<1>3. cut # NoCursor /\ cut.at = at /\ cut.item = last
  BY <1>1, <1>2 DEF NoCursor
<1>b. Below(i, cut) <=> \/ wpStamp[i] # NoStamp /\ wpStamp[i] < at
                        \/ wpStamp[i] = at /\ i > last
  BY <1>3 DEF Below
<1>4. i = last \/ Earlier(i, last) => ~Below(i, cut)
  BY <1>1, <1>2, <1>b DEF Earlier
<1>5. ASSUME Earlier(last, i), ~Below(i, cut)
      PROVE  /\ at # s /\ wpStamp[i] # NoStamp /\ wpStamp[i] <= s
             /\ Truncated(wpStamp[i]) = at
  <2>1. wpStamp[i] \in Nat /\ ((wpStamp[i] = s /\ last < i) \/ wpStamp[i] < s)
    BY <1>1, <1>5 DEF Earlier
  <2>2. ~(wpStamp[i] < at) /\ ~(wpStamp[i] = at /\ i > last)
    BY <1>b, <1>5, <2>1
  <2>3. at # s /\ at <= wpStamp[i] /\ wpStamp[i] <= s
    BY <1>1, <1>2, <2>1, <2>2
  <2> QED BY <1>1, <2>1, <2>3, TruncatedSame
<1>6. ASSUME Below(last, wpCursor), wpCursor # NoCursor, wpCursor.at # NoStamp, Below(i, cut)
      PROVE  Below(i, wpCursor)
  <2> HIDE DEF at
  <2>1. s < wpCursor.at \/ (s = wpCursor.at /\ last > wpCursor.item)
    BY <1>6 DEF Below
  <2>2. wpStamp[i] \in Nat /\ (wpStamp[i] < at \/ (wpStamp[i] = at /\ i > last))
    BY <1>1, <1>2, <1>6, <1>b
  <2>3. wpStamp[i] < wpCursor.at \/ (wpStamp[i] = wpCursor.at /\ i > wpCursor.item)
    BY <1>1, <1>2, <1>6, <2>1, <2>2
  <2> QED BY <2>2, <2>3 DEF Below
<1> QED BY <1>4, <1>5, <1>6

LEMMA WpPageStep == ASSUME WpInv, WpPage PROVE WpInv'
<1> USE WatchPagesAssumption
<1> DEFINE below == {i \in Shown : Below(i, wpCursor)}
           rows == FirstOf(below, WpLimit + 1)
           items == FirstOf(rows, WpLimit)
           more == Cardinality(rows) > WpLimit
<1>0. WpTypeOK /\ WpPast /\ WpReads /\ PagesMissOnlyByCursor
  BY DEF WpInv
<1>1. /\ wpReader \in {"new", "going"}
      /\ wpCursor.item # 0 => wpCursor.at # NoStamp
      /\ wpSeen' = wpSeen \cup items
      /\ wpTwice' = wpTwice \cup (items \cap wpSeen)
      /\ wpReader' = IF more THEN "going" ELSE "ended"
      /\ UNCHANGED <<wpList, wpStamp, wpMarked, wpNow, wpTouched, wpImported>>
  BY DEF WpPage, wpRows
<1>2. \/ more
      \/ ~more /\ UNCHANGED <<wpCursor, wpCuts>>
  BY DEF WpPage
<1>3. more => \E last \in items :
                /\ \A i \in items : i = last \/ Earlier(i, last)
                /\ wpCursor' = [at |-> Truncated(wpStamp[last]), item |-> last]
                /\ wpCuts' = wpCuts \cup {wpStamp[last]}
  BY DEF WpPage
<1>4. /\ Shown \in SUBSET WpItem /\ Shown' = Shown /\ below \in SUBSET WpItem
      /\ \A i \in below : i \in Shown /\ Below(i, wpCursor)
      /\ \A i \in Shown : Below(i, wpCursor) => i \in below
  BY <1>1 DEF Shown
<1> HIDE DEF below
<1>5. /\ items \in SUBSET below
      /\ ~more => items = below
      /\ \A last \in items : (\A i \in items : i = last \/ Earlier(i, last)) =>
                                \A i \in below \ items : Earlier(last, i)
  <2> HIDE DEF rows, items
  <2>1. rows = FirstOf(below, WpLimit + 1) /\ items = FirstOf(rows, WpLimit)
    BY DEF rows, items
  <2> QED BY <1>0, <1>4, <2>1, PageFacts
<1> HIDE DEF rows, items, more

\* The first page, and each later one below a cursor that names an instant.
<1>6. \/ wpCursor = NoCursor /\ wpSeen = {} /\ wpTouched = {} /\ wpReader = "new"
      \/ /\ wpReader = "going" /\ wpCursor # NoCursor /\ wpCursor.item # 0
         /\ wpCursor.at # NoStamp /\ wpCursor.at \in Nat /\ wpCursor.at < WpClock
  BY <1>0, <1>1 DEF WpPast, WpTypeOK, WpStamp, NoCursor
<1>7. ~wpImported => items \cap wpSeen = {}
  BY <1>0, <1>4, <1>5, <1>6 DEF WpReads
<1>8. \A i \in Shown \ wpTouched : i \in wpSeen' \/ i \in below \/ LostBelow(wpStamp[i])
  <2> SUFFICES ASSUME NEW i \in Shown \ wpTouched
               PROVE  i \in wpSeen' \/ i \in below \/ LostBelow(wpStamp[i])
    OBVIOUS
  <2>1. CASE wpCursor = NoCursor
    BY <1>4, <2>1 DEF Below
  <2>2. CASE wpReader = "going" /\ wpCursor.at # NoStamp
    BY <1>0, <1>1, <1>4, <2>2 DEF WpReads
  <2> QED BY <1>6, <2>1, <2>2
<1>9. \A i \in below : wpStamp[i] = NoStamp \/ (wpStamp[i] \in Nat /\ wpStamp[i] < WpClock)
  <2> SUFFICES ASSUME NEW i \in below, wpStamp[i] # NoStamp
               PROVE  wpStamp[i] \in Nat /\ wpStamp[i] < WpClock
    OBVIOUS
  <2>1. i \in WpItem /\ Below(i, wpCursor) /\ wpStamp[i] \in Nat
    BY <1>0, <1>4 DEF WpTypeOK, WpStamp
  <2>2. CASE wpTouched = {}
    BY <1>0, <2>1, <2>2 DEF WpPast
  <2>3. CASE wpCursor # NoCursor /\ wpCursor.at \in Nat /\ wpCursor.at < WpClock
    BY <2>1, <2>3 DEF Below
  <2> QED BY <1>6, <2>1, <2>2, <2>3
<1>10. CASE ~more
  <2>1. /\ UNCHANGED <<wpCursor, wpCuts>> /\ wpReader' = "ended" /\ items = below
    BY <1>1, <1>2, <1>5, <1>10
  <2>2. WpTypeOK'
    BY <1>0, <1>1, <1>4, <1>5, <2>1 DEF WpTypeOK
  <2>3. WpPast'
    BY <1>0, <1>1, <2>1 DEF WpPast
  <2>4. WpReads'
    BY <2>1 DEF WpReads
  <2>5. \A i \in Shown' \ wpTouched' : i \in wpSeen' \/ LostBelow(wpStamp[i])'
    <3> SUFFICES ASSUME NEW i \in Shown \ wpTouched
                 PROVE  i \in wpSeen' \/ LostBelow(wpStamp[i])'
      BY <1>1, <1>4
    <3>1. i \in wpSeen' \/ LostBelow(wpStamp[i])
      BY <1>1, <1>8, <2>1
    <3>2. LostBelow(wpStamp[i]) => LostBelow(wpStamp[i])'
      BY <1>1, <2>1 DEF LostBelow
    <3> QED BY <3>1, <3>2
  <2>6. PagesMissOnlyByCursor'
    BY <1>0, <1>1, <1>7, <2>1, <2>5 DEF PagesMissOnlyByCursor
  <2> QED BY <2>2, <2>3, <2>4, <2>6 DEF WpInv
<1>11. CASE more
  <2>1. PICK last \in items :
          /\ \A i \in items : i = last \/ Earlier(i, last)
          /\ wpCursor' = [at |-> Truncated(wpStamp[last]), item |-> last]
          /\ wpCuts' = wpCuts \cup {wpStamp[last]}
    BY <1>3, <1>11
  <2> DEFINE s == wpStamp[last]
  <2>2. /\ last \in WpItem /\ last \in below /\ last \in Shown /\ Below(last, wpCursor)
        /\ last # 0 /\ s \in WpStamp /\ (s = NoStamp \/ (s \in Nat /\ s < WpClock))
    BY <1>0, <1>4, <1>5, <1>9 DEF WpTypeOK, WpItem
  <2>3. /\ s = NoStamp => Truncated(s) = NoStamp
        /\ s # NoStamp => Truncated(s) \in Nat /\ Truncated(s) <= s
    BY <2>2, TruncatedFacts DEF Truncated
  <2>4. Truncated(s) \in WpStamp /\ (Truncated(s) # NoStamp => Truncated(s) < WpClock)
    BY <2>2, <2>3 DEF WpStamp
  <2>5. /\ wpCursor'.at = Truncated(s) /\ wpCursor'.item = last
        /\ wpCursor' \in [at : WpStamp, item : 0..WpItems] /\ wpReader' = "going"
    BY <1>1, <1>11, <2>1, <2>2, <2>4 DEF WpItem
  <2>6. WpTypeOK'
    BY <1>0, <1>1, <1>4, <1>5, <2>1, <2>2, <2>5 DEF WpTypeOK
  <2>7. WpPast'
    <3>1. wpList = "history" => Truncated(s) # NoStamp
      BY <2>2, <2>3 DEF Shown
    <3> QED BY <1>0, <1>1, <2>2, <2>4, <2>5, <3>1 DEF WpPast
  <2>8. WpReads'
    <3> SUFFICES ASSUME Truncated(s) # NoStamp
                 PROVE  /\ ~wpImported => \A i \in wpSeen' : ~Below(i, wpCursor)'
                        /\ \A i \in Shown \ wpTouched :
                              i \in wpSeen' \/ Below(i, wpCursor)' \/ LostBelow(wpStamp[i])'
      BY <1>1, <1>4, <2>5 DEF WpReads
    <3> DEFINE cut == [at |-> Truncated(wpStamp[last]), item |-> last]
    <3>1. s # NoStamp /\ wpCursor' = cut
      BY <2>1, <2>3
    <3>2. \A i \in WpItem : Below(i, wpCursor)' <=> Below(i, cut)
      BY <1>1, <3>1 DEF Below
    <3>3. \A i \in WpItem :
             /\ i = last \/ Earlier(i, last) => ~Below(i, cut)
             /\ Earlier(last, i) => \/ Below(i, cut)
                                    \/ /\ Truncated(wpStamp[last]) # wpStamp[last]
                                       /\ wpStamp[i] # NoStamp /\ wpStamp[i] <= wpStamp[last]
                                       /\ Truncated(wpStamp[i]) = Truncated(wpStamp[last])
             /\ /\ Below(last, wpCursor) /\ wpCursor # NoCursor /\ wpCursor.at # NoStamp
                /\ Below(i, cut)
                => Below(i, wpCursor)
      <4> HIDE DEF cut
      <4>1. cut = [at |-> Truncated(wpStamp[last]), item |-> last]
        BY DEF cut
      <4> QED BY <1>0, <2>2, <3>1, <4>1, CursorFacts
    <3> HIDE DEF cut
    <3>4. ASSUME ~wpImported, NEW i \in wpSeen' PROVE ~Below(i, wpCursor)'
      <4>1. CASE i \in items
        BY <1>4, <1>5, <2>1, <3>2, <3>3, <4>1
      <4>2. CASE i \in wpSeen
        <5>1. i \in WpItem /\ wpCursor # NoCursor /\ wpCursor.at # NoStamp /\ ~Below(i, wpCursor)
          BY <1>0, <1>6, <3>4, <4>2 DEF WpReads, WpTypeOK
        <5> QED BY <2>2, <3>2, <3>3, <5>1
      <4> QED BY <1>1, <3>4, <4>1, <4>2
    <3>5. ASSUME NEW i \in Shown \ wpTouched, i \notin wpSeen'
          PROVE  Below(i, wpCursor)' \/ LostBelow(wpStamp[i])'
      <4>1. i \in WpItem
        BY <1>4
      <4>2. CASE LostBelow(wpStamp[i])
        BY <1>1, <2>1, <4>2 DEF LostBelow
      <4>3. CASE i \in below
        <5>1. Earlier(last, i)
          BY <1>1, <1>5, <2>1, <3>5, <4>3
        <5>2. CASE Below(i, cut)
          BY <3>2, <4>1, <5>2
        <5>3. CASE /\ Truncated(wpStamp[last]) # wpStamp[last]
                   /\ wpStamp[i] # NoStamp /\ wpStamp[i] <= wpStamp[last]
                   /\ Truncated(wpStamp[i]) = Truncated(wpStamp[last])
          <6>1. wpStamp[last] \in wpCuts' \ {NoStamp}
            BY <2>1, <3>1
          <6> QED BY <1>1, <5>3, <6>1 DEF LostBelow
        <5> QED BY <3>3, <4>1, <5>1, <5>2, <5>3
      <4> QED BY <1>8, <3>5, <4>2, <4>3
    <3> QED BY <3>4, <3>5
  <2>9. PagesMissOnlyByCursor'
    BY <1>0, <1>1, <1>7, <2>5 DEF PagesMissOnlyByCursor
  <2> QED BY <2>6, <2>7, <2>8, <2>9 DEF WpInv
<1> QED BY <1>10, <1>11

LEMMA WpRefuseStep == ASSUME WpInv, WpRefuse PROVE WpInv'
<1>1. /\ wpReader = "going" /\ wpCursor.at = NoStamp /\ wpReader' = "refused"
      /\ UNCHANGED <<wpList, wpStamp, wpMarked, wpNow, wpCursor, wpSeen, wpTwice, wpCuts,
                     wpTouched, wpImported>>
  BY DEF WpRefuse, wpRows
<1>2. WpTypeOK' /\ WpPast'
  BY <1>1 DEF WpInv, WpTypeOK, WpPast
<1>3. WpReads' /\ PagesMissOnlyByCursor'
  BY <1>1 DEF WpInv, WpPast, WpReads, PagesMissOnlyByCursor
<1> QED BY <1>2, <1>3 DEF WpInv

LEMMA WpInvNext == WpInv /\ [WpNext]_wpVars => WpInv'
<1>1. WpInv /\ UNCHANGED wpVars => WpInv'
  BY DEF WpInv, WpTypeOK, WpPast, WpReads, PagesMissOnlyByCursor, Shown, Below, LostBelow,
         wpVars, wpRows, wpRead
<1>2. WpInv /\ WpNext => WpInv'
  BY WpWritesStep, WpImportStep, WpPageStep, WpRefuseStep DEF WpNext
<1> QED BY <1>1, <1>2

LEMMA WpSpecInv == WpSpec => []WpInv
BY WpInvInit, WpInvNext, PTL DEF WpSpec

\* For any number of rows and writes, any page size and whatever a provider's
\* import replaces the rows with: a client that reads a list to its end gets
\* every row nothing wrote meanwhile, except those whose stamp shares the
\* millisecond of a cursor that lost its fraction, and until an import it gets
\* no row twice (pageFromRows, the list*Page statements, toISOString).
THEOREM PagesMissNothingElse == WpSpec => []PagesMissOnlyByCursor
<1>1. WpInv => PagesMissOnlyByCursor
  BY DEF WpInv
<1> QED BY <1>1, WpSpecInv, PTL

(***************************************************************************)
(* ContentIdentity                                                         *)
(***************************************************************************)
Namespace == {"tmdb", "addon"}
CiStages(c) == 1..Len(CiWork[c].stages)
RefsOf(s) == {s.refs[i] : i \in 1..Len(s.refs)}

\* The relations the stages relate: one parent of each type.
Parents == UNION {EpisodeStage(ns).links : ns \in Namespace}

LEMMA ParentsFacts ==
    /\ \A a \in Parents : /\ a[1] \in Ref /\ a[3] \in Ref /\ a[2] \in {"series", "season"}
    /\ \A a, b \in Parents : a[1] = b[1] /\ a[2] = b[2] => a[3] = b[3]
<1>1. Parents = UNION {{<<<<ns, "episode">>, "series", <<ns, "show">>>>,
                        <<<<ns, "episode">>, "season", <<ns, "season">>>>,
                        <<<<ns, "season">>, "series", <<ns, "show">>>>} : ns \in Namespace}
  BY DEF Parents, EpisodeStage
<1>2. \A a \in Parents : \E ns \in Namespace :
          \/ a[1] = <<ns, "episode">> /\ a[2] = "series" /\ a[3] = <<ns, "show">>
          \/ a[1] = <<ns, "episode">> /\ a[2] = "season" /\ a[3] = <<ns, "season">>
          \/ a[1] = <<ns, "season">> /\ a[2] = "series" /\ a[3] = <<ns, "show">>
  BY <1>1
<1>3. \A a \in Parents : /\ a[1] \in Ref /\ a[3] \in Ref /\ a[2] \in {"series", "season"}
  BY <1>2 DEF Ref, Namespace
<1>4. \A a, b \in Parents : a[1] = b[1] /\ a[2] = b[2] => a[3] = b[3]
  BY <1>2 DEF Namespace
<1> QED BY <1>3, <1>4

LEMMA StageFacts ==
    ASSUME NEW s, IsStage(s)
    PROVE  /\ RefsOf(s) \in SUBSET Ref
           /\ s.links \in SUBSET Parents
           /\ \A a \in s.links : a[1] \in RefsOf(s) /\ a[3] \in RefsOf(s)
<1>1. CASE s.refs \in Seq(Ref) /\ s = TitleStage(s.refs, s.tmdb)
  <2>1. s.links = {}
    BY <1>1 DEF TitleStage
  <2>2. \A i \in 1..Len(s.refs) : s.refs[i] \in Ref
    BY <1>1
  <2> QED BY <2>1, <2>2 DEF RefsOf
<1>2. ASSUME NEW ns \in Namespace, s = SeasonStage(ns)
      PROVE  /\ RefsOf(s) \in SUBSET Ref
             /\ s.links \in SUBSET Parents
             /\ \A a \in s.links : a[1] \in RefsOf(s) /\ a[3] \in RefsOf(s)
  <2>1. /\ s.refs = <<<<ns, "show">>, <<ns, "season">>>>
        /\ s.links = {<<<<ns, "season">>, "series", <<ns, "show">>>>}
    BY <1>2 DEF SeasonStage
  <2>2. RefsOf(s) = {<<ns, "show">>, <<ns, "season">>}
    BY <2>1 DEF RefsOf
  <2>3. s.links \in SUBSET Parents
    BY <2>1 DEF Parents, EpisodeStage
  <2> QED BY <2>1, <2>2, <2>3 DEF Ref, Namespace
<1>3. ASSUME NEW ns \in Namespace, s = EpisodeStage(ns)
      PROVE  /\ RefsOf(s) \in SUBSET Ref
             /\ s.links \in SUBSET Parents
             /\ \A a \in s.links : a[1] \in RefsOf(s) /\ a[3] \in RefsOf(s)
  <2>1. /\ s.refs = <<<<ns, "episode">>, <<ns, "show">>, <<ns, "season">>>>
        /\ s.links = {<<<<ns, "episode">>, "series", <<ns, "show">>>>,
                      <<<<ns, "episode">>, "season", <<ns, "season">>>>,
                      <<<<ns, "season">>, "series", <<ns, "show">>>>}
    BY <1>3 DEF EpisodeStage
  <2>2. RefsOf(s) = {<<ns, "episode">>, <<ns, "show">>, <<ns, "season">>}
    BY <2>1 DEF RefsOf
  <2>3. s.links \in SUBSET Parents
    BY <1>3 DEF Parents
  <2> QED BY <2>1, <2>2, <2>3 DEF Ref, Namespace
<1> QED BY <1>1, <1>2, <1>3 DEF IsStage, Namespace

\* x is the id of ref r for a call c that has refs pending, when ref tells
\* the stored ones: the stored id, or the one it is about to store.
IdIn(ref, c, refs, r, x) ==
    \/ ref[r] # NoCall /\ x = <<r, ref[r]>>
    \/ r \in refs /\ x = <<r, c>>
LinkIn(ref, c, refs, l) ==
    /\ l = <<l[1], l[2], l[3]>>
    /\ \E a \in Parents : /\ IdIn(ref, c, refs, a[1], l[1]) /\ IdIn(ref, c, refs, a[3], l[3])
                          /\ l[2] = a[2]
LinksIn(ref, c, refs, links) == \A l \in links : LinkIn(ref, c, refs, l)
Unstored(ref, refs) == \A r \in refs : ref[r] = NoCall

LEMMA IdUnique ==
    ASSUME NEW ref, NEW c, NEW refs, Unstored(ref, refs), NEW r, NEW q, NEW x, NEW y,
           IdIn(ref, c, refs, r, x), IdIn(ref, c, refs, q, y)
    PROVE  (x = y => r = q) /\ (r = q => x = y)
BY DEF IdIn, Unstored

LEMMA LinkUnique ==
    ASSUME NEW ref, NEW c, NEW refs, Unstored(ref, refs), NEW l, NEW m,
           LinkIn(ref, c, refs, l), LinkIn(ref, c, refs, m), l[1] = m[1], l[2] = m[2]
    PROVE  l = m
<1>1. PICK a \in Parents :
        IdIn(ref, c, refs, a[1], l[1]) /\ l[2] = a[2] /\ IdIn(ref, c, refs, a[3], l[3])
  BY DEF LinkIn
<1>2. PICK b \in Parents :
        IdIn(ref, c, refs, b[1], m[1]) /\ m[2] = b[2] /\ IdIn(ref, c, refs, b[3], m[3])
  BY DEF LinkIn
<1>3. a[1] = b[1] /\ a[2] = b[2]
  <2>1. IdIn(ref, c, refs, a[1], l[1]) /\ IdIn(ref, c, refs, b[1], l[1])
    BY <1>1, <1>2
  <2>2. a[1] = b[1]
    BY <2>1, IdUnique
  <2> QED BY <1>1, <1>2, <2>2
<1>4. a[3] = b[3]
  BY <1>3, ParentsFacts
<1>5. l[3] = m[3]
  BY <1>1, <1>2, <1>4, IdUnique
<1> QED BY <1>5 DEF LinkIn

\* A relation never replaces another one: an item's parent of a type is one
\* ref, and its id is stored once.
LEMMA OverIsUnion ==
    ASSUME NEW ref, NEW c, NEW refs, Unstored(ref, refs), NEW old, NEW new,
           LinksIn(ref, c, refs, old), LinksIn(ref, c, refs, new)
    PROVE  Over(old, new) = old \cup new
<1>1. ASSUME NEW l \in old PROVE l \in Over(old, new)
  <2>1. \A n \in new : <<n[1], n[2]>> = <<l[1], l[2]>> => n = l
    BY LinkUnique DEF LinksIn
  <2>2. l \in new => l \in Over(old, new)
    BY DEF Over
  <2>3. l \notin new => \A n \in new : <<n[1], n[2]>> # <<l[1], l[2]>>
    BY <2>1
  <2> QED BY <2>2, <2>3 DEF Over
<1> QED BY <1>1 DEF Over

LEMMA IdKept ==
    ASSUME NEW ref, NEW ref2, NEW c, NEW refs, NEW refs2, NEW r, NEW x,
           ref[r] # NoCall => ref2[r] = ref[r],
           r \in refs => r \in refs2 \/ (c # NoCall /\ ref2[r] = c),
           IdIn(ref, c, refs, r, x)
    PROVE  IdIn(ref2, c, refs2, r, x)
BY DEF IdIn

LEMMA LinkKept ==
    ASSUME NEW ref, NEW ref2, NEW c, NEW refs, NEW refs2, NEW l,
           \A r \in Ref : ref[r] # NoCall => ref2[r] = ref[r],
           \A r \in refs \cap Ref : r \in refs2 \/ (c # NoCall /\ ref2[r] = c),
           LinkIn(ref, c, refs, l)
    PROVE  LinkIn(ref2, c, refs2, l)
<1>1. PICK a \in Parents :
        IdIn(ref, c, refs, a[1], l[1]) /\ l[2] = a[2] /\ IdIn(ref, c, refs, a[3], l[3])
  BY DEF LinkIn
<1>2. a[1] \in Ref /\ a[3] \in Ref
  BY ParentsFacts
<1>3. IdIn(ref2, c, refs2, a[1], l[1]) /\ IdIn(ref2, c, refs2, a[3], l[3])
  BY <1>1, <1>2 DEF IdIn
<1> QED BY <1>1, <1>3 DEF LinkIn

\* A stage whose refs a call was given ids of, and whose relations it wrote.
Linked(stage, got, links) ==
    \A a \in stage.links : /\ got[a[1]] # NoCall /\ got[a[3]] # NoCall
                           /\ <<got[a[1]], a[2], got[a[3]]>> \in links

CiPendType == [refs : SUBSET Ref, merged : SUBSET Ref, known : SUBSET Ref, links : SUBSET Link]

\* What a call has pending is new, or relates ids that are stored or are its
\* own; nothing is pending between the statements of a call that commits each.
CiOwn(c) ==
    /\ Unstored(ciRef, ciPend[c].refs)
    /\ \A l \in ciPend[c].links : LinkIn(ciRef, c, ciPend[c].refs, l)
    /\ ciPhase[c] \in {"new", "answered", "failed"} => ciPend[c] = NoPend
    /\ ~Whole(c) /\ ciPhase[c] \in {"next", "link"} => ciPend[c] = NoPend

\* The ids a call was given are ids of their refs, and a statement has one for
\* every ref of its stage but those it has yet to insert.
CiGiven(c) ==
    /\ ciPhase[c] # "failed" =>
          \A r \in Ref : \/ ciGot[c][r] = NoCall
                         \/ IdIn(ciRef, c, ciPend[c].refs, r, ciGot[c][r])
    /\ ciPhase[c] = "new" => \A r \in Ref : ciGot[c][r] = NoCall
    /\ ciPhase[c] = "insert" =>
          \A r \in RefsOf(Stage(c)) : r \in ciTodo[c] \/ ciGot[c][r] # NoCall
    /\ ciPhase[c] = "link" => \A r \in RefsOf(Stage(c)) : ciGot[c][r] # NoCall

\* The stages a call has left are related.
CiRelated(c) ==
    LET links == ciLink \cup ciPend[c].links IN
    /\ ciPhase[c] # "failed" =>
          \A s \in CiStages(c) : s < ciStage[c] => Linked(CiWork[c].stages[s], ciGot[c], links)
    /\ ciPhase[c] = "commit" =>
          \A s \in CiStages(c) : Linked(CiWork[c].stages[s], ciGot[c], links)
    /\ ciPhase[c] = "answered" =>
          \/ \A r \in Ref : ciGot[c][r] = NoCall
          \/ \A s \in CiStages(c) : Linked(CiWork[c].stages[s], ciGot[c], links)

CiCallInv(c) == CiOwn(c) /\ CiGiven(c) /\ CiRelated(c)

\* No ref is pending twice, and a stored relation relates stored ids.
CiApart ==
    \A c \in CiCall : \A d \in CiCall \ {c} : ciPend[c].refs \cap ciPend[d].refs = {}
CiStored == \A l \in ciLink : LinkIn(ciRef, NoCall, {}, l)

CiInv == CiTypeOK /\ CiApart /\ CiStored /\ \A c \in CiCall : CiCallInv(c)

\* What is stored stays.
CiGrows ==
    /\ \A r \in Ref : ciRef[r] # NoCall => ciRef'[r] = ciRef[r]
    /\ ciKnown \subseteq ciKnown' /\ ciLink \subseteq ciLink'

LEMMA CiInvInit == CiInit => CiInv
<1> HAVE CiInit
<1>1. CiTypeOK
  BY ContentIdentityAssumption DEF CiInit, CiTypeOK, NoPend
<1>2. CiApart /\ CiStored
  BY DEF CiInit, CiApart, CiStored, NoPend
<1>3. ASSUME NEW c \in CiCall PROVE CiCallInv(c)
  <2>1. /\ ciPend[c] = NoPend /\ ciPhase[c] = "new" /\ ciStage[c] = 1
        /\ \A r \in Ref : ciGot[c][r] = NoCall
    BY DEF CiInit
  <2>2. CiOwn(c)
    BY <2>1 DEF CiOwn, Unstored, NoPend
  <2>3. CiGiven(c)
    BY <2>1 DEF CiGiven
  <2>4. CiRelated(c)
    BY <2>1 DEF CiRelated, CiStages
  <2> QED BY <2>2, <2>3, <2>4 DEF CiCallInv
<1> QED BY <1>1, <1>2, <1>3 DEF CiInv

\* A call whose own state stays keeps its part of the invariant when others
\* store what is new.
LEMMA CiOthersKeep ==
    ASSUME CiTypeOK, NEW d \in CiCall, CiCallInv(d), CiGrows, Unstored(ciRef', ciPend[d].refs),
           ciPend'[d] = ciPend[d], ciPhase'[d] = ciPhase[d], ciStage'[d] = ciStage[d],
           ciTodo'[d] = ciTodo[d], ciGot'[d] = ciGot[d]
    PROVE  CiCallInv(d)'
<1>1. CiOwn(d)'
  <2>1. \A l \in ciPend[d].links : LinkIn(ciRef', d, ciPend[d].refs, l)
    BY LinkKept DEF CiCallInv, CiOwn, CiGrows
  <2> QED BY <2>1 DEF CiCallInv, CiOwn, Whole
<1>2. CiGiven(d)'
  <2>1. \A r \in Ref : IdIn(ciRef, d, ciPend[d].refs, r, ciGot[d][r]) =>
                       IdIn(ciRef', d, ciPend[d].refs, r, ciGot[d][r])
    BY IdKept DEF CiGrows
  <2> QED BY <2>1 DEF CiCallInv, CiGiven, Stage
<1>3. CiRelated(d)'
  <2>1. ciLink \cup ciPend[d].links \subseteq ciLink' \cup ciPend'[d].links
    BY DEF CiGrows
  <2>2. \A s \in CiStages(d) :
           Linked(CiWork[d].stages[s], ciGot[d], ciLink \cup ciPend[d].links) =>
           Linked(CiWork[d].stages[s], ciGot'[d], ciLink' \cup ciPend'[d].links)
    BY <2>1 DEF Linked
  <2> QED BY <2>2 DEF CiCallInv, CiRelated
<1> QED BY <1>1, <1>2, <1>3 DEF CiCallInv

LEMMA LinkStored ==
    ASSUME NEW ref, NEW ref2, NEW c, NEW d, NEW refs2, NEW l,
           \A r \in Ref : ref[r] # NoCall => ref2[r] = ref[r], LinkIn(ref, c, {}, l)
    PROVE  LinkIn(ref2, d, refs2, l)
<1>1. PICK a \in Parents :
        IdIn(ref, c, {}, a[1], l[1]) /\ l[2] = a[2] /\ IdIn(ref, c, {}, a[3], l[3])
  BY DEF LinkIn
<1>2. a[1] \in Ref /\ a[3] \in Ref
  BY ParentsFacts
<1>3. IdIn(ref2, d, refs2, a[1], l[1]) /\ IdIn(ref2, d, refs2, a[3], l[3])
  BY <1>1, <1>2 DEF IdIn
<1> QED BY <1>1, <1>3 DEF LinkIn

LEMMA NoPendFacts ==
    /\ NoPend \in CiPendType /\ NoPend.refs = {} /\ NoPend.links = {}
    /\ \A ref : Unstored(ref, NoPend.refs)
BY DEF NoPend, CiPendType, Unstored

\* A commit stores what was pending: the ids and relations of before stay, and
\* the call's own ids become the stored ones.
LEMMA CiStoreFacts ==
    ASSUME CiInv, NEW c \in CiCall, NEW p \in CiPendType, p.refs = ciPend[c].refs,
           \A l \in p.links : LinkIn(ciRef, c, p.refs, l), Store(c, p)
    PROVE  /\ ciRef' \in [Ref -> CiCall \cup {NoCall}] /\ ciKnown' \subseteq Ref
           /\ ciLink' \subseteq Link /\ ciPend' \in [CiCall -> CiPendType]
           /\ CiGrows /\ CiApart' /\ CiStored'
           /\ \A d \in CiCall \ {c} : ciPend'[d] = ciPend[d] /\ Unstored(ciRef', ciPend[d].refs)
           /\ ciPend'[c] = NoPend
           /\ \A r \in p.refs : ciRef'[r] = c
           /\ ciLink' = ciLink \cup p.links
<1>0. CiTypeOK /\ CiApart /\ CiStored /\ CiOwn(c) /\ c # NoCall
  BY ContentIdentityAssumption DEF CiInv, CiCallInv
<1>1. /\ p.refs \in SUBSET Ref /\ p.known \in SUBSET Ref /\ p.links \in SUBSET Link
      /\ Unstored(ciRef, p.refs)
  BY <1>0 DEF CiPendType, CiOwn
<1>2. /\ ciRef' \in [Ref -> CiCall \cup {NoCall}]
      /\ \A r \in Ref : ciRef'[r] = IF r \in p.refs THEN c ELSE ciRef[r]
  BY <1>0 DEF Store, CiTypeOK
<1>3. \A r \in Ref : ciRef[r] # NoCall => ciRef'[r] = ciRef[r]
  BY <1>1, <1>2 DEF Unstored
<1>4. ciKnown' = ciKnown \cup p.known /\ ciKnown' \subseteq Ref
  BY <1>0, <1>1 DEF Store, Merge, CiTypeOK
<1>5. ciLink' = ciLink \cup p.links
  <2>1. \A l \in ciLink : LinkIn(ciRef, c, p.refs, l)
    BY <1>0, LinkStored DEF CiStored
  <2>2. LinksIn(ciRef, c, p.refs, ciLink) /\ LinksIn(ciRef, c, p.refs, p.links)
    BY <2>1 DEF LinksIn
  <2>3. Unstored(ciRef, p.refs)
    BY <1>1
  <2>4. Over(ciLink, p.links) = ciLink \cup p.links
    BY <2>2, <2>3, OverIsUnion
  <2> QED BY <2>4 DEF Store
<1>6. /\ ciPend' \in [CiCall -> CiPendType] /\ ciPend'[c] = NoPend
      /\ \A d \in CiCall \ {c} : ciPend'[d] = ciPend[d]
  BY <1>0, NoPendFacts DEF Store, CiTypeOK, CiPendType
<1>7. CiStored'
  <2>1. ASSUME NEW l \in ciLink PROVE LinkIn(ciRef', NoCall, {}, l)
    BY <1>0, <1>3, LinkStored DEF CiStored
  <2>2. ASSUME NEW l \in p.links PROVE LinkIn(ciRef', NoCall, {}, l)
    <3>1. LinkIn(ciRef, c, p.refs, l)
      OBVIOUS
    <3>2. \A r \in p.refs \cap Ref : c # NoCall /\ ciRef'[r] = c
      BY <1>0, <1>2
    <3>3. LinkIn(ciRef', c, {}, l)
      BY <1>3, <3>1, <3>2, LinkKept
    <3> QED BY <3>3, LinkStored
  <2> QED BY <1>5, <2>1, <2>2 DEF CiStored
<1>8. CiApart'
  BY <1>0, <1>6, NoPendFacts DEF CiApart
<1>9. ASSUME NEW d \in CiCall \ {c} PROVE Unstored(ciRef', ciPend[d].refs)
  <2>1. Unstored(ciRef, ciPend[d].refs) /\ ciPend[d].refs \cap p.refs = {}
    BY <1>0 DEF CiInv, CiCallInv, CiOwn, CiApart
  <2>2. ciPend[d].refs \subseteq Ref
    BY <1>0 DEF CiTypeOK
  <2> QED BY <1>2, <2>1, <2>2 DEF Unstored
<1>10. CiGrows
  BY <1>3, <1>4, <1>5 DEF CiGrows
<1>11. ciLink' \subseteq Link
  BY <1>0, <1>1, <1>5 DEF CiTypeOK
<1>12. \A r \in p.refs : ciRef'[r] = c
  BY <1>1, <1>2
<1> QED BY <1>2, <1>4, <1>5, <1>6, <1>7, <1>8, <1>9, <1>10, <1>11, <1>12

\* The end of a statement, or of a transaction.
LEMMA CiWriteFacts ==
    ASSUME CiInv, NEW c \in CiCall, NEW p \in CiPendType, p.refs = ciPend[c].refs,
           \A l \in p.links : LinkIn(ciRef, c, p.refs, l),
           StatementEnds(c, p) \/ Store(c, p)
    PROVE  /\ ciRef' \in [Ref -> CiCall \cup {NoCall}] /\ ciKnown' \subseteq Ref
           /\ ciLink' \subseteq Link /\ ciPend' \in [CiCall -> CiPendType]
           /\ CiGrows /\ CiApart' /\ CiStored'
           /\ \A d \in CiCall \ {c} : ciPend'[d] = ciPend[d] /\ Unstored(ciRef', ciPend[d].refs)
           /\ Unstored(ciRef', ciPend'[c].refs)
           /\ \A l \in ciPend'[c].links : LinkIn(ciRef', c, ciPend'[c].refs, l)
           /\ \A r \in Ref : \A x : IdIn(ciRef, c, ciPend[c].refs, r, x) =>
                                    IdIn(ciRef', c, ciPend'[c].refs, r, x)
           /\ ciLink \cup p.links \subseteq ciLink' \cup ciPend'[c].links
           /\ ~Whole(c) => ciPend'[c] = NoPend
<1>0. CiTypeOK /\ CiApart /\ CiStored /\ CiOwn(c) /\ c # NoCall
  BY ContentIdentityAssumption DEF CiInv, CiCallInv
<1>1. CASE Store(c, p)
  <2>1. /\ CiGrows /\ ciPend'[c] = NoPend /\ \A r \in p.refs : ciRef'[r] = c
        /\ ciLink' = ciLink \cup p.links
    BY <1>1, CiStoreFacts
  <2>2. \A r \in Ref : \A x : IdIn(ciRef, c, ciPend[c].refs, r, x) =>
                              IdIn(ciRef', c, ciPend'[c].refs, r, x)
    <3> SUFFICES ASSUME NEW r \in Ref, NEW x, IdIn(ciRef, c, ciPend[c].refs, r, x)
                 PROVE  IdIn(ciRef', c, ciPend'[c].refs, r, x)
      OBVIOUS
    <3>1. /\ ciRef[r] # NoCall => ciRef'[r] = ciRef[r]
          /\ r \in ciPend[c].refs => c # NoCall /\ ciRef'[r] = c
      BY <1>0, <2>1 DEF CiGrows
    <3> QED BY <3>1, IdKept
  <2>3. /\ Unstored(ciRef', ciPend'[c].refs)
        /\ \A l \in ciPend'[c].links : LinkIn(ciRef', c, ciPend'[c].refs, l)
    BY <2>1, NoPendFacts
  <2>4. ciLink \cup p.links \subseteq ciLink' \cup ciPend'[c].links
    BY <2>1
  <2> QED BY <1>1, <2>1, <2>2, <2>3, <2>4, CiStoreFacts
<1>2. CASE Whole(c) /\ ciPend' = [ciPend EXCEPT ![c] = p] /\ UNCHANGED <<ciRef, ciKnown, ciLink>>
  <2>1. /\ ciPend' \in [CiCall -> CiPendType] /\ ciPend'[c] = p
        /\ \A d \in CiCall \ {c} : ciPend'[d] = ciPend[d]
    BY <1>0, <1>2 DEF CiTypeOK, CiPendType
  <2>2. CiApart' /\ CiStored' /\ CiGrows
    BY <1>0, <1>2, <2>1 DEF CiApart, CiStored, CiGrows
  <2>3. \A d \in CiCall : Unstored(ciRef, ciPend[d].refs)
    BY DEF CiInv, CiCallInv, CiOwn
  <2> QED BY <1>0, <1>2, <2>1, <2>2, <2>3 DEF CiTypeOK, CiPendType
<1> QED BY <1>1, <1>2 DEF StatementEnds

LEMMA LinkedGrows ==
    ASSUME NEW stage, NEW got, NEW links, NEW more, links \subseteq more,
           Linked(stage, got, links)
    PROVE  Linked(stage, got, more)
BY DEF Linked

\* The calls that do not move keep their part of the invariant.
LEMMA CiStep ==
    ASSUME CiInv, NEW c \in CiCall, CiGrows, CiTypeOK', CiApart', CiStored', CiCallInv(c)',
           \A d \in CiCall \ {c} :
              /\ Unstored(ciRef', ciPend[d].refs) /\ ciPend'[d] = ciPend[d]
              /\ ciPhase'[d] = ciPhase[d] /\ ciStage'[d] = ciStage[d]
              /\ ciTodo'[d] = ciTodo[d] /\ ciGot'[d] = ciGot[d]
    PROVE  CiInv'
<1>1. ASSUME NEW d \in CiCall \ {c} PROVE CiCallInv(d)'
  BY CiOthersKeep DEF CiInv
<1> QED BY <1>1 DEF CiInv

LEMMA CiNoWrite ==
    ASSUME CiInv, UNCHANGED <<ciRef, ciKnown, ciLink>>
    PROVE  CiGrows /\ CiStored' /\ \A d \in CiCall : Unstored(ciRef', ciPend[d].refs)
BY DEF CiInv, CiCallInv, CiOwn, CiGrows, CiStored

LEMMA CiBeginStep == ASSUME CiInv, NEW c \in CiCall, CiBegin(c) \/ CiAsk(c) PROVE CiInv' /\ CiGrows
<1>0. CiTypeOK /\ CiApart /\ CiCallInv(c)
  BY DEF CiInv
<1>1. /\ ciPhase[c] = "new"
      /\ ciPhase' = [ciPhase EXCEPT ![c] = "next"] \/ ciPhase' = [ciPhase EXCEPT ![c] = "answered"]
      /\ UNCHANGED <<ciRef, ciKnown, ciLink, ciPend, ciStage, ciTodo, ciGot>>
  BY DEF CiBegin, CiAsk, Goto
<1>2. ciPhase'[c] \in {"next", "answered"} /\ \A d \in CiCall \ {c} : ciPhase'[d] = ciPhase[d]
  BY <1>0, <1>1 DEF CiTypeOK
<1>3. CiTypeOK' /\ CiApart'
  BY <1>0, <1>1 DEF CiTypeOK, CiApart
<1>4. CiCallInv(c)'
  <2>1. CiOwn(c)'
    BY <1>0, <1>1, <1>2 DEF CiCallInv, CiOwn, Whole
  <2>2. CiGiven(c)'
    BY <1>0, <1>1, <1>2 DEF CiCallInv, CiGiven
  <2>3. CiRelated(c)'
    BY <1>0, <1>1, <1>2 DEF CiCallInv, CiGiven, CiRelated
  <2> QED BY <2>1, <2>2, <2>3 DEF CiCallInv
<1> QED BY <1>1, <1>2, <1>3, <1>4, CiNoWrite, CiStep

\* The refs of the stage a call is in.
LEMMA StageOf ==
    ASSUME CiTypeOK, NEW c \in CiCall
    PROVE  /\ ciStage[c] \in CiStages(c) /\ IsStage(Stage(c))
           /\ RefsOf(Stage(c)) \in SUBSET Ref
           /\ \A a \in Stage(c).links : a[1] \in RefsOf(Stage(c)) /\ a[3] \in RefsOf(Stage(c))
<1>1. ciStage[c] \in CiStages(c) /\ IsStage(Stage(c))
  BY ContentIdentityAssumption DEF CiTypeOK, CiStages, Stage
<1> QED BY <1>1, StageFacts

\* The ids a call was given it keeps: a stage it related stays related.
LEMMA GotKept ==
    ASSUME CiInv, NEW c \in CiCall, ciPhase[c] # "failed", CiGrows,
           \A r \in Ref : ciGot[c][r] # NoCall => ciGot'[c][r] = ciGot[c][r],
           ciPend[c].links \subseteq ciPend'[c].links
    PROVE  \A s \in CiStages(c) : s < ciStage[c] =>
              Linked(CiWork[c].stages[s], ciGot'[c], ciLink' \cup ciPend'[c].links)
<1> SUFFICES ASSUME NEW s \in CiStages(c), s < ciStage[c],
                    NEW a \in CiWork[c].stages[s].links
             PROVE  /\ ciGot'[c][a[1]] # NoCall /\ ciGot'[c][a[3]] # NoCall
                    /\ <<ciGot'[c][a[1]], a[2], ciGot'[c][a[3]]>> \in ciLink' \cup ciPend'[c].links
  BY DEF Linked
<1>1. IsStage(CiWork[c].stages[s])
  BY ContentIdentityAssumption DEF CiStages
<1>2. a[1] \in Ref /\ a[3] \in Ref
  BY <1>1, StageFacts
<1>3. /\ ciGot[c][a[1]] # NoCall /\ ciGot[c][a[3]] # NoCall
      /\ <<ciGot[c][a[1]], a[2], ciGot[c][a[3]]>> \in ciLink \cup ciPend[c].links
  BY DEF CiInv, CiCallInv, CiRelated, Linked
<1> QED BY <1>2, <1>3 DEF CiGrows

LEMMA CiSelectStep == ASSUME CiInv, NEW c \in CiCall, CiSelect(c) PROVE CiInv' /\ CiGrows
<1> DEFINE refs == ciPend[c].refs
           sees == {r \in Ref : ciRef[r] # NoCall} \cup refs
           got == [r \in Ref |-> IF r \in refs THEN <<r, c>>
                                 ELSE IF r \in sees THEN <<r, ciRef[r]>> ELSE ciGot[c][r]]
           todo == RefsOf(Stage(c)) \ sees
<1>0. CiTypeOK /\ CiApart /\ CiCallInv(c)
  BY DEF CiInv
<1>1. /\ ciPhase[c] = "next" /\ ciPhase' = [ciPhase EXCEPT ![c] = "insert"]
      /\ ciTodo' = [ciTodo EXCEPT ![c] = todo]
      /\ ciGot' = [ciGot EXCEPT ![c] = got]
      /\ UNCHANGED <<ciRef, ciKnown, ciLink, ciPend, ciStage>>
  BY <1>0 DEF CiSelect, Goto, RefsOf, CiTypeOK
<1>2. \A r \in Ref :
        /\ r \in sees => got[r] # NoCall /\ IdIn(ciRef, c, refs, r, got[r])
        /\ r \notin sees => got[r] = ciGot[c][r]
        /\ got[r] \in ContentId \cup {NoCall}
  <2> SUFFICES ASSUME NEW r \in Ref
               PROVE  /\ r \in sees => got[r] # NoCall /\ IdIn(ciRef, c, refs, r, got[r])
                      /\ r \notin sees => got[r] = ciGot[c][r]
                      /\ got[r] \in ContentId \cup {NoCall}
    OBVIOUS
  <2>1. ciRef[r] \in CiCall \cup {NoCall} /\ ciGot[c][r] \in ContentId \cup {NoCall}
    BY <1>0 DEF CiTypeOK
  <2>2. CASE r \in refs
    <3>1. got[r] = <<r, c>> /\ <<r, c>> \in ContentId
      BY <2>2 DEF ContentId
    <3> QED BY <2>2, <3>1, ContentIdentityAssumption DEF IdIn
  <2>3. CASE r \notin refs /\ ciRef[r] # NoCall
    <3>1. got[r] = <<r, ciRef[r]>> /\ <<r, ciRef[r]>> \in ContentId
      BY <2>1, <2>3 DEF ContentId
    <3> QED BY <2>3, <3>1, ContentIdentityAssumption DEF IdIn
  <2>4. CASE r \notin refs /\ ciRef[r] = NoCall
    BY <2>1, <2>4
  <2> QED BY <2>2, <2>3, <2>4
<1>3. got \in [Ref -> ContentId \cup {NoCall}] /\ todo \in SUBSET Ref
  <2>1. RefsOf(Stage(c)) \in SUBSET Ref
    BY <1>0, StageOf
  <2> QED BY <1>2, <2>1
<1>4. \A r \in RefsOf(Stage(c)) : r \in sees \/ r \in todo
  OBVIOUS
<1> HIDE DEF got, todo, sees
<1>5. /\ ciPhase'[c] = "insert" /\ ciGot'[c] = got /\ ciTodo'[c] = todo
      /\ \A d \in CiCall \ {c} : /\ ciPhase'[d] = ciPhase[d] /\ ciTodo'[d] = ciTodo[d]
                                 /\ ciGot'[d] = ciGot[d]
  BY <1>0, <1>1 DEF CiTypeOK
<1>6. CiTypeOK' /\ CiApart'
  BY <1>0, <1>1, <1>3 DEF CiTypeOK, CiApart
<1>7. CiGrows /\ CiStored' /\ \A d \in CiCall : Unstored(ciRef', ciPend[d].refs)
  BY <1>1, CiNoWrite
<1>8. CiOwn(c)'
  BY <1>0, <1>1, <1>5 DEF CiCallInv, CiOwn, Whole
<1>9. CiGiven(c)'
  <2>1. \A r \in Ref : got[r] = NoCall \/ IdIn(ciRef, c, refs, r, got[r])
    BY <1>0, <1>1, <1>2 DEF CiCallInv, CiGiven
  <2>2. \A r \in RefsOf(Stage(c)) : r \in todo \/ got[r] # NoCall
    BY <1>0, <1>2, <1>4, StageOf
  <2>3. Stage(c)' = Stage(c)
    BY <1>1 DEF Stage
  <2> QED BY <1>1, <1>5, <2>1, <2>2, <2>3 DEF CiGiven
<1>10. CiRelated(c)'
  <2>1. \A r \in Ref : ciGot[c][r] # NoCall => got[r] = ciGot[c][r]
    <3> SUFFICES ASSUME NEW r \in Ref, ciGot[c][r] # NoCall PROVE got[r] = ciGot[c][r]
      OBVIOUS
    <3>1. IdIn(ciRef, c, refs, r, ciGot[c][r]) /\ Unstored(ciRef, refs)
      BY <1>0, <1>1 DEF CiCallInv, CiGiven, CiOwn
    <3>2. CASE r \in sees
      BY <1>2, <3>1, <3>2, IdUnique
    <3> QED BY <1>2, <3>2
  <2>2. \A s \in CiStages(c) : s < ciStage[c] =>
           Linked(CiWork[c].stages[s], ciGot'[c], ciLink' \cup ciPend'[c].links)
    BY <1>1, <1>5, <1>7, <2>1, GotKept
  <2> QED BY <1>1, <1>5, <2>2 DEF CiRelated
<1>11. CiCallInv(c)'
  BY <1>8, <1>9, <1>10 DEF CiCallInv
<1> QED BY <1>1, <1>5, <1>6, <1>7, <1>11, CiStep

LEMMA CiInsertStep == ASSUME CiInv, NEW c \in CiCall, CiInsert(c) PROVE CiInv' /\ CiGrows
<1>0. CiTypeOK /\ CiApart /\ CiCallInv(c)
  BY DEF CiInv
<1>1. PICK r \in ciTodo[c] :
        LET stored == ciRef[r] # NoCall
            known == IF Stage(c).tmdb /\ r = <<"addon", "show">> THEN {r} ELSE {} IN
        /\ \A d \in CiCall \ {c} : r \notin ciPend[d].refs \cup ciPend[d].merged
        /\ ciGot' = [ciGot EXCEPT ![c][r] = IF stored THEN StoredId(c, r) ELSE <<r, c>>]
        /\ ciPend' = [ciPend EXCEPT
               ![c].refs = IF stored THEN @ ELSE @ \cup {r},
               ![c].merged = IF stored THEN @ \cup {r} ELSE @,
               ![c].known = @ \cup known]
        /\ ciTodo' = [ciTodo EXCEPT ![c] = @ \ {r}]
  BY DEF CiInsert
<1> DEFINE stored == ciRef[r] # NoCall
           known == IF Stage(c).tmdb /\ r = <<"addon", "show">> THEN {r} ELSE {}
           refs == ciPend[c].refs
           id == IF stored THEN <<r, ciRef[r]>> ELSE <<r, c>>
           got == [ciGot[c] EXCEPT ![r] = id]
           refs2 == IF stored THEN refs ELSE refs \cup {r}
           merged2 == IF stored THEN ciPend[c].merged \cup {r} ELSE ciPend[c].merged
           known2 == ciPend[c].known \cup known
           pend == [ciPend[c] EXCEPT !.refs = refs2, !.merged = merged2, !.known = known2]
<1>2. /\ ciPhase[c] = "insert" /\ UNCHANGED <<ciRef, ciKnown, ciLink, ciPhase, ciStage>>
      /\ r \in Ref /\ ciGot[c] \in [Ref -> ContentId \cup {NoCall}]
      /\ ciPend[c] \in CiPendType
  BY <1>0 DEF CiInsert, CiTypeOK, CiPendType
<1>3. ciGot' = [ciGot EXCEPT ![c] = got]
  BY <1>1 DEF StoredId
<1>4. ciPend' = [ciPend EXCEPT ![c] = pend]
  BY <1>1
<1>5. pend \in CiPendType /\ pend.refs = refs2 /\ pend.links = ciPend[c].links
  <2>1. refs2 \in SUBSET Ref /\ merged2 \in SUBSET Ref /\ known2 \in SUBSET Ref
    BY <1>2 DEF CiPendType
  <2>2. ciPend[c].links \in SUBSET Link
    BY <1>2 DEF CiPendType
  <2> HIDE DEF refs2, merged2, known2
  <2> QED BY <1>2, <2>1, <2>2 DEF CiPendType
<1>6. id \in ContentId /\ id # NoCall /\ IdIn(ciRef, c, refs2, r, id)
  <2>1. ciRef[r] \in CiCall \cup {NoCall}
    BY <1>0, <1>2 DEF CiTypeOK
  <2>2. id \in ContentId
    BY <1>2, <2>1 DEF ContentId
  <2> QED BY <2>2, ContentIdentityAssumption DEF IdIn
<1>7. /\ got \in [Ref -> ContentId \cup {NoCall}] /\ got[r] = id
      /\ \A q \in Ref \ {r} : got[q] = ciGot[c][q]
  <2> HIDE DEF id
  <2> QED BY <1>2, <1>6
<1>8. refs \subseteq refs2 /\ refs2 \subseteq refs \cup {r} /\ Unstored(ciRef, refs2)
  BY <1>0 DEF CiCallInv, CiOwn, Unstored
<1> HIDE DEF got, pend, refs2, id, stored, known, merged2, known2
<1>9. /\ ciGot' \in [CiCall -> [Ref -> ContentId \cup {NoCall}]] /\ ciGot'[c] = got
      /\ ciPend' \in [CiCall -> CiPendType] /\ ciPend'[c] = pend
      /\ ciTodo' \in [CiCall -> SUBSET Ref] /\ ciTodo'[c] = ciTodo[c] \ {r}
      /\ \A d \in CiCall \ {c} : /\ ciGot'[d] = ciGot[d] /\ ciPend'[d] = ciPend[d]
                                 /\ ciTodo'[d] = ciTodo[d]
  <2>1. /\ ciGot' \in [CiCall -> [Ref -> ContentId \cup {NoCall}]] /\ ciGot'[c] = got
        /\ \A d \in CiCall \ {c} : ciGot'[d] = ciGot[d]
    BY <1>0, <1>3, <1>7 DEF CiTypeOK
  <2>2. /\ ciPend' \in [CiCall -> CiPendType] /\ ciPend'[c] = pend
        /\ \A d \in CiCall \ {c} : ciPend'[d] = ciPend[d]
    <3>1. ciPend \in [CiCall -> CiPendType]
      BY <1>0 DEF CiTypeOK, CiPendType
    <3> QED BY <1>4, <1>5, <3>1
  <2>3. /\ ciTodo' \in [CiCall -> SUBSET Ref] /\ ciTodo'[c] = ciTodo[c] \ {r}
        /\ \A d \in CiCall \ {c} : ciTodo'[d] = ciTodo[d]
    BY <1>0, <1>1 DEF CiTypeOK
  <2> QED BY <2>1, <2>2, <2>3
<1>10. CiTypeOK'
  BY <1>0, <1>2, <1>9 DEF CiTypeOK, CiPendType
<1>11. CiApart'
  <2>1. \A d \in CiCall \ {c} : r \notin ciPend[d].refs
    BY <1>1
  <2> QED BY <1>0, <1>5, <1>8, <1>9, <2>1 DEF CiApart
<1>12. CiGrows /\ CiStored' /\ \A d \in CiCall : Unstored(ciRef', ciPend[d].refs)
  BY <1>2, CiNoWrite
<1>13. CiOwn(c)'
  <2>1. \A l \in ciPend[c].links : LinkIn(ciRef, c, refs2, l)
    BY <1>0, <1>8, LinkKept DEF CiCallInv, CiOwn
  <2> QED BY <1>2, <1>5, <1>8, <1>9, <2>1 DEF CiOwn
<1>14. CiGiven(c)'
  <2>1. \A q \in Ref : got[q] = NoCall \/ IdIn(ciRef, c, refs2, q, got[q])
    <3> SUFFICES ASSUME NEW q \in Ref, got[q] # NoCall
                 PROVE  IdIn(ciRef, c, refs2, q, got[q])
      OBVIOUS
    <3>1. CASE q = r
      BY <1>6, <1>7, <3>1
    <3>2. CASE q # r
      <4>1. IdIn(ciRef, c, refs, q, got[q])
        BY <1>0, <1>2, <1>7, <3>2 DEF CiCallInv, CiGiven
      <4> QED BY <1>8, <4>1 DEF IdIn
    <3> QED BY <3>1, <3>2
  <2>2. \A q \in RefsOf(Stage(c)) : q \in ciTodo[c] \ {r} \/ got[q] # NoCall
    <3>1. RefsOf(Stage(c)) \in SUBSET Ref
      BY <1>0, StageOf
    <3>2. \A q \in RefsOf(Stage(c)) : q \in ciTodo[c] \/ ciGot[c][q] # NoCall
      BY <1>0, <1>2 DEF CiCallInv, CiGiven
    <3> QED BY <1>6, <1>7, <3>1, <3>2
  <2>3. Stage(c)' = Stage(c)
    BY <1>2 DEF Stage
  <2> QED BY <1>2, <1>5, <1>9, <2>1, <2>2, <2>3 DEF CiGiven
<1>15. CiRelated(c)'
  <2>1. \A q \in Ref : ciGot[c][q] # NoCall => got[q] = ciGot[c][q]
    <3> SUFFICES ASSUME NEW q \in Ref, ciGot[c][q] # NoCall PROVE got[q] = ciGot[c][q]
      OBVIOUS
    <3>1. CASE q = r
      <4>1. IdIn(ciRef, c, refs, r, ciGot[c][r])
        BY <1>0, <1>2, <3>1 DEF CiCallInv, CiGiven
      <4>2. IdIn(ciRef, c, refs2, r, ciGot[c][r])
        BY <1>8, <4>1 DEF IdIn
      <4> QED BY <1>6, <1>7, <1>8, <3>1, <4>2, IdUnique
    <3> QED BY <1>7, <3>1
  <2>2. \A s \in CiStages(c) : s < ciStage[c] =>
           Linked(CiWork[c].stages[s], ciGot'[c], ciLink' \cup ciPend'[c].links)
    BY <1>2, <1>5, <1>9, <1>12, <2>1, GotKept
  <2> QED BY <1>2, <2>2 DEF CiRelated
<1>16. CiCallInv(c)'
  BY <1>13, <1>14, <1>15 DEF CiCallInv
<1> QED BY <1>2, <1>9, <1>10, <1>11, <1>12, <1>16, CiStep

\* The end of a statement that was the last of its stage.
LEMMA CiStageDone ==
    ASSUME CiInv, NEW c \in CiCall, ciPhase[c] \in {"insert", "link"},
           NEW p \in CiPendType, p.refs = ciPend[c].refs, ciPend[c].links \subseteq p.links,
           \A l \in p.links : LinkIn(ciRef, c, p.refs, l),
           Linked(Stage(c), ciGot[c], ciLink \cup p.links),
           StatementEnds(c, p), StageEnds(c), UNCHANGED <<ciTodo, ciGot>>
    PROVE  CiInv' /\ CiGrows
<1>0. CiTypeOK /\ CiApart /\ CiCallInv(c)
  BY DEF CiInv
<1> DEFINE links == ciLink \cup ciPend[c].links
           links2 == ciLink' \cup ciPend'[c].links
<1>1. /\ ciRef' \in [Ref -> CiCall \cup {NoCall}] /\ ciKnown' \subseteq Ref
      /\ ciLink' \subseteq Link /\ ciPend' \in [CiCall -> CiPendType]
      /\ CiGrows /\ CiApart' /\ CiStored'
      /\ \A d \in CiCall \ {c} : ciPend'[d] = ciPend[d] /\ Unstored(ciRef', ciPend[d].refs)
      /\ Unstored(ciRef', ciPend'[c].refs)
      /\ \A l \in ciPend'[c].links : LinkIn(ciRef', c, ciPend'[c].refs, l)
      /\ \A r \in Ref : \A x : IdIn(ciRef, c, ciPend[c].refs, r, x) =>
                               IdIn(ciRef', c, ciPend'[c].refs, r, x)
      /\ ciLink \cup p.links \subseteq links2
      /\ ~Whole(c) => ciPend'[c] = NoPend
  BY CiWriteFacts
<1>2. ciStage[c] \in 1..Len(CiWork[c].stages) /\ Len(CiWork[c].stages) \in Nat
  BY <1>0, ContentIdentityAssumption DEF CiTypeOK
<1>3. \/ /\ ciStage[c] < Len(CiWork[c].stages)
         /\ ciPhase' = [ciPhase EXCEPT ![c] = "next"]
         /\ ciStage' = [ciStage EXCEPT ![c] = ciStage[c] + 1]
      \/ /\ ciStage[c] = Len(CiWork[c].stages) /\ Whole(c)
         /\ ciPhase' = [ciPhase EXCEPT ![c] = "commit"] /\ UNCHANGED ciStage
      \/ /\ ciStage[c] = Len(CiWork[c].stages) /\ ~Whole(c)
         /\ ciPhase' = [ciPhase EXCEPT ![c] = "answered"] /\ UNCHANGED ciStage
  BY <1>2 DEF StageEnds, Goto
<1>4. /\ \A d \in CiCall \ {c} : ciPhase'[d] = ciPhase[d] /\ ciStage'[d] = ciStage[d]
      /\ ciPhase'[c] \in {"next", "commit", "answered"}
      /\ ciPhase'[c] = "next" => ciStage'[c] = ciStage[c] + 1
      /\ ciPhase'[c] # "next" => /\ ciStage'[c] = ciStage[c]
                                 /\ ciStage[c] = Len(CiWork[c].stages)
      /\ ciPhase'[c] = "answered" => ~Whole(c)
      /\ ciStage' \in [CiCall -> Nat] /\ ciStage'[c] \in 1..Len(CiWork[c].stages)
      /\ ciPhase' \in [CiCall -> {"new", "next", "insert", "link", "commit", "answered",
                                  "failed"}]
  <2>0. /\ ciStage \in [CiCall -> Nat] /\ ciStage[c] \in Nat
        /\ ciPhase \in [CiCall -> {"new", "next", "insert", "link", "commit", "answered",
                                   "failed"}]
    BY <1>0 DEF CiTypeOK
  <2>1. CASE ciStage[c] < Len(CiWork[c].stages)
    <3>1. /\ ciPhase' = [ciPhase EXCEPT ![c] = "next"]
          /\ ciStage' = [ciStage EXCEPT ![c] = ciStage[c] + 1]
      BY <1>2, <1>3, <2>1
    <3>2. ciStage[c] + 1 \in 1..Len(CiWork[c].stages)
      BY <1>2, <2>1
    <3>3. ciPhase'[c] = "next" /\ \A d \in CiCall \ {c} : ciPhase'[d] = ciPhase[d]
      BY <2>0, <3>1
    <3>4. ciStage'[c] = ciStage[c] + 1 /\ \A d \in CiCall \ {c} : ciStage'[d] = ciStage[d]
      BY <2>0, <3>1
    <3>5. ciStage' \in [CiCall -> Nat]
      BY <2>0, <3>1
    <3>6. ciPhase' \in [CiCall -> {"new", "next", "insert", "link", "commit", "answered",
                                   "failed"}]
      BY <2>0, <3>1
    <3> QED BY <3>2, <3>3, <3>4, <3>5, <3>6
  <2>2. CASE ciStage[c] = Len(CiWork[c].stages)
    <3>1. /\ UNCHANGED ciStage
          /\ \/ Whole(c) /\ ciPhase' = [ciPhase EXCEPT ![c] = "commit"]
             \/ ~Whole(c) /\ ciPhase' = [ciPhase EXCEPT ![c] = "answered"]
      BY <1>2, <1>3, <2>2
    <3>2. /\ ciPhase'[c] \in {"commit", "answered"}
          /\ ciPhase'[c] = "answered" => ~Whole(c)
          /\ \A d \in CiCall \ {c} : ciPhase'[d] = ciPhase[d]
      BY <2>0, <3>1
    <3>3. ciPhase' \in [CiCall -> {"new", "next", "insert", "link", "commit", "answered",
                                   "failed"}]
      BY <2>0, <3>1
    <3> QED BY <1>2, <2>0, <2>2, <3>1, <3>2, <3>3
  <2> QED BY <1>2, <1>3, <2>1, <2>2
<1>5. CiTypeOK'
  BY <1>0, <1>1, <1>4 DEF CiTypeOK, CiPendType
<1>6. CiOwn(c)'
  BY <1>1, <1>4 DEF CiOwn, Whole
<1>7. CiGiven(c)'
  <2>1. \A r \in Ref : \/ ciGot[c][r] = NoCall
                       \/ IdIn(ciRef, c, ciPend[c].refs, r, ciGot[c][r])
    BY <1>0 DEF CiCallInv, CiGiven
  <2> QED BY <1>1, <1>4, <2>1 DEF CiGiven
<1>8. CiRelated(c)'
  <2>1. links \subseteq links2 /\ links \subseteq ciLink \cup p.links
    BY <1>1
  <2>2. \A s \in CiStages(c) : s < ciStage[c] => Linked(CiWork[c].stages[s], ciGot[c], links2)
    <3>1. \A s \in CiStages(c) : s < ciStage[c] => Linked(CiWork[c].stages[s], ciGot[c], links)
      BY <1>0 DEF CiCallInv, CiRelated
    <3> HIDE DEF links, links2
    <3> QED BY <2>1, <3>1, LinkedGrows
  <2>3. Linked(CiWork[c].stages[ciStage[c]], ciGot[c], links2)
    <3>1. Linked(Stage(c), ciGot[c], links2)
      <4> HIDE DEF links2
      <4> QED BY <1>1, LinkedGrows
    <3> QED BY <3>1 DEF Stage
  <2>4. \A s \in CiStages(c) : s < ciStage[c] \/ s = ciStage[c] =>
                               Linked(CiWork[c].stages[s], ciGot[c], links2)
    BY <2>2, <2>3
  <2>5. \A s \in CiStages(c) : s < ciStage'[c] => s < ciStage[c] \/ s = ciStage[c]
    BY <1>2, <1>4 DEF CiStages
  <2>6. ciPhase'[c] # "next" =>
          \A s \in CiStages(c) : s < ciStage[c] \/ s = ciStage[c]
    BY <1>2, <1>4 DEF CiStages
  <2> HIDE DEF links, links2
  <2>7. \A s \in CiStages(c) : s < ciStage'[c] => Linked(CiWork[c].stages[s], ciGot'[c], links2)
    BY <2>4, <2>5
  <2>8. ciPhase'[c] # "next" =>
          \A s \in CiStages(c) : Linked(CiWork[c].stages[s], ciGot'[c], links2)
    BY <2>4, <2>6
  <2> QED BY <1>4, <2>7, <2>8 DEF CiRelated, links2
<1>9. CiCallInv(c)'
  BY <1>6, <1>7, <1>8 DEF CiCallInv
<1> QED BY <1>1, <1>4, <1>5, <1>9, CiStep

LEMMA CiSelectedStep == ASSUME CiInv, NEW c \in CiCall, CiSelected(c) PROVE CiInv' /\ CiGrows
<1>0. CiTypeOK /\ CiApart /\ CiCallInv(c)
  BY DEF CiInv
<1> DEFINE p == ciPend[c]
<1>1. /\ ciPhase[c] = "insert" /\ ciTodo[c] = {} /\ StatementEnds(c, p)
      /\ UNCHANGED <<ciTodo, ciGot>>
  BY DEF CiSelected
<1>2. p \in CiPendType /\ \A l \in p.links : LinkIn(ciRef, c, p.refs, l)
  BY <1>0 DEF CiTypeOK, CiPendType, CiCallInv, CiOwn
<1>3. \A r \in RefsOf(Stage(c)) : ciGot[c][r] # NoCall
  BY <1>0, <1>1 DEF CiCallInv, CiGiven
<1>4. CASE Stage(c).links = {} /\ StageEnds(c)
  <2>1. Linked(Stage(c), ciGot[c], ciLink \cup p.links)
    BY <1>4 DEF Linked
  <2> QED BY <1>1, <1>2, <1>4, <2>1, CiStageDone
<1>5. CASE Goto(c, "link") /\ UNCHANGED ciStage
  <2>1. /\ ciRef' \in [Ref -> CiCall \cup {NoCall}] /\ ciKnown' \subseteq Ref
        /\ ciLink' \subseteq Link /\ ciPend' \in [CiCall -> CiPendType]
        /\ CiGrows /\ CiApart' /\ CiStored'
        /\ \A d \in CiCall \ {c} : ciPend'[d] = ciPend[d] /\ Unstored(ciRef', ciPend[d].refs)
        /\ Unstored(ciRef', ciPend'[c].refs)
        /\ \A l \in ciPend'[c].links : LinkIn(ciRef', c, ciPend'[c].refs, l)
        /\ \A r \in Ref : \A x : IdIn(ciRef, c, ciPend[c].refs, r, x) =>
                                 IdIn(ciRef', c, ciPend'[c].refs, r, x)
        /\ ciLink \cup p.links \subseteq ciLink' \cup ciPend'[c].links
        /\ ~Whole(c) => ciPend'[c] = NoPend
    BY <1>1, <1>2, CiWriteFacts
  <2>2. /\ ciPhase'[c] = "link" /\ \A d \in CiCall \ {c} : ciPhase'[d] = ciPhase[d]
        /\ ciPhase' \in [CiCall -> {"new", "next", "insert", "link", "commit", "answered",
                                    "failed"}]
    BY <1>0, <1>5 DEF Goto, CiTypeOK
  <2>3. CiTypeOK'
    BY <1>0, <1>1, <1>5, <2>1, <2>2 DEF CiTypeOK, CiPendType
  <2>4. CiOwn(c)'
    BY <2>1, <2>2 DEF CiOwn, Whole
  <2>5. CiGiven(c)'
    <3>1. \A r \in Ref : ciGot[c][r] = NoCall \/ IdIn(ciRef, c, ciPend[c].refs, r, ciGot[c][r])
      BY <1>0, <1>1 DEF CiCallInv, CiGiven
    <3>2. Stage(c)' = Stage(c)
      BY <1>5 DEF Stage
    <3> QED BY <1>1, <1>3, <2>1, <2>2, <3>1, <3>2 DEF CiGiven
  <2>6. CiRelated(c)'
    <3>1. \A s \in CiStages(c) : s < ciStage[c] =>
             Linked(CiWork[c].stages[s], ciGot[c], ciLink \cup ciPend[c].links)
      BY <1>0, <1>1 DEF CiCallInv, CiRelated
    <3>2. \A s \in CiStages(c) : s < ciStage[c] =>
             Linked(CiWork[c].stages[s], ciGot[c], ciLink' \cup ciPend'[c].links)
      BY <2>1, <3>1, LinkedGrows
    <3> QED BY <1>1, <1>5, <2>2, <3>2 DEF CiRelated
  <2>7. CiCallInv(c)'
    BY <2>4, <2>5, <2>6 DEF CiCallInv
  <2> QED BY <1>1, <1>5, <2>1, <2>2, <2>3, <2>7, CiStep
<1> QED BY <1>4, <1>5 DEF CiSelected

LEMMA CiLinkStep == ASSUME CiInv, NEW c \in CiCall, CiLink(c) PROVE CiInv' /\ CiGrows
<1>0. CiTypeOK /\ CiApart /\ CiCallInv(c)
  BY DEF CiInv
<1> DEFINE mine == {<<ciGot[c][l[1]], l[2], ciGot[c][l[3]]>> : l \in Stage(c).links}
           refs == ciPend[c].refs
           old == ciPend[c].links
           p == [ciPend[c] EXCEPT !.links = Over(old, mine)]
<1>1. /\ ciPhase[c] = "link" /\ StatementEnds(c, p) /\ StageEnds(c)
      /\ UNCHANGED <<ciTodo, ciGot>>
  BY DEF CiLink
<1>2. \A a \in Stage(c).links :
        /\ a \in Parents /\ a[1] \in Ref /\ a[3] \in Ref
        /\ ciGot[c][a[1]] # NoCall /\ ciGot[c][a[3]] # NoCall
  <2>1. Stage(c).links \in SUBSET Parents
    BY <1>0, StageOf, StageFacts
  <2> QED BY <1>0, <1>1, <2>1, StageOf DEF CiCallInv, CiGiven
<1>3. \A a \in Stage(c).links : /\ IdIn(ciRef, c, refs, a[1], ciGot[c][a[1]])
                                /\ IdIn(ciRef, c, refs, a[3], ciGot[c][a[3]])
  BY <1>0, <1>1, <1>2 DEF CiCallInv, CiGiven
<1>4. \A l \in mine : LinkIn(ciRef, c, refs, l)
  BY <1>2, <1>3 DEF LinkIn
<1>5. mine \in SUBSET Link
  <2>1. \A a \in Stage(c).links : /\ ciGot[c][a[1]] \in ContentId /\ ciGot[c][a[3]] \in ContentId
                                  /\ a[2] \in {"series", "season"}
    BY <1>0, <1>2, ParentsFacts DEF CiTypeOK
  <2> QED BY <2>1 DEF Link
<1>6. \A a \in Stage(c).links : <<ciGot[c][a[1]], a[2], ciGot[c][a[3]]>> \in mine
  OBVIOUS
<1>7. Over(old, mine) = old \cup mine
  <2>1. /\ LinksIn(ciRef, c, refs, old) /\ LinksIn(ciRef, c, refs, mine) /\ Unstored(ciRef, refs)
    BY <1>0, <1>4 DEF LinksIn, CiCallInv, CiOwn
  <2> HIDE DEF mine, refs, old
  <2> QED BY <2>1, OverIsUnion
<1>8. p \in CiPendType /\ p.refs = refs /\ p.links = old \cup mine
  <2>1. ciPend[c] \in CiPendType
    BY <1>0 DEF CiTypeOK, CiPendType
  <2>2. old \in SUBSET Link
    BY <2>1 DEF CiPendType
  <2> HIDE DEF mine
  <2> QED BY <1>5, <1>7, <2>1, <2>2 DEF CiPendType
<1> HIDE DEF mine, p
<1>9. \A l \in p.links : LinkIn(ciRef, c, p.refs, l)
  BY <1>0, <1>4, <1>8 DEF CiCallInv, CiOwn
<1>10. Linked(Stage(c), ciGot[c], ciLink \cup p.links)
  BY <1>2, <1>6, <1>8 DEF Linked
<1> QED BY <1>1, <1>8, <1>9, <1>10, CiStageDone

LEMMA CiCommitStep == ASSUME CiInv, NEW c \in CiCall, CiCommit(c) PROVE CiInv' /\ CiGrows
<1>0. CiTypeOK /\ CiApart /\ CiCallInv(c)
  BY DEF CiInv
<1> DEFINE p == ciPend[c]
<1>1. /\ ciPhase[c] = "commit" /\ Store(c, p) /\ ciPhase' = [ciPhase EXCEPT ![c] = "answered"]
      /\ UNCHANGED <<ciStage, ciTodo, ciGot>>
  BY DEF CiCommit, Goto
<1>2. p \in CiPendType /\ \A l \in p.links : LinkIn(ciRef, c, p.refs, l)
  BY <1>0 DEF CiTypeOK, CiPendType, CiCallInv, CiOwn
<1>3. /\ ciRef' \in [Ref -> CiCall \cup {NoCall}] /\ ciKnown' \subseteq Ref
      /\ ciLink' \subseteq Link /\ ciPend' \in [CiCall -> CiPendType]
      /\ CiGrows /\ CiApart' /\ CiStored'
      /\ \A d \in CiCall \ {c} : ciPend'[d] = ciPend[d] /\ Unstored(ciRef', ciPend[d].refs)
      /\ Unstored(ciRef', ciPend'[c].refs)
      /\ \A l \in ciPend'[c].links : LinkIn(ciRef', c, ciPend'[c].refs, l)
      /\ \A r \in Ref : \A x : IdIn(ciRef, c, ciPend[c].refs, r, x) =>
                               IdIn(ciRef', c, ciPend'[c].refs, r, x)
      /\ ciLink \cup p.links \subseteq ciLink' \cup ciPend'[c].links
  BY <1>1, <1>2, CiWriteFacts
<1>4. ciPend'[c] = NoPend
  BY <1>1, <1>2, CiStoreFacts
<1>5. /\ ciPhase'[c] = "answered" /\ \A d \in CiCall \ {c} : ciPhase'[d] = ciPhase[d]
      /\ ciPhase' \in [CiCall -> {"new", "next", "insert", "link", "commit", "answered",
                                  "failed"}]
  BY <1>0, <1>1 DEF CiTypeOK
<1>6. CiTypeOK'
  BY <1>0, <1>1, <1>3, <1>5 DEF CiTypeOK, CiPendType
<1>7. CiOwn(c)'
  BY <1>3, <1>4, <1>5 DEF CiOwn
<1>8. CiGiven(c)'
  <2>1. \A r \in Ref : ciGot[c][r] = NoCall \/ IdIn(ciRef, c, ciPend[c].refs, r, ciGot[c][r])
    BY <1>0, <1>1 DEF CiCallInv, CiGiven
  <2> QED BY <1>1, <1>3, <1>5, <2>1 DEF CiGiven
<1>9. CiRelated(c)'
  <2>1. \A s \in CiStages(c) :
           Linked(CiWork[c].stages[s], ciGot[c], ciLink \cup ciPend[c].links)
    BY <1>0, <1>1 DEF CiCallInv, CiRelated
  <2>2. \A s \in CiStages(c) :
           Linked(CiWork[c].stages[s], ciGot[c], ciLink' \cup ciPend'[c].links)
    BY <1>3, <2>1, LinkedGrows
  <2> QED BY <1>1, <1>5, <2>2 DEF CiRelated
<1>10. CiCallInv(c)'
  BY <1>7, <1>8, <1>9 DEF CiCallInv
<1> QED BY <1>1, <1>3, <1>5, <1>6, <1>10, CiStep

LEMMA CiFailStep == ASSUME CiInv, NEW c \in CiCall, CiFail(c) PROVE CiInv' /\ CiGrows
<1>0. CiTypeOK /\ CiApart /\ CiCallInv(c)
  BY DEF CiInv
<1>1. /\ ciPhase' = [ciPhase EXCEPT ![c] = "failed"] /\ ciPend' = [ciPend EXCEPT ![c] = NoPend]
      /\ UNCHANGED <<ciRef, ciKnown, ciLink, ciStage, ciTodo, ciGot>>
  BY DEF CiFail, Goto
<1>2. /\ ciPhase'[c] = "failed" /\ ciPend'[c] = NoPend
      /\ \A d \in CiCall \ {c} : ciPhase'[d] = ciPhase[d] /\ ciPend'[d] = ciPend[d]
      /\ ciPend' \in [CiCall -> CiPendType]
      /\ ciPhase' \in [CiCall -> {"new", "next", "insert", "link", "commit", "answered",
                                  "failed"}]
  BY <1>0, <1>1, NoPendFacts DEF CiTypeOK, CiPendType
<1>3. CiTypeOK'
  BY <1>0, <1>1, <1>2 DEF CiTypeOK, CiPendType
<1>4. CiApart'
  BY <1>0, <1>2, NoPendFacts DEF CiApart
<1>5. CiCallInv(c)'
  BY <1>2, NoPendFacts DEF CiCallInv, CiOwn, CiGiven, CiRelated
<1> QED BY <1>1, <1>2, <1>3, <1>4, <1>5, CiNoWrite, CiStep

LEMMA CiNextStep == CiInv /\ CiNext => CiInv' /\ CiGrows
<1> SUFFICES ASSUME CiInv, NEW c \in CiCall,
                    \/ CiBegin(c) \/ CiAsk(c) \/ CiSelect(c) \/ CiInsert(c)
                    \/ CiSelected(c) \/ CiLink(c) \/ CiCommit(c) \/ CiFail(c)
             PROVE  CiInv' /\ CiGrows
  BY DEF CiNext
<1>1. CASE CiBegin(c) \/ CiAsk(c)
  BY <1>1, CiBeginStep
<1>2. CASE CiSelect(c)
  BY <1>2, CiSelectStep
<1>3. CASE CiInsert(c)
  BY <1>3, CiInsertStep
<1>4. CASE CiSelected(c)
  BY <1>4, CiSelectedStep
<1>5. CASE CiLink(c)
  BY <1>5, CiLinkStep
<1>6. CASE CiCommit(c)
  BY <1>6, CiCommitStep
<1>7. CASE CiFail(c)
  BY <1>7, CiFailStep
<1> QED BY <1>1, <1>2, <1>3, <1>4, <1>5, <1>6, <1>7

LEMMA CiInvNext == CiInv /\ [CiNext]_ciVars => CiInv'
<1>1. CiInv /\ UNCHANGED ciVars => CiInv'
  <2> SUFFICES ASSUME CiInv, UNCHANGED ciVars PROVE CiInv'
    OBVIOUS
  <2>1. UNCHANGED <<ciRef, ciKnown, ciLink, ciPend, ciPhase, ciStage, ciTodo, ciGot>>
    BY DEF ciVars
  <2>2. CiTypeOK' /\ CiApart' /\ CiStored'
    BY <2>1 DEF CiInv, CiTypeOK, CiApart, CiStored
  <2>3. ASSUME NEW c \in CiCall PROVE CiCallInv(c)'
    BY <2>1 DEF CiInv, CiCallInv, CiOwn, CiGiven, CiRelated, Stage
  <2> QED BY <2>2, <2>3 DEF CiInv
<1> QED BY <1>1, CiNextStep

LEMMA CiSpecInv == CiSpec => []CiInv
BY CiInvInit, CiInvNext, PTL DEF CiSpec

\* Whatever calls ensure overlapping refs, in one transaction or statement by
\* statement, and whichever of them fail: an answer holds the stored ids of
\* its refs, and the relations of its episodes and seasons are stored
\* (ensureProviderRefs, upsertContentRelationships).
THEOREM AnswersAreStored == CiSpec => []AnsweredIsStored
<1>1. CiInv => AnsweredIsStored
  <2> SUFFICES ASSUME CiInv, NEW c \in CiCall, ciPhase[c] = "answered"
               PROVE  /\ \A r \in Ref : ciGot[c][r] \in {NoCall, <<r, ciRef[r]>>}
                      /\ \A s \in CiStages(c) : \A l \in CiWork[c].stages[s].links :
                            ciGot[c][l[1]] # NoCall =>
                                <<ciGot[c][l[1]], l[2], ciGot[c][l[3]]>> \in ciLink
    BY DEF AnsweredIsStored, CiStages
  <2>1. CiCallInv(c) /\ ciPend[c] = NoPend
    BY DEF CiInv, CiCallInv, CiOwn
  <2>2. ciPend[c].refs = {} /\ ciLink \cup ciPend[c].links = ciLink
    BY <2>1, NoPendFacts
  <2>3. \A r \in Ref : ciGot[c][r] \in {NoCall, <<r, ciRef[r]>>}
    BY <2>1, <2>2 DEF CiCallInv, CiGiven, IdIn
  <2>4. \A s \in CiStages(c) : \A l \in CiWork[c].stages[s].links : l[1] \in Ref
    BY StageFacts, ParentsFacts, ContentIdentityAssumption DEF CiStages
  <2>5. \/ \A r \in Ref : ciGot[c][r] = NoCall
        \/ \A s \in CiStages(c) : Linked(CiWork[c].stages[s], ciGot[c], ciLink)
    BY <2>1, <2>2 DEF CiCallInv, CiRelated
  <2> QED BY <2>3, <2>4, <2>5 DEF Linked
<1> QED BY <1>1, CiSpecInv, PTL

LEMMA CanonicalKept ==
    ASSUME CiInv, CiGrows, NEW k \in {"show", "episode"}, Canonical(<<"addon", k>>)
    PROVE  Canonical(<<"addon", k>>)'
<1> DEFINE item == <<"addon", k>>
           show == <<"addon", "show">>
<1>1. item \in Ref /\ show \in Ref /\ item[1] = "addon" /\ item[2] = k
  BY DEF Ref
<1>2. /\ ciRef[item] # NoCall
      /\ k = "episode" =>
            \E l \in ciLink : l[1] = <<item, ciRef[item]>> /\ l[2] = "series"
                              /\ l[3][1] = show /\ ciRef[show] = l[3][2]
      /\ show \in ciKnown
  BY <1>1 DEF Canonical
<1>3. ciRef'[item] = ciRef[item] /\ ciLink \subseteq ciLink' /\ show \in ciKnown'
  BY <1>1, <1>2 DEF CiGrows
<1>4. ASSUME NEW l \in ciLink, l[3][1] = show PROVE ciRef'[show] = ciRef[show]
  <2>1. PICK a \in Parents : IdIn(ciRef, NoCall, {}, a[3], l[3])
    BY DEF CiInv, CiStored, LinkIn
  <2>2. ciRef[a[3]] # NoCall /\ l[3] = <<a[3], ciRef[a[3]]>>
    BY <2>1 DEF IdIn
  <2>3. a[3] = show
    BY <1>4, <2>2
  <2> QED BY <1>1, <2>2, <2>3 DEF CiGrows
<1>5. k = "episode" =>
        \E l \in ciLink' : l[1] = <<item, ciRef'[item]>> /\ l[2] = "series"
                           /\ l[3][1] = show /\ ciRef'[show] = l[3][2]
  BY <1>2, <1>3, <1>4
<1> HIDE DEF item
<1>6. Canonical(item)'
  BY <1>1, <1>2, <1>3, <1>5 DEF Canonical
<1> QED BY <1>6 DEF item

\* canonicalizePlayableItemId: an add-on's item that resolves to TMDB's
\* episode resolves to it from then on; no call moves or forgets an id, a
\* relation or the TMDB id of a show once it is stored.
THEOREM CanonicalItemsStay == CiSpec => CanonicalStays
<1>1. CiInv /\ [CiNext]_ciVars =>
        [\A k \in {"show", "episode"} :
            Canonical(<<"addon", k>>) => Canonical(<<"addon", k>>)']_ciVars
  BY CiNextStep, CanonicalKept
<1> QED BY <1>1, CiSpecInv, PTL DEF CiSpec, CanonicalStays

\* What ensureProviderRefs and upsertContentRelationships promise whoever keeps
\* an id: no step, of a call that conflicts, merges, fails or commits, gives a
\* stored ref another id, or takes a relation or a show's TMDB id away.
THEOREM StoredIdsStay == CiSpec => [][CiGrows]_ciVars
<1>1. CiInv /\ [CiNext]_ciVars => [CiGrows]_ciVars
  BY CiNextStep
<1> QED BY <1>1, CiSpecInv, PTL DEF CiSpec

=============================================================================
