--------------------------- MODULE Requests_proof ---------------------------
(***************************************************************************)
(* Proofs about the components that hold something for the time of one     *)
(* request: the slot of a watch stream, a client of the database pool, the *)
(* PIN row a request compares with, the generation of a title's insights.  *)
(* Any number of connections, clients, requests, PINs and callers.         *)
(***************************************************************************)
EXTENDS WatchStream, DbPool, ProfilePin, AiInsights, FiniteSetTheorems, SequenceTheorems, TLAPS

(***************************************************************************)
(* WatchStream                                                             *)
(***************************************************************************)
WsSlots == WsHeld \cup wsLost

\* A 'close' listener is left only on an open connection whose client went
\* away after it was made, the flag is set only by such a listener, and the
\* slot of neither is lost.
WsClosing ==
    \A s \in Stream :
        /\ wsEvents[s] > 0 => wsState[s] = "open" /\ s \in wsGone /\ s \notin wsLost
        /\ s \in wsClosed => wsState[s] = "open" /\ s \notin wsLost
        /\ s \in wsLost => \/ wsState[s] = "failed"
                           \/ wsState[s] = "open" /\ s \in wsGone

WsInv ==
    /\ WsTypeOK
    /\ IsFiniteSet(WsSlots)
    /\ wsCount = Cardinality(WsSlots)
    /\ wsCount <= MaxStreams
    /\ WsClosing

LEMMA WsInvInit == WsInit => WsInv
<1> HAVE WsInit
<1>1. WsTypeOK /\ WsClosing
  BY WatchStreamAssumption DEF WsInit, WsTypeOK, WsClosing
<1>2. WsSlots = {}
  BY DEF WsInit, WsSlots, WsHeld
<1> QED BY <1>1, <1>2, FS_EmptySet, WatchStreamAssumption DEF WsInit, WsInv

\* A connection takes a slot that was free, or none.
LEMMA WsOpenStep == ASSUME WsInv, NEW s \in Stream, WsOpen(s) PROVE WsInv'
<1>1. WsTypeOK' /\ WsClosing'
  BY DEF WsInv, WsOpen, WsTypeOK, WsClosing
<1>2. CASE wsCount < MaxStreams /\ wsState' = [wsState EXCEPT ![s] = "subscribing"]
           /\ wsCount' = wsCount + 1
  <2>1. WsSlots' = WsSlots \cup {s} /\ s \notin WsSlots
    BY <1>2 DEF WsInv, WsOpen, WsTypeOK, WsClosing, WsSlots, WsHeld
  <2>2. IsFiniteSet(WsSlots') /\ Cardinality(WsSlots') = Cardinality(WsSlots) + 1
    BY <2>1, FS_AddElement DEF WsInv
  <2> QED BY <1>1, <1>2, <2>2, WatchStreamAssumption DEF WsInv, WsTypeOK
<1>3. CASE wsState' = [wsState EXCEPT ![s] = "refused"] /\ wsCount' = wsCount
  <2>1. WsSlots' = WsSlots
    BY <1>3 DEF WsInv, WsOpen, WsTypeOK, WsClosing, WsSlots, WsHeld
  <2> QED BY <1>1, <1>3, <2>1 DEF WsInv
<1> QED BY <1>2, <1>3 DEF WsOpen

\* Making the subscription, or failing to, leaves the slot taken.
LEMMA WsSubscribeStep ==
    ASSUME WsInv, NEW s \in Stream, WsSubscribed(s) \/ WsSubscribeFails(s)
    PROVE  WsInv'
<1>1. WsTypeOK' /\ WsClosing'
  BY DEF WsInv, WsSubscribed, WsSubscribeFails, WsTypeOK, WsClosing
<1>2. WsSlots' = WsSlots
  BY DEF WsInv, WsSubscribed, WsSubscribeFails, WsTypeOK, WsClosing, WsSlots, WsHeld
<1> QED BY <1>1, <1>2 DEF WsInv, WsSubscribed, WsSubscribeFails

LEMMA WsClientGoesStep == ASSUME WsInv, NEW s \in Stream, WsClientGoes(s) PROVE WsInv'
<1>1. WsTypeOK' /\ WsClosing'
  BY DEF WsInv, WsClientGoes, WsTypeOK, WsClosing
<1>2. WsSlots' = WsSlots
  BY DEF WsClientGoes, WsSlots, WsHeld
<1> QED BY <1>1, <1>2 DEF WsInv, WsClientGoes

\* The first listener gives the slot back, the second finds the flag set.
LEMMA WsFinishStep == ASSUME WsInv, NEW s \in Stream, WsFinish(s) PROVE WsInv'
<1>0. wsCount' \in Nat
  BY DEF WsInv, WsFinish, WsReleased, WsTypeOK
<1>1. WsTypeOK' /\ WsClosing'
  BY <1>0 DEF WsInv, WsFinish, WsTypeOK, WsClosing
<1>2. CASE s \in wsClosed
  <2>1. WsSlots' = WsSlots
    BY <1>2 DEF WsFinish, WsSlots, WsHeld
  <2> QED BY <1>1, <1>2, <2>1 DEF WsInv, WsFinish
<1>3. CASE s \notin wsClosed
  <2>1. s \in WsSlots /\ WsSlots' = WsSlots \ {s}
    BY <1>3 DEF WsInv, WsFinish, WsTypeOK, WsClosing, WsSlots, WsHeld
  <2>2. IsFiniteSet(WsSlots') /\ Cardinality(WsSlots') = Cardinality(WsSlots) - 1
    BY <2>1, FS_RemoveElement DEF WsInv
  <2>3. Cardinality(WsSlots') \in Nat
    BY <2>2, FS_CardinalityType
  <2>4. wsCount' = wsCount - 1
    BY <1>3, <2>2, <2>3 DEF WsInv, WsFinish, WsReleased, WsTypeOK
  <2> QED BY <1>1, <2>2, <2>4, WatchStreamAssumption DEF WsInv, WsTypeOK
<1> QED BY <1>2, <1>3

LEMMA WsInvNext == WsInv /\ [WsNext]_wsVars => WsInv'
<1>1. CASE UNCHANGED wsVars
  BY <1>1 DEF WsInv, WsTypeOK, WsClosing, WsSlots, WsHeld, wsVars
<1>2. CASE WsNext
  BY <1>2, WsOpenStep, WsSubscribeStep, WsClientGoesStep, WsFinishStep DEF WsNext
<1> QED BY <1>1, <1>2

LEMMA WsInvSlots == WsInv => SlotsMatchStreams
<1> HAVE WsInv
<1>1. Cardinality(WsHeld) <= Cardinality(WsSlots)
  BY FS_Subset DEF WsInv, WsSlots
<1>2. Cardinality(WsHeld) \in Nat
  BY FS_Subset, FS_CardinalityType DEF WsInv, WsSlots
<1> QED BY <1>1, <1>2, WatchStreamAssumption
      DEF WsInv, WsTypeOK, WsClosing, WsSlots, SlotsMatchStreams

\* The count a server keeps for a profile is always the number of slots taken,
\* at most MAX_WATCH_STREAMS_PER_PROFILE of them, whichever way each
\* connection ends: acquireWatchStream, the close handlers and finish.
THEOREM StreamsKeepSlots == WsSpec => []SlotsMatchStreams
<1>1. WsSpec => []WsInv
  BY WsInvInit, WsInvNext, PTL DEF WsSpec
<1> QED BY <1>1, WsInvSlots, PTL

(***************************************************************************)
(* DbPool                                                                  *)
(***************************************************************************)
\* Those who wait are at work, wait once, and have not started their parallel
\* queries; those who hold a client are at work or giving it back; a request
\* leaves queries behind only when one of them has failed it.
DbWaiting ==
    /\ \A i \in 1..Len(dbQueue) : dbRun[dbQueue[i]] = "going"
    /\ \A i, j \in 1..Len(dbQueue) : dbQueue[i] = dbQueue[j] => i = j
    /\ \A i \in 1..Len(dbQueue) : \A q \in QueriesOf(dbQueue[i]) : dbRun[q] = "new"
DbHolding ==
    \A c \in DbClient : dbHolder[c] # NoRequest =>
                          dbRun[dbHolder[c]] \in {"going", "unwinding"}
DbLeaving(r) == r \in dbFailed /\ QueriesOf(r) \cap dbFailed # {}
DbOutlive ==
    \A r \in DbRequest : \A q \in QueriesOf(r) :
        (dbRun[r] \in {"unwinding", "ended"} /\ dbRun[q] \in {"going", "unwinding"})
            => DbLeaving(r)

DbInv == DbTypeOK /\ DbWaiting /\ DbHolding /\ DbOutlive

\* A query has no queries of its own and belongs to one request.
LEMMA QueriesApart ==
    /\ \A t \in DbTask : QueriesOf(t) \subseteq DbQuery
    /\ \A t \in DbQuery : QueriesOf(t) = {}
    /\ \A t, u \in DbTask : \A q \in QueriesOf(t) \cap QueriesOf(u) : t = u
    /\ \A t \in DbTask : t \notin QueriesOf(t)
<1>1. \A r \in DbRequest : QueriesOf(r) \subseteq DbQuery
  BY DbPoolAssumption DEF QueriesOf
<1>2. \A t \in DbQuery : QueriesOf(t) = {}
  BY DbPoolAssumption DEF QueriesOf
<1>3. \A r, s \in DbRequest : \A q \in QueriesOf(r) \cap QueriesOf(s) : r = s
  BY DbPoolAssumption
<1> QED BY <1>1, <1>2, <1>3, DbPoolAssumption DEF DbTask

\* A sequence without one of its elements.
LEMMA RemoveAtProperties ==
    ASSUME NEW S, NEW s \in Seq(S), NEW i \in 1..Len(s)
    PROVE  /\ RemoveAt(s, i) \in Seq(S)
           /\ Len(RemoveAt(s, i)) = Len(s) - 1
           /\ \A j \in 1..(Len(s) - 1) :
                RemoveAt(s, i)[j] = IF j < i THEN s[j] ELSE s[j + 1]
<1> DEFINE a == SubSeq(s, 1, i - 1)
           b == SubSeq(s, i + 1, Len(s))
<1>1. a \in Seq(S) /\ Len(a) = i - 1 /\ \A j \in 1..(i - 1) : a[j] = s[j]
  BY SubSeqProperties
<1>2. b \in Seq(S) /\ Len(b) = Len(s) - i /\ \A j \in 1..(Len(s) - i) : b[j] = s[i + j]
  BY SubSeqProperties
<1>3. RemoveAt(s, i) = a \o b
  BY DEF RemoveAt
<1> HIDE DEF a, b
<1>4. /\ a \o b \in Seq(S) /\ Len(a \o b) = Len(a) + Len(b)
      /\ \A j \in 1..(Len(a) + Len(b)) :
           (a \o b)[j] = IF j <= Len(a) THEN a[j] ELSE b[j - Len(a)]
  BY <1>1, <1>2, ConcatProperties
<1>5. Len(s) \in Nat
  OBVIOUS
<1> QED BY <1>1, <1>2, <1>3, <1>4, <1>5

LEMMA DbInvInit == DbInit => DbInv
  BY DbPoolAssumption, QueriesApart
     DEF DbInit, DbInv, DbTypeOK, DbWaiting, DbHolding, DbOutlive, DbTask

LEMMA DbBeginStep == ASSUME DbInv, NEW r \in DbRequest, DbBegin(r) PROVE DbInv'
<1>1. dbRun' = [dbRun EXCEPT ![r] = "going"] /\ dbRun[r] = "new" /\ r \notin DbQuery
      /\ r \in DbTask /\ UNCHANGED <<dbHolder, dbQueue, dbFailed>>
  BY DbPoolAssumption DEF DbBegin, DbTask
<1>2. \A q \in DbQuery : dbRun'[q] = dbRun[q]
  BY <1>1 DEF DbInv, DbTypeOK, DbTask
<1>3. DbTypeOK' /\ DbHolding'
  BY <1>1 DEF DbInv, DbTypeOK, DbHolding
<1>4. DbWaiting'
  BY <1>1, <1>2, QueriesApart DEF DbInv, DbTypeOK, DbWaiting
<1>5. DbOutlive'
  BY <1>1, <1>2, QueriesApart DEF DbInv, DbTypeOK, DbOutlive, DbLeaving, DbTask
<1> QED BY <1>3, <1>4, <1>5 DEF DbInv

\* A request waits at the end of the queue only where it did not wait before.
LEMMA DbConnectStep == ASSUME DbInv, NEW r \in DbRequest, DbConnect(r) PROVE DbInv'
<1>0. /\ r \in DbTask
      /\ dbQueue \in Seq(DbTask) /\ Len(dbQueue) \in Nat
      /\ \A i \in 1..Len(dbQueue) : dbQueue[i] # r
  BY DEF DbInv, DbTypeOK, DbConnect, Queued, Contains, DbTask
<1>1. /\ dbQueue' \in Seq(DbTask) /\ Len(dbQueue') = Len(dbQueue) + 1
      /\ \A i \in 1..Len(dbQueue) : dbQueue'[i] = dbQueue[i]
      /\ dbQueue'[Len(dbQueue) + 1] = r
  BY <1>0, AppendProperties DEF DbConnect
<1>2. DbTypeOK' /\ DbHolding' /\ DbOutlive'
  BY <1>1 DEF DbInv, DbTypeOK, DbHolding, DbOutlive, DbLeaving, DbConnect
<1>3. \A q \in QueriesOf(r) : dbRun[q] = "new"
  BY DEF DbConnect, Started
<1>4. DbWaiting'
  BY <1>0, <1>1, <1>3 DEF DbInv, DbWaiting, DbConnect
<1> QED BY <1>2, <1>4 DEF DbInv

\* The queries of a request join the queue together, and none waited before:
\* they were new, and those who wait are at work.
LEMMA DbFanOutStep == ASSUME DbInv, NEW r \in DbRequest, DbFanOut(r) PROVE DbInv'
<1> DEFINE p == DbParallel[r]
<1>0. /\ r \in DbTask /\ dbRun \in [DbTask -> {"new", "going", "unwinding", "ended"}]
      /\ dbQueue \in Seq(DbTask) /\ Len(dbQueue) \in Nat
      /\ dbRun[r] = "going" /\ \A i \in 1..Len(dbQueue) : dbQueue[i] # r
      /\ \A q \in QueriesOf(r) : dbRun[q] = "new"
      /\ dbRun' = [t \in DbTask |-> IF t \in QueriesOf(r) THEN "going" ELSE dbRun[t]]
      /\ UNCHANGED <<dbHolder, dbFailed>>
  BY DEF DbInv, DbTypeOK, DbFanOut, Queued, Contains, Started, DbTask
<1>1. /\ p \in Seq(DbTask) /\ Len(p) \in Nat
      /\ \A i \in 1..Len(p) : p[i] \in QueriesOf(r)
      /\ \A i, j \in 1..Len(p) : p[i] = p[j] => i = j
  BY DbPoolAssumption DEF QueriesOf, DbTask
<1>2. dbQueue' = dbQueue \o p
  BY DEF DbFanOut
<1> HIDE DEF p
<1>3. /\ dbQueue' \in Seq(DbTask) /\ Len(dbQueue') = Len(dbQueue) + Len(p)
      /\ \A i \in 1..(Len(dbQueue) + Len(p)) :
           dbQueue'[i] = IF i <= Len(dbQueue) THEN dbQueue[i] ELSE p[i - Len(dbQueue)]
  BY <1>0, <1>1, <1>2, ConcatProperties
<1>4. \A i \in 1..Len(dbQueue) : dbQueue[i] \notin QueriesOf(r) /\ dbQueue[i] \in DbTask
  BY <1>0 DEF DbInv, DbWaiting
<1>5. DbTypeOK'
  BY <1>0, <1>3 DEF DbInv, DbTypeOK
<1>6. DbHolding'
  BY <1>0 DEF DbInv, DbTypeOK, DbHolding
<1>7. DbWaiting'
  <2>1. \A i \in 1..Len(dbQueue') :
           dbQueue'[i] \in QueriesOf(r) \/ \E j \in 1..Len(dbQueue) : dbQueue'[i] = dbQueue[j]
    <3> TAKE i \in 1..Len(dbQueue')
    <3>1. CASE i <= Len(dbQueue)
      BY <3>1, <1>0, <1>1, <1>3
    <3>2. CASE i > Len(dbQueue)
      <4>1. i - Len(dbQueue) \in 1..Len(p) /\ i \in 1..(Len(dbQueue) + Len(p))
        BY <3>2, <1>0, <1>1, <1>3
      <4> QED BY <4>1, <3>2, <1>0, <1>1, <1>3
    <3> QED BY <3>1, <3>2, <1>0, <1>3
  <2>2. \A i \in 1..Len(dbQueue') : dbRun'[dbQueue'[i]] = "going"
    <3>1. \A q \in QueriesOf(r) : q \in DbTask
      BY <1>0, QueriesApart DEF DbTask
    <3>2. \A q \in QueriesOf(r) : dbRun'[q] = "going"
      BY <3>1, <1>0
    <3>3. \A j \in 1..Len(dbQueue) : dbRun'[dbQueue[j]] = "going"
      BY <1>0, <1>4 DEF DbInv, DbWaiting
    <3> QED BY <2>1, <3>2, <3>3
  <2>3. \A i, j \in 1..Len(dbQueue') : dbQueue'[i] = dbQueue'[j] => i = j
    <3> TAKE i, j \in 1..Len(dbQueue')
    <3> HAVE dbQueue'[i] = dbQueue'[j]
    <3>1. i \in 1..(Len(dbQueue) + Len(p)) /\ j \in 1..(Len(dbQueue) + Len(p))
      BY <1>3
    <3>2. CASE i <= Len(dbQueue) /\ j <= Len(dbQueue)
      BY <3>1, <3>2, <1>0, <1>3 DEF DbInv, DbWaiting
    <3>3. CASE i > Len(dbQueue) /\ j > Len(dbQueue)
      <4>1. i - Len(dbQueue) \in 1..Len(p) /\ j - Len(dbQueue) \in 1..Len(p)
        BY <3>1, <3>3, <1>0, <1>1
      <4>2. dbQueue'[i] = p[i - Len(dbQueue)] /\ dbQueue'[j] = p[j - Len(dbQueue)]
        BY <3>1, <3>3, <1>0, <1>3
      <4>3. i - Len(dbQueue) = j - Len(dbQueue)
        BY <4>1, <4>2, <1>1
      <4> QED BY <4>3, <3>1, <1>0, <1>1
    <3>4. \A k, l \in 1..(Len(dbQueue) + Len(p)) :
             k <= Len(dbQueue) /\ l > Len(dbQueue) => dbQueue'[k] # dbQueue'[l]
      <4> TAKE k, l \in 1..(Len(dbQueue) + Len(p))
      <4> HAVE k <= Len(dbQueue) /\ l > Len(dbQueue)
      <4>1. l - Len(dbQueue) \in 1..Len(p) /\ k \in 1..Len(dbQueue)
        BY <1>0, <1>1
      <4>2. dbQueue'[l] = p[l - Len(dbQueue)] /\ dbQueue'[k] = dbQueue[k]
        BY <1>0, <1>3
      <4> QED BY <4>1, <4>2, <1>1, <1>4
    <3> QED BY <3>1, <3>2, <3>3, <3>4, <1>0, <1>1
  <2>4. \A t \in DbTask : t # r => \A q \in QueriesOf(t) : dbRun'[q] = dbRun[q]
    BY <1>0, QueriesApart DEF DbTask
  <2>5. \A i \in 1..Len(dbQueue') : \A q \in QueriesOf(dbQueue'[i]) : dbRun'[q] = "new"
    <3> TAKE i \in 1..Len(dbQueue')
    <3>1. CASE dbQueue'[i] \in QueriesOf(r)
      BY <3>1, <1>0, QueriesApart
    <3>2. CASE \E j \in 1..Len(dbQueue) : dbQueue'[i] = dbQueue[j]
      BY <3>2, <2>4, <1>0, <1>4 DEF DbInv, DbWaiting
    <3> QED BY <2>1, <3>1, <3>2
  <2> QED BY <2>2, <2>3, <2>5 DEF DbWaiting
<1>8. DbOutlive'
  <2>1. \A s \in DbRequest : dbRun'[s] = dbRun[s]
    BY <1>0, QueriesApart, DbPoolAssumption DEF DbTask
  <2>2. \A s \in DbRequest : s # r => \A q \in QueriesOf(s) : dbRun'[q] = dbRun[q]
    BY <1>0, QueriesApart DEF DbTask
  <2> QED BY <2>1, <2>2, <1>0 DEF DbInv, DbOutlive, DbLeaving
<1> QED BY <1>5, <1>6, <1>7, <1>8 DEF DbInv

\* A client that is idle goes to the oldest waiter, who is at work.
LEMMA DbServeStep == ASSUME DbInv, DbServe PROVE DbInv'
<1>0. /\ dbQueue \in Seq(DbTask) /\ Len(dbQueue) \in Nat /\ Len(dbQueue) >= 1
      /\ Head(dbQueue) = dbQueue[1] /\ Head(dbQueue) \in DbTask
      /\ Tail(dbQueue) \in Seq(DbTask) /\ Len(Tail(dbQueue)) = Len(dbQueue) - 1
      /\ \A i \in 1..Len(Tail(dbQueue)) : Tail(dbQueue)[i] = dbQueue[i + 1]
  BY HeadTailProperties DEF DbInv, DbTypeOK, DbServe
<1>1. PICK c \in DbClient : dbHolder' = [dbHolder EXCEPT ![c] = dbQueue[1]]
  BY <1>0 DEF DbServe, Held
<1>2. dbQueue' = Tail(dbQueue) /\ UNCHANGED <<dbRun, dbFailed>>
  BY DEF DbServe
<1>3. DbTypeOK' /\ DbOutlive'
  BY <1>0, <1>1, <1>2 DEF DbInv, DbTypeOK, DbOutlive, DbLeaving
<1>4. DbWaiting'
  BY <1>0, <1>2 DEF DbInv, DbWaiting
<1>5. DbHolding'
  BY <1>0, <1>1, <1>2 DEF DbInv, DbTypeOK, DbWaiting, DbHolding
<1> QED BY <1>3, <1>4, <1>5 DEF DbInv

\* What a step of one task leaves of the promise about queries left behind: the
\* task was at work or unwinding and still is, or has ended.
LEMMA DbOutliveStep ==
    ASSUME DbInv, NEW t \in DbTask, NEW to \in {"unwinding", "ended"},
           dbRun[t] \in {"going", "unwinding"},
           dbRun' = [dbRun EXCEPT ![t] = to],
           dbFailed \subseteq dbFailed',
           \A q \in QueriesOf(t) : dbRun[q] \in {"going", "unwinding"} => DbLeaving(t)'
    PROVE  DbOutlive'
<1> SUFFICES ASSUME NEW r \in DbRequest, NEW q \in QueriesOf(r),
                    dbRun'[r] \in {"unwinding", "ended"},
                    dbRun'[q] \in {"going", "unwinding"}
             PROVE  DbLeaving(r)'
  BY DEF DbOutlive
<1>0. r \in DbTask /\ q \in DbTask /\ q # r /\ (t = q => t # r)
  BY QueriesApart DEF DbTask
<1>1. dbRun[q] \in {"going", "unwinding"}
  BY <1>0 DEF DbInv, DbTypeOK
<1>2. CASE r = t
  BY <1>1, <1>2
<1>3. CASE r # t
  BY <1>0, <1>1, <1>3 DEF DbInv, DbTypeOK, DbOutlive, DbLeaving
<1> QED BY <1>2, <1>3

\* The one place of the task in the queue is given up.
LEMMA DbTimeoutStep == ASSUME DbInv, NEW t \in DbTask, DbTimeout(t) PROVE DbInv'
<1>0. dbQueue \in Seq(DbTask) /\ Len(dbQueue) \in Nat
  BY DEF DbInv, DbTypeOK
<1>1. PICK i \in 1..Len(dbQueue) : dbQueue[i] = t /\ dbQueue' = RemoveAt(dbQueue, i)
  BY DEF DbTimeout
<1>2. /\ dbQueue' \in Seq(DbTask) /\ Len(dbQueue') = Len(dbQueue) - 1
      /\ \A j \in 1..(Len(dbQueue) - 1) :
           dbQueue'[j] = IF j < i THEN dbQueue[j] ELSE dbQueue[j + 1]
  BY <1>0, <1>1, RemoveAtProperties
<1>3. DbTypeOK' /\ DbHolding'
  BY <1>2 DEF DbInv, DbTypeOK, DbHolding, DbTimeout
<1>4. DbWaiting'
  <2> DEFINE old(j) == IF j < i THEN j ELSE j + 1
  <2>0. /\ \A j \in 1..Len(dbQueue') : /\ old(j) \in 1..Len(dbQueue) /\ old(j) # i
                                       /\ dbQueue'[j] = dbQueue[old(j)]
        /\ \A j, k \in 1..Len(dbQueue') : old(j) = old(k) => j = k
    BY <1>0, <1>2
  <2> HIDE DEF old
  <2>a. /\ \A j, k \in 1..Len(dbQueue) : dbQueue[j] = dbQueue[k] => j = k
        /\ \A j \in 1..Len(dbQueue) : /\ dbRun[dbQueue[j]] = "going"
                                      /\ dbQueue[j] \in DbTask
                                      /\ \A q \in QueriesOf(dbQueue[j]) : dbRun[q] = "new"
    BY <1>0 DEF DbInv, DbWaiting
  <2>1. \A j, k \in 1..Len(dbQueue') : dbQueue'[j] = dbQueue'[k] => j = k
    BY <2>0, <2>a
  <2>2. \A j \in 1..Len(dbQueue') :
           /\ dbQueue'[j] \in DbTask /\ dbQueue'[j] # t
           /\ dbRun[dbQueue'[j]] = "going"
           /\ \A q \in QueriesOf(dbQueue'[j]) : dbRun[q] = "new"
    BY <1>1, <2>0, <2>a
  <2>3. dbRun[t] = "going"
    BY <1>1, <2>a
  <2>4. \A u \in DbTask : u # t => dbRun'[u] = dbRun[u]
    BY DEF DbInv, DbTypeOK, DbTimeout
  <2>5. \A j \in 1..Len(dbQueue') : \A q \in QueriesOf(dbQueue'[j]) : q # t /\ q \in DbTask
    BY <2>2, <2>3, QueriesApart DEF DbTask
  <2> QED BY <2>1, <2>2, <2>4, <2>5 DEF DbWaiting
<1>5. dbRun[t] = "going" /\ \A q \in QueriesOf(t) : dbRun[q] = "new"
  BY <1>1 DEF DbInv, DbWaiting
<1>6. DbOutlive'
  BY <1>5, DbOutliveStep DEF DbTimeout
<1> QED BY <1>3, <1>4, <1>6 DEF DbInv

\* A task whose work is over leaves the queue as it is: it does not wait.
LEMMA DbUnwindStep ==
    ASSUME DbInv, NEW t \in DbTask, DbReturn(t) \/ DbFail(t)
    PROVE  DbInv'
<1>1. /\ dbRun[t] = "going" /\ dbRun' = [dbRun EXCEPT ![t] = "unwinding"]
      /\ \A i \in 1..Len(dbQueue) : dbQueue[i] # t
      /\ UNCHANGED <<dbHolder, dbQueue>>
      /\ dbFailed \subseteq dbFailed' /\ dbFailed' \subseteq dbFailed \cup {t}
  BY DEF DbReturn, DbFail, AtWork, Queued, Contains
<1>2. DbTypeOK' /\ DbHolding'
  BY <1>1 DEF DbInv, DbTypeOK, DbHolding
<1>3. DbWaiting'
  <2>1. \A u \in DbTask : u # t => dbRun'[u] = dbRun[u]
    BY <1>1 DEF DbInv, DbTypeOK
  <2>2. \A i \in 1..Len(dbQueue) :
           /\ dbQueue[i] \in DbTask /\ dbQueue[i] # t
           /\ \A q \in QueriesOf(dbQueue[i]) : q # t /\ q \in DbTask
    BY <1>1, QueriesApart DEF DbInv, DbTypeOK, DbWaiting, DbTask
  <2> QED BY <1>1, <2>1, <2>2 DEF DbInv, DbWaiting
<1>4. Pending(t) = {} \/ (DbFail(t) /\ QueriesOf(t) \cap dbFailed # {})
  BY DEF DbReturn, DbFail
<1>5. \A q \in QueriesOf(t) : dbRun[q] \in {"going", "unwinding"} => DbLeaving(t)'
  BY <1>1, <1>4 DEF Pending, DbFail, DbLeaving
<1>6. DbOutlive'
  BY <1>1, <1>5, DbOutliveStep
<1> QED BY <1>2, <1>3, <1>6 DEF DbInv

LEMMA DbReleaseStep == ASSUME DbInv, NEW t \in DbTask, DbRelease(t) PROVE DbInv'
  BY DEF DbInv, DbTypeOK, DbWaiting, DbHolding, DbOutlive, DbLeaving, DbRelease, Held

LEMMA DbEndStep == ASSUME DbInv, NEW t \in DbTask, DbEnd(t) PROVE DbInv'
<1>1. /\ dbRun[t] = "unwinding" /\ dbRun' = [dbRun EXCEPT ![t] = "ended"]
      /\ \A c \in DbClient : dbHolder[c] # t
      /\ UNCHANGED <<dbHolder, dbQueue, dbFailed>>
  BY DEF DbEnd, Held
<1>2. \A u \in DbTask : u # t => dbRun'[u] = dbRun[u]
  BY <1>1 DEF DbInv, DbTypeOK
<1>3. DbTypeOK' /\ DbHolding'
  BY <1>1, <1>2 DEF DbInv, DbTypeOK, DbHolding
<1>4. DbWaiting'
  <2>1. \A i \in 1..Len(dbQueue) :
           /\ dbQueue[i] \in DbTask /\ dbQueue[i] # t
           /\ \A q \in QueriesOf(dbQueue[i]) : q # t /\ q \in DbTask
    BY <1>1, QueriesApart DEF DbInv, DbTypeOK, DbWaiting, DbTask
  <2> QED BY <1>1, <1>2, <2>1 DEF DbInv, DbWaiting
<1>5. \A q \in QueriesOf(t) : dbRun[q] \in {"going", "unwinding"} => DbLeaving(t)'
  BY <1>1, QueriesApart DEF DbInv, DbOutlive, DbLeaving, DbTask
<1>6. DbOutlive'
  BY <1>1, <1>5, DbOutliveStep
<1> QED BY <1>3, <1>4, <1>6 DEF DbInv

LEMMA DbInvNext == DbInv /\ [DbNext]_dbVars => DbInv'
<1>1. CASE UNCHANGED dbVars
  BY <1>1 DEF DbInv, DbTypeOK, DbWaiting, DbHolding, DbOutlive, DbLeaving, dbVars
<1>2. CASE DbNext
  BY <1>2, DbBeginStep, DbConnectStep, DbFanOutStep, DbServeStep, DbTimeoutStep,
     DbUnwindStep, DbReleaseStep, DbEndStep DEF DbNext, DbMove, DbAsk, DbStep
<1> QED BY <1>1, <1>2

\* Whatever ends the work of a request (its result, a failed statement, a
\* connect that timed out two levels down or in one of the queries it runs side
\* by side), withDbClient and withTransaction have released every client it
\* held, and a query goes on behind an ended request only when one of its
\* siblings has failed it: any pool, depth of nesting and number of queries.
THEOREM PoolKeepsClients == DbInit /\ [][DbNext]_dbVars => []NoClientLeaks
<1>1. DbInv => NoClientLeaks
  BY DEF DbInv, DbTypeOK, DbHolding, DbOutlive, DbLeaving, NoClientLeaks, Pending
<1>2. DbInit /\ [][DbNext]_dbVars => []DbInv
  BY DbInvInit, DbInvNext, PTL
<1> QED BY <1>1, <1>2, PTL

(***************************************************************************)
(* ProfilePin                                                              *)
(***************************************************************************)
\* A request that compares has read a row below the bound, and unless it is
\* stale or the observations are lost, the row is still what it read.
PinComparing ==
    \A r \in PinRequest :
        pinReq[r].step = "comparing" =>
            /\ pinReq[r].row.attempts < MaxAttempts
            /\ ~pinTorn /\ r \notin pinStale => pinReq[r].row = pinRow

PinInv == PinTypeOK /\ PinComparing /\ UnlockFollowsPin /\ FailuresCounted

\* What a request may be: doing nothing, comparing, or about to touch the flag.
PinReqs == [step : {"idle", "comparing", "flag"}, kind : Kinds, row : PinRow,
            given : Pin \cup {NoPin}, new : Pin \cup {NoPin}]

LEMMA PinReqForms ==
    /\ \A p \in Pin \cup {NoPin} : FreshRow(p) \in PinRow
    /\ IdleReq \in PinReqs
    /\ \A kind \in Kinds, p \in Pin \cup {NoPin} : FlagReq(kind, p) \in PinReqs
<1>1. \A p \in Pin \cup {NoPin} : FreshRow(p) \in PinRow
  BY ProfilePinAssumption DEF FreshRow, PinRow
<1>2. IdleReq \in PinReqs
  BY <1>1 DEF IdleReq, PinReqs, Kinds
<1>3. \A kind \in Kinds, p \in Pin \cup {NoPin} : FlagReq(kind, p) \in PinReqs
  BY <1>1 DEF FlagReq, PinReqs
<1> QED BY <1>1, <1>2, <1>3

LEMMA PinInvInit == PinInit => PinInv
<1> HAVE PinInit
<1>1. PICK p \in Pin \cup {NoPin} : pinRow = FreshRow(p) /\ pinLast = p
  BY DEF PinInit
<1>2. pinRow \in PinRow /\ pinRow.pin = p /\ pinRow.attempts = 0
  BY <1>1, PinReqForms DEF FreshRow
<1>3. pinReq \in [PinRequest -> PinReqs] /\ \A r \in PinRequest : pinReq[r].step = "idle"
  BY PinReqForms DEF PinInit, IdleReq
<1>4. /\ pinLockOver = FALSE /\ pinFlag = NoPin /\ pinFails = 0 /\ pinStale = {}
      /\ pinTorn = FALSE
  BY DEF PinInit
<1>5. PinTypeOK
  <2>1. pinFails \in 0..MaxAttempts
    BY <1>4, ProfilePinAssumption
  <2>2. pinLockOver \in BOOLEAN /\ pinTorn \in BOOLEAN
    BY <1>4
  <2> QED BY <1>1, <1>2, <1>3, <1>4, <2>1, <2>2 DEF PinTypeOK, PinReqs
<1>6. UnlockFollowsPin /\ FailuresCounted
  BY <1>1, <1>2, <1>4, ProfilePinAssumption DEF UnlockFollowsPin, FailuresCounted
<1> QED BY <1>3, <1>5, <1>6 DEF PinInv, PinComparing

\* The lockout of a count: a window that exists, and none only up to the limit.
LEMMA LockAfterBound ==
    ASSUME NEW n \in Nat
    PROVE  LockAfter(n) \in 0..LockTiers /\ (n > PinAttempts => LockAfter(n) # 0)
  BY ProfilePinAssumption DEF LockAfter

LEMMA PinReadStep == ASSUME PinInv, NEW r \in PinRequest, PinRead(r) PROVE PinInv'
<1>0. PinTypeOK /\ PinComparing /\ UnlockFollowsPin /\ FailuresCounted
  BY DEF PinInv
<1>1. UNCHANGED <<pinRow, pinLockOver, pinFlag>>
      /\ Observe(pinLast, pinFails, pinStale \ {r}, pinTorn)
  BY DEF PinRead
<1>2. PICK q \in PinReqs :
        /\ pinReq' = [pinReq EXCEPT ![r] = q]
        /\ \/ q.step = "comparing" /\ q.row = pinRow /\ pinRow.attempts < MaxAttempts
           \/ q.step = "flag"
  <2>1. PICK kind \in Kinds \ {"set"}, given \in Pin :
        \E new \in IF kind = "change" THEN Pin ELSE {NoPin} :
         \/ /\ pinRow.attempts < MaxAttempts
            /\ pinReq' = [pinReq EXCEPT ![r] =
                 [step |-> "comparing", kind |-> kind, row |-> pinRow,
                  given |-> given, new |-> new]]
         \/ pinReq' = [pinReq EXCEPT ![r] = FlagReq("remove", NoPin)]
    BY DEF PinRead
  <2>2. PICK new \in Pin \cup {NoPin} :
         \/ /\ pinRow.attempts < MaxAttempts
            /\ pinReq' = [pinReq EXCEPT ![r] =
                 [step |-> "comparing", kind |-> kind, row |-> pinRow,
                  given |-> given, new |-> new]]
         \/ pinReq' = [pinReq EXCEPT ![r] = FlagReq("remove", NoPin)]
    BY <2>1
  <2> DEFINE asked == [step |-> "comparing", kind |-> kind, row |-> pinRow,
                       given |-> given, new |-> new]
  <2>3. asked \in PinReqs /\ asked.step = "comparing" /\ asked.row = pinRow
    BY <1>0 DEF PinReqs, PinTypeOK
  <2>4. FlagReq("remove", NoPin) \in PinReqs /\ FlagReq("remove", NoPin).step = "flag"
    <3>1. "remove" \in Kinds
      BY DEF Kinds
    <3> QED BY <3>1, PinReqForms DEF FlagReq
  <2> HIDE DEF asked
  <2>5. \/ pinRow.attempts < MaxAttempts /\ pinReq' = [pinReq EXCEPT ![r] = asked]
        \/ pinReq' = [pinReq EXCEPT ![r] = FlagReq("remove", NoPin)]
    BY <2>2 DEF asked
  <2> QED BY <2>3, <2>4, <2>5
<1>3. /\ pinReq' \in [PinRequest -> PinReqs] /\ pinReq'[r] = q
      /\ \A x \in PinRequest : x # r => pinReq'[x] = pinReq[x]
  BY <1>0, <1>2 DEF PinTypeOK, PinReqs
<1>4. PinTypeOK'
  BY <1>0, <1>1, <1>3, ProfilePinAssumption DEF PinTypeOK, PinReqs, Observe
<1>5. PinComparing'
  BY <1>0, <1>1, <1>2, <1>3 DEF PinComparing, Observe
<1>6. UnlockFollowsPin' /\ FailuresCounted'
  <2>1. \A x \in PinRequest : Changing(x) => Changing(x)'
    BY <1>3 DEF Changing, PinRead
  <2> QED BY <1>0, <1>1, <2>1 DEF UnlockFollowsPin, FailuresCounted, Observe
<1> QED BY <1>4, <1>5, <1>6 DEF PinInv

\* Every UPDATE of the row: whoever compares with another row is stale after
\* it, and the observations follow the row unless the writer was stale itself.
LEMMA WritesKeeps ==
    ASSUME PinInv, NEW r \in PinRequest, NEW row \in PinRow, NEW last \in Pin \cup {NoPin},
           NEW fails \in 0..MaxAttempts, NEW q \in PinReqs,
           Writes(r, row, last, fails), pinReq' = [pinReq EXCEPT ![r] = q], UNCHANGED pinFlag,
           q.step # "comparing", ~Changing(r),
           ~pinTorn /\ r \notin pinStale =>
              /\ row.pin = last /\ row.attempts = fails
              /\ fails > PinAttempts => row.lock # 0
              /\ row.pin # pinRow.pin => q.step = "flag" /\ q.kind # "verify"
    PROVE  PinInv'
<1>0. PinTypeOK /\ PinComparing /\ UnlockFollowsPin /\ FailuresCounted
  BY DEF PinInv
<1>1. /\ pinReq' \in [PinRequest -> PinReqs] /\ pinReq'[r] = q
      /\ \A x \in PinRequest : x # r => pinReq'[x] = pinReq[x]
  BY <1>0 DEF PinTypeOK, PinReqs
<1>2. PinTypeOK'
  <2>1. pinLast' \in Pin \cup {NoPin} /\ pinFails' \in 0..MaxAttempts
        /\ pinStale' \subseteq PinRequest /\ pinTorn' \in BOOLEAN
    BY <1>0, ProfilePinAssumption DEF PinTypeOK, Writes, Observe
  <2> QED BY <1>0, <1>1, <2>1 DEF PinTypeOK, PinReqs, Writes
<1>3. PinComparing'
  BY <1>0, <1>1 DEF PinComparing, Writes, Observe
<1>4. \A x \in PinRequest : Changing(x) => Changing(x)'
  BY <1>1 DEF Changing
<1>5. q.step = "flag" /\ q.kind # "verify" => Changing(r)'
  BY <1>1 DEF Changing
<1>6. UnlockFollowsPin' /\ FailuresCounted'
  BY <1>0, <1>4, <1>5 DEF UnlockFollowsPin, FailuresCounted, Writes, Observe
<1> QED BY <1>2, <1>3, <1>6 DEF PinInv

LEMMA PinSetStep == ASSUME PinInv, NEW r \in PinRequest, PinSet(r) PROVE PinInv'
<1>1. PICK new \in Pin :
        /\ Writes(r, FreshRow(new), new, 0)
        /\ pinReq' = [pinReq EXCEPT ![r] = FlagReq("set", new)]
  BY DEF PinSet
<1> DEFINE q == FlagReq("set", new)
<1>2. q \in PinReqs /\ FreshRow(new) \in PinRow
  BY PinReqForms DEF Kinds
<1>3. q.step = "flag" /\ q.kind = "set"
  BY DEF FlagReq
<1>4. /\ FreshRow(new).pin = new /\ FreshRow(new).attempts = 0 /\ 0 \in 0..MaxAttempts
      /\ ~(0 > PinAttempts) /\ ~Changing(r)
  BY ProfilePinAssumption DEF FreshRow, PinSet, Changing
<1>5. pinReq' = [pinReq EXCEPT ![r] = q] /\ UNCHANGED pinFlag
  BY <1>1 DEF PinSet
<1> HIDE DEF q
<1> QED BY <1>1, <1>2, <1>3, <1>4, <1>5, WritesKeeps

\* A request that compares holds a row that was the row of the profile.
LEMMA PinWrongStep == ASSUME PinInv, NEW r \in PinRequest, PinWrong(r) PROVE PinInv'
<1> DEFINE q == pinReq[r]
           n == q.row.attempts + 1
           row == [pin |-> q.row.pin, attempts |-> n, lock |-> LockAfter(n)]
<1>1. /\ q.step = "comparing" /\ Writes(r, row, pinLast, OneMore(pinFails))
      /\ pinReq' = [pinReq EXCEPT ![r] = IdleReq] /\ UNCHANGED pinFlag
  BY DEF PinWrong
<1>2. /\ q.row \in PinRow /\ q.row.attempts < MaxAttempts /\ q.row.attempts \in 0..MaxAttempts
      /\ q.row.pin \in Pin \cup {NoPin} /\ pinLast \in Pin \cup {NoPin}
      /\ pinFails \in 0..MaxAttempts
  BY <1>1 DEF PinInv, PinTypeOK, PinComparing, PinRow
<1>3. n \in Nat /\ n \in 0..MaxAttempts
  BY <1>2, ProfilePinAssumption
<1>4. row \in PinRow
  BY <1>2, <1>3, LockAfterBound DEF PinRow
<1>5. OneMore(pinFails) \in 0..MaxAttempts
  BY <1>2, ProfilePinAssumption DEF OneMore
<1>6. ~pinTorn /\ r \notin pinStale =>
        /\ row.pin = pinLast /\ n = OneMore(pinFails)
        /\ n > PinAttempts => LockAfter(n) # 0
        /\ row.pin = pinRow.pin
  BY <1>1, <1>2, <1>3, LockAfterBound, ProfilePinAssumption
     DEF PinInv, PinComparing, UnlockFollowsPin, FailuresCounted, OneMore
<1>7. IdleReq \in PinReqs /\ IdleReq.step # "comparing" /\ ~Changing(r)
  BY <1>1, PinReqForms DEF IdleReq, Changing
<1>8. row.attempts = n /\ row.lock = LockAfter(n)
  OBVIOUS
<1> HIDE DEF row, n
<1> QED BY <1>1, <1>2, <1>4, <1>5, <1>6, <1>7, <1>8, WritesKeeps

LEMMA PinRightStep == ASSUME PinInv, NEW r \in PinRequest, PinRight(r) PROVE PinInv'
<1> DEFINE q == pinReq[r]
           pin == IF q.kind = "verify" THEN q.row.pin ELSE q.new
           last == IF q.kind = "verify" THEN pinLast ELSE pin
           next == [q EXCEPT !.step = "flag"]
<1>1. /\ q.step = "comparing" /\ Writes(r, FreshRow(pin), last, 0) /\ UNCHANGED pinFlag
      /\ pinReq' = [pinReq EXCEPT ![r].step = "flag"]
  BY DEF PinRight
<1>2. /\ q \in PinReqs /\ q.row \in PinRow /\ pin \in Pin \cup {NoPin}
      /\ last \in Pin \cup {NoPin}
  BY DEF PinInv, PinTypeOK, PinReqs, PinRow
<1>3. next \in PinReqs /\ next.step = "flag" /\ next.kind = q.kind
  BY <1>2 DEF PinReqs
<1>4. pinReq' = [pinReq EXCEPT ![r] = next]
  BY <1>1 DEF PinInv, PinTypeOK
<1>5. ~pinTorn /\ r \notin pinStale =>
        pin = last /\ (pin # pinRow.pin => q.kind # "verify")
  BY <1>1 DEF PinInv, PinComparing, UnlockFollowsPin
<1>6. /\ FreshRow(pin) \in PinRow /\ FreshRow(pin).pin = pin /\ FreshRow(pin).attempts = 0
      /\ 0 \in 0..MaxAttempts /\ ~(0 > PinAttempts) /\ ~Changing(r)
  <2>1. FreshRow(pin) \in PinRow
    BY <1>2, PinReqForms
  <2>2. ~Changing(r)
    BY <1>1 DEF Changing
  <2> HIDE DEF pin
  <2> QED BY <2>1, <2>2, ProfilePinAssumption DEF FreshRow
<1> HIDE DEF pin, last, next
<1> QED BY <1>1, <1>2, <1>3, <1>4, <1>5, <1>6, WritesKeeps

\* The flag is the PIN that was verified, and a verify that comes late to it
\* is one of those the observations give up on.
LEMMA PinFlagStep == ASSUME PinInv, NEW r \in PinRequest, PinFlag(r) PROVE PinInv'
<1>0. PinTypeOK /\ PinComparing /\ UnlockFollowsPin /\ FailuresCounted
  BY DEF PinInv
<1>1. /\ pinReq' \in [PinRequest -> PinReqs] /\ pinReq'[r] = IdleReq
      /\ \A x \in PinRequest : x # r => pinReq'[x] = pinReq[x]
  BY <1>0, PinReqForms DEF PinTypeOK, PinReqs, PinFlag
<1>2. PinTypeOK'
  BY <1>0, <1>1, ProfilePinAssumption DEF PinTypeOK, PinReqs, PinFlag, Observe
<1>3. PinComparing'
  BY <1>0, <1>1 DEF PinComparing, PinFlag, Observe, IdleReq
<1>4. UnlockFollowsPin' /\ FailuresCounted'
  BY <1>0 DEF UnlockFollowsPin, FailuresCounted, PinFlag, Observe, LateVerify
<1> QED BY <1>2, <1>3, <1>4 DEF PinInv

LEMMA PinDiesStep == ASSUME PinInv, NEW r \in PinRequest, PinDies(r) PROVE PinInv'
<1>0. PinTypeOK /\ PinComparing /\ UnlockFollowsPin /\ FailuresCounted
  BY DEF PinInv
<1>1. /\ pinReq' \in [PinRequest -> PinReqs] /\ pinReq'[r] = IdleReq
      /\ \A x \in PinRequest : x # r => pinReq'[x] = pinReq[x]
  BY <1>0, PinReqForms DEF PinTypeOK, PinReqs, PinDies
<1>2. PinTypeOK'
  BY <1>0, <1>1, ProfilePinAssumption DEF PinTypeOK, PinReqs, PinDies, Observe
<1>3. PinComparing'
  BY <1>0, <1>1 DEF PinComparing, PinDies, Observe, IdleReq
<1>4. \A x \in PinRequest : Changing(x) => Changing(r) \/ Changing(x)'
  BY <1>1 DEF Changing
<1>5. UnlockFollowsPin' /\ FailuresCounted'
  BY <1>0, <1>4 DEF UnlockFollowsPin, FailuresCounted, PinDies, Observe
<1> QED BY <1>2, <1>3, <1>5 DEF PinInv

LEMMA PinLocksStep == ASSUME PinInv, PinLock \/ PinLockPasses PROVE PinInv'
  BY DEF PinInv, PinTypeOK, PinComparing, UnlockFollowsPin, FailuresCounted, Changing,
         PinLock, PinLockPasses

LEMMA PinInvNext == PinInv /\ [PinNext]_pinVars => PinInv'
<1>1. CASE UNCHANGED pinVars
  BY <1>1 DEF PinInv, PinTypeOK, PinComparing, UnlockFollowsPin, FailuresCounted, Changing,
              pinVars
<1>2. CASE PinNext
  BY <1>2, PinReadStep, PinSetStep, PinWrongStep, PinRightStep, PinFlagStep, PinDiesStep,
     PinLocksStep DEF PinNext
<1> QED BY <1>1, <1>2

\* verifyPin, changePin, removePin and setPin, any number at once: a profile
\* is unlocked only by a verify of its PIN, the old PIN never after the change
\* has deleted the flag, unless requests overlapped or one died half done.
THEOREM UnlockIsVerified == PinSpec => []UnlockFollowsPin
<1>1. PinSpec => []PinInv
  BY PinInvInit, PinInvNext, PTL DEF PinSpec
<1> QED BY <1>1, PTL DEF PinInv

\* Every wrong PIN is counted and past the limit the row is locked, for any
\* limit and any table of lockout windows.
THEOREM FailuresAreCounted == PinSpec => []FailuresCounted
<1>1. PinSpec => []PinInv
  BY PinInvInit, PinInvNext, PTL DEF PinSpec
<1> QED BY <1>1, PTL DEF PinInv

(***************************************************************************)
(* AiInsights                                                              *)
(***************************************************************************)
\* u asked for version v, and its settings still give v unless it has changed
\* them since.
AiAsked(u, v) ==
    /\ u \in Caller /\ aiCall[u].step # "new" /\ aiCall[u].asks = v
    /\ aiSettings[u] = v \/ u \in aiChanged

\* A job that is there was enqueued by a caller of its version; it has run only
\* once it is active.
AiJobs ==
    \A v \in GenVersion :
        /\ aiJob[v].at # "failed"
        /\ aiJob[v].at # "none" => AiAsked(aiJob[v].by, v)
        /\ aiJob[v].runs = IF aiJob[v].at = "active" THEN 1 ELSE 0

\* A slot that works runs the job of a caller, and owns it as long as no stall
\* took it away; no two slots own one job.
AiRuns ==
    \A e \in GenSlot :
        /\ aiRun[e].step = "idle" => aiRun[e].job = NoGen /\ ~aiRun[e].owns
        /\ aiRun[e].step # "idle" =>
             /\ aiRun[e].job \in GenVersion /\ AiAsked(aiRun[e].by, aiRun[e].job)
             /\ aiRun[e].job \notin aiStalled => aiRun[e].owns
        /\ aiRun[e].step \in {"model", "stored"} =>
             /\ aiRun[e].to \in GenVersion
             /\ aiRun[e].to = aiRun[e].job \/ aiRun[e].by \in aiChanged
        /\ aiRun[e].owns =>
             /\ aiJob[aiRun[e].job].at = "active"
             /\ \A f \in GenSlot : aiRun[f].owns /\ aiRun[f].job = aiRun[e].job => f = e

\* A row that was stored while a caller waited is the caller's own unless the
\* user the job ran as has changed settings.
AiCalls ==
    \A c \in Caller :
        /\ aiCall[c].step # "new" =>
             /\ aiCall[c].asks \in GenVersion
             /\ aiSettings[c] = aiCall[c].asks \/ c \in aiChanged
        /\ aiStoredBy[c] # NoGen =>
             /\ aiCall[c].step \in {"waiting", "served", "failed"}
             /\ aiRow[aiCall[c].asks] # "none" \/ aiStoredBy[c] \in aiChanged

AiInv == AiTypeOK /\ AiJobs /\ AiRuns /\ AiCalls /\ GeneratedIsServed

LEMMA AiInvInit == AiInit => AiInv
<1> HAVE AiInit
<1>1. AiTypeOK
  BY DEF AiInit, AiTypeOK, NoJob, IdleSlot, User
<1>2. AiJobs /\ AiRuns /\ AiCalls /\ GeneratedIsServed
  BY DEF AiInit, AiJobs, AiRuns, AiCalls, GeneratedIsServed, NoJob, IdleSlot
<1> QED BY <1>1, <1>2 DEF AiInv

\* Callers.
LEMMA AiCallStepKeeps ==
    ASSUME AiInv, NEW c \in Caller, AiAsk(c) \/ AiReadCache(c) \/ AiReread(c)
    PROVE  AiInv'
<1>0. AiTypeOK /\ AiJobs /\ AiRuns /\ AiCalls /\ GeneratedIsServed
  BY DEF AiInv
<1>1. UNCHANGED <<aiSettings, aiJob, aiRun, aiStoredBy, aiChanged, aiStalled>>
  BY DEF AiAsk, AiReadCache, AiReread, aiQueue, aiSeen
<1>2. /\ aiCall' \in [Caller -> [step : {"new", "asked", "missed", "waiting",
                                        "served", "failed"},
                                asks : GenVersion \cup {NoGen}]]
      /\ aiRow' \in [GenVersion -> {"none", "legacy", "full"}]
  <2>1. CASE AiAsk(c)
    BY <1>0, <2>1 DEF AiTypeOK, AiAsk
  <2>2. CASE AiReadCache(c) \/ AiReread(c)
    <3>1. /\ ServeRow(c) \/ NoRowFor(c, "missed") \/ NoRowFor(c, "failed")
          /\ aiCall[c].asks \in GenVersion
      BY <1>0, <2>2 DEF AiCalls, AiReadCache, AiReread
    <3>2. PICK step \in {"served", "missed", "failed"} :
             aiCall' = [aiCall EXCEPT ![c].step = step]
      BY <3>1 DEF ServeRow, NoRowFor
    <3>3. aiRow' \in [GenVersion -> {"none", "legacy", "full"}]
      BY <1>0, <3>1 DEF AiTypeOK, ServeRow, NoRowFor
    <3> QED BY <1>0, <3>2, <3>3 DEF AiTypeOK
  <2> QED BY <2>1, <2>2
<1>a. AiTypeOK'
  BY <1>0, <1>1, <1>2 DEF AiTypeOK
<1>3. \A u, v : AiAsked(u, v) => AiAsked(u, v)'
  BY <1>0, <1>1 DEF AiAsked, AiTypeOK, AiAsk, AiReadCache, AiReread, ServeRow, NoRowFor
<1>4. AiJobs' /\ AiRuns'
  BY <1>0, <1>1, <1>3 DEF AiJobs, AiRuns
<1>5. AiCalls'
  BY <1>0, <1>1 DEF AiCalls, AiTypeOK, AiAsk, AiReadCache, AiReread, ServeRow, NoRowFor
<1>6. GeneratedIsServed'
  <2>1. \A x \in Caller : x # c => aiCall'[x] = aiCall[x]
    BY <1>0 DEF AiTypeOK, AiAsk, AiReadCache, AiReread, ServeRow, NoRowFor
  <2>2. aiCall'[c].step = "failed" => aiRow[aiCall[c].asks] = "none"
    BY <1>0 DEF AiTypeOK, AiAsk, AiReadCache, AiReread, ServeRow, NoRowFor
  <2> QED BY <1>0, <1>1, <2>1, <2>2 DEF AiCalls, GeneratedIsServed
<1> QED BY <1>a, <1>4, <1>5, <1>6 DEF AiInv

LEMMA AiEnqueueStep == ASSUME AiInv, NEW c \in Caller, AiEnqueue(c) PROVE AiInv'
<1>0. AiTypeOK /\ AiJobs /\ AiRuns /\ AiCalls /\ GeneratedIsServed
  BY DEF AiInv
<1>1. /\ UNCHANGED <<aiSettings, aiRow, aiRun, aiStoredBy, aiChanged, aiStalled>>
      /\ aiCall[c].step = "missed" /\ aiCall' = [aiCall EXCEPT ![c].step = "waiting"]
  BY DEF AiEnqueue, aiSeen
<1> DEFINE v == aiCall[c].asks
<1>2. v \in GenVersion
  BY <1>0, <1>1 DEF AiCalls
<1>3. aiJob' = [aiJob EXCEPT ![v] = IF aiJob[v].at = "none" THEN NewJob(c) ELSE aiJob[v]]
  BY <1>0, <1>2 DEF AiEnqueue, AiTypeOK
<1> DEFINE job == IF aiJob[v].at = "none" THEN NewJob(c) ELSE aiJob[v]
<1>4. /\ job \in [at : {"none", "waiting", "active", "failed"}, by : User, runs : Nat]
      /\ aiJob[v].at = "none" => job.at = "waiting" /\ job.by = c /\ job.runs = 0
      /\ aiJob[v].at # "none" => job = aiJob[v]
  BY <1>0, <1>2 DEF AiTypeOK, NewJob, User
<1> HIDE DEF job
<1>a. /\ aiJob' \in [GenVersion -> [at : {"none", "waiting", "active", "failed"},
                                   by : User, runs : Nat]]
      /\ aiJob'[v] = job /\ \A w \in GenVersion : w # v => aiJob'[w] = aiJob[w]
  BY <1>0, <1>2, <1>3, <1>4 DEF AiTypeOK, job
<1>b. /\ aiCall' \in [Caller -> [step : {"new", "asked", "missed", "waiting",
                                        "served", "failed"},
                                asks : GenVersion \cup {NoGen}]]
      /\ aiCall'[c].step = "waiting" /\ aiCall'[c].asks = v
      /\ \A u \in Caller : u # c => aiCall'[u] = aiCall[u]
  BY <1>0, <1>1, <1>2 DEF AiTypeOK
<1>c. AiTypeOK'
  BY <1>0, <1>1, <1>a, <1>b DEF AiTypeOK
<1>5. \A u, w : AiAsked(u, w) => AiAsked(u, w)'
  BY <1>0, <1>1, <1>b DEF AiAsked
<1>6. AiJobs'
  <2>1. aiSettings[c] = v \/ c \in aiChanged
    BY <1>0, <1>1 DEF AiCalls
  <2> QED BY <1>0, <1>1, <1>4, <1>a, <1>b, <2>1 DEF AiJobs, AiAsked
<1>7. AiRuns'
  BY <1>0, <1>1, <1>2, <1>4, <1>5, <1>a DEF AiRuns
<1>8. AiCalls' /\ GeneratedIsServed'
  BY <1>0, <1>1, <1>b DEF AiCalls, GeneratedIsServed
<1> QED BY <1>c, <1>6, <1>7, <1>8 DEF AiInv

LEMMA AiChangeStep == ASSUME AiInv, NEW c \in Caller, AiChangeSettings(c) PROVE AiInv'
<1>0. AiTypeOK /\ AiJobs /\ AiRuns /\ AiCalls /\ GeneratedIsServed
  BY DEF AiInv
<1>1. PICK v \in GenVersion : aiSettings' = [aiSettings EXCEPT ![c] = v]
  BY DEF AiChangeSettings
<1>2. /\ UNCHANGED <<aiRow, aiJob, aiRun, aiCall, aiStoredBy, aiStalled>>
      /\ aiChanged' = IF aiCall[c].step = "new" THEN aiChanged ELSE aiChanged \cup {c}
  BY DEF AiChangeSettings, aiQueue
<1>3. AiTypeOK'
  BY <1>0, <1>1, <1>2 DEF AiTypeOK
<1>4. \A u, w : AiAsked(u, w) => AiAsked(u, w)'
  BY <1>0, <1>1, <1>2 DEF AiAsked, AiTypeOK
<1>5. AiJobs' /\ AiRuns'
  BY <1>0, <1>2, <1>4 DEF AiJobs, AiRuns
<1>6. AiCalls' /\ GeneratedIsServed'
  BY <1>0, <1>1, <1>2 DEF AiCalls, GeneratedIsServed, AiTypeOK
<1> QED BY <1>3, <1>5, <1>6 DEF AiInv

\* Workers.
AiJobType == [at : {"none", "waiting", "active", "failed"}, by : User, runs : Nat]
AiRunType == [step : {"idle", "context", "model", "stored"}, job : GenVersion \cup {NoGen},
              by : User, to : GenVersion \cup {NoGen}, owns : BOOLEAN]

\* AiAsked looks at the callers alone.
LEMMA AiAskedStays ==
    ASSUME UNCHANGED <<aiSettings, aiCall, aiChanged>>
    PROVE  \A u, v : AiAsked(u, v)' <=> AiAsked(u, v)
  BY DEF AiAsked

\* A waiting job becomes the job of an idle slot.
LEMMA AiTakeStep ==
    ASSUME AiInv, NEW e \in GenSlot, NEW v \in GenVersion, AiTake(e, v) PROVE AiInv'
<1>0. AiTypeOK /\ AiJobs /\ AiRuns /\ AiCalls /\ GeneratedIsServed
  BY DEF AiInv
<1>1. /\ UNCHANGED <<aiSettings, aiRow, aiCall, aiStoredBy, aiChanged, aiStalled>>
      /\ aiRun[e].step = "idle" /\ aiJob[v].at = "waiting"
  BY DEF AiTake, aiSeen
<1>2. /\ aiJob' \in [GenVersion -> AiJobType]
      /\ aiJob'[v].at = "active" /\ aiJob'[v].runs = 1 /\ aiJob'[v].by = aiJob[v].by
      /\ \A w \in GenVersion : w # v => aiJob'[w] = aiJob[w]
  BY <1>0, <1>1 DEF AiTake, AiTypeOK, AiJobType, AiJobs
<1>3. /\ aiRun' \in [GenSlot -> AiRunType]
      /\ aiRun'[e].step = "context" /\ aiRun'[e].job = v /\ aiRun'[e].by = aiJob[v].by
      /\ aiRun'[e].owns
      /\ \A f \in GenSlot : f # e => aiRun'[f] = aiRun[f]
  <2> DEFINE run == [step |-> "context", job |-> v, by |-> aiJob[v].by, to |-> NoGen,
                     owns |-> TRUE]
  <2>1. run \in AiRunType /\ run.step = "context" /\ run.job = v /\ run.by = aiJob[v].by
        /\ run.owns
    BY <1>0 DEF AiTypeOK, AiRunType
  <2>2. aiRun' = [aiRun EXCEPT ![e] = run]
    BY DEF AiTake
  <2>3. aiRun \in [GenSlot -> AiRunType]
    BY <1>0 DEF AiTypeOK, AiRunType
  <2> HIDE DEF run
  <2> QED BY <2>1, <2>2, <2>3
<1>4. AiTypeOK'
  BY <1>0, <1>1, <1>2, <1>3 DEF AiTypeOK, AiJobType, AiRunType
<1>5. AiJobs'
  BY <1>0, <1>1, <1>2 DEF AiJobs, AiAsked
<1>6. AiRuns'
  BY <1>0, <1>1, <1>2, <1>3 DEF AiRuns, AiJobs, AiAsked
<1>7. AiCalls' /\ GeneratedIsServed'
  BY <1>0, <1>1 DEF AiCalls, GeneratedIsServed
<1> QED BY <1>4, <1>5, <1>6, <1>7 DEF AiInv

\* The settings of the user the job runs as, at that moment.
LEMMA AiResolveStep == ASSUME AiInv, NEW e \in GenSlot, AiResolve(e) PROVE AiInv'
<1>0. AiTypeOK /\ AiJobs /\ AiRuns /\ AiCalls /\ GeneratedIsServed
  BY DEF AiInv
<1>1. /\ UNCHANGED <<aiSettings, aiRow, aiJob, aiCall, aiStoredBy, aiChanged, aiStalled>>
      /\ aiRun[e].step = "context"
  BY DEF AiResolve, aiSeen
<1> DEFINE u == aiRun[e].by
           v == aiRun[e].job
<1>2. AiAsked(u, v) /\ v \in GenVersion
  BY <1>0, <1>1 DEF AiRuns
<1>3. /\ aiRun' \in [GenSlot -> AiRunType]
      /\ aiRun'[e].step = "model" /\ aiRun'[e].to = aiSettings[u] /\ aiRun'[e].by = u
      /\ aiRun'[e].job = v /\ aiRun'[e].owns = aiRun[e].owns
      /\ \A f \in GenSlot : f # e => aiRun'[f] = aiRun[f]
  BY <1>0, <1>2 DEF AiResolve, AiTypeOK, AiRunType, AiAsked
<1>4. AiTypeOK'
  BY <1>0, <1>1, <1>3 DEF AiTypeOK, AiRunType
<1>5. AiJobs'
  BY <1>0, <1>1 DEF AiJobs, AiAsked
<1>6. aiSettings[u] \in GenVersion /\ (aiSettings[u] = v \/ u \in aiChanged)
  BY <1>0, <1>2 DEF AiAsked, AiTypeOK
<1>7. AiRuns'
  BY <1>0, <1>1, <1>2, <1>3, <1>6 DEF AiRuns, AiAsked
<1>8. AiCalls' /\ GeneratedIsServed'
  BY <1>0, <1>1 DEF AiCalls, GeneratedIsServed
<1> QED BY <1>4, <1>5, <1>7, <1>8 DEF AiInv

\* The row is stored under the version that was resolved.
LEMMA AiStoreStep == ASSUME AiInv, NEW e \in GenSlot, AiStore(e) PROVE AiInv'
<1>0. AiTypeOK /\ AiJobs /\ AiRuns /\ AiCalls /\ GeneratedIsServed
  BY DEF AiInv
<1>1. /\ UNCHANGED <<aiSettings, aiJob, aiCall, aiChanged, aiStalled>>
      /\ aiRun[e].step = "model"
  BY DEF AiStore
<1>2. /\ aiRun[e].to \in GenVersion /\ aiRun[e].by \in Caller
      /\ aiRun[e].to = aiRun[e].job \/ aiRun[e].by \in aiChanged
  BY <1>0, <1>1 DEF AiRuns, AiAsked
<1>3. /\ aiRow' \in [GenVersion -> {"none", "legacy", "full"}] /\ aiRow'[aiRun[e].to] = "full"
      /\ \A v \in GenVersion : aiRow[v] # "none" => aiRow'[v] # "none"
  BY <1>0, <1>2 DEF AiStore, AiTypeOK
<1>4. /\ aiStoredBy' \in [Caller -> User]
      /\ \A c \in Caller : \/ aiStoredBy'[c] = aiStoredBy[c]
                           \/ /\ aiCall[c].step = "waiting" /\ aiCall[c].asks = aiRun[e].job
                              /\ aiStoredBy'[c] = aiRun[e].by
  <2>1. aiStoredBy' = [c \in Caller |->
           IF aiCall[c] = [step |-> "waiting", asks |-> aiRun[e].job] /\ aiRun[e].owns
             THEN aiRun[e].by ELSE aiStoredBy[c]]
    BY DEF AiStore
  <2> QED BY <1>0, <1>2, <2>1 DEF AiTypeOK, User
<1>5. /\ aiRun' \in [GenSlot -> AiRunType]
      /\ aiRun'[e].step = "stored" /\ aiRun'[e].to = aiRun[e].to /\ aiRun'[e].by = aiRun[e].by
      /\ aiRun'[e].job = aiRun[e].job /\ aiRun'[e].owns = aiRun[e].owns
      /\ \A f \in GenSlot : f # e => aiRun'[f] = aiRun[f]
  BY <1>0 DEF AiStore, AiTypeOK, AiRunType
<1>6. AiTypeOK'
  BY <1>0, <1>1, <1>3, <1>4, <1>5 DEF AiTypeOK, AiRunType
<1>7. AiJobs'
  BY <1>0, <1>1 DEF AiJobs, AiAsked
<1>8. AiRuns'
  BY <1>0, <1>1, <1>5 DEF AiRuns, AiAsked
<1>9. AiCalls' /\ GeneratedIsServed'
  BY <1>0, <1>1, <1>2, <1>3, <1>4 DEF AiCalls, GeneratedIsServed
<1> QED BY <1>6, <1>7, <1>8, <1>9 DEF AiInv

\* A slot becomes idle; the job it owns leaves the queue, unless the worker
\* died.
LEMMA AiEndStep ==
    ASSUME AiInv, NEW e \in GenSlot, AiEnd(e) \/ AiWorkerDies(e) PROVE AiInv'
<1>0. AiTypeOK /\ AiJobs /\ AiRuns /\ AiCalls /\ GeneratedIsServed
  BY DEF AiInv
<1>1. /\ UNCHANGED <<aiSettings, aiRow, aiCall, aiStoredBy, aiChanged, aiStalled>>
      /\ aiRun[e].step # "idle" /\ aiRun' = [aiRun EXCEPT ![e] = IdleSlot]
      /\ aiJob' = JobIsGone(e) \/ aiJob' = aiJob
  BY DEF AiEnd, AiWorkerDies, aiSeen
<1>2. /\ aiRun' \in [GenSlot -> AiRunType]
      /\ aiRun'[e].step = "idle" /\ aiRun'[e].job = NoGen /\ ~aiRun'[e].owns
      /\ \A f \in GenSlot : f # e => aiRun'[f] = aiRun[f]
  <2>1. IdleSlot \in AiRunType /\ IdleSlot.step = "idle" /\ IdleSlot.job = NoGen
        /\ ~IdleSlot.owns
    BY DEF IdleSlot, AiRunType, User
  <2>2. aiRun \in [GenSlot -> AiRunType]
    BY <1>0 DEF AiTypeOK, AiRunType
  <2> QED BY <1>1, <2>1, <2>2
<1>3. /\ aiJob' \in [GenVersion -> AiJobType]
      /\ \A v \in GenVersion :
           \/ aiJob'[v] = aiJob[v]
           \/ /\ aiJob'[v].at = "none" /\ aiJob'[v].runs = 0
              /\ aiRun[e].owns /\ v = aiRun[e].job
  BY <1>0, <1>1 DEF JobIsGone, NoJob, AiTypeOK, AiJobType, AiRuns, User
<1>4. AiTypeOK'
  BY <1>0, <1>1, <1>2, <1>3 DEF AiTypeOK, AiJobType, AiRunType
<1>5. AiJobs'
  BY <1>0, <1>1, <1>3 DEF AiJobs, AiAsked
<1>6. AiRuns'
  BY <1>0, <1>1, <1>2, <1>3 DEF AiRuns, AiAsked
<1>7. AiCalls' /\ GeneratedIsServed'
  BY <1>0, <1>1 DEF AiCalls, GeneratedIsServed
<1> QED BY <1>4, <1>5, <1>6, <1>7 DEF AiInv

\* The job is failed as stalled: nobody owns it any more.
LEMMA AiStallStep == ASSUME AiInv, NEW v \in GenVersion, AiStall(v) PROVE AiInv'
<1>0. AiTypeOK /\ AiJobs /\ AiRuns /\ AiCalls /\ GeneratedIsServed
  BY DEF AiInv
<1>1. /\ UNCHANGED <<aiSettings, aiRow, aiCall, aiStoredBy, aiChanged>>
      /\ aiStalled' = aiStalled \cup {v}
  BY DEF AiStall
<1>2. /\ aiRun' \in [GenSlot -> AiRunType]
      /\ \A e \in GenSlot :
           /\ aiRun'[e].step = aiRun[e].step /\ aiRun'[e].job = aiRun[e].job
           /\ aiRun'[e].by = aiRun[e].by /\ aiRun'[e].to = aiRun[e].to
           /\ aiRun'[e].owns <=> aiRun[e].job # v /\ aiRun[e].owns
  <2>1. /\ aiRun \in [GenSlot -> AiRunType]
        /\ aiRun' = [e \in GenSlot |-> IF aiRun[e].job = v THEN [aiRun[e] EXCEPT !.owns = FALSE]
                                      ELSE aiRun[e]]
    BY <1>0 DEF AiStall, LoseLock, AiTypeOK, AiRunType
  <2>2. ASSUME NEW e \in GenSlot, aiRun[e].job = v
        PROVE  /\ aiRun'[e] \in AiRunType
               /\ aiRun'[e].step = aiRun[e].step /\ aiRun'[e].job = aiRun[e].job
               /\ aiRun'[e].by = aiRun[e].by /\ aiRun'[e].to = aiRun[e].to
               /\ ~aiRun'[e].owns
    <3>1. aiRun'[e] = [aiRun[e] EXCEPT !.owns = FALSE] /\ aiRun[e] \in AiRunType
      BY <2>1, <2>2
    <3> QED BY <3>1 DEF AiRunType
  <2>3. \A e \in GenSlot : aiRun[e].job # v => aiRun'[e] = aiRun[e] /\ aiRun[e] \in AiRunType
    BY <2>1
  <2>4. aiRun' = [e \in GenSlot |-> aiRun'[e]]
    BY <2>1
  <2> QED BY <2>2, <2>3, <2>4
<1>3. /\ aiJob' \in [GenVersion -> AiJobType]
      /\ aiJob'[v].at = "none" /\ aiJob'[v].runs = 0
      /\ \A w \in GenVersion : w # v => aiJob'[w] = aiJob[w]
  BY <1>0 DEF AiStall, NoJob, AiTypeOK, AiJobType, User
<1>4. AiTypeOK'
  BY <1>0, <1>1, <1>2, <1>3 DEF AiTypeOK, AiJobType, AiRunType
<1>5. AiJobs'
  BY <1>0, <1>1, <1>3 DEF AiJobs, AiAsked
<1>6. AiRuns'
  BY <1>0, <1>1, <1>2, <1>3 DEF AiRuns, AiAsked
<1>7. AiCalls' /\ GeneratedIsServed'
  BY <1>0, <1>1 DEF AiCalls, GeneratedIsServed
<1> QED BY <1>4, <1>5, <1>6, <1>7 DEF AiInv

LEMMA AiInvNext == AiInv /\ [AiNext]_aiVars => AiInv'
<1>1. CASE UNCHANGED aiVars
  BY <1>1 DEF AiInv, AiTypeOK, AiJobs, AiRuns, AiCalls, AiAsked, GeneratedIsServed, aiVars
<1>2. CASE AiNext
  BY <1>2, AiCallStepKeeps, AiEnqueueStep, AiChangeStep, AiTakeStep, AiResolveStep, AiStoreStep,
     AiEndStep, AiStallStep DEF AiNext, AiCallStep, AiSlotStep
<1> QED BY <1>1, <1>2

LEMMA AiSpecInv == AiInit /\ [][AiNext]_aiVars => []AiInv
  BY AiInvInit, AiInvNext, PTL

\* attempts 1, maxStalledCount 0 and the job id keep a job from running twice
\* and two workers from generating for one id at a time, unless one of them was
\* failed as stalled: any number of callers, versions and workers.
THEOREM InsightsRunOnce == AiInit /\ [][AiNext]_aiVars => []JobRunsOnce
<1>1. AiInv => JobRunsOnce
  <2> SUFFICES ASSUME AiInv, NEW v \in GenVersion
               PROVE  /\ aiJob[v].runs <= 1
                      /\ v \notin aiStalled => Cardinality({e \in GenSlot : aiRun[e].job = v}) <= 1
    BY DEF JobRunsOnce
  <2>1. aiJob[v].runs <= 1
    BY DEF AiInv, AiTypeOK, AiJobs
  <2>2. ASSUME v \notin aiStalled
        PROVE  Cardinality({e \in GenSlot : aiRun[e].job = v}) <= 1
    <3> DEFINE S == {e \in GenSlot : aiRun[e].job = v}
    <3>1. \A e, f \in S : e = f
      BY <2>2, AiInsightsAssumption DEF AiInv, AiTypeOK, AiRuns
    <3>2. CASE S = {}
      BY <3>2, FS_EmptySet
    <3>3. CASE S # {}
      <4>1. PICK e \in S : TRUE
        BY <3>3
      <4>2. S = {e}
        BY <3>1, <4>1
      <4>3. Cardinality({e}) = 1
        BY FS_Singleton
      <4> HIDE DEF S
      <4>4. Cardinality(S) <= 1
        BY <4>2, <4>3
      <4> QED BY <4>4 DEF S
    <3> QED BY <3>2, <3>3
  <2> QED BY <2>1, <2>2
<1> QED BY <1>1, AiSpecInv, PTL

\* waitForInsights answers from the row and not from the job event: a caller
\* whose job stored a row while it waited is served, unless the user the job
\* ran as has changed settings since asking.
THEOREM InsightsAreServed == AiInit /\ [][AiNext]_aiVars => []GeneratedIsServed
<1>1. AiInv => GeneratedIsServed
  BY DEF AiInv
<1> QED BY <1>1, AiSpecInv, PTL

=============================================================================
