----------------------------- MODULE Home_proof -----------------------------
(***************************************************************************)
(* Proofs about the home of a profile: the shared default home, the cache  *)
(* of rendered homes, and whole-home writes.  Any number of servers,       *)
(* writers, calls, edits and earlier runs.                                 *)
(***************************************************************************)
EXTENDS DefaultHome, HomeCache, HomeWrite, FiniteSetTheorems, TLAPS

(***************************************************************************)
(* DefaultHome                                                             *)
(***************************************************************************)
\* Nothing is ahead of the templates, no key is ahead of the version, and what
\* a builder has read for the current version includes every bumped edit.
DhBehind ==
    /\ dhBumped <= dhTemplates
    /\ \A a \in TemplateAdmin : dhAdmin[a] <= dhTemplates
    /\ \A b \in DefaultBuilder :
         /\ dhBuilder[b].key <= dhVersion
         /\ dhBuilder[b].step \in {"read", "stored"} =>
              /\ dhBuilder[b].saw <= dhTemplates
              /\ dhBuilder[b].key = dhVersion => dhBumped <= dhBuilder[b].saw

DhInv == DhTypeOK /\ DhBehind /\ SnapshotOfVersion

LEMMA DhInvInit == DhInit => DhInv
<1> HAVE DhInit
<1>1. IdleBuilder \in Builder /\ IdleBuilder.key = 0 /\ IdleBuilder.step = "idle"
  BY DefaultHomeAssumption DEF IdleBuilder, Builder, Versions
<1> QED BY <1>1, DefaultHomeAssumption
      DEF DhInit, DhInv, DhTypeOK, DhBehind, SnapshotOfVersion, Versions

\* An edit only moves the templates on; its bump leaves every key behind.
LEMMA DhAdminStep ==
    ASSUME DhInv, NEW a \in TemplateAdmin, DhEdit(a) \/ DhBump(a) \/ DhAdminDies(a)
    PROVE  DhInv'
<1> USE DefaultHomeAssumption
<1>1. DhTypeOK'
  BY DEF DhInv, DhTypeOK, DhEdit, DhBump, DhAdminDies, NextVersion, Versions, dhSnapshot
<1>2. DhBehind'
  BY DEF DhInv, DhTypeOK, DhBehind, DhEdit, DhBump, DhAdminDies, NextVersion, Versions,
         dhSnapshot, Builder
<1>3. SnapshotOfVersion'
  BY DEF DhInv, DhTypeOK, DhBehind, SnapshotOfVersion, DhEdit, DhBump, DhAdminDies,
         NextVersion, Versions, dhSnapshot
<1> QED BY <1>1, <1>2, <1>3 DEF DhInv

LEMMA DhRebuildStep == ASSUME DhInv, DhRebuild \/ DhExpire PROVE DhInv'
<1> USE DefaultHomeAssumption
<1>1. DhTypeOK'
  BY DEF DhInv, DhTypeOK, DhRebuild, DhExpire, NextVersion, Versions
<1>2. DhBehind'
  BY DEF DhInv, DhTypeOK, DhBehind, DhRebuild, DhExpire, NextVersion, Versions, Builder
<1>3. SnapshotOfVersion'
  BY DEF DhInv, DhTypeOK, SnapshotOfVersion, DhRebuild, DhExpire, NextVersion
<1> QED BY <1>1, <1>2, <1>3 DEF DhInv

\* A builder stores what it read under the version it read before that.
LEMMA DhBuilderStep ==
    ASSUME DhInv, NEW b \in DefaultBuilder,
           DhMiss(b) \/ DhRead(b) \/ DhStore(b) \/ DhStoreMarked(b) \/ DhBuildFail(b)
    PROVE  DhInv'
<1> USE DefaultHomeAssumption
<1>0. UNCHANGED <<dhTemplates, dhVersion, dhAdmin, dhBumped>>
  BY DEF DhMiss, DhRead, DhStore, DhStoreMarked, DhBuildFail
<1>1. PICK q \in Builder :
        /\ dhBuilder' = [dhBuilder EXCEPT ![b] = q]
        /\ \/ q.key <= dhVersion /\ q.step \in {"idle", "building"}
           \/ q.step \in {"read", "stored"} /\ q.key = dhBuilder[b].key
              /\ \/ q.saw = dhTemplates
                 \/ q.saw = dhBuilder[b].saw /\ dhBuilder[b].step = "read"
  <2>1. CASE DhMiss(b)
    <3> DEFINE q == [step |-> "building", key |-> dhVersion, saw |-> 0]
    <3>1. q \in Builder /\ q.key = dhVersion /\ q.step = "building"
      BY DEF Builder, DhInv, DhTypeOK, Versions
    <3>2. dhBuilder' = [dhBuilder EXCEPT ![b] = q]
      BY <2>1 DEF DhMiss
    <3>3. dhVersion <= dhVersion
      BY DEF DhInv, DhTypeOK, Versions
    <3> HIDE DEF q
    <3> QED BY <3>1, <3>2, <3>3
  <2>2. CASE DhStoreMarked(b) \/ DhBuildFail(b)
    <3>1. IdleBuilder \in Builder /\ IdleBuilder.key = 0 /\ IdleBuilder.step = "idle"
      BY DEF IdleBuilder, Builder, Versions
    <3>2. dhBuilder' = [dhBuilder EXCEPT ![b] = IdleBuilder] /\ 0 <= dhVersion
      BY <2>2 DEF DhStoreMarked, DhBuildFail, DhInv, DhTypeOK, Versions
    <3> QED BY <3>1, <3>2
  <2>3. CASE DhRead(b)
    <3> DEFINE q == [dhBuilder[b] EXCEPT !.step = "read", !.saw = dhTemplates]
    <3>1. q \in Builder /\ q.key = dhBuilder[b].key /\ q.step = "read" /\ q.saw = dhTemplates
      BY DEF Builder, DhInv, DhTypeOK
    <3>2. dhBuilder' = [dhBuilder EXCEPT ![b] = q]
      BY <2>3 DEF DhRead, DhInv, DhTypeOK, Builder
    <3> HIDE DEF q
    <3> QED BY <3>1, <3>2
  <2>4. CASE DhStore(b)
    <3> DEFINE q == [dhBuilder[b] EXCEPT !.step = "stored"]
    <3>1. q \in Builder /\ q.key = dhBuilder[b].key /\ q.step = "stored"
          /\ q.saw = dhBuilder[b].saw
      BY DEF Builder, DhInv, DhTypeOK
    <3>2. dhBuilder' = [dhBuilder EXCEPT ![b] = q] /\ dhBuilder[b].step = "read"
      BY <2>4 DEF DhStore, DhInv, DhTypeOK, Builder
    <3> HIDE DEF q
    <3> QED BY <3>1, <3>2
  <2> QED BY <2>1, <2>2, <2>3, <2>4
<1>2. /\ dhBuilder' \in [DefaultBuilder -> Builder] /\ dhBuilder'[b] = q
      /\ \A x \in DefaultBuilder : x # b => dhBuilder'[x] = dhBuilder[x]
  BY <1>1 DEF DhInv, DhTypeOK
<1>3. /\ \/ dhSections' = dhSections
         \/ /\ dhBuilder[b].step = "read" /\ dhBuilder[b].key = dhVersion
            /\ dhSections' = dhBuilder[b].saw
      /\ \/ dhMarked' = dhMarked
         \/ /\ dhBuilder[b].step = "stored" /\ dhBuilder[b].key = dhVersion
            /\ dhMarked' = dhBuilder[b].saw
  BY DEF DhMiss, DhRead, DhStore, DhStoreMarked, DhBuildFail, dhSnapshot
<1>4. dhBuilder[b] \in Builder
  BY DEF DhInv, DhTypeOK
<1>5. DhTypeOK'
  BY <1>0, <1>2, <1>3, <1>4 DEF DhInv, DhTypeOK, Builder
<1>6. DhBehind'
  BY <1>0, <1>1, <1>2 DEF DhInv, DhTypeOK, DhBehind, Versions
<1>7. SnapshotOfVersion'
  BY <1>0, <1>3, <1>4 DEF DhInv, DhTypeOK, DhBehind, SnapshotOfVersion, Versions, Builder
<1> QED BY <1>5, <1>6, <1>7 DEF DhInv

LEMMA DhInvNext == DhInv /\ [DhNext]_dhVars => DhInv'
<1>1. CASE UNCHANGED dhVars
  BY <1>1 DEF DhInv, DhTypeOK, DhBehind, SnapshotOfVersion, dhVars, dhSnapshot
<1>2. CASE DhNext
  BY <1>2, DhAdminStep, DhRebuildStep, DhBuilderStep DEF DhNext
<1> QED BY <1>1, <1>2

\* Whichever servers build the shared default home and however their reads,
\* stores and the admins' bumps fall, the keys of the current version hold no
\* templates older than the last edit that was bumped.
THEOREM DefaultHomeIsCurrent == DhSpec => []SnapshotOfVersion
<1>1. DhSpec => []DhInv
  BY DhInvInit, DhInvNext, PTL DEF DhSpec
<1> QED BY <1>1, PTL DEF DhInv

(***************************************************************************)
(* HomeCache                                                               *)
(***************************************************************************)
\* Homes, epochs and invalidations are in order: what was announced is in the
\* database, and a build whose epoch is still the current one has read at
\* least what was announced.
HcOrder ==
    /\ \A v \in hcAnnounced : v <= hcHome
    /\ \A w \in HomeWriter : hcMine[w] <= hcHome
    /\ \A p \in HomeProc :
         /\ hcBuild[p].epoch <= hcEpoch
         /\ hcBuild[p].at \in {"read", "checked"} /\ hcBuild[p].epoch = hcEpoch =>
              \A v \in hcAnnounced : v <= hcBuild[p].home

\* A writer past its look at the keys has no unmarked payload before it.
HcPastLook(w) == hcWriter[w] = "deleted" \/ (hcWriter[w] = "scanned" /\ ~hcFound[w])
HcLooked ==
    /\ hcCache = NoPayload \/ hcCache.home \in Homes
    /\ \A w \in HomeWriter : HcPastLook(w) => hcCache = NoPayload \/ hcCache.slipped

\* A writer awaits a rebuild only after its own invalidation, and what the
\* rebuild has read is no older than its home unless the writer is excused.
HcWriters ==
    \A w \in HomeWriter :
        /\ hcWriter[w] \in {"bumped", "waiting", "done"} => hcMine[w] \in hcAnnounced
        /\ hcWriter[w] \in {"idle", "committed", "scanned", "deleted", "bumped"} =>
             hcAnswer[w] = NoHome
        /\ hcWaits[w] # NoHome => hcWriter[w] = "waiting"
        /\ hcWaits[w] # NoHome /\ w \notin hcExcused
             /\ hcBuild[hcWaits[w]].at \in {"read", "checked"} =>
             hcMine[w] <= hcBuild[hcWaits[w]].home

HcInv == HcTypeOK /\ HcOrder /\ HcLooked /\ HcWriters /\ StaleOnlyBySlip /\ OwnWriteIsServed

LEMMA HcInvInit == HcInit => HcInv
<1> USE HomeCacheAssumption
<1> HAVE HcInit
<1>1. NoPayload \in Payload
  BY DEF NoPayload, Payload
<1>2. NoBuild \in Build /\ NoBuild.at = "none" /\ NoBuild.epoch = 0
  BY DEF NoBuild, Build, Homes
<1>3. HcTypeOK
  BY <1>1, <1>2 DEF HcInit, HcTypeOK, Homes
<1>4. HcOrder
  BY <1>2 DEF HcInit, HcOrder
<1>5. HcLooked /\ HcWriters /\ StaleOnlyBySlip /\ OwnWriteIsServed
  BY DEF HcInit, HcLooked, HcPastLook, HcWriters, StaleOnlyBySlip, OwnWriteIsServed
<1> QED BY <1>3, <1>4, <1>5 DEF HcInv

\* The home changes: by a write, or by a switch of mode.
LEMMA HcCommitStep == ASSUME HcInv, NEW w \in HomeWriter, HcCommit(w) PROVE HcInv'
<1> USE HomeCacheAssumption DEF HcInv
<1>1. /\ UNCHANGED <<hcFound, hcEpoch, hcCache, hcBuild, hcWaits, hcAnswer, hcExcused, hcFails,
                     hcAnnounced>>
      /\ hcHome' = hcHome + 1 /\ hcHome < MaxHome /\ hcHome \in Nat
      /\ hcWriter[w] = "idle" /\ hcWriter' = [hcWriter EXCEPT ![w] = "committed"]
      /\ hcMine' = [hcMine EXCEPT ![w] = hcHome + 1]
  BY DEF HcCommit, HcMove, hcReplies, HcTypeOK, Homes
<1>2. HcTypeOK'
  BY <1>1 DEF HcTypeOK, Homes
<1>3. HcOrder'
  BY <1>1 DEF HcTypeOK, HcOrder, Homes
<1>4. HcLooked'
  BY <1>1 DEF HcTypeOK, HcLooked, HcPastLook
<1>5. HcWriters'
  BY <1>1 DEF HcTypeOK, HcWriters
<1>6. StaleOnlyBySlip'
  BY <1>1 DEF StaleOnlyBySlip
<1>7. OwnWriteIsServed'
  BY <1>1 DEF HcTypeOK, HcWriters, OwnWriteIsServed
<1> QED BY <1>2, <1>3, <1>4, <1>5, <1>6, <1>7

LEMMA HcSetModeStep == ASSUME HcInv, HcSetMode PROVE HcInv'
<1> USE HomeCacheAssumption DEF HcInv
<1>1. /\ UNCHANGED <<hcWriter, hcMine, hcFound, hcEpoch, hcCache, hcBuild, hcWaits, hcAnswer,
                     hcExcused, hcFails, hcAnnounced>>
      /\ hcHome' = hcHome + 1 /\ hcHome < MaxHome /\ hcHome \in Nat
  BY DEF HcSetMode, hcWrites, hcReplies, HcTypeOK, Homes
<1>2. HcTypeOK' /\ HcOrder'
  BY <1>1 DEF HcTypeOK, HcOrder, Homes
<1>3. HcLooked' /\ HcWriters' /\ StaleOnlyBySlip' /\ OwnWriteIsServed'
  BY <1>1 DEF HcLooked, HcPastLook, HcWriters, StaleOnlyBySlip, OwnWriteIsServed
<1> QED BY <1>2, <1>3

\* The look at the keys and the deletion of what it found.
LEMMA HcLookStep ==
    ASSUME HcInv, NEW w \in HomeWriter, HcScan(w) \/ HcDel(w) \/ HcWriterDies(w)
    PROVE  HcInv'
<1> USE HomeCacheAssumption DEF HcInv
<1>1. /\ UNCHANGED <<hcHome, hcMine, hcEpoch, hcBuild, hcWaits, hcAnswer, hcExcused, hcFails,
                     hcAnnounced>>
      /\ hcWriter[w] \in {"committed", "scanned", "deleted"}
      /\ hcCache' \in {hcCache, NoPayload}
  BY DEF HcScan, HcDel, HcWriterDies, HcMove, hcReplies
<1>2. PICK to \in {"scanned", "deleted", "died"} : hcWriter' = [hcWriter EXCEPT ![w] = to]
  BY DEF HcScan, HcDel, HcWriterDies, HcMove
<1>3. /\ hcFound' \in [HomeWriter -> BOOLEAN]
      /\ \A x \in HomeWriter : x # w => hcFound'[x] = hcFound[x]
  BY DEF HcScan, HcDel, HcWriterDies, HcTypeOK
<1>4. HcPastLook(w)' => hcCache' = NoPayload \/ hcCache'.slipped
  BY DEF HcScan, HcDel, HcWriterDies, HcMove, HcTypeOK, HcLooked, HcPastLook
<1>5. hcCache' \in Payload
  <2>1. NoPayload \in Payload
    BY DEF NoPayload, Payload
  <2> QED BY <1>1, <2>1 DEF HcTypeOK
<1>6. HcTypeOK'
  BY <1>1, <1>2, <1>3, <1>5 DEF HcTypeOK
<1>7. HcOrder'
  BY <1>1 DEF HcOrder
<1>8. HcLooked'
  BY <1>1, <1>2, <1>3, <1>4 DEF HcTypeOK, HcLooked, HcPastLook
<1>9. HcWriters'
  BY <1>1, <1>2 DEF HcTypeOK, HcWriters
<1>10. StaleOnlyBySlip' /\ OwnWriteIsServed'
  BY <1>1 DEF StaleOnlyBySlip, OwnWriteIsServed
<1> QED BY <1>6, <1>7, <1>8, <1>9, <1>10

\* The bump of the epoch: every payload of an older epoch is gone or marked.
LEMMA HcBumpStep == ASSUME HcInv, NEW w \in HomeWriter, HcBump(w) PROVE HcInv'
<1> USE HomeCacheAssumption DEF HcInv
<1>1. /\ UNCHANGED <<hcHome, hcMine, hcFound, hcCache, hcBuild, hcWaits, hcAnswer, hcExcused,
                     hcFails>>
      /\ hcWriter[w] = "deleted" /\ hcWriter' = [hcWriter EXCEPT ![w] = "bumped"]
      /\ hcEpoch' = hcEpoch + 1 /\ hcAnnounced' = hcAnnounced \cup {hcMine[w]}
  BY DEF HcBump, HcMove, hcReplies
<1>2. HcTypeOK'
  BY <1>1 DEF HcTypeOK
<1>3. HcOrder'
  BY <1>1 DEF HcTypeOK, HcOrder, Build
<1>4. HcLooked'
  BY <1>1 DEF HcTypeOK, HcLooked, HcPastLook
<1>5. HcWriters'
  BY <1>1 DEF HcTypeOK, HcWriters
<1>6. StaleOnlyBySlip'
  <2>1. hcCache = NoPayload \/ hcCache.slipped
    BY <1>1 DEF HcLooked, HcPastLook, HcTypeOK
  <2>2. hcCache' = NoPayload' \/ hcCache'.slipped
    BY <1>1, <2>1 DEF NoPayload
  <2> QED BY <2>2 DEF StaleOnlyBySlip
<1>7. OwnWriteIsServed'
  BY <1>1 DEF OwnWriteIsServed
<1> QED BY <1>2, <1>3, <1>4, <1>5, <1>6, <1>7

\* A read of the cache, or a rebuild started: no build is further than before.
LEMMA HcStartStep ==
    ASSUME HcInv, NEW p \in HomeProc, RefreshAfter(p) \/ (Free(p) /\ Starts(p, FALSE))
    PROVE  /\ hcBuild' \in [HomeProc -> Build]
           /\ \A q \in HomeProc : \/ hcBuild'[q] = hcBuild[q]
                                  \/ hcBuild'[q].at = "started" /\ hcBuild'[q].epoch = 0
<1>1. \A back \in BOOLEAN : Starts(p, back) =>
        /\ hcBuild' \in [HomeProc -> Build]
        /\ \A q \in HomeProc : \/ hcBuild'[q] = hcBuild[q]
                               \/ hcBuild'[q].at = "started" /\ hcBuild'[q].epoch = 0
  <2> TAKE back \in BOOLEAN
  <2> DEFINE b == [at |-> "started", back |-> back, epoch |-> 0, home |-> 0]
  <2>1. b \in Build /\ b.at = "started" /\ b.epoch = 0
    BY HomeCacheAssumption DEF Build, Homes
  <2>2. hcBuild \in [HomeProc -> Build]
    BY DEF HcInv, HcTypeOK
  <2> HAVE Starts(p, back)
  <2>3. hcBuild' = [hcBuild EXCEPT ![p] = b]
    BY DEF Starts
  <2> HIDE DEF b
  <2> QED BY <2>1, <2>2, <2>3
<1>2. UNCHANGED hcBuild \/ Starts(p, TRUE) \/ Starts(p, FALSE)
  BY DEF RefreshAfter
<1>3. hcBuild \in [HomeProc -> Build]
  BY DEF HcInv, HcTypeOK
<1> QED BY <1>1, <1>2, <1>3

\* A build that starts orders nothing.
LEMMA HcStartOrder ==
    ASSUME HcInv, UNCHANGED <<hcHome, hcMine, hcEpoch, hcAnnounced>>,
           \A q \in HomeProc : \/ hcBuild'[q] = hcBuild[q]
                               \/ hcBuild'[q].at = "started" /\ hcBuild'[q].epoch = 0
    PROVE  HcOrder'
  BY DEF HcInv, HcTypeOK, HcOrder

LEMMA HcGetStep == ASSUME HcInv, NEW p \in HomeProc, HcGet(p) PROVE HcInv'
<1> USE HomeCacheAssumption
<1>1. UNCHANGED <<hcHome, hcWriter, hcMine, hcFound, hcEpoch, hcCache, hcWaits, hcAnswer,
                  hcExcused, hcFails, hcAnnounced>>
  BY DEF HcGet, hcWrites, hcReplies
<1>2. /\ hcBuild' \in [HomeProc -> Build]
      /\ \A q \in HomeProc : \/ hcBuild'[q] = hcBuild[q]
                             \/ hcBuild'[q].at = "started" /\ hcBuild'[q].epoch = 0
  BY HcStartStep DEF HcGet
<1>3. HcTypeOK'
  BY <1>1, <1>2 DEF HcInv, HcTypeOK
<1>4. HcOrder'
  BY <1>1, <1>2, HcStartOrder
<1>5. HcLooked' /\ StaleOnlyBySlip' /\ OwnWriteIsServed'
  BY <1>1 DEF HcInv, HcLooked, HcPastLook, StaleOnlyBySlip, OwnWriteIsServed
<1>6. HcWriters'
  BY <1>1, <1>2 DEF HcInv, HcTypeOK, HcWriters
<1> QED BY <1>3, <1>4, <1>5, <1>6 DEF HcInv

\* resolveHome of a writer that has invalidated: a payload it is not excused
\* from, or a rebuild whose read is recent enough.
LEMMA HcResolveStep ==
    ASSUME HcInv, NEW w \in HomeWriter, NEW p \in HomeProc, HcResolve(w, p) PROVE HcInv'
<1> USE HomeCacheAssumption
<1>1. /\ UNCHANGED <<hcHome, hcMine, hcFound, hcEpoch, hcCache, hcFails, hcAnnounced>>
      /\ hcWriter[w] = "bumped" /\ hcMine[w] \in hcAnnounced
      /\ hcExcused \subseteq hcExcused' /\ hcExcused' \subseteq hcExcused \cup {w}
  BY DEF HcResolve, HcMove, HcInv, HcWriters
<1>2. /\ hcBuild' \in [HomeProc -> Build]
      /\ \A q \in HomeProc : \/ hcBuild'[q] = hcBuild[q]
                             \/ hcBuild'[q].at = "started" /\ hcBuild'[q].epoch = 0
  <2>1. hcBuild \in [HomeProc -> Build]
    BY DEF HcInv, HcTypeOK
  <2>2. UNCHANGED hcBuild \/ RefreshAfter(p) \/ (Free(p) /\ Starts(p, FALSE))
    BY DEF HcResolve
  <2> QED BY <2>1, <2>2, HcStartStep
<1>3. \/ /\ hcCache # NoPayload
         /\ hcWriter' = [hcWriter EXCEPT ![w] = "done"]
         /\ hcAnswer' = [hcAnswer EXCEPT ![w] = hcCache.home]
         /\ w \notin hcExcused' => ~hcCache.slipped
         /\ hcWaits' = hcWaits
      \/ /\ hcWriter' = [hcWriter EXCEPT ![w] = "waiting"]
         /\ hcWaits' = [hcWaits EXCEPT ![w] = p]
         /\ w \notin hcExcused' => \/ hcBuild[p].at \in {"none", "started"}
                                   \/ hcBuild[p].epoch = hcEpoch
         /\ hcAnswer' = hcAnswer
  BY DEF HcResolve, HcMove
<1>4. hcCache # NoPayload => hcCache.home \in Homes
  BY DEF HcInv, HcLooked
<1>5. HcTypeOK'
  BY <1>1, <1>2, <1>3, <1>4 DEF HcInv, HcTypeOK
<1>6. HcOrder'
  BY <1>1, <1>2, HcStartOrder
<1>7. HcLooked' /\ StaleOnlyBySlip'
  <2>1. \A x \in HomeWriter : HcPastLook(x)' => HcPastLook(x)
    BY <1>1, <1>3 DEF HcInv, HcTypeOK, HcPastLook
  <2> QED BY <1>1, <2>1 DEF HcInv, HcLooked, StaleOnlyBySlip, HcPastLook
<1>8. \A x \in HomeWriter : x # w =>
         /\ hcWriter'[x] = hcWriter[x] /\ hcWaits'[x] = hcWaits[x] /\ hcAnswer'[x] = hcAnswer[x]
         /\ x \notin hcExcused' => x \notin hcExcused
  BY <1>1, <1>3 DEF HcInv, HcTypeOK
<1>9. HcWriters'
  <2> SUFFICES ASSUME NEW x \in HomeWriter
        PROVE
        /\ hcWriter'[x] \in {"bumped", "waiting", "done"} => hcMine'[x] \in hcAnnounced'
        /\ hcWriter'[x] \in {"idle", "committed", "scanned", "deleted", "bumped"} =>
             hcAnswer'[x] = NoHome
        /\ hcWaits'[x] # NoHome => hcWriter'[x] = "waiting"
        /\ hcWaits'[x] # NoHome /\ x \notin hcExcused'
             /\ hcBuild'[hcWaits'[x]].at \in {"read", "checked"} =>
             hcMine'[x] <= hcBuild'[hcWaits'[x]].home
    BY DEF HcWriters
  <2>0. hcWaits[x] \in HomeProc \cup {NoHome} /\ hcWriter[w] = "bumped"
    BY <1>1 DEF HcInv, HcTypeOK
  <2>1. CASE x # w
    BY <1>1, <1>2, <1>8, <2>0, <2>1 DEF HcInv, HcWriters
  <2>2. CASE x = w /\ hcWaits' = hcWaits
    BY <1>1, <1>3, <2>0, <2>2 DEF HcInv, HcTypeOK, HcWriters
  <2>3. CASE x = w /\ hcWaits' # hcWaits
    <3>1. /\ hcWaits'[w] = p /\ hcWriter'[w] = "waiting"
          /\ w \notin hcExcused' => \/ hcBuild[p].at \in {"none", "started"}
                                    \/ hcBuild[p].epoch = hcEpoch
      BY <1>3, <2>3 DEF HcInv, HcTypeOK
    <3>2. w \notin hcExcused' /\ hcBuild'[p].at \in {"read", "checked"} =>
             hcMine[w] <= hcBuild'[p].home
      BY <1>1, <1>2, <3>1 DEF HcInv, HcOrder
    <3> QED BY <1>1, <2>3, <3>1, <3>2
  <2> QED BY <2>1, <2>2, <2>3
<1>10. OwnWriteIsServed'
  <2>1. w \notin hcExcused' /\ hcAnswer'[w] # NoHome => hcAnswer'[w] >= hcMine[w]
    BY <1>1, <1>3, <1>4 DEF HcInv, HcTypeOK, HcWriters, StaleOnlyBySlip, Homes
  <2> QED BY <1>1, <1>8, <2>1 DEF HcInv, OwnWriteIsServed
<1> QED BY <1>5, <1>6, <1>7, <1>9, <1>10 DEF HcInv

\* A rebuild ends, with what it read or with nothing: those who await it are
\* answered.
LEMMA HcEndsKeeps ==
    ASSUME HcInv, NEW p \in HomeProc, NEW result \in Homes \cup {NoHome}, Ends(p, result),
           UNCHANGED <<hcHome, hcEpoch, hcAnnounced>>,
           \/ result = NoHome
           \/ hcBuild[p].at \in {"read", "checked"} /\ result = hcBuild[p].home
    PROVE  /\ hcBuild' \in [HomeProc -> Build]
           /\ hcAnswer' \in [HomeWriter -> Homes \cup {NoHome}]
           /\ hcWriter' \in [HomeWriter -> {"idle", "committed", "scanned", "deleted",
                                            "bumped", "waiting", "done", "died"}]
           /\ hcWaits' \in [HomeWriter -> HomeProc \cup {NoHome}]
           /\ UNCHANGED <<hcMine, hcFound, hcExcused>>
           /\ \A w \in HomeWriter : HcPastLook(w)' => HcPastLook(w)
           /\ HcOrder' /\ HcWriters' /\ OwnWriteIsServed'
<1> USE HomeCacheAssumption DEF HcInv
<1>0. NoBuild \in Build /\ NoBuild.at = "none" /\ NoBuild.epoch = 0
  BY DEF NoBuild, Build, Homes
<1>1. /\ hcBuild' \in [HomeProc -> Build] /\ hcBuild'[p] = NoBuild
      /\ \A q \in HomeProc : q # p => hcBuild'[q] = hcBuild[q]
  BY <1>0 DEF Ends, HcTypeOK
<1>2. /\ \A w \in HomeWriter : hcWaits[w] = p =>
           /\ hcAnswer'[w] = result /\ hcWriter'[w] = "done" /\ hcWaits'[w] = NoHome
      /\ \A w \in HomeWriter : hcWaits[w] # p =>
           /\ hcAnswer'[w] = hcAnswer[w] /\ hcWriter'[w] = hcWriter[w]
           /\ hcWaits'[w] = hcWaits[w]
      /\ UNCHANGED <<hcMine, hcFound, hcExcused>>
  BY DEF Ends
<1>3. /\ hcAnswer' \in [HomeWriter -> Homes \cup {NoHome}]
      /\ hcWriter' \in [HomeWriter -> {"idle", "committed", "scanned", "deleted",
                                       "bumped", "waiting", "done", "died"}]
      /\ hcWaits' \in [HomeWriter -> HomeProc \cup {NoHome}]
  BY DEF Ends, HcTypeOK
<1>4. \A w \in HomeWriter : HcPastLook(w)' => HcPastLook(w)
  BY <1>2 DEF HcPastLook
<1>5. HcOrder'
  BY <1>0, <1>1, <1>2 DEF HcTypeOK, HcOrder
<1>6. HcWriters'
  BY <1>1, <1>2 DEF HcTypeOK, HcWriters
<1>7. OwnWriteIsServed'
  <2>1. ASSUME NEW w \in HomeWriter \ hcExcused, hcWaits[w] = p, result # NoHome
        PROVE  result >= hcMine[w]
    BY <2>1 DEF HcTypeOK, HcWriters, Build, Homes
  <2> QED BY <1>2, <2>1 DEF OwnWriteIsServed
<1> QED BY <1>1, <1>2, <1>3, <1>4, <1>5, <1>6, <1>7

\* The epoch first, then the queries.
LEMMA HcBuildReadStep ==
    ASSUME HcInv, NEW p \in HomeProc, HcBuildEpoch(p) \/ HcBuildRead(p) PROVE HcInv'
<1> USE HomeCacheAssumption DEF HcInv
<1>1. UNCHANGED <<hcHome, hcWriter, hcMine, hcFound, hcEpoch, hcCache, hcWaits, hcAnswer,
                  hcExcused, hcFails, hcAnnounced>>
  BY DEF HcBuildEpoch, HcBuildRead, hcWrites, hcReplies
<1>2. /\ hcBuild' \in [HomeProc -> Build]
      /\ \A q \in HomeProc : q # p => hcBuild'[q] = hcBuild[q]
      /\ hcBuild'[p].epoch <= hcEpoch
      /\ \/ hcBuild'[p].at = "epoch"
         \/ hcBuild'[p].at = "read" /\ hcBuild'[p].home = hcHome
  <2>1. CASE HcBuildEpoch(p)
    <3>1. hcEpoch \in Nat /\ hcBuild[p] \in Build /\ hcBuild \in [HomeProc -> Build]
      BY DEF HcTypeOK
    <3>2. hcBuild' = [hcBuild EXCEPT ![p] =
                        [hcBuild[p] EXCEPT !.at = "epoch", !.epoch = hcEpoch]]
      BY <2>1, <3>1 DEF HcBuildEpoch
    <3> DEFINE b == [hcBuild[p] EXCEPT !.at = "epoch", !.epoch = hcEpoch]
    <3>3. b \in Build /\ b.at = "epoch" /\ b.epoch = hcEpoch
      BY <3>1 DEF Build
    <3> HIDE DEF b
    <3>4. hcBuild' = [hcBuild EXCEPT ![p] = b]
      BY <3>2 DEF b
    <3> QED BY <3>1, <3>3, <3>4
  <2>2. CASE HcBuildRead(p)
    BY <2>2 DEF HcBuildRead, HcTypeOK, HcOrder, Build
  <2> QED BY <2>1, <2>2
<1>3. HcTypeOK'
  BY <1>1, <1>2 DEF HcTypeOK
<1>4. HcOrder'
  BY <1>1, <1>2 DEF HcTypeOK, HcOrder
<1>5. HcWriters'
  BY <1>1, <1>2 DEF HcTypeOK, HcOrder, HcWriters
<1>6. HcLooked' /\ StaleOnlyBySlip' /\ OwnWriteIsServed'
  BY <1>1 DEF HcLooked, HcPastLook, StaleOnlyBySlip, OwnWriteIsServed
<1> QED BY <1>3, <1>4, <1>5, <1>6

\* The comparison of the epochs, or a build that fails.
LEMMA HcBuildCheckStep ==
    ASSUME HcInv, NEW p \in HomeProc, HcBuildCheck(p) \/ HcBuildFail(p) PROVE HcInv'
<1> USE HomeCacheAssumption
<1>1. /\ UNCHANGED <<hcHome, hcEpoch, hcCache, hcAnnounced>>
      /\ hcFails' \in 0..MaxBuildFail
  BY DEF HcBuildCheck, HcBuildFail, HcInv, HcTypeOK
<1>2. CASE /\ hcBuild[p].at = "read" /\ hcEpoch = hcBuild[p].epoch
           /\ hcBuild' = [hcBuild EXCEPT ![p].at = "checked", ![p].epoch = hcEpoch]
           /\ UNCHANGED <<hcWrites, hcReplies>>
  <2>1. /\ hcBuild' \in [HomeProc -> Build]
        /\ \A q \in HomeProc : q # p => hcBuild'[q] = hcBuild[q]
        /\ hcBuild'[p].at = "checked" /\ hcBuild'[p].epoch = hcBuild[p].epoch
        /\ hcBuild'[p].home = hcBuild[p].home
    BY <1>2 DEF HcInv, HcTypeOK, Build
  <2>2. UNCHANGED <<hcWriter, hcMine, hcFound, hcWaits, hcAnswer, hcExcused>>
    BY <1>2 DEF hcWrites, hcReplies
  <2>3. HcTypeOK'
    BY <1>1, <2>1, <2>2 DEF HcInv, HcTypeOK
  <2>4. HcOrder'
    BY <1>1, <1>2, <2>1, <2>2 DEF HcInv, HcTypeOK, HcOrder
  <2>5. HcWriters'
    BY <1>1, <1>2, <2>1, <2>2 DEF HcInv, HcTypeOK, HcWriters
  <2>6. HcLooked' /\ StaleOnlyBySlip' /\ OwnWriteIsServed'
    BY <1>1, <2>2 DEF HcInv, HcLooked, HcPastLook, StaleOnlyBySlip, OwnWriteIsServed
  <2> QED BY <2>3, <2>4, <2>5, <2>6 DEF HcInv
<1>3. ASSUME NEW result \in Homes \cup {NoHome}, Ends(p, result),
             \/ result = NoHome
             \/ hcBuild[p].at \in {"read", "checked"} /\ result = hcBuild[p].home
      PROVE  HcInv'
  <2>1. /\ hcBuild' \in [HomeProc -> Build]
        /\ hcAnswer' \in [HomeWriter -> Homes \cup {NoHome}]
        /\ hcWriter' \in [HomeWriter -> {"idle", "committed", "scanned", "deleted",
                                         "bumped", "waiting", "done", "died"}]
        /\ hcWaits' \in [HomeWriter -> HomeProc \cup {NoHome}]
        /\ UNCHANGED <<hcMine, hcFound, hcExcused>>
        /\ \A w \in HomeWriter : HcPastLook(w)' => HcPastLook(w)
        /\ HcOrder' /\ HcWriters' /\ OwnWriteIsServed'
    BY <1>1, <1>3, HcEndsKeeps
  <2>2. HcTypeOK'
    BY <1>1, <2>1 DEF HcInv, HcTypeOK
  <2>3. HcLooked' /\ StaleOnlyBySlip'
    BY <1>1, <2>1 DEF HcInv, HcLooked, StaleOnlyBySlip
  <2> QED BY <2>1, <2>2, <2>3 DEF HcInv
<1>4. hcBuild[p].home \in Homes
  BY DEF HcInv, HcTypeOK, Build
<1>5. CASE HcBuildCheck(p)
  BY <1>2, <1>3, <1>4, <1>5 DEF HcBuildCheck, Result
<1>6. CASE HcBuildFail(p)
  BY <1>3, <1>6 DEF HcBuildFail
<1> QED BY <1>5, <1>6

\* The SET: a payload is unmarked only when no invalidation is past its look
\* and none has bumped the epoch since the build began.
LEMMA HcBuildStoreStep ==
    ASSUME HcInv, NEW p \in HomeProc, HcBuildStore(p) PROVE HcInv'
<1> USE HomeCacheAssumption
<1> DEFINE slipped == \/ hcEpoch # hcBuild[p].epoch
                      \/ \E w \in HomeWriter : HcPastLook(w)
           home == hcBuild[p].home
<1>1. /\ UNCHANGED <<hcHome, hcEpoch, hcAnnounced>>
      /\ hcFails' \in 0..MaxBuildFail /\ hcBuild[p].at = "checked"
  BY DEF HcBuildStore, HcInv, HcTypeOK
<1>2. hcCache' = [home |-> home, fresh |-> TRUE, slipped |-> slipped]
  BY DEF HcBuildStore, HcPastLook
<1>3. home \in Homes /\ slipped \in BOOLEAN
  BY DEF HcInv, HcTypeOK, Build
<1>4. hcCache' \in Payload /\ hcCache'.home = home /\ (hcCache'.slipped <=> slipped)
  <2> HIDE DEF slipped, home
  <2> QED BY <1>2, <1>3 DEF Payload
<1>5. PICK result \in {NoHome, home} : Ends(p, result)
  BY DEF HcBuildStore, Result
<1>6. /\ hcBuild' \in [HomeProc -> Build]
      /\ hcAnswer' \in [HomeWriter -> Homes \cup {NoHome}]
      /\ hcWriter' \in [HomeWriter -> {"idle", "committed", "scanned", "deleted",
                                       "bumped", "waiting", "done", "died"}]
      /\ hcWaits' \in [HomeWriter -> HomeProc \cup {NoHome}]
      /\ UNCHANGED <<hcMine, hcFound, hcExcused>>
      /\ \A w \in HomeWriter : HcPastLook(w)' => HcPastLook(w)
      /\ HcOrder' /\ HcWriters' /\ OwnWriteIsServed'
  BY <1>1, <1>3, <1>5, HcEndsKeeps
<1>7. HcTypeOK'
  BY <1>1, <1>4, <1>6 DEF HcInv, HcTypeOK
<1>8. HcLooked'
  BY <1>3, <1>4, <1>6 DEF HcLooked
<1>9. StaleOnlyBySlip'
  BY <1>1, <1>3, <1>4 DEF HcInv, HcTypeOK, HcOrder, StaleOnlyBySlip, Homes
<1> QED BY <1>6, <1>7, <1>8, <1>9 DEF HcInv

LEMMA HcTimeStep == ASSUME HcInv, HcAge \/ HcExpire PROVE HcInv'
<1> USE HomeCacheAssumption
<1>1. UNCHANGED <<hcHome, hcWriter, hcMine, hcFound, hcEpoch, hcBuild, hcWaits, hcAnswer,
                  hcExcused, hcFails, hcAnnounced>>
  BY DEF HcAge, HcExpire, hcWrites, hcReplies
<1>2. hcCache \in Payload /\ NoPayload \in Payload /\ NoPayload.home = NoHome
  BY DEF HcInv, HcTypeOK, NoPayload, Payload
<1>3. \/ hcCache' = NoPayload
      \/ /\ hcCache' = [hcCache EXCEPT !.fresh = FALSE] /\ hcCache.fresh
  BY DEF HcAge, HcExpire
<1>4. /\ hcCache' \in Payload
      /\ hcCache' # NoPayload => hcCache # NoPayload
      /\ hcCache' # NoPayload => /\ hcCache'.home = hcCache.home
                                 /\ hcCache'.slipped = hcCache.slipped
  <2>1. NoPayload.fresh = FALSE
    BY DEF NoPayload
  <2> QED BY <1>2, <1>3, <2>1 DEF Payload
<1>5. HcTypeOK' /\ HcOrder' /\ HcWriters' /\ OwnWriteIsServed'
  BY <1>1, <1>4 DEF HcInv, HcTypeOK, HcOrder, HcWriters, OwnWriteIsServed
<1>6. HcLooked'
  BY <1>1, <1>2, <1>4 DEF HcInv, HcLooked, HcPastLook
<1>7. StaleOnlyBySlip'
  BY <1>1, <1>4 DEF HcInv, StaleOnlyBySlip
<1> QED BY <1>5, <1>6, <1>7 DEF HcInv

LEMMA HcInvNext == HcInv /\ [HcNext]_hcVars => HcInv'
<1>1. CASE UNCHANGED hcVars
  BY <1>1 DEF HcInv, HcTypeOK, HcOrder, HcLooked, HcPastLook, HcWriters, StaleOnlyBySlip,
              OwnWriteIsServed, hcVars
<1>2. CASE HcNext
  BY <1>2, HcCommitStep, HcSetModeStep, HcLookStep, HcBumpStep, HcGetStep, HcResolveStep,
     HcBuildReadStep, HcBuildCheckStep, HcBuildStoreStep, HcTimeStep
     DEF HcNext, HcWriteStep, HcBuildStep
<1> QED BY <1>1, <1>2

LEMMA HcSpecInv == HcInit /\ [][HcNext]_hcVars => []HcInv
  BY HcInvInit, HcInvNext, PTL

\* invalidateHomeCache and storePayload, any number of writers and servers: a
\* payload older than a home that was announced is one whose SET slipped past
\* the invalidation, between the check and the bump or after the KEYS.
THEOREM CacheIsNotStale == HcInit /\ [][HcNext]_hcVars => []StaleOnlyBySlip
<1>1. HcInv => StaleOnlyBySlip
  BY DEF HcInv
<1> QED BY <1>1, HcSpecInv, PTL

\* A PUT that invalidates and then resolves the home is answered with its own
\* home or a later one, whichever rebuild it joins, outside the two races.
THEOREM WriterReadsOwnHome == HcInit /\ [][HcNext]_hcVars => []OwnWriteIsServed
<1>1. HcInv => OwnWriteIsServed
  BY DEF HcInv
<1> QED BY <1>1, HcSpecInv, PTL

(***************************************************************************)
(* HomeWrite                                                               *)
(***************************************************************************)
\* What is stored and what was recorded was committed.
HwLanded ==
    /\ hwActive \subseteq hwLanded /\ hwVersions \subseteq hwLanded
    /\ IsFiniteSet(hwLanded)
    /\ \A c \in HomeCall :
         /\ c \in hwLanded => hwStep[c] \in {"committed", "done", "failed"}
         /\ hwStep[c] = "committed" => c \in hwLanded
    /\ \A c \in HomeCall : hwRecord[IdemKey[c]] # NoRun =>
         /\ hwRecord[IdemKey[c]] \in hwLanded
         /\ IdemKey[hwRecord[IdemKey[c]]] = IdemKey[c]

\* Open transactions have met, and an open transaction has met every active run
\* that its UPDATE will not deactivate.
HwOverlaps ==
    \A c \in HomeCall : hwStep[c] \in HwOpen =>
        /\ \A d \in HomeCall \ {c} : hwStep[d] \in HwOpen => Overlapped(c, d)
        /\ \A a \in hwActive \ hwSaw[c] : Overlapped(a, c) /\ Overlapped(c, a)

\* What a call that has pruned will leave beside itself is among the runs it
\* kept, or was committed meanwhile.
HwKept ==
    \A c \in HomeCall : hwStep[c] = "pruned" =>
        \E kept \in SUBSET HomeRun :
            /\ IsFiniteSet(kept) /\ Cardinality(kept) <= HomeKeep
            /\ c \in kept \cup hwGone[c]
            /\ \A r \in hwVersions \ hwGone[c] : r \in kept \/ Overlapped(c, r)

\* What it will remove is older than as many runs as are kept.
HwRemoved ==
    \A c \in HomeCall : hwStep[c] = "pruned" =>
        \A a \in hwGone[c] :
            /\ a \in hwLanded \cup {c}
            /\ \E kept \in SUBSET ((hwLanded \cup {c}) \ {a}) :
                 /\ Cardinality(kept) = HomeKeep
                 /\ \A r \in kept : hwStamp[r] >= hwStamp[a]

HwInv ==
    /\ HwTypeOK /\ HwLanded /\ HwOverlaps /\ HwKept /\ HwRemoved
    /\ HomeIsOneWrite /\ PruningKeepsNewest /\ AnswerIsCommitted

LEMMA HwInvInit == HwInit => HwInv
<1> USE HomeWriteAssumption
<1> HAVE HwInit
<1>1. hwActive \subseteq EarlierRun /\ \A a, b \in hwActive : a = b
  BY DEF HwInit
<1>2. HwTypeOK
  BY <1>1 DEF HwInit, HwTypeOK, HomeRun, HwSteps
<1>3. HwLanded
  BY <1>1 DEF HwInit, HwLanded, IdemKeys
<1>4. HwOverlaps /\ HwKept /\ HwRemoved /\ HomeIsOneWrite /\ AnswerIsCommitted
  BY <1>1 DEF HwInit, HwOverlaps, HwOpen, HwKept, HwRemoved, HomeIsOneWrite, AnswerIsCommitted
<1>5. PruningKeepsNewest
  <2>1. ASSUME NEW runs \in SUBSET hwVersions PROVE ~(Cardinality(runs) > HomeKeep)
    <3>1. IsFiniteSet(runs) /\ Cardinality(runs) <= Cardinality(EarlierRun)
      BY FS_Subset DEF HwInit
    <3>2. Cardinality(runs) \in Nat /\ Cardinality(EarlierRun) \in Nat
      BY <3>1, FS_CardinalityType
    <3> QED BY <3>1, <3>2
  <2> QED BY <1>1, <2>1 DEF HwInit, PruningKeepsNewest
<1> QED BY <1>2, <1>3, <1>4, <1>5 DEF HwInv

\* A step of a call that touches no stored row and opens no transaction.
LEMMA HwQuietStep ==
    ASSUME HwInv, NEW c \in HomeCall, HwTypeOK',
           UNCHANGED <<hwSaw, hwGone, hwMet, hwActive, hwVersions, hwLanded>>,
           \A d \in HomeCall : d # c => hwStep'[d] = hwStep[d],
           hwStep'[c] \notin HwOpen,
           \A r \in HomeRun : r \in hwLanded \/ (r \in HomeCall /\ hwStep[r] \in HwOpen)
                                => hwStamp'[r] = hwStamp[r]
    PROVE  HwOverlaps' /\ HwKept' /\ HwRemoved' /\ HomeIsOneWrite' /\ PruningKeepsNewest'
<1> USE HomeWriteAssumption DEF HwInv
<1>0. \A d \in HomeCall : hwStep'[d] \in HwOpen => d # c /\ hwStep'[d] = hwStep[d]
  OBVIOUS
<1>1. HwOverlaps' /\ HomeIsOneWrite'
  BY <1>0 DEF HwOverlaps, HomeIsOneWrite, Overlapped
<1>2. HwKept'
  BY <1>0 DEF HwKept, HwOpen, Overlapped
<1>3. HwRemoved'
  <2> SUFFICES ASSUME NEW d \in HomeCall, hwStep'[d] = "pruned", NEW a \in hwGone'[d]
               PROVE  /\ a \in hwLanded' \cup {d}
                      /\ \E kept \in SUBSET ((hwLanded' \cup {d}) \ {a}) :
                           /\ Cardinality(kept) = HomeKeep
                           /\ \A r \in kept : hwStamp'[r] >= hwStamp'[a]
    BY DEF HwRemoved
  <2>1. hwStep[d] = "pruned" /\ a \in hwGone[d]
    BY <1>0 DEF HwOpen
  <2>2. PICK kept \in SUBSET ((hwLanded \cup {d}) \ {a}) :
           /\ Cardinality(kept) = HomeKeep
           /\ \A r \in kept : hwStamp[r] >= hwStamp[a]
    BY <2>1 DEF HwRemoved
  <2>3. \A r \in hwLanded \cup {d} : hwStamp'[r] = hwStamp[r]
    BY <2>1 DEF HwOpen, HwTypeOK, HomeRun
  <2>4. a \in hwLanded \cup {d}
    BY <2>1 DEF HwRemoved
  <2> QED BY <2>2, <2>3, <2>4
<1>4. PruningKeepsNewest'
  <2>1. \A a \in hwActive : {r \in hwLanded' \ {a} : hwStamp'[r] >= hwStamp'[a]}
                            = {r \in hwLanded \ {a} : hwStamp[r] >= hwStamp[a]}
    BY DEF HwLanded, HwTypeOK
  <2> QED BY <2>1 DEF PruningKeepsNewest, Overlapped
<1> QED BY <1>1, <1>2, <1>3, <1>4

LEMMA HwCheckStep == ASSUME HwInv, NEW c \in HomeCall, HwCheck(c) PROVE HwInv'
<1> USE HomeWriteAssumption DEF HwInv
<1> DEFINE r == hwRecord[IdemKey[c]]
<1>1. /\ UNCHANGED <<hwSaw, hwGone, hwMet, hwActive, hwVersions, hwLanded, hwRecord>>
      /\ hwStep[c] = "new"
  BY DEF HwCheck, hwTx, hwRows
<1>2. PICK to \in {"done", "conflict", "checked"} :
        /\ hwStep' = [hwStep EXCEPT ![c] = to]
        /\ \/ hwAnswer' = hwAnswer
           \/ /\ hwAnswer' = [hwAnswer EXCEPT ![c] = r]
              /\ r # NoRun /\ Body[r] = Body[c]
        /\ \/ UNCHANGED <<hwStamp, hwClock>>
           \/ /\ hwStamp' = [hwStamp EXCEPT ![c] = hwClock]
              /\ hwClock' \in {hwClock, hwClock + 1}
  BY DEF HwCheck
<1>3. r \in HomeCall \cup {NoRun} /\ c \notin hwLanded /\ c \in HomeRun
  BY <1>1 DEF HwTypeOK, IdemKeys, HwLanded, HomeRun
<1>4. HwTypeOK'
  BY <1>1, <1>2, <1>3 DEF HwTypeOK, HwSteps
<1>5. /\ \A d \in HomeCall : d # c => hwStep'[d] = hwStep[d]
      /\ hwStep'[c] \notin HwOpen /\ hwStep[c] \notin HwOpen
      /\ \A x \in HomeRun : x # c => hwStamp'[x] = hwStamp[x]
  BY <1>1, <1>2 DEF HwTypeOK, HwOpen
<1>6. HwOverlaps' /\ HwKept' /\ HwRemoved' /\ HomeIsOneWrite' /\ PruningKeepsNewest'
  BY <1>1, <1>3, <1>4, <1>5, HwQuietStep
<1>7. HwLanded'
  BY <1>1, <1>2, <1>3 DEF HwLanded, HwTypeOK
<1>8. AnswerIsCommitted'
  BY <1>1, <1>2, <1>3 DEF AnswerIsCommitted, HwLanded, HwTypeOK
<1> QED BY <1>4, <1>6, <1>7, <1>8

\* The record is saved after the commit, once.
LEMMA HwSaveStep == ASSUME HwInv, NEW c \in HomeCall, HwSave(c) PROVE HwInv'
<1> USE HomeWriteAssumption DEF HwInv
<1>1. /\ UNCHANGED <<hwSaw, hwGone, hwMet, hwActive, hwVersions, hwLanded, hwStamp, hwClock>>
      /\ hwStep[c] = "committed" /\ hwStep' = [hwStep EXCEPT ![c] = "done"]
      /\ hwAnswer' = [hwAnswer EXCEPT ![c] = c]
      /\ hwRecord' \in {hwRecord, [hwRecord EXCEPT ![IdemKey[c]] = c]}
  BY DEF HwSave, hwTx, hwRows
<1>2. c \in hwLanded
  BY <1>1 DEF HwLanded
<1>3. HwTypeOK'
  BY <1>1 DEF HwTypeOK, HwSteps, IdemKeys
<1>4. HwOverlaps' /\ HwKept' /\ HwRemoved' /\ HomeIsOneWrite' /\ PruningKeepsNewest'
  BY <1>1, <1>3, HwQuietStep DEF HwTypeOK, HwOpen
<1>5. HwLanded'
  <2>1. ASSUME NEW d \in HomeCall
        PROVE  hwRecord'[IdemKey[d]] \in {hwRecord[IdemKey[d]]}
               \/ (IdemKey[d] = IdemKey[c] /\ hwRecord'[IdemKey[d]] = c)
    BY <1>1 DEF HwTypeOK, IdemKeys
  <2> QED BY <1>1, <1>2, <2>1 DEF HwLanded, HwTypeOK
<1>6. AnswerIsCommitted'
  BY <1>1, <1>2 DEF AnswerIsCommitted, HwTypeOK
<1> QED BY <1>3, <1>4, <1>5, <1>6

LEMMA HwFailStep == ASSUME HwInv, NEW c \in HomeCall, HwFail(c) PROVE HwInv'
<1> USE HomeWriteAssumption DEF HwInv
<1>1. /\ UNCHANGED <<hwMet, hwActive, hwVersions, hwLanded, hwStamp, hwClock, hwRecord, hwAnswer>>
      /\ hwStep[c] \in {"checked", "committed"} \cup HwOpen
      /\ hwStep' = [hwStep EXCEPT ![c] = "failed"]
      /\ hwSaw' = [hwSaw EXCEPT ![c] = {}] /\ hwGone' = [hwGone EXCEPT ![c] = {}]
  BY DEF HwFail, hwRows
<1>2. HwTypeOK'
  BY <1>1 DEF HwTypeOK, HwSteps
<1>3. \A d \in HomeCall : d # c => /\ hwStep'[d] = hwStep[d] /\ hwSaw'[d] = hwSaw[d]
                                   /\ hwGone'[d] = hwGone[d]
  BY <1>1 DEF HwTypeOK
<1>4. hwStep'[c] = "failed"
  BY <1>1 DEF HwTypeOK
<1>5. HwOverlaps' /\ HomeIsOneWrite' /\ PruningKeepsNewest' /\ AnswerIsCommitted'
  BY <1>1, <1>3, <1>4 DEF HwOverlaps, HwOpen, HomeIsOneWrite, PruningKeepsNewest,
                          AnswerIsCommitted, Overlapped
<1>6. HwLanded'
  BY <1>1, <1>3, <1>4 DEF HwLanded, HwOpen
<1>7. HwKept' /\ HwRemoved'
  BY <1>1, <1>3, <1>4 DEF HwKept, HwRemoved, Overlapped
<1> QED BY <1>2, <1>5, <1>6, <1>7

\* A transaction takes its snapshot: it meets whoever is open.
LEMMA HwUpdateStep == ASSUME HwInv, NEW c \in HomeCall, HwUpdate(c) PROVE HwInv'
<1> USE HomeWriteAssumption DEF HwInv
<1> DEFINE others == {d \in HomeCall \ {c} : hwStep[d] \in HwOpen}
<1>1. /\ UNCHANGED <<hwGone, hwActive, hwVersions, hwLanded, hwStamp, hwClock, hwRecord, hwAnswer>>
      /\ hwStep[c] = "checked" /\ hwStep' = [hwStep EXCEPT ![c] = "updating"]
      /\ hwSaw' = [hwSaw EXCEPT ![c] = hwActive]
      /\ hwMet' = hwMet \cup ({c} \X others) \cup (others \X {c})
  BY DEF HwUpdate, hwRows, HwSeen
<1>2. HwTypeOK'
  BY <1>1 DEF HwTypeOK, HwSteps
<1>3. /\ \A d \in HomeCall : d # c => hwStep'[d] = hwStep[d] /\ hwSaw'[d] = hwSaw[d]
      /\ hwStep'[c] = "updating" /\ hwSaw'[c] = hwActive
  BY <1>1 DEF HwTypeOK
<1>4. /\ \A x, y : Overlapped(x, y) => <<x, y>> \in hwMet'
      /\ \A d \in others : <<c, d>> \in hwMet' /\ <<d, c>> \in hwMet'
  BY <1>1 DEF Overlapped
<1>5. HwOverlaps'
  BY <1>1, <1>3, <1>4 DEF HwOverlaps, Overlapped
<1>6. HomeIsOneWrite' /\ PruningKeepsNewest' /\ AnswerIsCommitted'
  BY <1>1, <1>4 DEF HomeIsOneWrite, PruningKeepsNewest, AnswerIsCommitted, Overlapped
<1>7. HwLanded'
  BY <1>1, <1>3 DEF HwLanded
<1>8. HwRemoved'
  BY <1>1, <1>3 DEF HwRemoved
<1>9. HwKept'
  BY <1>1, <1>3, <1>4 DEF HwKept, Overlapped
<1> QED BY <1>2, <1>5, <1>6, <1>7, <1>8, <1>9

\* The UPDATE goes on after the locks: what it deactivates is what it saw and
\* is still active.
LEMMA HwWriteStep == ASSUME HwInv, NEW c \in HomeCall, HwWrite(c) PROVE HwInv'
<1> USE HomeWriteAssumption DEF HwInv
<1>1. /\ UNCHANGED <<hwGone, hwMet, hwActive, hwVersions, hwLanded, hwStamp, hwClock, hwRecord,
                     hwAnswer>>
      /\ hwStep[c] = "updating" /\ hwStep' = [hwStep EXCEPT ![c] = "written"]
      /\ hwSaw' = [hwSaw EXCEPT ![c] = hwSaw[c] \cap hwActive]
  BY DEF HwWrite, hwRows, Deactivates
<1>2. HwTypeOK'
  BY <1>1 DEF HwTypeOK, HwSteps
<1>3. /\ \A d \in HomeCall : d # c => hwStep'[d] = hwStep[d] /\ hwSaw'[d] = hwSaw[d]
      /\ hwStep'[c] = "written" /\ hwSaw'[c] = hwSaw[c] \cap hwActive
  BY <1>1 DEF HwTypeOK
<1>4. HwOverlaps'
  BY <1>1, <1>3 DEF HwOverlaps, HwOpen, Overlapped
<1>5. HwLanded' /\ HomeIsOneWrite' /\ PruningKeepsNewest' /\ AnswerIsCommitted'
  BY <1>1, <1>3 DEF HwLanded, HomeIsOneWrite, PruningKeepsNewest, AnswerIsCommitted, Overlapped
<1>6. HwKept' /\ HwRemoved'
  BY <1>1, <1>3 DEF HwKept, HwRemoved, Overlapped
<1> QED BY <1>2, <1>4, <1>5, <1>6

\* The newest runs of a finite set: at most HomeKeep of them, and exactly as
\* many when one is left out.
LEMMA NewestSize ==
    ASSUME NEW runs, IsFiniteSet(runs), NEW kept, Newest(kept, runs)
    PROVE  /\ IsFiniteSet(kept) /\ Cardinality(kept) <= HomeKeep
           /\ kept # runs => Cardinality(kept) = HomeKeep
<1>1. kept \subseteq runs
  BY DEF Newest
<1>2. /\ IsFiniteSet(kept) /\ Cardinality(kept) <= Cardinality(runs)
      /\ Cardinality(kept) = Cardinality(runs) => kept = runs
  BY <1>1, FS_Subset
<1>3. Cardinality(kept) \in Nat /\ Cardinality(runs) \in Nat
  BY <1>2, FS_CardinalityType
<1> QED BY <1>2, <1>3, HomeWriteAssumption DEF Newest

\* What the DELETE is to remove is fixed by the runs of the moment.
LEMMA HwPruneStep == ASSUME HwInv, NEW c \in HomeCall, HwPrune(c) PROVE HwInv'
<1> USE HomeWriteAssumption DEF HwInv
<1> DEFINE runs == hwVersions \cup {c}
<1>1. /\ UNCHANGED <<hwSaw, hwMet, hwActive, hwVersions, hwLanded, hwStamp, hwClock, hwRecord,
                     hwAnswer>>
      /\ hwStep[c] = "written" /\ hwStep' = [hwStep EXCEPT ![c] = "pruned"]
  BY DEF HwPrune, hwRows
<1>2. PICK kept \in SUBSET runs :
         Newest(kept, runs) /\ hwGone' = [hwGone EXCEPT ![c] = runs \ kept]
  BY DEF HwPrune
<1>3. runs \subseteq HomeRun /\ runs \subseteq hwLanded \cup {c} /\ c \notin hwLanded
  BY <1>1 DEF HwTypeOK, HomeRun, HwLanded
<1>4. HwTypeOK'
  BY <1>1, <1>2, <1>3 DEF HwTypeOK, HwSteps
<1>5. /\ \A d \in HomeCall : d # c => hwStep'[d] = hwStep[d] /\ hwGone'[d] = hwGone[d]
      /\ hwStep'[c] = "pruned" /\ hwGone'[c] = runs \ kept
  BY <1>1, <1>2 DEF HwTypeOK
<1>6. IsFiniteSet(runs)
  BY FS_Subset, FS_AddElement DEF HwLanded
<1>7. /\ IsFiniteSet(kept) /\ Cardinality(kept) <= HomeKeep
      /\ kept # runs => Cardinality(kept) = HomeKeep
      /\ \A r \in kept, a \in runs \ kept : hwStamp[r] >= hwStamp[a]
  <2>1. \A r \in kept, a \in runs \ kept : hwStamp[r] >= hwStamp[a]
    BY <1>2 DEF Newest
  <2> QED BY <1>2, <1>6, <2>1, NewestSize
<1>8. HwOverlaps'
  BY <1>1, <1>5 DEF HwOverlaps, HwOpen, Overlapped
<1>9. HwLanded' /\ HomeIsOneWrite' /\ PruningKeepsNewest' /\ AnswerIsCommitted'
  BY <1>1, <1>5 DEF HwLanded, HomeIsOneWrite, PruningKeepsNewest, AnswerIsCommitted, Overlapped
<1>10. HwKept'
  <2>1. /\ kept \in SUBSET HomeRun /\ c \in kept \cup hwGone'[c]
        /\ \A r \in hwVersions' \ hwGone'[c] : r \in kept
    BY <1>1, <1>2, <1>3, <1>5
  <2> QED BY <1>1, <1>5, <1>7, <2>1 DEF HwKept, Overlapped
<1>11. HwRemoved'
  <2>1. ASSUME NEW a \in runs \ kept
        PROVE  /\ a \in hwLanded \cup {c}
               /\ kept \in SUBSET ((hwLanded \cup {c}) \ {a})
               /\ Cardinality(kept) = HomeKeep
    BY <1>2, <1>3, <1>7
  <2> QED BY <1>1, <1>5, <1>7, <2>1 DEF HwRemoved
<1> QED BY <1>4, <1>8, <1>9, <1>10, <1>11

\* The commit: the run takes the place of those it deactivates, and the runs
\* that it removes are older than those it leaves.
LEMMA HwCommitStep == ASSUME HwInv, NEW c \in HomeCall, HwCommit(c) PROVE HwInv'
<1> USE HomeWriteAssumption DEF HwInv
<1>1. /\ UNCHANGED <<hwMet, hwStamp, hwClock, hwRecord, hwAnswer>>
      /\ hwStep[c] = "pruned" /\ hwStep' = [hwStep EXCEPT ![c] = "committed"]
      /\ hwActive' = (hwActive \ hwSaw[c]) \cup {c}
      /\ hwVersions' = (hwVersions \cup {c}) \ hwGone[c]
      /\ hwLanded' = hwLanded \cup {c}
      /\ hwSaw' = [hwSaw EXCEPT ![c] = {}] /\ hwGone' = [hwGone EXCEPT ![c] = {}]
  BY DEF HwCommit
<1>2. HwTypeOK'
  BY <1>1 DEF HwTypeOK, HwSteps, HomeRun
<1>3. /\ \A d \in HomeCall : d # c => /\ hwStep'[d] = hwStep[d] /\ hwSaw'[d] = hwSaw[d]
                                      /\ hwGone'[d] = hwGone[d]
      /\ hwStep'[c] = "committed"
  BY <1>1 DEF HwTypeOK
<1>4. /\ \A d \in HomeCall \ {c} : hwStep[d] \in HwOpen => Overlapped(c, d) /\ Overlapped(d, c)
      /\ \A a \in hwActive \ hwSaw[c] : Overlapped(a, c) /\ Overlapped(c, a)
  BY <1>1 DEF HwOverlaps, HwOpen
<1>5. HwOverlaps'
  BY <1>1, <1>3, <1>4 DEF HwOverlaps, HwOpen, Overlapped
<1>6. HwLanded'
  <2>1. IsFiniteSet(hwLanded')
    BY <1>1, FS_AddElement DEF HwLanded
  <2> QED BY <1>1, <1>3, <2>1 DEF HwLanded
<1>7. HwKept'
  BY <1>1, <1>3, <1>4 DEF HwKept, HwOpen, Overlapped
<1>8. HwRemoved'
  <2> SUFFICES ASSUME NEW d \in HomeCall, hwStep'[d] = "pruned", NEW a \in hwGone'[d]
               PROVE  /\ a \in hwLanded' \cup {d}
                      /\ \E kept \in SUBSET ((hwLanded' \cup {d}) \ {a}) :
                           /\ Cardinality(kept) = HomeKeep
                           /\ \A r \in kept : hwStamp'[r] >= hwStamp'[a]
    BY DEF HwRemoved
  <2>1. hwStep[d] = "pruned" /\ a \in hwGone[d]
    BY <1>3
  <2>2. PICK kept \in SUBSET ((hwLanded \cup {d}) \ {a}) :
           /\ Cardinality(kept) = HomeKeep
           /\ \A r \in kept : hwStamp[r] >= hwStamp[a]
    BY <2>1 DEF HwRemoved
  <2>3. a \in hwLanded \cup {d}
    BY <2>1 DEF HwRemoved
  <2> QED BY <1>1, <2>2, <2>3
<1>9. HomeIsOneWrite'
  BY <1>1, <1>4 DEF HomeIsOneWrite, Overlapped
<1>10. AnswerIsCommitted'
  BY <1>1 DEF AnswerIsCommitted
<1>11. ASSUME NEW runs \in SUBSET hwVersions', Cardinality(runs) > HomeKeep
       PROVE  \E a, b \in runs : Overlapped(a, b)
  <2>1. CASE c \notin runs
    BY <1>1, <1>11, <2>1 DEF PruningKeepsNewest
  <2>2. CASE c \in runs
    <3>1. PICK kept \in SUBSET HomeRun :
            /\ IsFiniteSet(kept) /\ Cardinality(kept) <= HomeKeep
            /\ c \in kept \cup hwGone[c]
            /\ \A r \in hwVersions \ hwGone[c] : r \in kept \/ Overlapped(c, r)
      BY <1>1 DEF HwKept
    <3>2. PICK r \in runs : r \notin kept
      <4> SUFFICES ASSUME runs \subseteq kept PROVE FALSE
        OBVIOUS
      <4>1. IsFiniteSet(runs) /\ Cardinality(runs) <= Cardinality(kept)
        BY <3>1, FS_Subset
      <4>2. Cardinality(runs) \in Nat /\ Cardinality(kept) \in Nat
        BY <3>1, <4>1, FS_CardinalityType
      <4> QED BY <1>11, <3>1, <4>1, <4>2
    <3>3. Overlapped(c, r)
      BY <1>1, <2>2, <3>1, <3>2
    <3> QED BY <2>2, <3>3
  <2> QED BY <2>1, <2>2
<1>12. ASSUME NEW a \in hwActive' \ hwVersions'
       PROVE  Cardinality({r \in hwLanded' \ {a} : hwStamp'[r] >= hwStamp'[a]}) >= HomeKeep
  <2> DEFINE later == {r \in hwLanded' \ {a} : hwStamp'[r] >= hwStamp'[a]}
  <2>1. IsFiniteSet(later)
    BY <1>6, FS_Subset DEF HwLanded
  <2>2. PICK kept : kept \subseteq later /\ Cardinality(kept) >= HomeKeep
    <3>1. CASE a \in hwGone[c]
      <4>1. PICK kept \in SUBSET ((hwLanded \cup {c}) \ {a}) :
               /\ Cardinality(kept) = HomeKeep
               /\ \A r \in kept : hwStamp[r] >= hwStamp[a]
        BY <1>1, <3>1 DEF HwRemoved
      <4>2. kept \subseteq later /\ Cardinality(kept) >= HomeKeep
        BY <1>1, <4>1
      <4> QED BY <4>2
    <3>2. CASE a \notin hwGone[c]
      <4>1. a \in hwActive \ hwVersions
        BY <1>1, <3>2
      <4>2. Cardinality({r \in hwLanded \ {a} : hwStamp[r] >= hwStamp[a]}) >= HomeKeep
        BY <4>1 DEF PruningKeepsNewest
      <4>3. {r \in hwLanded \ {a} : hwStamp[r] >= hwStamp[a]} \subseteq later
        BY <1>1
      <4> QED BY <4>2, <4>3
    <3> QED BY <3>1, <3>2
  <2> HIDE DEF later
  <2>3. Cardinality(kept) <= Cardinality(later) /\ IsFiniteSet(kept)
    BY <2>1, <2>2, FS_Subset
  <2>4. Cardinality(kept) \in Nat /\ Cardinality(later) \in Nat
    BY <2>1, <2>3, FS_CardinalityType
  <2>5. Cardinality(later) >= HomeKeep
    BY <2>2, <2>3, <2>4
  <2> QED BY <2>5 DEF later
<1>13. PruningKeepsNewest'
  <2>1. \A runs \in SUBSET hwVersions' : Cardinality(runs) > HomeKeep =>
           \E a, b \in runs : Overlapped(a, b)'
    BY <1>1, <1>11 DEF Overlapped
  <2> QED BY <1>12, <2>1 DEF PruningKeepsNewest, Overlapped
<1> QED BY <1>2, <1>5, <1>6, <1>7, <1>8, <1>9, <1>10, <1>13

LEMMA HwInvNext == HwInv /\ [HwNext]_hwVars => HwInv'
<1> HAVE HwInv /\ [HwNext]_hwVars
<1>1. CASE UNCHANGED hwVars
  <2>1. UNCHANGED <<hwStep, hwSaw, hwGone, hwActive, hwVersions, hwStamp, hwClock, hwRecord,
                    hwAnswer, hwLanded, hwMet>>
    BY <1>1 DEF hwVars
  <2>2. HwTypeOK' /\ HwLanded' /\ HwOverlaps' /\ HomeIsOneWrite' /\ AnswerIsCommitted'
    BY <2>1 DEF HwInv, HwTypeOK, HwLanded, HwOverlaps, HomeIsOneWrite, AnswerIsCommitted,
                Overlapped
  <2>3. HwKept'
    BY <2>1 DEF HwInv, HwKept, Overlapped
  <2>4. HwRemoved'
    BY <2>1 DEF HwInv, HwRemoved
  <2>5. PruningKeepsNewest'
    BY <2>1 DEF HwInv, PruningKeepsNewest, Overlapped
  <2> QED BY <2>2, <2>3, <2>4, <2>5 DEF HwInv
<1>2. CASE HwNext
  BY <1>2, HwCheckStep, HwUpdateStep, HwWriteStep, HwPruneStep, HwCommitStep, HwSaveStep,
     HwFailStep DEF HwNext
<1> QED BY <1>1, <1>2

LEMMA HwSpecInv == HwSpec => []HwInv
  BY HwInvInit, HwInvNext, PTL DEF HwSpec

\* Whole-home writes in READ COMMITTED, any number at once: rails of two runs
\* are served side by side only if the two transactions overlapped.
THEOREM HomeComesFromOneWrite == HwSpec => []HomeIsOneWrite
  BY HwSpecInv, PTL DEF HwInv

\* pruneSnapshots, for any number of runs kept: runs beyond it stay only where
\* writes overlapped, and an active run loses its rails only to as many runs
\* stamped no earlier.
THEOREM PruneKeepsNewest == HwSpec => []PruningKeepsNewest
  BY HwSpecInv, PTL DEF HwInv

\* The idempotency record answers only with committed runs of the same key and
\* body, whatever fails between the commit and the record.
THEOREM RecordedAnswersAreCommitted == HwSpec => []AnswerIsCommitted
  BY HwSpecInv, PTL DEF HwInv

=============================================================================
