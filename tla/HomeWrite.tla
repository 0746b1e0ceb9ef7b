------------------------------ MODULE HomeWrite ------------------------------
(***************************************************************************)
(* Whole-home writes of one source of one profile                          *)
(* (DefaultHomeWriteService.writeHome and HomeListsRepo).                  *)
(*                                                                         *)
(* A call answers from the idempotency record, or writes its rails in one  *)
(* READ COMMITTED transaction: deactivate what the UPDATE sees, insert the *)
(* new rows, prune all but the newest runs.  The record is saved after the *)
(* commit, in a statement of its own.  Rail ids are fresh UUIDs, so a run  *)
(* stands for all of its rails, and the run of a call is named by the      *)
(* call.                                                                   *)
(***************************************************************************)
EXTENDS Naturals, FiniteSets

CONSTANTS
    HomeCall,     \* calls of writeHome; a retry is a call with the same key
    EarlierRun,   \* runs committed before, by writes that did not overlap
    IdemKey,      \* IdemKey[c]: the Idempotency-Key of call c
    Body,         \* Body[c]: the hash of its request
    HomeKeep,     \* runs kept by pruneSnapshots
    NoRun

ASSUME HomeWriteAssumption ==
    /\ HomeCall \cap EarlierRun = {}
    /\ NoRun \notin HomeCall \cup EarlierRun
    /\ HomeKeep \in Nat \ {0}
    /\ IsFiniteSet(EarlierRun) /\ Cardinality(EarlierRun) <= HomeKeep

HomeRun == HomeCall \cup EarlierRun
IdemKeys == {IdemKey[c] : c \in HomeCall}

VARIABLES
    hwStep,       \* hwStep[c]: where call c is
    hwSaw,        \* hwSaw[c]: active runs in the snapshot of its UPDATE
    hwGone,       \* hwGone[c]: runs its DELETE removes
    hwActive,     \* runs with an undeleted row in recommendation_active_lists
    hwVersions,   \* runs with rows in recommendation_list_versions
    hwStamp,      \* created_at of each run
    hwClock,
    hwRecord,     \* the run in the idempotency record of a key, or NoRun
    hwAnswer,     \* the run a call was answered with (observation)
    hwLanded,     \* runs committed (observation)
    hwMet         \* pairs of runs whose transactions overlapped (observation)

hwTx == <<hwSaw, hwGone, hwMet>>
hwRows == <<hwActive, hwVersions, hwLanded>>
hwVars == <<hwStep, hwSaw, hwGone, hwActive, hwVersions, hwStamp, hwClock,
            hwRecord, hwAnswer, hwLanded, hwMet>>

HwSteps == {"new", "checked", "updating", "written", "pruned", "committed",
            "done", "conflict", "failed"}
HwOpen == {"updating", "written", "pruned"}

HwTypeOK ==
    /\ hwStep \in [HomeCall -> HwSteps]
    /\ hwSaw \in [HomeCall -> SUBSET HomeRun]
    /\ hwGone \in [HomeCall -> SUBSET HomeRun]
    /\ hwActive \subseteq HomeRun
    /\ hwVersions \subseteq HomeRun
    /\ hwStamp \in [HomeRun -> Nat]
    /\ hwClock \in Nat
    /\ hwRecord \in [IdemKeys -> HomeCall \cup {NoRun}]
    /\ hwAnswer \in [HomeCall -> HomeCall \cup {NoRun}]
    /\ hwLanded \subseteq HomeRun
    /\ hwMet \subseteq HomeCall \X HomeCall

\* One of the earlier runs, if any, is active, the others are kept as versions.
HwInit ==
    /\ hwStep = [c \in HomeCall |-> "new"]
    /\ hwSaw = [c \in HomeCall |-> {}]
    /\ hwGone = [c \in HomeCall |-> {}]
    /\ hwActive = IF EarlierRun = {} THEN {} ELSE {CHOOSE r \in EarlierRun : TRUE}
    /\ hwVersions = EarlierRun
    /\ hwStamp = [r \in HomeRun |-> 0]
    /\ hwClock = 1
    /\ hwRecord = [k \in IdemKeys |-> NoRun]
    /\ hwAnswer = [c \in HomeCall |-> NoRun]
    /\ hwLanded = EarlierRun
    /\ hwMet = {}

-----------------------------------------------------------------------------
HwCheckKeyOnly(c) ==     \* the request hash is not compared (mutant)
    /\ hwStep[c] = "new"
    /\ LET r == hwRecord[IdemKey[c]] IN
       \/ /\ r # NoRun
          /\ hwStep' = [hwStep EXCEPT ![c] = "done"]
          /\ hwAnswer' = [hwAnswer EXCEPT ![c] = r]
          /\ UNCHANGED <<hwStamp, hwClock>>
       \/ /\ r = NoRun
          /\ hwStep' = [hwStep EXCEPT ![c] = "checked"]
          /\ hwStamp' = [hwStamp EXCEPT ![c] = hwClock]
          /\ hwClock' \in {hwClock, hwClock + 1}
          /\ UNCHANGED hwAnswer
    /\ UNCHANGED <<hwTx, hwRows, hwRecord>>

\* The record of the key: replay it, refuse another body under the same key,
\* or go on.  The stamp is taken here, before the rails are normalized; two
\* calls may get the same millisecond.
HwCheck(c) ==
    /\ hwStep[c] = "new"
    /\ LET r == hwRecord[IdemKey[c]] IN
       \/ /\ r # NoRun
          /\ Body[r] = Body[c]
          /\ hwStep' = [hwStep EXCEPT ![c] = "done"]
          /\ hwAnswer' = [hwAnswer EXCEPT ![c] = r]
          /\ UNCHANGED <<hwStamp, hwClock>>
       \/ /\ r # NoRun
          /\ Body[r] # Body[c]
          /\ hwStep' = [hwStep EXCEPT ![c] = "conflict"]
          /\ UNCHANGED <<hwAnswer, hwStamp, hwClock>>
       \/ /\ r = NoRun
          /\ hwStep' = [hwStep EXCEPT ![c] = "checked"]
          /\ hwStamp' = [hwStamp EXCEPT ![c] = hwClock]
          /\ hwClock' \in {hwClock, hwClock + 1}
          /\ UNCHANGED hwAnswer
    /\ UNCHANGED <<hwTx, hwRows, hwRecord>>

\* The statement takes its snapshot: rows another transaction inserts from
\* now on are not in it, even if the statement then waits for that one.
HwSeenOfPayload == {}    \* only rails the payload names: none, ids are fresh (mutant)
HwSeen == hwActive
HwUpdate(c) ==
    /\ hwStep[c] = "checked"
    /\ hwStep' = [hwStep EXCEPT ![c] = "updating"]
    /\ hwSaw' = [hwSaw EXCEPT ![c] = HwSeen]
    /\ LET others == {d \in HomeCall \ {c} : hwStep[d] \in HwOpen}
       IN  hwMet' = hwMet \cup ({c} \X others) \cup (others \X {c})
    /\ UNCHANGED <<hwGone, hwRows, hwStamp, hwClock, hwRecord, hwAnswer>>

\* The UPDATE waits for the row locks of other open transactions, then
\* re-evaluates its WHERE on the rows it waited for; the INSERTs follow.
Deactivates(c) == hwSaw[c] \cap hwActive
HwWrite(c) ==
    /\ hwStep[c] = "updating"
    /\ \A d \in HomeCall \ {c} :
         hwStep[d] \in {"written", "pruned"} => hwSaw[d] \cap Deactivates(c) = {}
    /\ hwStep' = [hwStep EXCEPT ![c] = "written"]
    /\ hwSaw' = [hwSaw EXCEPT ![c] = Deactivates(c)]
    /\ UNCHANGED <<hwGone, hwMet, hwRows, hwStamp, hwClock, hwRecord, hwAnswer>>

NewestOfAny(kept, runs) ==     \* LIMIT without the ORDER BY (mutant)
    /\ kept \subseteq runs
    /\ Cardinality(kept) = IF Cardinality(runs) < HomeKeep
                           THEN Cardinality(runs) ELSE HomeKeep

Newest(kept, runs) ==
    /\ kept \subseteq runs
    /\ Cardinality(kept) = IF Cardinality(runs) < HomeKeep
                           THEN Cardinality(runs) ELSE HomeKeep
    /\ \A r \in kept, s \in runs \ kept : hwStamp[r] >= hwStamp[s]

HwPrune(c) ==
    /\ hwStep[c] = "written"
    /\ LET runs == hwVersions \cup {c} IN
       \E kept \in SUBSET runs :
         /\ Newest(kept, runs)
         /\ hwGone' = [hwGone EXCEPT ![c] = runs \ kept]
    /\ hwStep' = [hwStep EXCEPT ![c] = "pruned"]
    /\ UNCHANGED <<hwSaw, hwMet, hwRows, hwStamp, hwClock, hwRecord, hwAnswer>>

HwCommit(c) ==
    /\ hwStep[c] = "pruned"
    /\ hwActive' = (hwActive \ hwSaw[c]) \cup {c}
    /\ hwVersions' = (hwVersions \cup {c}) \ hwGone[c]
    /\ hwLanded' = hwLanded \cup {c}
    /\ hwStep' = [hwStep EXCEPT ![c] = "committed"]
    /\ hwSaw' = [hwSaw EXCEPT ![c] = {}]
    /\ hwGone' = [hwGone EXCEPT ![c] = {}]
    /\ UNCHANGED <<hwMet, hwStamp, hwClock, hwRecord, hwAnswer>>

\* ON CONFLICT DO NOTHING: the first record of a key stands.
HwSave(c) ==
    /\ hwStep[c] = "committed"
    /\ hwStep' = [hwStep EXCEPT ![c] = "done"]
    /\ hwAnswer' = [hwAnswer EXCEPT ![c] = c]
    /\ hwRecord' = IF hwRecord[IdemKey[c]] = NoRun
                   THEN [hwRecord EXCEPT ![IdemKey[c]] = c] ELSE hwRecord
    /\ UNCHANGED <<hwTx, hwRows, hwStamp, hwClock>>

\* The process dies, a statement fails, or (once committed) Redis does not
\* take the invalidation: the caller gets an error and no record is saved.
HwFail(c) ==
    /\ hwStep[c] \in {"checked", "committed"} \cup HwOpen
    /\ hwStep' = [hwStep EXCEPT ![c] = "failed"]
    /\ hwSaw' = [hwSaw EXCEPT ![c] = {}]
    /\ hwGone' = [hwGone EXCEPT ![c] = {}]
    /\ UNCHANGED <<hwMet, hwRows, hwStamp, hwClock, hwRecord, hwAnswer>>

HwNext ==
    \E c \in HomeCall :
        \/ HwCheck(c) \/ HwUpdate(c) \/ HwWrite(c) \/ HwPrune(c)
        \/ HwCommit(c) \/ HwSave(c) \/ HwFail(c)

HwSpec == HwInit /\ [][HwNext]_hwVars

-----------------------------------------------------------------------------
Overlapped(a, b) == <<a, b>> \in hwMet

\* Two runs are served side by side only when their transactions overlapped:
\* a write that overlaps no other leaves a home made of its own rails alone.
HomeIsOneWrite ==
    \A a, b \in hwActive : a # b => Overlapped(a, b)

\* Pruning keeps the newest runs.  Of any three runs whose rails are still
\* stored two overlapped; and an active run loses its rails, which empties the
\* home, only if as many runs as are kept were stamped no earlier and committed:
\* a write that took its stamp was overtaken while it normalized its rails.
PruningKeepsNewest ==
    /\ \A runs \in SUBSET hwVersions : Cardinality(runs) > HomeKeep =>
          \E a, b \in runs : Overlapped(a, b)
    /\ \A a \in hwActive \ hwVersions :
          Cardinality({r \in hwLanded \ {a} : hwStamp[r] >= hwStamp[a]}) >= HomeKeep

\* A call is answered with a run that was committed, under its own key and
\* for its own body, whatever failed between the commit and the record.
AnswerIsCommitted ==
    \A c \in HomeCall : hwAnswer[c] # NoRun =>
        /\ hwAnswer[c] \in hwLanded
        /\ IdemKey[hwAnswer[c]] = IdemKey[c]
        /\ Body[hwAnswer[c]] = Body[c]
==============================================================================
