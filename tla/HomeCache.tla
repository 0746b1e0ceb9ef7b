------------------------------ MODULE HomeCache ------------------------------
(***************************************************************************)
(* The rendered home of one profile in Redis (HomeResolverService and      *)
(* home-cache): writers that commit a home and invalidate, builders that   *)
(* render it, GETs that serve stale while they revalidate.                 *)
(*                                                                         *)
(* A home is named by how many changes it includes, so a payload rendered  *)
(* from home v is out of date when the database is past v.  One key stands *)
(* for the locales of the profile.  The queries of a build count as one    *)
(* read.                                                                   *)
(***************************************************************************)
EXTENDS Naturals

CONSTANTS
    HomeProc,     \* server processes, each with its inFlightHomes map
    HomeWriter,   \* PUTs of a home, each followed by resolveHome
    MaxHome,      \* bound on changes of the home
    MaxBuildFail, \* bound on builds that fail
    NoHome

ASSUME HomeCacheAssumption ==
    /\ NoHome \notin Nat
    /\ NoHome \notin HomeProc
    /\ MaxHome \in Nat /\ MaxBuildFail \in Nat

VARIABLES
    hcHome,       \* the home in the database
    hcWriter,     \* hcWriter[w]: where the write is
    hcMine,       \* hcMine[w]: the home w committed
    hcFound,      \* hcFound[w]: KEYS listed the payload
    hcEpoch,      \* home:epoch:<profile>
    hcCache,      \* the payload key
    hcBuild,      \* hcBuild[p]: the rebuild in flight at p
    hcWaits,      \* hcWaits[w]: the process whose rebuild w awaits
    hcAnswer,     \* hcAnswer[w]: the home w's resolveHome returned
    hcFails,
    hcAnnounced,  \* homes whose invalidation has ended (observation)
    hcExcused     \* writers whose answer a race may have aged (observation)

hcVars == <<hcHome, hcWriter, hcMine, hcFound, hcEpoch, hcCache, hcBuild,
            hcWaits, hcAnswer, hcFails, hcAnnounced, hcExcused>>
hcWrites == <<hcWriter, hcMine, hcFound>>
hcReplies == <<hcWaits, hcAnswer, hcExcused>>

Homes == 0..MaxHome
Payload == [home : Homes \cup {NoHome}, fresh : BOOLEAN, slipped : BOOLEAN]
NoPayload == [home |-> NoHome, fresh |-> FALSE, slipped |-> FALSE]
Build == [at : {"none", "started", "epoch", "read", "checked"},
          back : BOOLEAN, epoch : Nat, home : Homes]
NoBuild == [at |-> "none", back |-> FALSE, epoch |-> 0, home |-> 0]

HcTypeOK ==
    /\ hcHome \in Homes
    /\ hcWriter \in [HomeWriter -> {"idle", "committed", "scanned", "deleted",
                                    "bumped", "waiting", "done", "died"}]
    /\ hcMine \in [HomeWriter -> Homes]
    /\ hcFound \in [HomeWriter -> BOOLEAN]
    /\ hcEpoch \in Nat
    /\ hcCache \in Payload
    /\ hcBuild \in [HomeProc -> Build]
    /\ hcWaits \in [HomeWriter -> HomeProc \cup {NoHome}]
    /\ hcAnswer \in [HomeWriter -> Homes \cup {NoHome}]
    /\ hcFails \in 0..MaxBuildFail
    /\ hcAnnounced \subseteq Homes
    /\ hcExcused \subseteq HomeWriter

HcInit ==
    /\ hcHome = 0
    /\ hcWriter = [w \in HomeWriter |-> "idle"]
    /\ hcMine = [w \in HomeWriter |-> 0]
    /\ hcFound = [w \in HomeWriter |-> FALSE]
    /\ hcEpoch = 0
    /\ hcCache = NoPayload
    /\ hcBuild = [p \in HomeProc |-> NoBuild]
    /\ hcWaits = [w \in HomeWriter |-> NoHome]
    /\ hcAnswer = [w \in HomeWriter |-> NoHome]
    /\ hcFails = 0
    /\ hcAnnounced = {0}
    /\ hcExcused = {}

-----------------------------------------------------------------------------
(* Writers: commit, then invalidateHomeCache in three commands. *)

HcMove(w, from, to) ==
    /\ hcWriter[w] = from
    /\ hcWriter' = [hcWriter EXCEPT ![w] = to]

HcCommit(w) ==
    /\ hcHome < MaxHome
    /\ HcMove(w, "idle", "committed")
    /\ hcHome' = hcHome + 1
    /\ hcMine' = [hcMine EXCEPT ![w] = hcHome + 1]
    /\ UNCHANGED <<hcFound, hcEpoch, hcCache, hcBuild, hcReplies, hcFails,
                   hcAnnounced>>

HcScan(w) ==
    /\ HcMove(w, "committed", "scanned")
    /\ hcFound' = [hcFound EXCEPT ![w] = hcCache # NoPayload]
    /\ UNCHANGED <<hcHome, hcMine, hcEpoch, hcCache, hcBuild, hcReplies,
                   hcFails, hcAnnounced>>

HcDelLegacyOnly(w) ==      \* deletes home:<profile> alone (mutant)
    /\ HcMove(w, "scanned", "deleted")
    /\ UNCHANGED <<hcHome, hcMine, hcFound, hcEpoch, hcCache, hcBuild,
                   hcReplies, hcFails, hcAnnounced>>

\* Only the keys that the scan listed are deleted.
HcDel(w) ==
    /\ HcMove(w, "scanned", "deleted")
    /\ hcCache' = IF hcFound[w] THEN NoPayload ELSE hcCache
    /\ UNCHANGED <<hcHome, hcMine, hcFound, hcEpoch, hcBuild, hcReplies,
                   hcFails, hcAnnounced>>

HcBump(w) ==
    /\ HcMove(w, "deleted", "bumped")
    /\ hcEpoch' = hcEpoch + 1
    /\ hcAnnounced' = hcAnnounced \cup {hcMine[w]}
    /\ UNCHANGED <<hcHome, hcMine, hcFound, hcCache, hcBuild, hcReplies,
                   hcFails>>

\* The process dies or Redis refuses a command after the commit: nothing
\* repeats the invalidation.
HcWriterDies(w) ==
    /\ hcWriter[w] \in {"committed", "scanned", "deleted"}
    /\ hcWriter' = [hcWriter EXCEPT ![w] = "died"]
    /\ UNCHANGED <<hcHome, hcMine, hcFound, hcEpoch, hcCache, hcBuild,
                   hcReplies, hcFails, hcAnnounced>>

\* setMode switches what the home shows and does not invalidate.
HcSetMode ==
    /\ hcHome < MaxHome
    /\ hcHome' = hcHome + 1
    /\ UNCHANGED <<hcWrites, hcEpoch, hcCache, hcBuild, hcReplies, hcFails,
                   hcAnnounced>>

-----------------------------------------------------------------------------
(* resolveHome *)

Free(p) == hcBuild[p].at = "none"
Starts(p, back) ==
    hcBuild' = [hcBuild EXCEPT ![p] = [at |-> "started", back |-> back,
                                       epoch |-> 0, home |-> 0]]
NoRefreshAfter(p) == UNCHANGED hcBuild     \* no background refresh (mutant)
\* A payload past freshSeconds is served and refreshed in the background.
RefreshAfter(p) ==
    IF ~hcCache.fresh /\ Free(p) THEN Starts(p, TRUE) ELSE UNCHANGED hcBuild

\* A GET of a client whose answer does not matter here.
HcGet(p) ==
    /\ \/ hcCache # NoPayload /\ RefreshAfter(p)
       \/ hcCache = NoPayload /\ Free(p) /\ Starts(p, FALSE)
    /\ UNCHANGED <<hcHome, hcWrites, hcEpoch, hcCache, hcReplies, hcFails,
                   hcAnnounced>>

\* The PUT of w resolves the home at its own process p: from the cache, from
\* the rebuild it joins, or from one it starts.
HcResolve(w, p) ==
    /\ \/ /\ hcCache # NoPayload
          /\ RefreshAfter(p)
          /\ HcMove(w, "bumped", "done")
          /\ hcAnswer' = [hcAnswer EXCEPT ![w] = hcCache.home]
          /\ hcExcused' = IF hcCache.slipped THEN hcExcused \cup {w}
                          ELSE hcExcused
          /\ UNCHANGED hcWaits
       \/ /\ hcCache = NoPayload
          /\ IF Free(p) THEN Starts(p, FALSE) ELSE UNCHANGED hcBuild
          /\ HcMove(w, "bumped", "waiting")
          /\ hcWaits' = [hcWaits EXCEPT ![w] = p]
          /\ hcExcused' = IF hcBuild[p].at \notin {"none", "started"}
                             /\ hcBuild[p].epoch # hcEpoch
                          THEN hcExcused \cup {w} ELSE hcExcused
          /\ UNCHANGED hcAnswer
    /\ UNCHANGED <<hcHome, hcMine, hcFound, hcEpoch, hcCache, hcFails,
                   hcAnnounced>>

-----------------------------------------------------------------------------
(* rebuild *)

HcBuildEpoch(p) ==
    /\ hcBuild[p].at = "started"
    /\ hcBuild' = [hcBuild EXCEPT ![p].at = "epoch", ![p].epoch = hcEpoch]
    /\ UNCHANGED <<hcHome, hcWrites, hcEpoch, hcCache, hcReplies, hcFails,
                   hcAnnounced>>

HcBuildRead(p) ==
    /\ hcBuild[p].at = "epoch"
    /\ hcBuild' = [hcBuild EXCEPT ![p].at = "read", ![p].home = hcHome]
    /\ UNCHANGED <<hcHome, hcWrites, hcEpoch, hcCache, hcReplies, hcFails,
                   hcAnnounced>>

\* The slot is freed and those who await the promise are answered; the
\* promise of a background refresh resolves to undefined.
Ends(p, result) ==
    LET waiting == {w \in HomeWriter : hcWaits[w] = p} IN
    /\ hcBuild' = [hcBuild EXCEPT ![p] = NoBuild]
    /\ hcAnswer' = [w \in HomeWriter |->
                      IF w \in waiting THEN result ELSE hcAnswer[w]]
    /\ hcWriter' = [w \in HomeWriter |->
                      IF w \in waiting THEN "done" ELSE hcWriter[w]]
    /\ hcWaits' = [w \in HomeWriter |->
                      IF w \in waiting THEN NoHome ELSE hcWaits[w]]
    /\ UNCHANGED <<hcMine, hcFound, hcExcused>>
Result(p) == IF hcBuild[p].back THEN NoHome ELSE hcBuild[p].home

HcBuildCheckNot(p) ==      \* the epoch is not compared (mutant)
    /\ hcBuild[p].at = "read"
    /\ hcBuild' = [hcBuild EXCEPT ![p].at = "checked", ![p].epoch = hcEpoch]
    /\ UNCHANGED <<hcHome, hcWrites, hcEpoch, hcCache, hcReplies, hcFails,
                   hcAnnounced>>

\* A write that ended since the build began: the payload is not stored.
HcBuildCheck(p) ==
    /\ hcBuild[p].at = "read"
    /\ \/ /\ hcEpoch = hcBuild[p].epoch
          /\ hcBuild' = [hcBuild EXCEPT ![p].at = "checked",
                                         ![p].epoch = hcEpoch]
          /\ UNCHANGED <<hcWrites, hcReplies>>
       \/ /\ hcEpoch # hcBuild[p].epoch
          /\ Ends(p, Result(p))
    /\ UNCHANGED <<hcHome, hcEpoch, hcCache, hcFails, hcAnnounced>>

\* The check and the SET are two commands: the SET slips past an invalidation
\* that bumped the epoch in between, or is past its own look at the keys.  The
\* publish that follows may fail, with the payload stored.
HcBuildStore(p) ==
    /\ hcBuild[p].at = "checked"
    /\ LET pastLook(w) == \/ hcWriter[w] = "deleted"
                          \/ hcWriter[w] = "scanned" /\ ~hcFound[w]
       IN  hcCache' = [home |-> hcBuild[p].home, fresh |-> TRUE,
                       slipped |-> \/ hcEpoch # hcBuild[p].epoch
                                   \/ \E w \in HomeWriter : pastLook(w)]
    /\ \/ Ends(p, Result(p)) /\ UNCHANGED hcFails
       \/ hcFails < MaxBuildFail /\ hcFails' = hcFails + 1 /\ Ends(p, NoHome)
    /\ UNCHANGED <<hcHome, hcEpoch, hcAnnounced>>

HcBuildFail(p) ==
    /\ hcBuild[p].at # "none"
    /\ hcFails < MaxBuildFail
    /\ hcFails' = hcFails + 1
    /\ Ends(p, NoHome)
    /\ UNCHANGED <<hcHome, hcEpoch, hcCache, hcAnnounced>>

\* freshSeconds, then staleSeconds, pass.
HcAge ==
    /\ hcCache.fresh
    /\ hcCache' = [hcCache EXCEPT !.fresh = FALSE]
    /\ UNCHANGED <<hcHome, hcWrites, hcEpoch, hcBuild, hcReplies, hcFails,
                   hcAnnounced>>
HcExpire ==
    /\ hcCache # NoPayload /\ ~hcCache.fresh
    /\ hcCache' = NoPayload
    /\ UNCHANGED <<hcHome, hcWrites, hcEpoch, hcBuild, hcReplies, hcFails,
                   hcAnnounced>>

HcWriteStep(w) ==
    \/ HcCommit(w) \/ HcScan(w) \/ HcDel(w) \/ HcBump(w) \/ HcWriterDies(w)
    \/ \E p \in HomeProc : HcResolve(w, p)
HcBuildStep(p) ==
    HcBuildEpoch(p) \/ HcBuildRead(p) \/ HcBuildCheck(p) \/ HcBuildStore(p)
HcNext ==
    \/ \E w \in HomeWriter : HcWriteStep(w)
    \/ \E p \in HomeProc : HcGet(p) \/ HcBuildStep(p) \/ HcBuildFail(p)
    \/ HcSetMode \/ HcAge \/ HcExpire

\* Builds go on, time passes, and clients keep asking for the home.
HcFairness ==
    /\ \A p \in HomeProc : WF_hcVars(HcBuildStep(p))
    /\ WF_hcVars(HcAge)
    /\ WF_hcVars(\E p \in HomeProc : HcGet(p))
HcSpec == HcInit /\ [][HcNext]_hcVars /\ HcFairness

-----------------------------------------------------------------------------
\* A cached payload is never older than a home whose invalidation has ended,
\* unless its SET fell between the epoch check and that bump, or after the
\* invalidation looked at the keys.
StaleOnlyBySlip ==
    hcCache # NoPayload /\ ~hcCache.slipped =>
        \A v \in hcAnnounced : v <= hcCache.home

\* The PUT of a home answers with that home or a later one, unless it joined
\* a rebuild that had read the epoch before the write, or hit a payload that
\* slipped past an invalidation.
OwnWriteIsServed ==
    \A w \in HomeWriter \ hcExcused :
        hcAnswer[w] # NoHome => hcAnswer[w] >= hcMine[w]

\* However a payload came to be out of date (a slip, a death before the
\* invalidation, a change of mode), it is not served for ever.
StaleIsReplaced == []<>(hcCache.home \in {NoHome, hcHome})
==============================================================================
