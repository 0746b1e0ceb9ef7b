----------------------------- MODULE WatchState -----------------------------
(***************************************************************************)
(* What one profile has watched: the rows of user_state.watch_state, the   *)
(* writers of LocalUserWatchService and LocalProviderHistoryWriter, and    *)
(* the invalidations publishWatchChanged sends after each write, with the  *)
(* generation markers GET /watch/generations returns.                      *)
(*                                                                         *)
(* A write is one SQL statement (or one transaction) and one step; the     *)
(* announcements that follow it are separate Redis commands and separate   *)
(* steps, so several requests and the flush of the playback buffer         *)
(* interleave.  The buffer itself is here only what PlaybackBuffer         *)
(* implements: it remembers the newest report per item and delivers it,    *)
(* possibly more than once.                                                *)
(***************************************************************************)
EXTENDS Integers, Sequences

CONSTANTS
    Items,           \* items (movies, shows, seasons, episodes)
    Playable,        \* those a playback report may name
    Cascade,         \* Cascade[i]: rows an operation on i touches
    Canonical,       \* Canonical[i]: runtime in seconds, or NoRuntime
    Reports,         \* playback reports [at, dur] a player may send
    Devices,         \* clients with a request in progress at once
    ImportHistory,   \* history of an item at a provider [on, plays]
    ImportPlayback,  \* progress of an item at a provider [on, at, completed]
    ImportMarks,     \* rating and watchlist marks there [rated, fav]
    Expired,         \* days of a provider up to this one are past the TTL
    NoRuntime,       \* null runtime or duration
    Flusher,         \* the flush of the playback buffer
    MaxReports,      \* bound: reports accepted
    MaxOps,          \* bound: requests of devices, and imports
    MaxFaults        \* bound: failures after a write

ASSUME WatchAssumption ==
    /\ Playable \subseteq Items
    /\ Cascade \in [Items -> SUBSET Items]
    /\ Canonical \in [Items -> Nat \cup {NoRuntime}]
    /\ Reports \subseteq [at : Int, dur : Nat \cup {NoRuntime}]
    /\ ImportHistory \subseteq [on : Nat, plays : Nat]
    /\ ImportPlayback \subseteq [on : Nat, at : Nat, completed : BOOLEAN]
    /\ ImportMarks \subseteq [rated : Nat, fav : BOOLEAN]
    /\ Expired \in Nat
    /\ NoRuntime \in Int /\ NoRuntime < 0
    /\ Flusher \notin Devices
    /\ MaxReports \in Nat
    /\ MaxOps \in Nat
    /\ MaxFaults \in Nat

VARIABLES
    \* Postgres
    row,       \* row[i]: the watch_state row of i; no row outside its domain
    \* Redis
    gen,       \* gen[k]: the generation marker of surface k, 0 if never set
    debounce,  \* the key cw-dirty exists
    pend,      \* pend[i]: the buffered report of i, if any
    \* processes
    job,       \* job[a]: the announcements actor a has still to make
    taken,     \* the report whose recordPlaybackState has not returned
    now,       \* clock of Date.now(), advanced by every announcement
    \* observation and bounds
    snap,      \* what a client remembers: markers, then its resume list, and
               \* which bookmarks there were then, listed or not
    silent,    \* since then some write has not been announced
    settled,   \* items whose latest request was mark-watched
    reports, ops, faults

redisVars == <<gen, debounce, now>>
ghosts == <<snap, silent, settled>>
bounds == <<reports, ops, faults>>
vars == <<row, gen, debounce, pend, job, taken, now, snap, silent, settled,
          reports, ops, faults>>

Actors == Devices \cup {Flusher}
Kind == {"continue_watching", "history", "watchlist", "ratings"}

\* last_played_at: NULL, longer ago than continueWatchingTtlDays, or not.
Seen == {"never", "expired", "recent"}
Row == [played : BOOLEAN, count : Nat, pos : Nat, seen : Seen,
        fav : BOOLEAN, rated : BOOLEAN]

\* What a row not yet written looks like: the column defaults.  rated says
\* that liked is not NULL.
Blank == [played |-> FALSE, count |-> 0, pos |-> 0, seen |-> "never",
          fav |-> FALSE, rated |-> FALSE]
Stored(i) == IF i \in DOMAIN row THEN row[i] ELSE Blank

\* The row a profile sees in Continue Watching.
InResume(r) == ~r.played /\ r.pos > 0 /\ r.seen = "recent"
Resume == [i \in Items |-> IF InResume(Stored(i)) THEN Stored(i).pos ELSE 0]

\* The bookmarks, those Continue Watching no longer lists included.
Bookmarks == [i \in Items |-> Stored(i).pos]

NoJob == [todo |-> <<>>, force |-> TRUE, at |-> 0]
Idle(a) == job[a].todo = <<>>

RowsTyped ==
    /\ DOMAIN row \subseteq Items
    /\ \A i \in DOMAIN row : row[i] \in Row

ControlTyped ==
    /\ gen \in [Kind -> Nat]
    /\ debounce \in BOOLEAN
    /\ pend \in [Items -> SUBSET Reports]
    /\ job \in [Actors -> [todo : Seq(Kind), force : BOOLEAN, at : Nat]]
    /\ taken \subseteq [item : Playable, report : Reports]
    /\ now \in Nat
    /\ snap \in [step : {"none", "markers", "list"}, gen : [Kind -> Nat],
                 resume : [Items -> Nat], marks : [Items -> Nat]]
    /\ silent \in BOOLEAN
    /\ settled \subseteq Items
    /\ reports \in Nat /\ ops \in Nat /\ faults \in Nat

TypeOK == RowsTyped /\ ControlTyped

NoMarks == [k \in Kind |-> 0]
Nothing == [i \in Items |-> 0]

Init ==
    /\ row = [i \in {} |-> Blank]
    /\ gen = NoMarks
    /\ debounce = FALSE
    /\ pend = [i \in Items |-> {}]
    /\ job = [a \in Actors |-> NoJob]
    /\ taken = {}
    /\ now = 0
    /\ snap = [step |-> "none", gen |-> NoMarks, resume |-> Nothing, marks |-> Nothing]
    /\ silent = FALSE
    /\ settled = {}
    /\ reports = 0 /\ ops = 0 /\ faults = 0

------------------------------------------------------------------------------
(* The play state of a row. *)

\* resolvePlaybackDecision: played, ignored, or otherwise in progress.
Completes(p, runtime) ==
    runtime > 0 /\ (p * 100 > 90 * runtime \/ p >= runtime - 1)

\* (mutant) the floor is there, but a zero position passes it
BelowFloorUnlessZero(p, runtime) ==
    p # 0 /\ IF runtime > 0 THEN p * 100 < 5 * runtime ELSE p <= 0

BelowFloor(p, runtime) ==
    IF runtime > 0 THEN p * 100 < 5 * runtime ELSE p <= 0

\* The runtime of TMDB shadows the duration the player reports.
RuntimeFor(i, report) ==
    IF Canonical[i] # NoRuntime THEN Canonical[i] ELSE report.dur

CompletedRow(r) ==
    [r EXCEPT !.played = TRUE, !.count = @ + 1, !.seen = "recent", !.pos = 0]

\* (mutant) the upsert before migration 0069, which kept the played flag
InProgressKeepsPlayed(r, p) == [r EXCEPT !.pos = p, !.seen = "recent"]

InProgressRow(r, p) ==
    [r EXCEPT !.pos = p, !.played = FALSE, !.seen = "recent"]

\* (mutant) one viewing less instead of none
UnwatchedDecrements(r) ==
    [r EXCEPT !.played = FALSE, !.count = @ - 1, !.seen = "never", !.pos = 0]

UnwatchedRow(r) ==
    [r EXCEPT !.played = FALSE, !.count = 0, !.seen = "never", !.pos = 0]

\* INSERT ... ON CONFLICT DO UPDATE of the rows of S.
Upsert(S, new) ==
    row' = [j \in DOMAIN row \cup S |-> IF j \in S THEN new[j] ELSE row[j]]

------------------------------------------------------------------------------
(* Playback reports. *)

\* POST /watch/events: the buffer keeps the newest report of the item.
Report(i, r) ==
    /\ reports < MaxReports
    /\ reports' = reports + 1
    /\ pend' = [pend EXCEPT ![i] = {r}]
    /\ settled' = settled \ {i}
    /\ UNCHANGED <<row, redisVars, job, taken, snap, silent, ops, faults>>

\* The row decision of recordPlaybackState, by the flush.  An ignored report
\* writes and announces nothing.
RecordPlaybackState(i, r) ==
    /\ Idle(Flusher)
    /\ r \in pend[i]
    /\ pend' = [pend EXCEPT ![i] = {}]
    /\ LET runtime == RuntimeFor(i, r)
       IN  \/ /\ Completes(r.at, runtime)
              /\ Upsert({i}, [j \in {i} |-> CompletedRow(Stored(i))])
              /\ job' = [job EXCEPT ![Flusher] =
                    [todo |-> <<"continue_watching">>, force |-> TRUE, at |-> 0]]
              /\ taken' = {[item |-> i, report |-> r]}
           \/ /\ ~Completes(r.at, runtime)
              /\ ~BelowFloor(r.at, runtime)
              /\ Upsert({i}, [j \in {i} |-> InProgressRow(Stored(i), r.at)])
              /\ job' = [job EXCEPT ![Flusher] =
                    [todo |-> <<"continue_watching">>, force |-> FALSE, at |-> 0]]
              /\ taken' = {[item |-> i, report |-> r]}
           \/ /\ ~Completes(r.at, runtime)
              /\ BelowFloor(r.at, runtime)
              /\ UNCHANGED <<row, job, taken>>
    /\ UNCHANGED <<redisVars, ghosts, bounds>>

------------------------------------------------------------------------------
(* Requests of a device.  Each commits, then announces what it announces. *)

Request(d, kinds) ==
    /\ Idle(d)
    /\ ops < MaxOps
    /\ ops' = ops + 1
    /\ job' = [job EXCEPT ![d] = [todo |-> kinds, force |-> TRUE, at |-> 0]]
    /\ UNCHANGED <<redisVars, pend, taken, snap, silent, reports, faults>>

\* Without a row the answer is { accepted: false } and nothing happens.
DismissContinueWatching(d, i) ==
    /\ i \in DOMAIN row
    /\ row' = [row EXCEPT ![i].pos = 0]
    /\ Request(d, <<"continue_watching">>)
    /\ UNCHANGED settled

DeleteHistory(d, i) ==
    /\ Cascade[i] # {}
    /\ row' = [j \in DOMAIN row \ Cascade[i] |-> row[j]]
    /\ Request(d, <<"history">>)
    /\ settled' = settled \ Cascade[i]

MarkWatched(d, i) ==
    /\ Cascade[i] # {}
    /\ Upsert(Cascade[i], [j \in Cascade[i] |-> CompletedRow(Stored(j))])
    /\ Request(d, <<"continue_watching", "history">>)
    /\ settled' = settled \cup Cascade[i]

UnmarkWatched(d, i) ==
    /\ Cascade[i] # {}
    /\ Upsert(Cascade[i], [j \in Cascade[i] |-> UnwatchedRow(Stored(j))])
    /\ Request(d, <<"continue_watching", "history">>)
    /\ settled' = settled \ Cascade[i]

SetListItem(d, i) ==
    /\ Upsert({i}, [j \in {i} |-> [Stored(i) EXCEPT !.fav = TRUE]])
    /\ Request(d, <<"watchlist">>)
    /\ UNCHANGED settled

DeleteListItem(d, i) ==
    /\ row' = [j \in DOMAIN row |->
                 IF j = i THEN [row[j] EXCEPT !.fav = FALSE] ELSE row[j]]
    /\ Request(d, <<"watchlist">>)
    /\ UNCHANGED settled

\* A vote also sets last_played_at: a bookmark past the TTL is listed again.
SetRating(d, i) ==
    /\ Upsert({i}, [j \in {i} |-> [Stored(i) EXCEPT !.rated = TRUE, !.seen = "recent"]])
    /\ Request(d, <<"ratings">>)
    /\ UNCHANGED settled

DeleteRating(d, i) ==
    /\ row' = [j \in DOMAIN row |->
                 IF j = i THEN [row[j] EXCEPT !.rated = FALSE] ELSE row[j]]
    /\ Request(d, <<"ratings">>)
    /\ UNCHANGED settled

------------------------------------------------------------------------------
(* replaceImportedInteractions: a provider's view replaces all rows. *)

\* At least one viewing, more if the provider counts more.
PlayCount(h) == IF h.plays > 1 THEN h.plays ELSE 1

\* The provider's own day goes into last_played_at.
Age(day) == IF day > Expired THEN "recent" ELSE "expired"

\* The latest event of an item decides; on = 0 says there is no such event.
ImportedState(h, p) ==
    IF p.on > h.on
    THEN IF p.completed
         THEN [Blank EXCEPT !.played = TRUE, !.count = PlayCount(h), !.seen = Age(p.on)]
         ELSE [Blank EXCEPT !.count = IF h.on > 0 THEN PlayCount(h) ELSE 0,
                            !.pos = p.at, !.seen = Age(p.on)]
    ELSE IF h.on > 0
         THEN [Blank EXCEPT !.played = TRUE, !.count = PlayCount(h), !.seen = Age(h.on)]
         ELSE Blank

\* A rating overwrites last_played_at with its own day (rated = 0: there is
\* none), a watchlist entry leaves it alone.
ImportedRow(h, p, m) ==
    [ImportedState(h, p) EXCEPT !.fav = m.fav, !.rated = m.rated > 0,
                                !.seen = IF m.rated > 0 THEN Age(m.rated) ELSE @]

ImportedRows ==
    {ImportedRow(h, p, m) : h \in ImportHistory, p \in ImportPlayback,
                            m \in ImportMarks}

ReplaceImportedInteractions ==
    /\ ops < MaxOps
    /\ ops' = ops + 1
    /\ \E S \in SUBSET Items : \E f \in [S -> ImportedRows] : row' = f
    /\ silent' = TRUE
    /\ settled' = {}
    /\ UNCHANGED <<redisVars, pend, job, taken, snap, reports, faults>>

\* continueWatchingTtlDays pass: the entry is no longer listed, though nothing
\* is written.  The age of a row without a bookmark is not read by anyone.
TtlPasses(i) ==
    /\ i \in DOMAIN row
    /\ InResume(row[i])
    /\ row' = [row EXCEPT ![i].seen = "expired"]
    /\ UNCHANGED <<redisVars, pend, job, taken, ghosts, bounds>>

------------------------------------------------------------------------------
(* publishWatchChanged. *)

\* Done(a): actor a drops the first announcement of its list; the flush is
\* then done with its report.
Done(a) ==
    /\ job' = [job EXCEPT ![a].todo = Tail(@), ![a].at = 0]
    /\ taken' = IF a = Flusher THEN {} ELSE taken

\* SET cw-dirty NX, unless forced; then Date.now() and PUBLISH.
Announce(a) ==
    /\ ~Idle(a)
    /\ job[a].at = 0
    /\ job[a].force \/ ~debounce
    /\ now' = now + 1
    /\ job' = [job EXCEPT ![a].at = now + 1]
    /\ debounce' = IF job[a].force THEN debounce ELSE TRUE
    /\ UNCHANGED <<row, gen, pend, taken, ghosts, bounds>>

\* The debounce key exists: the change is not announced at all.
Debounced(a) ==
    /\ ~Idle(a)
    /\ job[a].at = 0
    /\ ~job[a].force /\ debounce
    /\ Done(a)
    /\ silent' = TRUE
    /\ UNCHANGED <<row, gen, debounce, pend, now, snap, settled, bounds>>

\* (mutant) a marker only moves on the first change of a debounce window
StampOncePerWindow(a) ==
    /\ ~Idle(a)
    /\ job[a].at > 0
    /\ gen' = IF debounce /\ job[a].force
              THEN gen
              ELSE [gen EXCEPT ![Head(job[a].todo)] = job[a].at]
    /\ debounce' = (debounce \/ job[a].force)
    /\ Done(a)
    /\ UNCHANGED <<row, pend, now, ghosts, bounds>>

\* SET of the marker, and of cw-dirty when forced.
Stamp(a) ==
    /\ ~Idle(a)
    /\ job[a].at > 0
    /\ gen' = [gen EXCEPT ![Head(job[a].todo)] = job[a].at]
    /\ debounce' = (debounce \/ job[a].force)
    /\ Done(a)
    /\ UNCHANGED <<row, pend, now, ghosts, bounds>>

\* The key's five seconds are over.
DebounceExpires ==
    /\ debounce
    /\ debounce' = FALSE
    /\ UNCHANGED <<row, gen, pend, job, taken, now, ghosts, bounds>>

\* A Redis command fails, or the process dies, after the write of a request:
\* its row stays, its announcements are gone.
RequestBreaks(d) ==
    /\ ~Idle(d)
    /\ faults < MaxFaults
    /\ faults' = faults + 1
    /\ job' = [job EXCEPT ![d] = NoJob]
    /\ silent' = TRUE
    /\ UNCHANGED <<row, redisVars, pend, taken, snap, settled, reports, ops>>

\* The same in the flush: the item is flushed again with its newest report,
\* which may be one that is ignored and announces nothing.
FlushBreaks ==
    /\ ~Idle(Flusher)
    /\ faults < MaxFaults
    /\ faults' = faults + 1
    /\ job' = [job EXCEPT ![Flusher] = NoJob]
    /\ pend' = [i \in Items |->
                  IF pend[i] = {}
                  THEN {t.report : t \in {u \in taken : u.item = i}}
                  ELSE pend[i]]
    /\ taken' = {}
    /\ silent' = TRUE
    /\ UNCHANGED <<row, redisVars, snap, settled, reports, ops>>

------------------------------------------------------------------------------
(* A client that comes back later: it reads the markers, then its list. *)

ReadGenerations ==
    /\ snap.step = "none"
    /\ snap' = [snap EXCEPT !.step = "markers", !.gen = gen]
    /\ silent' = FALSE
    /\ UNCHANGED <<row, redisVars, pend, job, taken, settled, bounds>>

ListContinueWatching ==
    /\ snap.step = "markers"
    /\ snap' = [snap EXCEPT !.step = "list", !.resume = Resume, !.marks = Bookmarks]
    /\ UNCHANGED <<row, redisVars, pend, job, taken, silent, settled, bounds>>

------------------------------------------------------------------------------
DeviceRequest(d, i) ==
    \/ DismissContinueWatching(d, i)
    \/ DeleteHistory(d, i)
    \/ MarkWatched(d, i)
    \/ UnmarkWatched(d, i)
    \/ SetListItem(d, i)
    \/ DeleteListItem(d, i)
    \/ SetRating(d, i)
    \/ DeleteRating(d, i)

Publish(a) == Announce(a) \/ Debounced(a) \/ Stamp(a)

Next ==
    \/ \E i \in Playable, r \in Reports : Report(i, r) \/ RecordPlaybackState(i, r)
    \/ \E d \in Devices, i \in Items : DeviceRequest(d, i)
    \/ ReplaceImportedInteractions
    \/ \E i \in Items : TtlPasses(i)
    \/ \E a \in Actors : Publish(a)
    \/ DebounceExpires
    \/ \E d \in Devices : RequestBreaks(d)
    \/ FlushBreaks
    \/ ReadGenerations
    \/ ListContinueWatching

Spec == Init /\ [][Next]_vars

------------------------------------------------------------------------------
(* What the writers promise. *)

\* The coupling of bookmark and completion history migration 0069 describes,
\* and what the readers rely on: a played title has no bookmark, has been
\* viewed at least once and shows in the history; a bookmark is in progress
\* and shows in Continue Watching.
PlayStateCoupled(r) ==
    /\ r.played => r.pos = 0 /\ r.count > 0 /\ r.seen # "never"
    /\ r.pos > 0 => ~r.played /\ r.seen # "never"

RowConsistent == \A i \in DOMAIN row : PlayStateCoupled(row[i])

\* A playback report never wipes a bookmark except by completing the title,
\* and never takes a viewing away: only a request or an import may.
PlaybackKeepsHistory ==
    [][ops' = ops =>
         \A i \in DOMAIN row :
            /\ i \in DOMAIN row'
            /\ row'[i].count >= row[i].count
            /\ row[i].pos > 0 /\ row'[i].pos = 0 => row'[i].played]_vars

\* Nobody has an announcement outstanding.
Quiet == \A a \in Actors : Idle(a)

\* The markers that differ from the ones the client read.
Moved == {k \in Kind : gen[k] # snap.gen[k]}
ResumeMarkers == {"continue_watching", "history"}

\* The bookmark of i is the one of then, and only its age has changed: it is
\* listed no longer because its time is over, or again because of a vote.
RanOut(i) == Bookmarks[i] = snap.marks[i] /\ Stored(i).seen = "expired"
VotedBack(i) == Bookmarks[i] = snap.marks[i] /\ "ratings" \in Moved

\* A client that was away sees that its resume list has changed: one of the
\* two markers the writers of bookmarks move differs from the one it read,
\* unless a write was not announced at all (debounced tick, import, fault).
\* What no resume marker tells it is an entry whose time is over, which no
\* write causes, and one that a vote brought back, which moves ratings alone.
ResumeChangeAnnounced ==
    snap.step = "list" /\ Quiet /\ ~silent =>
        \A i \in Items : Resume[i] # snap.resume[i] =>
            Moved \cap ResumeMarkers # {} \/ RanOut(i) \/ VotedBack(i)

\* Each surface has its own marker: a change of bookmarks that the resume list
\* shows is covered by the marker of continue_watching alone.
OwnMarkerCoversResume ==
    snap.step = "list" /\ Quiet /\ ~silent =>
        \A i \in Items :
            Resume[i] # snap.resume[i] /\ Bookmarks[i] # snap.marks[i]
                => "continue_watching" \in Moved

\* Manual mark watched removes active resume state: as long as no later
\* report or request says otherwise the item is watched.
MarkWatchedStands ==
    \A i \in settled : i \in DOMAIN row /\ ~InResume(row[i])
==============================================================================
