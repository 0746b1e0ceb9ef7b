-------------------------- MODULE WatchState_proof --------------------------
(***************************************************************************)
(* Proofs about WatchState, for any items, runtimes, cascades, reports,    *)
(* provider contents, devices and bounds: types, the coupling of bookmark  *)
(* and history, and that a returning client sees a changed resume list.    *)
(***************************************************************************)
EXTENDS WatchState, SequenceTheorems, TLAPS

------------------------------------------------------------------------------
(* Rows. *)

GoodRow(r) == r \in Row /\ PlayStateCoupled(r)
GoodRows == \A i \in DOMAIN row : GoodRow(row[i])

LEMMA BlankIsGood == GoodRow(Blank)
  BY DEF GoodRow, Row, Seen, PlayStateCoupled, Blank

LEMMA CompletedIsGood ==
  ASSUME NEW r, GoodRow(r) PROVE GoodRow(CompletedRow(r))
<1>1. r \in Row /\ r.count + 1 \in Nat
  BY DEF GoodRow, Row
<1>2. ASSUME NEW c \in Nat
      PROVE  [r EXCEPT !.played = TRUE, !.count = c, !.seen = "recent", !.pos = 0]
                \in Row
  BY <1>1 DEF Row, Seen
<1>3. CompletedRow(r) \in Row
  BY <1>1, <1>2 DEF CompletedRow
<1>4. PlayStateCoupled(CompletedRow(r))
  BY <1>1 DEF Row, PlayStateCoupled, CompletedRow
<1> QED
  BY <1>3, <1>4 DEF GoodRow

LEMMA InProgressIsGood ==
  ASSUME NEW r, GoodRow(r), NEW p \in Nat PROVE GoodRow(InProgressRow(r, p))
<1>1. InProgressRow(r, p) \in Row
  BY DEF GoodRow, Row, Seen, InProgressRow
<1>2. PlayStateCoupled(InProgressRow(r, p))
  BY DEF GoodRow, Row, PlayStateCoupled, InProgressRow
<1> QED
  BY <1>1, <1>2 DEF GoodRow

LEMMA UnwatchedIsGood ==
  ASSUME NEW r, GoodRow(r) PROVE GoodRow(UnwatchedRow(r))
<1>1. UnwatchedRow(r) \in Row
  BY DEF GoodRow, Row, Seen, UnwatchedRow
<1>2. PlayStateCoupled(UnwatchedRow(r))
  BY DEF GoodRow, Row, PlayStateCoupled, UnwatchedRow
<1> QED
  BY <1>1, <1>2 DEF GoodRow

\* A report that is neither a completion nor below the floor has a position.
LEMMA ProgressIsPositive ==
  ASSUME NEW p \in Int, NEW runtime \in Int, ~BelowFloor(p, runtime)
  PROVE  p > 0
  BY DEF BelowFloor

LEMMA AgeIsKnown ==
  ASSUME NEW day PROVE Age(day) \in Seen /\ Age(day) # "never"
  BY DEF Age, Seen

LEMMA ImportedIsGood ==
  ASSUME NEW r \in ImportedRows PROVE GoodRow(r)
<1> PICK h \in ImportHistory, p \in ImportPlayback, m \in ImportMarks :
       r = ImportedRow(h, p, m)
  BY DEF ImportedRows
<1>1. /\ h \in [on : Nat, plays : Nat]
      /\ p \in [on : Nat, at : Nat, completed : BOOLEAN]
      /\ m \in [rated : Nat, fav : BOOLEAN]
  BY WatchAssumption
<1>2. PlayCount(h) \in Nat /\ PlayCount(h) > 0
  BY <1>1 DEF PlayCount
<1> DEFINE c == PlayCount(h)
           hd == Age(h.on)
           pd == Age(p.on)
           md == Age(m.rated)
           s == ImportedState(h, p)
<1>a. /\ hd \in Seen /\ hd # "never" /\ pd \in Seen /\ pd # "never"
      /\ md \in Seen /\ md # "never"
  BY AgeIsKnown
<1>3. s \in Row /\ PlayStateCoupled(s)
  <2>1. s = IF p.on > h.on
            THEN IF p.completed
                 THEN [Blank EXCEPT !.played = TRUE, !.count = c, !.seen = pd]
                 ELSE [Blank EXCEPT !.count = IF h.on > 0 THEN c ELSE 0,
                                    !.pos = p.at, !.seen = pd]
            ELSE IF h.on > 0
                 THEN [Blank EXCEPT !.played = TRUE, !.count = c, !.seen = hd]
                 ELSE Blank
    BY DEF ImportedState, c
  <2>2. c \in Nat /\ c > 0
    BY <1>2 DEF c
  <2> HIDE DEF c, hd, pd, s
  <2>3. CASE p.on > h.on /\ p.completed
    <3>1. s = [played |-> TRUE, count |-> c, pos |-> 0, seen |-> pd,
               fav |-> FALSE, rated |-> FALSE]
      BY <2>1, <2>3 DEF Blank
    <3> QED BY <1>a, <2>2, <3>1 DEF Row, PlayStateCoupled
  <2>4. CASE p.on > h.on /\ ~p.completed
    <3>1. s = [played |-> FALSE, count |-> (IF h.on > 0 THEN c ELSE 0), pos |-> p.at,
               seen |-> pd, fav |-> FALSE, rated |-> FALSE]
      BY <2>1, <2>4 DEF Blank
    <3> QED BY <1>1, <1>a, <2>2, <3>1 DEF Row, PlayStateCoupled
  <2>5. CASE ~(p.on > h.on) /\ h.on > 0
    <3>1. s = [played |-> TRUE, count |-> c, pos |-> 0, seen |-> hd,
               fav |-> FALSE, rated |-> FALSE]
      BY <2>1, <2>5 DEF Blank
    <3> QED BY <1>a, <2>2, <3>1 DEF Row, PlayStateCoupled
  <2>6. CASE ~(p.on > h.on) /\ ~(h.on > 0)
    BY <2>1, <2>6, BlankIsGood DEF GoodRow
  <2> QED BY <2>3, <2>4, <2>5, <2>6
<1> DEFINE voted == m.rated > 0
           seen == IF voted THEN md ELSE s.seen
<1>4. r = [s EXCEPT !.fav = m.fav, !.rated = voted, !.seen = seen]
  BY DEF ImportedRow
<1>b. voted \in BOOLEAN
  BY <1>1
<1>c. seen \in Seen /\ (s.seen # "never" => seen # "never")
  BY <1>a, <1>3, <1>b DEF Row
<1> HIDE DEF s, md, voted, seen
<1>5. r \in Row
  BY <1>1, <1>b, <1>c, <1>3, <1>4 DEF Row
<1>6. PlayStateCoupled(r)
  BY <1>c, <1>3, <1>4 DEF Row, PlayStateCoupled
<1> QED
  BY <1>5, <1>6 DEF GoodRow

\* What an upsert does to good rows.
LEMMA UpsertKeepsRows ==
  ASSUME DOMAIN row \subseteq Items, GoodRows,
         NEW S \in SUBSET Items, NEW new, Upsert(S, new),
         \A j \in S : GoodRow(new[j])
  PROVE  DOMAIN row' \subseteq Items /\ GoodRows'
<1>1. row' = [j \in DOMAIN row \cup S |-> IF j \in S THEN new[j] ELSE row[j]]
  BY DEF Upsert
<1>2. DOMAIN row' = DOMAIN row \cup S
  BY <1>1
<1>3. ASSUME NEW j \in DOMAIN row' PROVE GoodRow(row'[j])
  <2>1. CASE j \in S
    BY <1>1, <1>2, <2>1
  <2>2. CASE j \notin S
    <3>1. j \in DOMAIN row /\ row'[j] = row[j]
      BY <1>1, <1>2, <1>3, <2>2
    <3> QED BY <3>1 DEF GoodRows
  <2> QED BY <2>1, <2>2
<1> QED
  BY <1>2, <1>3 DEF GoodRows, GoodRow, Row, PlayStateCoupled

LEMMA StoredIsGood ==
  ASSUME GoodRows, NEW i PROVE GoodRow(Stored(i))
  BY BlankIsGood DEF GoodRows, Stored

------------------------------------------------------------------------------
(* Every step keeps the rows good ... *)

RowsOK == DOMAIN row \subseteq Items /\ GoodRows

LEMMA RowsOKMeans == RowsOK <=> RowsTyped /\ RowConsistent
  BY DEF RowsOK, RowsTyped, RowConsistent, GoodRows, GoodRow

LEMMA RecordKeepsRows ==
  ASSUME RowsOK, ControlTyped, NEW i \in Playable, NEW r \in Reports,
         RecordPlaybackState(i, r)
  PROVE  RowsOK'
<1> DEFINE runtime == RuntimeFor(i, r)
<1>1. i \in Items /\ r.at \in Int /\ runtime \in Int
  BY WatchAssumption DEF RuntimeFor
<1>2. GoodRow(Stored(i))
  BY StoredIsGood DEF RowsOK
<1> HIDE DEF runtime
<1>3. CASE Upsert({i}, [j \in {i} |-> CompletedRow(Stored(i))])
  BY <1>1, <1>2, <1>3, UpsertKeepsRows, CompletedIsGood DEF RowsOK
<1>4. CASE /\ ~BelowFloor(r.at, runtime)
           /\ Upsert({i}, [j \in {i} |-> InProgressRow(Stored(i), r.at)])
  <2>1. r.at \in Nat
    BY <1>1, <1>4, ProgressIsPositive
  <2> QED
    BY <1>1, <1>2, <1>4, <2>1, UpsertKeepsRows, InProgressIsGood DEF RowsOK
<1>5. CASE UNCHANGED row
  BY <1>5 DEF RowsOK, GoodRows, GoodRow, Row, PlayStateCoupled
<1> QED
  BY <1>3, <1>4, <1>5 DEF RecordPlaybackState, runtime

LEMMA RequestKeepsRows ==
  ASSUME RowsOK, NEW d \in Devices, NEW i \in Items, DeviceRequest(d, i)
  PROVE  RowsOK'
<1>0. Cascade[i] \subseteq Items /\ \A j \in Items : GoodRow(Stored(j))
  BY WatchAssumption, StoredIsGood DEF RowsOK
<1>1. CASE DismissContinueWatching(d, i)
  <2>1. DOMAIN row' = DOMAIN row
    BY <1>1 DEF DismissContinueWatching
  <2>2. ASSUME NEW j \in DOMAIN row PROVE GoodRow(row'[j])
    <3>1. GoodRow(row[j])
      BY DEF RowsOK, GoodRows
    <3>2. row'[j] = row[j] \/ row'[j] = [row[j] EXCEPT !.pos = 0]
      BY <1>1 DEF DismissContinueWatching
    <3> QED BY <3>1, <3>2 DEF GoodRow, Row, PlayStateCoupled
  <2> QED BY <2>1, <2>2 DEF RowsOK, GoodRows, GoodRow, Row, PlayStateCoupled
<1>2. CASE DeleteHistory(d, i)
  BY <1>2 DEF DeleteHistory, RowsOK, GoodRows, GoodRow, Row, PlayStateCoupled
<1>3. CASE MarkWatched(d, i)
  BY <1>0, <1>3, UpsertKeepsRows, CompletedIsGood DEF MarkWatched, RowsOK
<1>4. CASE UnmarkWatched(d, i)
  BY <1>0, <1>4, UpsertKeepsRows, UnwatchedIsGood DEF UnmarkWatched, RowsOK
<1>5. CASE SetListItem(d, i)
  <2>1. GoodRow([Stored(i) EXCEPT !.fav = TRUE])
    BY <1>0 DEF GoodRow, Row, PlayStateCoupled
  <2> DEFINE new == [j \in {i} |-> [Stored(i) EXCEPT !.fav = TRUE]]
  <2>2. Upsert({i}, new) /\ \A j \in {i} : GoodRow(new[j])
    BY <1>5, <2>1 DEF SetListItem
  <2> HIDE DEF new
  <2> QED BY <2>2, UpsertKeepsRows DEF RowsOK
<1>6. CASE DeleteListItem(d, i)
  <2>1. DOMAIN row' = DOMAIN row
    BY <1>6 DEF DeleteListItem
  <2>2. ASSUME NEW j \in DOMAIN row PROVE GoodRow(row'[j])
    <3>1. GoodRow(row[j])
      BY DEF RowsOK, GoodRows
    <3>2. row'[j] = row[j] \/ row'[j] = [row[j] EXCEPT !.fav = FALSE]
      BY <1>6 DEF DeleteListItem
    <3> QED BY <3>1, <3>2 DEF GoodRow, Row, PlayStateCoupled
  <2> QED BY <2>1, <2>2 DEF RowsOK, GoodRows, GoodRow, Row, PlayStateCoupled
<1>7. CASE SetRating(d, i)
  <2>1. GoodRow([Stored(i) EXCEPT !.rated = TRUE, !.seen = "recent"])
    BY <1>0 DEF GoodRow, Row, Seen, PlayStateCoupled
  <2> QED BY <1>7, <2>1, UpsertKeepsRows DEF SetRating, RowsOK
<1>8. CASE DeleteRating(d, i)
  <2>1. DOMAIN row' = DOMAIN row
    BY <1>8 DEF DeleteRating
  <2>2. ASSUME NEW j \in DOMAIN row PROVE GoodRow(row'[j])
    <3>1. GoodRow(row[j])
      BY DEF RowsOK, GoodRows
    <3>2. row'[j] = row[j] \/ row'[j] = [row[j] EXCEPT !.rated = FALSE]
      BY <1>8 DEF DeleteRating
    <3> QED BY <3>1, <3>2 DEF GoodRow, Row, PlayStateCoupled
  <2> QED BY <2>1, <2>2 DEF RowsOK, GoodRows, GoodRow, Row, PlayStateCoupled
<1> QED
  BY <1>1, <1>2, <1>3, <1>4, <1>5, <1>6, <1>7, <1>8 DEF DeviceRequest

LEMMA RowsInit == Init => RowsOK
  BY DEF Init, RowsOK, GoodRows

LEMMA RowsStep == RowsOK /\ ControlTyped /\ [Next]_vars => RowsOK'
<1> SUFFICES ASSUME RowsOK, ControlTyped, [Next]_vars PROVE RowsOK'
  OBVIOUS
<1>1. ASSUME NEW i \in Playable, NEW r \in Reports, RecordPlaybackState(i, r)
      PROVE  RowsOK'
  BY <1>1, RecordKeepsRows
<1>2. ASSUME NEW d \in Devices, NEW i \in Items, DeviceRequest(d, i)
      PROVE  RowsOK'
  BY <1>2, RequestKeepsRows
<1>3. CASE ReplaceImportedInteractions
  <2> PICK S \in SUBSET Items : \E f \in [S -> ImportedRows] : row' = f
    BY <1>3 DEF ReplaceImportedInteractions
  <2> PICK f \in [S -> ImportedRows] : row' = f
    OBVIOUS
  <2>1. \A j \in S : GoodRow(f[j])
    BY ImportedIsGood
  <2> QED BY <2>1 DEF RowsOK, GoodRows, GoodRow, Row, PlayStateCoupled
<1>5. ASSUME NEW i \in Items, TtlPasses(i) PROVE RowsOK'
  <2>1. DOMAIN row' = DOMAIN row
    BY <1>5 DEF TtlPasses
  <2>2. ASSUME NEW j \in DOMAIN row PROVE GoodRow(row'[j])
    <3>1. GoodRow(row[j])
      BY DEF RowsOK, GoodRows
    <3>2. row'[j] = row[j] \/ row'[j] = [row[j] EXCEPT !.seen = "expired"]
      BY <1>5 DEF TtlPasses
    <3> QED BY <3>1, <3>2 DEF GoodRow, Row, Seen, PlayStateCoupled
  <2> QED BY <2>1, <2>2 DEF RowsOK, GoodRows, GoodRow, Row, PlayStateCoupled
<1>4. CASE UNCHANGED row
  BY <1>4 DEF RowsOK, GoodRows, GoodRow, Row, PlayStateCoupled
<1> QED
  BY <1>1, <1>2, <1>3, <1>4, <1>5
  DEF Next, vars, Report, Publish, Announce, Debounced, Stamp, DebounceExpires,
      RequestBreaks, FlushBreaks, ReadGenerations, ListContinueWatching

------------------------------------------------------------------------------
(* ... and the rest of the state typed. *)

LEMMA ControlInit == Init => ControlTyped
<1> SUFFICES ASSUME Init PROVE ControlTyped
  OBVIOUS
<1>1. NoJob \in [todo : Seq(Kind), force : BOOLEAN, at : Nat]
  BY DEF NoJob
<1> QED
  BY <1>1 DEF Init, ControlTyped, NoMarks, Nothing

LEMMA DoneKeepsTypes ==
  ASSUME ControlTyped, NEW a \in Actors, ~Idle(a), Done(a)
  PROVE  /\ job' \in [Actors -> [todo : Seq(Kind), force : BOOLEAN, at : Nat]]
         /\ taken' \subseteq [item : Playable, report : Reports]
<1>1. job[a].todo \in Seq(Kind) /\ job[a].todo # <<>>
  BY DEF ControlTyped, Idle
<1>2. Tail(job[a].todo) \in Seq(Kind)
  BY <1>1, HeadTailProperties
<1>3. job' \in [Actors -> [todo : Seq(Kind), force : BOOLEAN, at : Nat]]
  <2>1. job[a] \in [todo : Seq(Kind), force : BOOLEAN, at : Nat]
    BY DEF ControlTyped
  <2>2. [job[a] EXCEPT !.todo = Tail(@), !.at = 0]
           \in [todo : Seq(Kind), force : BOOLEAN, at : Nat]
    BY <1>2, <2>1
  <2>3. job' = [job EXCEPT ![a] = [job[a] EXCEPT !.todo = Tail(@), !.at = 0]]
    BY DEF Done
  <2> QED BY <2>2, <2>3 DEF ControlTyped
<1>4. taken' \subseteq [item : Playable, report : Reports]
  BY DEF ControlTyped, Done
<1> QED BY <1>3, <1>4

LEMMA ControlStep == RowsOK /\ RowsOK' /\ ControlTyped /\ [Next]_vars => ControlTyped'
<1> SUFFICES ASSUME RowsOK, RowsOK', ControlTyped, [Next]_vars PROVE ControlTyped'
  OBVIOUS
<1> USE DEF ControlTyped
<1>0. \A i : GoodRow(Stored(i))
  BY StoredIsGood DEF RowsOK
<1>1. ASSUME NEW i \in Playable, NEW r \in Reports, Report(i, r)
      PROVE  ControlTyped'
  <2>1. pend' \in [Items -> SUBSET Reports]
    BY <1>1 DEF Report
  <2>2. settled' \subseteq Items /\ reports' \in Nat
    BY <1>1 DEF Report
  <2> QED BY <1>1, <2>1, <2>2 DEF Report, redisVars
<1>2. ASSUME NEW i \in Playable, NEW r \in Reports, RecordPlaybackState(i, r)
      PROVE  ControlTyped'
  <2>1. /\ <<"continue_watching">> \in Seq(Kind)
        /\ Flusher \in Actors
        /\ [item |-> i, report |-> r] \in [item : Playable, report : Reports]
    BY DEF Kind, Actors
  <2>2. UNCHANGED <<redisVars, ghosts, bounds>>
    BY <1>2 DEF RecordPlaybackState
  <2>3. pend' \in [Items -> SUBSET Reports]
    BY <1>2 DEF RecordPlaybackState
  <2>4. taken' \subseteq [item : Playable, report : Reports]
    BY <1>2, <2>1 DEF RecordPlaybackState
  <2>5. \/ UNCHANGED job
        \/ \E b \in BOOLEAN : job' = [job EXCEPT ![Flusher] =
              [todo |-> <<"continue_watching">>, force |-> b, at |-> 0]]
    BY <1>2 DEF RecordPlaybackState
  <2>6. ASSUME NEW b \in BOOLEAN
        PROVE  [todo |-> <<"continue_watching">>, force |-> b, at |-> 0] \in
                  [todo : Seq(Kind), force : BOOLEAN, at : Nat]
    BY <2>1
  <2>7. job' \in [Actors -> [todo : Seq(Kind), force : BOOLEAN, at : Nat]]
    BY <2>5, <2>6
  <2> QED BY <2>2, <2>3, <2>4, <2>7 DEF redisVars, ghosts, bounds
<1>3. ASSUME NEW d \in Devices, NEW i \in Items, DeviceRequest(d, i)
      PROVE  ControlTyped'
  <2>1. /\ <<"continue_watching">> \in Seq(Kind)
        /\ <<"history">> \in Seq(Kind)
        /\ <<"continue_watching", "history">> \in Seq(Kind)
        /\ <<"watchlist">> \in Seq(Kind)
        /\ <<"ratings">> \in Seq(Kind)
        /\ d \in Actors
        /\ Cascade[i] \subseteq Items
    BY WatchAssumption DEF Kind, Actors
  <2>2. PICK kinds \in Seq(Kind) : Request(d, kinds)
    BY <1>3, <2>1
    DEF DeviceRequest, DismissContinueWatching, DeleteHistory, MarkWatched,
        UnmarkWatched, SetListItem, DeleteListItem, SetRating, DeleteRating
  <2>3. settled' \subseteq Items
    BY <1>3, <2>1
    DEF DeviceRequest, DismissContinueWatching, DeleteHistory, MarkWatched,
        UnmarkWatched, SetListItem, DeleteListItem, SetRating, DeleteRating
  <2>4. [todo |-> kinds, force |-> TRUE, at |-> 0] \in
           [todo : Seq(Kind), force : BOOLEAN, at : Nat]
    BY <2>2
  <2>5. job' = [job EXCEPT ![d] = [todo |-> kinds, force |-> TRUE, at |-> 0]]
    BY <2>2 DEF Request
  <2>6. job' \in [Actors -> [todo : Seq(Kind), force : BOOLEAN, at : Nat]]
    BY <2>4, <2>5
  <2>7. /\ UNCHANGED <<redisVars, pend, taken, snap, silent, reports, faults>>
        /\ ops' = ops + 1
    BY <2>2 DEF Request
  <2> QED BY <2>3, <2>6, <2>7 DEF redisVars
<1>4. CASE ReplaceImportedInteractions
  <2>1. /\ UNCHANGED <<redisVars, pend, job, taken, snap, reports, faults>>
        /\ ops' = ops + 1 /\ silent' = TRUE /\ settled' = {}
    BY <1>4 DEF ReplaceImportedInteractions
  <2> QED BY <2>1 DEF redisVars
<1>5. ASSUME NEW a \in Actors, Announce(a) PROVE ControlTyped'
  <2>0. now' \in Nat
    BY <1>5 DEF Announce
  <2>1. debounce' \in BOOLEAN
    <3>1. debounce \in BOOLEAN
      OBVIOUS
    <3> QED BY <1>5, <3>1, Zenon DEF Announce
  <2>2. job' = [job EXCEPT ![a] = [job[a] EXCEPT !.at = now + 1]]
    BY <1>5 DEF Announce
  <2>3. [job[a] EXCEPT !.at = now + 1] \in
           [todo : Seq(Kind), force : BOOLEAN, at : Nat]
    <3>1. job[a] \in [todo : Seq(Kind), force : BOOLEAN, at : Nat]
      OBVIOUS
    <3>2. now + 1 \in Nat
      OBVIOUS
    <3> HIDE DEF ControlTyped
    <3> QED BY <3>1, <3>2
  <2>4. job' \in [Actors -> [todo : Seq(Kind), force : BOOLEAN, at : Nat]]
    BY <2>2, <2>3
  <2> QED BY <1>5, <2>0, <2>1, <2>4 DEF Announce, ghosts, bounds
<1>6. ASSUME NEW a \in Actors, Debounced(a) PROVE ControlTyped'
  BY <1>6, DoneKeepsTypes DEF Debounced, bounds
<1>7. ASSUME NEW a \in Actors, Stamp(a) PROVE ControlTyped'
  <2>1. gen' \in [Kind -> Nat] /\ debounce' \in BOOLEAN
    BY <1>7 DEF Stamp
  <2> QED BY <1>7, <2>1, DoneKeepsTypes DEF Stamp, ghosts, bounds
<1>8. CASE DebounceExpires
  BY <1>8 DEF DebounceExpires, ghosts, bounds
<1>9. ASSUME NEW d \in Devices, RequestBreaks(d) PROVE ControlTyped'
  BY <1>9 DEF RequestBreaks, redisVars, NoJob, Actors
<1>10. CASE FlushBreaks
  <2>1. ASSUME NEW i \in Items
        PROVE  {t.report : t \in {u \in taken : u.item = i}} \subseteq Reports
    OBVIOUS
  <2> QED BY <1>10, <2>1 DEF FlushBreaks, redisVars, NoJob, Actors
<1>11. CASE ReadGenerations
  BY <1>11 DEF ReadGenerations, redisVars, bounds
<1>12. CASE ListContinueWatching
  <2>1. Resume \in [Items -> Nat] /\ Bookmarks \in [Items -> Nat]
    BY <1>0 DEF Resume, Bookmarks, GoodRow, Row
  <2> QED BY <1>12, <2>1 DEF ListContinueWatching, redisVars, bounds
<1>13. CASE UNCHANGED vars
  BY <1>13 DEF vars
<1>14. ASSUME NEW i \in Items, TtlPasses(i) PROVE ControlTyped'
  BY <1>14 DEF TtlPasses, redisVars, ghosts, bounds
<1> QED
  BY <1>1, <1>2, <1>3, <1>4, <1>5, <1>6, <1>7, <1>8, <1>9, <1>10, <1>11,
     <1>12, <1>13, <1>14 DEF Next, Publish

\* The state is typed in every reachable state.
THEOREM WatchTypeCorrect == Spec => []TypeOK
<1> DEFINE Inv == RowsOK /\ ControlTyped
<1>1. Init => Inv
  BY RowsInit, ControlInit
<1>2. Inv /\ [Next]_vars => Inv'
  BY RowsStep, ControlStep
<1>3. Inv => TypeOK
  BY RowsOKMeans DEF TypeOK
<1> QED
  BY <1>1, <1>2, <1>3, PTL DEF Spec

\* A played title has no bookmark and a viewing in the history; a bookmark is
\* in progress and listed: no writer of watch_state, in any order, breaks the
\* coupling.
THEOREM RowConsistentTheorem == Spec => []RowConsistent
<1> DEFINE Inv == RowsOK /\ ControlTyped
<1>1. Init => Inv
  BY RowsInit, ControlInit
<1>2. Inv /\ [Next]_vars => Inv'
  BY RowsStep, ControlStep
<1>3. Inv => RowConsistent
  BY RowsOKMeans
<1> QED
  BY <1>1, <1>2, <1>3, PTL DEF Spec

------------------------------------------------------------------------------
(* A returning client sees a change of its resume list. *)

\* The numbers drawn from the clock are used once: an announcement on its way
\* carries one no marker, no client and no other announcement has.
Fresh ==
    /\ \A k \in Kind : gen[k] <= now /\ snap.gen[k] <= now
    /\ \A a \in Actors :
        /\ job[a].at <= now
        /\ job[a].at > 0 =>
              /\ \A k \in Kind : gen[k] # job[a].at /\ snap.gen[k] # job[a].at
              /\ \A b \in Actors : a # b => job[a].at # job[b].at

\* Something is due to the markers of K: an actor has announcements of K alone
\* to make, or one of them has moved.
Owes(a, K) == ~Idle(a) /\ job[a].todo \in Seq(K)
Due(K) == (\E a \in Actors : Owes(a, K)) \/ Moved \cap K # {}

\* What a client is told of when the list changes by more than its age, and
\* what it is told of when an entry comes back.
EntryMarkers == ResumeMarkers \cup {"ratings"}
BookmarkChanged == Bookmarks # snap.marks
CameBack(i) == Bookmarks[i] = snap.marks[i] /\ InResume(Stored(i)) /\ snap.resume[i] = 0

Covered ==
    snap.step = "list" /\ ~silent =>
        /\ BookmarkChanged => Due(ResumeMarkers)
        /\ \A i \in Items : CameBack(i) => Due(EntryMarkers)
        /\ \A i \in Items : snap.resume[i] \in {0, snap.marks[i]}

Context == RowsOK /\ ControlTyped

LEMMA CoveredImplies == Context /\ Covered => ResumeChangeAnnounced
<1> SUFFICES ASSUME Context, Covered, snap.step = "list", Quiet, ~silent,
                    NEW i \in Items, Resume[i] # snap.resume[i],
                    Moved \cap ResumeMarkers = {}
             PROVE  RanOut(i) \/ VotedBack(i)
  BY DEF ResumeChangeAnnounced
<1>1. \A K : Due(K) => Moved \cap K # {}
  BY DEF Due, Owes, Quiet
<1>2. Bookmarks = snap.marks
  BY <1>1 DEF Covered, BookmarkChanged
<1>3. Bookmarks[i] = snap.marks[i] /\ Bookmarks[i] = Stored(i).pos
  BY <1>2 DEF Bookmarks
<1>4. GoodRow(Stored(i))
  BY StoredIsGood DEF Context, RowsOK
<1>5. Resume[i] = IF InResume(Stored(i)) THEN Bookmarks[i] ELSE 0
  BY <1>3 DEF Resume
<1>6. snap.resume[i] \in {0, snap.marks[i]}
  BY DEF Covered
<1>7. CASE InResume(Stored(i))
  <2>1. snap.resume[i] = 0
    BY <1>3, <1>5, <1>6, <1>7
  <2>2. Moved \cap EntryMarkers # {}
    BY <1>1, <1>3, <1>7, <2>1 DEF Covered, CameBack
  <2>3. "ratings" \in Moved
    BY <2>2 DEF EntryMarkers
  <2> QED BY <1>3, <2>3 DEF VotedBack
<1>8. CASE ~InResume(Stored(i))
  <2>1. Stored(i).pos # 0
    BY <1>3, <1>5, <1>6, <1>8
  <2>2. Stored(i).pos > 0
    BY <1>4, <2>1 DEF GoodRow, Row
  <2>3. Stored(i).seen = "expired"
    BY <1>4, <1>8, <2>2 DEF GoodRow, PlayStateCoupled, InResume, Row, Seen
  <2> QED BY <1>3, <2>3 DEF RanOut
<1> QED BY <1>7, <1>8

LEMMA AnnounceInit == Init => Fresh /\ Covered
<1> SUFFICES ASSUME Init PROVE Fresh /\ Covered
  OBVIOUS
<1>1. \A a \in Actors : job[a].todo = <<>> /\ job[a].at = 0
  BY DEF Init, NoJob
<1>3. Fresh
  <2>1. \A k \in Kind : gen[k] = 0 /\ snap.gen[k] = 0
    BY DEF Init, NoMarks
  <2>2. now = 0
    BY DEF Init
  <2> QED BY <1>1, <2>1, <2>2 DEF Fresh
<1>4. Covered
  BY DEF Init, Covered
<1> QED BY <1>3, <1>4

\* What Done leaves of a list of announcements.
LEMMA DoneShortens ==
  ASSUME ControlTyped, NEW a \in Actors, ~Idle(a), Done(a)
  PROVE  /\ job[a].todo \in Seq(Kind) /\ job[a].todo # <<>>
         /\ Head(job[a].todo) \in Kind
         /\ job'[a].todo = Tail(job[a].todo) /\ job'[a].at = 0
         /\ \A b \in Actors \ {a} : job'[b] = job[b]
<1>1. job[a].todo \in Seq(Kind) /\ job[a].todo # <<>>
  BY DEF ControlTyped, Idle
<1>2. Head(job[a].todo) \in Kind
  BY <1>1, HeadTailProperties
<1>3. job'[a] = [job[a] EXCEPT !.todo = Tail(@), !.at = 0]
  BY DEF ControlTyped, Done
<1>4. job'[a].todo = Tail(job[a].todo) /\ job'[a].at = 0
  BY <1>3 DEF ControlTyped
<1>5. \A b \in Actors \ {a} : job'[b] = job[b]
  BY DEF ControlTyped, Done
<1> QED BY <1>1, <1>2, <1>4, <1>5

LEMMA FreshStep == Context /\ Context' /\ Fresh /\ [Next]_vars => Fresh'
<1> SUFFICES ASSUME Context, Context', Fresh, [Next]_vars PROVE Fresh'
  OBVIOUS
<1> USE DEF Context
<1>t. /\ gen \in [Kind -> Nat] /\ now \in Nat /\ snap.gen \in [Kind -> Nat]
      /\ \A a \in Actors : job[a].at \in Nat
  BY DEF ControlTyped
<1>1. ASSUME UNCHANGED <<gen, now, snap>>,
             \A a \in Actors : job'[a].at = 0 \/ job'[a].at = job[a].at
      PROVE  Fresh'
  BY <1>1, <1>t DEF Fresh
<1>2. ASSUME NEW i \in Playable, NEW r \in Reports, RecordPlaybackState(i, r)
      PROVE  Fresh'
  <2>1. UNCHANGED <<gen, now, snap>>
    BY <1>2 DEF RecordPlaybackState, redisVars, ghosts
  <2>2. \/ UNCHANGED job
        \/ \E b \in BOOLEAN : job' = [job EXCEPT ![Flusher] =
              [todo |-> <<"continue_watching">>, force |-> b, at |-> 0]]
    BY <1>2 DEF RecordPlaybackState
  <2>3. \A a \in Actors : job'[a].at = 0 \/ job'[a].at = job[a].at
    <3>1. CASE UNCHANGED job
      BY <3>1
    <3>2. ASSUME NEW b \in BOOLEAN,
                 job' = [job EXCEPT ![Flusher] =
                    [todo |-> <<"continue_watching">>, force |-> b, at |-> 0]]
          PROVE  \A a \in Actors : job'[a].at = 0 \/ job'[a].at = job[a].at
      BY <3>2 DEF ControlTyped
    <3> QED BY <2>2, <3>1, <3>2
  <2> QED BY <1>1, <2>1, <2>3
<1>3. ASSUME NEW d \in Devices, NEW i \in Items, DeviceRequest(d, i)
      PROVE  Fresh'
  <2>1. PICK kinds : Request(d, kinds)
    BY <1>3
    DEF DeviceRequest, DismissContinueWatching, DeleteHistory, MarkWatched,
        UnmarkWatched, SetListItem, DeleteListItem, SetRating, DeleteRating
  <2>2. UNCHANGED <<gen, now, snap>>
    BY <2>1 DEF Request, redisVars
  <2>3. \A a \in Actors : job'[a].at = 0 \/ job'[a].at = job[a].at
    BY <2>1 DEF Request, ControlTyped
  <2> QED BY <1>1, <2>2, <2>3
<1>4. ASSUME NEW a \in Actors, Announce(a) PROVE Fresh'
  <2>1. /\ UNCHANGED <<gen, snap>> /\ now' = now + 1
    BY <1>4 DEF Announce, ghosts
  <2>2. job' = [job EXCEPT ![a] = [job[a] EXCEPT !.at = now + 1]]
    BY <1>4 DEF Announce
  <2>3. /\ job'[a].at = now + 1
        /\ \A b \in Actors \ {a} : job'[b].at = job[b].at
    BY <2>2 DEF ControlTyped
  <2> QED BY <2>1, <2>3, <1>t DEF Fresh
<1>5. ASSUME NEW a \in Actors, Debounced(a) PROVE Fresh'
  <2>1. UNCHANGED <<gen, now, snap>>
    BY <1>5 DEF Debounced
  <2>2. \A b \in Actors : job'[b].at = 0 \/ job'[b].at = job[b].at
    BY <1>5, DoneShortens DEF Debounced
  <2> QED BY <1>1, <2>1, <2>2
<1>6. ASSUME NEW a \in Actors, Stamp(a) PROVE Fresh'
  <2>1. /\ ~Idle(a) /\ Done(a) /\ job[a].at > 0
        /\ UNCHANGED <<now, snap>>
        /\ gen' = [gen EXCEPT ![Head(job[a].todo)] = job[a].at]
    BY <1>6 DEF Stamp, ghosts
  <2>2. \A k \in Kind : gen'[k] = gen[k] \/ gen'[k] = job[a].at
    BY <2>1, <1>t
  <2>3. job'[a].at = 0 /\ \A b \in Actors \ {a} : job'[b].at = job[b].at
    BY <2>1, DoneShortens
  <2> QED BY <2>1, <2>2, <2>3, <1>t DEF Fresh
<1>7. CASE ReadGenerations
  <2>1. UNCHANGED <<gen, now, job>> /\ snap'.gen = gen
    BY <1>7 DEF ReadGenerations, redisVars, ControlTyped
  <2> QED BY <2>1, <1>t DEF Fresh
<1>8. CASE ListContinueWatching
  <2>0. snap' = [snap EXCEPT !.step = "list", !.resume = Resume, !.marks = Bookmarks]
    BY <1>8 DEF ListContinueWatching
  <2>1. UNCHANGED <<gen, now, job>> /\ snap'.gen = snap.gen
    BY <1>8, <2>0 DEF ListContinueWatching, redisVars, ControlTyped
  <2> QED BY <2>1, <1>t DEF Fresh
<1>9. ASSUME NEW d \in Devices, RequestBreaks(d) PROVE Fresh'
  <2>1. \A a \in Actors : job'[a].at = 0 \/ job'[a].at = job[a].at
    BY <1>9 DEF RequestBreaks, NoJob, ControlTyped
  <2> QED BY <1>1, <1>9, <2>1 DEF RequestBreaks, redisVars
<1>10. CASE FlushBreaks
  <2>1. \A a \in Actors : job'[a].at = 0 \/ job'[a].at = job[a].at
    BY <1>10 DEF FlushBreaks, NoJob, ControlTyped
  <2> QED BY <1>1, <1>10, <2>1 DEF FlushBreaks, redisVars
<1>11. CASE UNCHANGED <<gen, now, snap, job>>
  BY <1>1, <1>11
<1> QED
  BY <1>2, <1>3, <1>4, <1>5, <1>6, <1>7, <1>8, <1>9, <1>10, <1>11
  DEF Next, vars, Publish, Report, ReplaceImportedInteractions, TtlPasses, redisVars,
      DebounceExpires, ghosts

\* Requests that can change a bookmark announce it; the others leave bookmarks
\* alone, and a vote, which may bring an entry back, announces itself.
ResumeRequest(d, i) ==
    \/ DismissContinueWatching(d, i)
    \/ DeleteHistory(d, i)
    \/ MarkWatched(d, i)
    \/ UnmarkWatched(d, i)

MarkRequest(d, i) ==
    \/ SetListItem(d, i)
    \/ DeleteListItem(d, i)
    \/ DeleteRating(d, i)

LEMMA Kinds ==
  /\ <<"continue_watching">> \in Seq(ResumeMarkers)
  /\ <<"history">> \in Seq(ResumeMarkers)
  /\ <<"continue_watching", "history">> \in Seq(ResumeMarkers)
  /\ <<"ratings">> \in Seq(EntryMarkers)
<1>1. /\ "continue_watching" \in ResumeMarkers /\ "history" \in ResumeMarkers
      /\ "ratings" \in EntryMarkers
  BY DEF EntryMarkers, ResumeMarkers
<1> QED BY <1>1

LEMMA ResumeRequestOwes ==
  ASSUME ControlTyped, NEW d \in Devices, NEW i \in Items, ResumeRequest(d, i)
  PROVE  \E kinds \in Seq(ResumeMarkers) : kinds # <<>> /\ Request(d, kinds)
<1>1. /\ <<"continue_watching">> # <<>> /\ <<"history">> # <<>>
      /\ <<"continue_watching", "history">> # <<>>
  OBVIOUS
<1> QED
  BY <1>1, Kinds DEF ResumeRequest, DismissContinueWatching, DeleteHistory,
     MarkWatched, UnmarkWatched

LEMMA MarkRequestIsRequest ==
  ASSUME NEW d \in Devices, NEW i \in Items, MarkRequest(d, i)
  PROVE  \E kinds : Request(d, kinds)
  BY DEF MarkRequest, SetListItem, DeleteListItem, DeleteRating

\* What a request does to the list of its device.
LEMMA RequestJobs ==
  ASSUME ControlTyped, NEW d \in Devices, NEW kinds, Request(d, kinds)
  PROVE  /\ d \in Actors /\ Idle(d) /\ job'[d].todo = kinds
         /\ \A b \in Actors \ {d} : job'[b] = job[b]
         /\ UNCHANGED <<gen, snap, silent>>
  BY DEF Request, ControlTyped, Actors, redisVars

\* A step that takes no debt away and moves no marker.
LEMMA DueStays ==
  ASSUME UNCHANGED <<gen, snap>>, NEW K, Due(K),
         \A a \in Actors : ~Idle(a) => job'[a].todo = job[a].todo
  PROVE  Due(K)'
<1>1. Moved' = Moved
  BY DEF Moved
<1>2. \A a \in Actors : Owes(a, K) => Owes(a, K)'
  BY DEF Owes, Idle
<1> QED BY <1>1, <1>2 DEF Due

LEMMA SeqGrows ==
  ASSUME NEW K, NEW L, K \subseteq L, NEW s \in Seq(K) PROVE s \in Seq(L)
<1>1. \A n \in 1..Len(s) : s[n] \in L
  BY ElementOfSeq
<1> QED BY <1>1

\* Rows that differ in marks alone, or in nothing.
LEMMA RowKept ==
  ASSUME UNCHANGED row
  PROVE  /\ Bookmarks' = Bookmarks
         /\ \A j : InResume(Stored(j))' <=> InResume(Stored(j))
  BY DEF Bookmarks, InResume, Stored

LEMMA MarkRequestKeepsRows ==
  ASSUME RowsOK, NEW d \in Devices, NEW i \in Items, MarkRequest(d, i)
  PROVE  /\ Bookmarks' = Bookmarks
         /\ \A j \in Items : InResume(Stored(j))' <=> InResume(Stored(j))
<1>1. \A j \in Items : GoodRow(Stored(j))
  BY StoredIsGood DEF RowsOK
<1>2. ASSUME NEW j \in Items
      PROVE  /\ Stored(j)'.played = Stored(j).played
             /\ Stored(j)'.pos = Stored(j).pos
             /\ Stored(j)'.seen = Stored(j).seen
  <2>1. CASE SetListItem(d, i)
    <3>1. Stored(j)' = Stored(j) \/ Stored(j)' = [Stored(j) EXCEPT !.fav = TRUE]
      BY <2>1 DEF SetListItem, Upsert, Stored
    <3> QED BY <3>1, <1>1 DEF GoodRow, Row
  <2>2. CASE DeleteListItem(d, i)
    <3>1. Stored(j)' = Stored(j) \/ Stored(j)' = [Stored(j) EXCEPT !.fav = FALSE]
      BY <2>2 DEF DeleteListItem, Stored
    <3> QED BY <3>1, <1>1 DEF GoodRow, Row
  <2>3. CASE DeleteRating(d, i)
    <3>1. Stored(j)' = Stored(j) \/ Stored(j)' = [Stored(j) EXCEPT !.rated = FALSE]
      BY <2>3 DEF DeleteRating, Stored
    <3> QED BY <3>1, <1>1 DEF GoodRow, Row
  <2> QED BY <2>1, <2>2, <2>3 DEF MarkRequest
<1> QED
  BY <1>2 DEF Bookmarks, InResume

LEMMA SetRatingKeepsBookmarks ==
  ASSUME RowsOK, NEW d \in Devices, NEW i \in Items, SetRating(d, i)
  PROVE  Bookmarks' = Bookmarks
<1>1. \A j \in Items : GoodRow(Stored(j))
  BY StoredIsGood DEF RowsOK
<1>2. ASSUME NEW j \in Items PROVE Stored(j)'.pos = Stored(j).pos
  <2>1. \/ Stored(j)' = Stored(j)
        \/ Stored(j)' = [Stored(j) EXCEPT !.rated = TRUE, !.seen = "recent"]
    BY DEF SetRating, Upsert, Stored
  <2> QED BY <2>1, <1>1 DEF GoodRow, Row
<1> QED BY <1>2 DEF Bookmarks

LEMMA TtlKeepsBookmarks ==
  ASSUME RowsOK, NEW i \in Items, TtlPasses(i)
  PROVE  /\ Bookmarks' = Bookmarks
         /\ \A j \in Items : InResume(Stored(j))' => InResume(Stored(j))
<1>1. \A j \in Items : GoodRow(Stored(j))
  BY StoredIsGood DEF RowsOK
<1>2. ASSUME NEW j \in Items
      PROVE  \/ Stored(j)' = Stored(j)
             \/ Stored(j)' = [Stored(j) EXCEPT !.seen = "expired"]
  BY DEF TtlPasses, Stored
<1>3. ASSUME NEW j \in Items
      PROVE  /\ Stored(j)'.pos = Stored(j).pos
             /\ Stored(j)' = Stored(j) \/ Stored(j)'.seen = "expired"
  BY <1>1, <1>2 DEF GoodRow, Row
<1> QED BY <1>3 DEF Bookmarks, InResume

\* Covered survives a step that changes no bookmark, brings no entry back and
\* takes no debt away that it does not pay ...
LEMMA CoveredStays ==
  ASSUME Covered, UNCHANGED snap, silent' = silent, Bookmarks' = Bookmarks,
         \A j \in Items : InResume(Stored(j))' => InResume(Stored(j)),
         Due(ResumeMarkers) => Due(ResumeMarkers)',
         Due(EntryMarkers) => Due(EntryMarkers)'
  PROVE  Covered'
  BY DEF Covered, BookmarkChanged, CameBack

\* ... and any that leaves a debt to the markers of the resume list.
LEMMA CoveredByDebt ==
  ASSUME Covered, UNCHANGED <<snap, silent>>, NEW a \in Actors,
         Owes(a, ResumeMarkers)'
  PROVE  Covered'
<1>1. Owes(a, EntryMarkers)'
  BY SeqGrows DEF Owes, EntryMarkers
<1>2. Due(ResumeMarkers)' /\ Due(EntryMarkers)'
  BY <1>1 DEF Due
<1> QED BY <1>2 DEF Covered

\* Whoever stamps a marker of K pays what it owes to K.
LEMMA StampPays ==
  ASSUME ControlTyped, Fresh, NEW a \in Actors, Stamp(a), NEW K, Due(K)
  PROVE  Due(K)'
<1>1. /\ ~Idle(a) /\ Done(a) /\ job[a].at > 0
      /\ UNCHANGED snap
      /\ gen' = [gen EXCEPT ![Head(job[a].todo)] = job[a].at]
  BY DEF Stamp, ghosts
<1>2. gen \in [Kind -> Nat] /\ Head(job[a].todo) \in Kind
  BY <1>1, DoneShortens DEF ControlTyped
<1>3. \A k \in Kind : snap.gen[k] # job[a].at
  BY <1>1 DEF Fresh
<1>4. Moved' = Moved \cup {Head(job[a].todo)}
  <2>1. \A k \in Kind : gen'[k] = IF k = Head(job[a].todo) THEN job[a].at ELSE gen[k]
    BY <1>1, <1>2
  <2>2. \A k \in Kind : gen'[k] # snap'.gen[k]
                           <=> k = Head(job[a].todo) \/ gen[k] # snap.gen[k]
    BY <1>1, <1>3, <2>1
  <2> QED BY <1>2, <2>2 DEF Moved
<1>5. CASE Moved \cap K # {}
  BY <1>4, <1>5 DEF Due
<1>6. CASE Owes(a, K)
  <2>1. Head(job[a].todo) \in K
    BY <1>6, HeadTailProperties DEF Owes, Idle
  <2> QED BY <1>4, <2>1 DEF Due
<1>7. ASSUME NEW b \in Actors \ {a}, Owes(b, K) PROVE Due(K)'
  <2>1. Owes(b, K)'
    BY <1>1, <1>7, DoneShortens DEF Owes, Idle
  <2> QED BY <2>1 DEF Due
<1> QED BY <1>5, <1>6, <1>7 DEF Due

LEMMA CoveredStep ==
  Context /\ Fresh /\ Covered /\ [Next]_vars => Covered'
<1> SUFFICES ASSUME Context, Fresh, Covered, [Next]_vars PROVE Covered'
  OBVIOUS
<1> USE DEF Context
<1>k. ASSUME UNCHANGED <<row, snap, gen, silent>>,
             \A a \in Actors : ~Idle(a) => job'[a].todo = job[a].todo
      PROVE  Covered'
  BY <1>k, RowKept, DueStays, CoveredStays
<1>1. ASSUME NEW i \in Playable, NEW r \in Reports, Report(i, r) PROVE Covered'
  BY <1>1, <1>k DEF Report, redisVars
<1>2. ASSUME NEW i \in Playable, NEW r \in Reports, RecordPlaybackState(i, r)
      PROVE  Covered'
  <2>1. UNCHANGED <<snap, gen, silent>>
    BY <1>2 DEF RecordPlaybackState, redisVars, ghosts
  <2>2. CASE UNCHANGED <<row, job>>
    BY <1>k, <2>1, <2>2
  <2>3. ASSUME NEW b \in BOOLEAN,
               job' = [job EXCEPT ![Flusher] =
                  [todo |-> <<"continue_watching">>, force |-> b, at |-> 0]]
        PROVE  Covered'
    <3>1. Flusher \in Actors /\ job'[Flusher].todo = <<"continue_watching">>
      BY <2>3 DEF ControlTyped, Actors
    <3>2. Owes(Flusher, ResumeMarkers)'
      BY <3>1, Kinds DEF Owes, Idle
    <3> QED BY <2>1, <3>1, <3>2, CoveredByDebt
  <2>4. \/ UNCHANGED <<row, job>>
        \/ \E b \in BOOLEAN : job' = [job EXCEPT ![Flusher] =
              [todo |-> <<"continue_watching">>, force |-> b, at |-> 0]]
    BY <1>2 DEF RecordPlaybackState
  <2> QED BY <2>2, <2>3, <2>4
<1>3. ASSUME NEW d \in Devices, NEW i \in Items, ResumeRequest(d, i)
      PROVE  Covered'
  <2> PICK kinds \in Seq(ResumeMarkers) : kinds # <<>> /\ Request(d, kinds)
    BY <1>3, ResumeRequestOwes
  <2>1. d \in Actors /\ Owes(d, ResumeMarkers)' /\ UNCHANGED <<snap, silent>>
    BY RequestJobs DEF Owes, Idle
  <2> QED BY <2>1, CoveredByDebt
<1>4. ASSUME NEW d \in Devices, NEW i \in Items, MarkRequest(d, i)
      PROVE  Covered'
  <2> PICK kinds : Request(d, kinds)
    BY <1>4, MarkRequestIsRequest
  <2>1. /\ UNCHANGED <<snap, gen, silent>>
        /\ \A a \in Actors : ~Idle(a) => job'[a].todo = job[a].todo
    BY RequestJobs
  <2>2. /\ Bookmarks' = Bookmarks
        /\ \A j \in Items : InResume(Stored(j))' => InResume(Stored(j))
    BY <1>4, MarkRequestKeepsRows
  <2> QED BY <2>1, <2>2, DueStays, CoveredStays
<1>5. ASSUME NEW d \in Devices, NEW i \in Items, SetRating(d, i) PROVE Covered'
  <2>0. Request(d, <<"ratings">>)
    BY <1>5 DEF SetRating
  <2>1. /\ UNCHANGED <<snap, gen, silent>> /\ d \in Actors
        /\ \A a \in Actors : ~Idle(a) => job'[a].todo = job[a].todo
        /\ job'[d].todo = <<"ratings">>
    BY <2>0, RequestJobs
  <2>2. Bookmarks' = Bookmarks
    BY <1>5, SetRatingKeepsBookmarks
  <2>3. Due(ResumeMarkers) => Due(ResumeMarkers)'
    BY <2>1, DueStays
  <2>4. <<"ratings">> # <<>>
    OBVIOUS
  <2>5. Owes(d, EntryMarkers)'
    BY <2>1, <2>4, Kinds DEF Owes, Idle
  <2>6. Due(EntryMarkers)'
    BY <2>1, <2>5 DEF Due
  <2> QED BY <2>1, <2>2, <2>3, <2>6 DEF Covered, BookmarkChanged
<1>6. ASSUME NEW i \in Items, TtlPasses(i) PROVE Covered'
  <2>1. UNCHANGED <<snap, gen, silent, job>>
    BY <1>6 DEF TtlPasses, redisVars, ghosts
  <2>2. /\ Bookmarks' = Bookmarks
        /\ \A j \in Items : InResume(Stored(j))' => InResume(Stored(j))
    BY <1>6, TtlKeepsBookmarks
  <2> QED BY <2>1, <2>2, DueStays, CoveredStays
<1>7. ASSUME NEW a \in Actors, Announce(a) PROVE Covered'
  <2>1. UNCHANGED <<row, snap, gen, silent>>
    BY <1>7 DEF Announce, ghosts
  <2>2. job' = [job EXCEPT ![a] = [job[a] EXCEPT !.at = now + 1]]
    BY <1>7 DEF Announce
  <2>3. \A b \in Actors : job'[b].todo = job[b].todo
    BY <2>2 DEF ControlTyped
  <2> QED BY <1>k, <2>1, <2>3
<1>8. ASSUME NEW a \in Actors, Stamp(a) PROVE Covered'
  <2>1. UNCHANGED <<row, snap, silent>>
    BY <1>8 DEF Stamp, ghosts
  <2> QED BY <1>8, <2>1, RowKept, StampPays, CoveredStays
<1>9. CASE silent'
  BY <1>9 DEF Covered
<1>10. CASE ReadGenerations
  <2>1. snap'.step = "markers"
    BY <1>10 DEF ReadGenerations, ControlTyped
  <2> QED BY <2>1 DEF Covered
<1>11. CASE ListContinueWatching
  <2>1. snap' = [snap EXCEPT !.step = "list", !.resume = Resume, !.marks = Bookmarks]
    BY <1>11 DEF ListContinueWatching
  <2>2. snap'.resume = Resume /\ snap'.marks = Bookmarks /\ UNCHANGED row
    BY <1>11, <2>1 DEF ListContinueWatching, ControlTyped
  <2>3. Bookmarks' = Bookmarks /\ \A j \in Items : InResume(Stored(j))' <=> InResume(Stored(j))
    BY <2>2, RowKept
  <2>4. ASSUME NEW j \in Items
        PROVE  /\ snap'.resume[j] \in {0, snap'.marks[j]}
               /\ InResume(Stored(j)) => snap'.resume[j] # 0
    BY <2>2 DEF Resume, Bookmarks, InResume
  <2> QED BY <2>2, <2>3, <2>4 DEF Covered, BookmarkChanged, CameBack
<1>12. CASE UNCHANGED <<row, snap, gen, job, silent>>
  BY <1>k, <1>12
<1>13. ASSUME NEW d \in Devices, NEW i \in Items, DeviceRequest(d, i)
      PROVE  Covered'
  BY <1>3, <1>4, <1>5, <1>13 DEF DeviceRequest, ResumeRequest, MarkRequest
<1>14. ASSUME NEW a \in Actors, Publish(a) PROVE Covered'
  BY <1>7, <1>8, <1>9, <1>14 DEF Publish, Debounced
<1> QED
  BY <1>1, <1>2, <1>6, <1>9, <1>10, <1>11, <1>12, <1>13, <1>14
  DEF Next, vars, ReplaceImportedInteractions, DebounceExpires, redisVars,
      RequestBreaks, FlushBreaks, ghosts

\* Whatever requests, flushes and faults interleave, a client that read the
\* markers and then its list finds one of the two resume markers moved once the
\* list has changed and nothing went unannounced; only an entry whose time is
\* over moves no marker, and one that a vote brought back moves ratings.
THEOREM ResumeChangeAnnouncedTheorem == Spec => []ResumeChangeAnnounced
<1> DEFINE Inv == Context /\ Fresh /\ Covered
<1>1. Init => Inv
  BY RowsInit, ControlInit, AnnounceInit DEF Context
<1>2. Inv /\ [Next]_vars => Inv'
  <2>1. Context /\ [Next]_vars => Context'
    BY RowsStep, ControlStep DEF Context
  <2> QED BY <2>1, FreshStep, CoveredStep
<1>3. Inv => ResumeChangeAnnounced
  BY CoveredImplies
<1> QED
  BY <1>1, <1>2, <1>3, PTL DEF Spec

------------------------------------------------------------------------------
(* Reports keep bookmarks and viewings. *)

KeepsHistory(old, new) ==
    /\ new.count >= old.count
    /\ old.pos > 0 /\ new.pos = 0 => new.played

LEMMA SameKeepsHistory ==
  ASSUME NEW r \in Row PROVE KeepsHistory(r, r)
  BY DEF KeepsHistory, Row

LEMMA RecordKeepsHistory ==
  ASSUME RowsOK, NEW i \in Playable, NEW r \in Reports,
         RecordPlaybackState(i, r), NEW j \in DOMAIN row
  PROVE  j \in DOMAIN row' /\ KeepsHistory(row[j], row'[j])
<1> DEFINE runtime == RuntimeFor(i, r)
<1>1. i \in Items /\ r.at \in Int /\ runtime \in Int
  BY WatchAssumption DEF RuntimeFor
<1>2. row[j] \in Row /\ (j = i => Stored(i) = row[j])
  BY DEF RowsOK, GoodRows, GoodRow, Stored
<1> HIDE DEF runtime
<1>3. CASE Upsert({i}, [k \in {i} |-> CompletedRow(Stored(i))])
  <2>1. j \in DOMAIN row'
    BY <1>3 DEF Upsert
  <2>2. CASE j = i
    <3>1. row'[j] = CompletedRow(row[j])
      BY <1>2, <1>3, <2>2 DEF Upsert
    <3>2. row'[j].count = row[j].count + 1 /\ row'[j].played
      BY <1>2, <3>1 DEF CompletedRow, Row
    <3> QED BY <1>2, <2>1, <3>2 DEF KeepsHistory, Row
  <2>3. CASE j # i
    <3>1. row'[j] = row[j]
      BY <1>3, <2>3 DEF Upsert
    <3> QED BY <1>2, <2>1, <3>1, SameKeepsHistory
  <2> QED BY <2>2, <2>3
<1>4. CASE /\ ~BelowFloor(r.at, runtime)
           /\ Upsert({i}, [k \in {i} |-> InProgressRow(Stored(i), r.at)])
  <2>1. j \in DOMAIN row'
    BY <1>4 DEF Upsert
  <2>2. CASE j = i
    <3>1. row'[j] = InProgressRow(row[j], r.at)
      BY <1>2, <1>4, <2>2 DEF Upsert
    <3>2. row'[j].count = row[j].count /\ row'[j].pos = r.at
      BY <1>2, <3>1 DEF InProgressRow, Row
    <3>3. r.at > 0
      BY <1>1, <1>4, ProgressIsPositive
    <3> QED BY <1>1, <1>2, <2>1, <3>2, <3>3 DEF KeepsHistory, Row
  <2>3. CASE j # i
    <3>1. row'[j] = row[j]
      BY <1>4, <2>3 DEF Upsert
    <3> QED BY <1>2, <2>1, <3>1, SameKeepsHistory
  <2> QED BY <2>2, <2>3
<1>5. CASE UNCHANGED row
  BY <1>2, <1>5, SameKeepsHistory
<1> QED
  BY <1>3, <1>4, <1>5 DEF RecordPlaybackState, runtime

\* Only requests and imports take a viewing or an unfinished bookmark away.
THEOREM PlaybackKeepsHistoryTheorem == Spec => PlaybackKeepsHistory
<1> DEFINE Inv == RowsOK /\ ControlTyped
           Keeps == ops' = ops =>
              \A i \in DOMAIN row :
                 /\ i \in DOMAIN row'
                 /\ row'[i].count >= row[i].count
                 /\ row[i].pos > 0 /\ row'[i].pos = 0 => row'[i].played
<1>1. Init => Inv
  BY RowsInit, ControlInit
<1>2. Inv /\ [Next]_vars => Inv'
  BY RowsStep, ControlStep
<1>3. Inv /\ [Next]_vars => [Keeps]_vars
  <2> SUFFICES ASSUME Inv, Next, ops' = ops,
                      NEW j \in DOMAIN row
               PROVE  j \in DOMAIN row' /\ KeepsHistory(row[j], row'[j])
    BY DEF KeepsHistory
  <2>1. row[j] \in Row
    BY DEF RowsOK, GoodRows, GoodRow
  <2>2. ASSUME NEW i \in Playable, NEW r \in Reports, RecordPlaybackState(i, r)
        PROVE  j \in DOMAIN row' /\ KeepsHistory(row[j], row'[j])
    BY <2>2, RecordKeepsHistory
  <2>3. ASSUME NEW d \in Devices, NEW i \in Items, DeviceRequest(d, i)
        PROVE  FALSE
    <3>1. PICK kinds : Request(d, kinds)
      BY <2>3
      DEF DeviceRequest, DismissContinueWatching, DeleteHistory, MarkWatched,
          UnmarkWatched, SetListItem, DeleteListItem, SetRating, DeleteRating
    <3> QED BY <3>1 DEF Request, ControlTyped
  <2>4. ASSUME ReplaceImportedInteractions PROVE FALSE
    BY <2>4 DEF ReplaceImportedInteractions, ControlTyped
  <2>5. CASE UNCHANGED row
    BY <2>1, <2>5, SameKeepsHistory
  <2>6. ASSUME NEW i \in Items, TtlPasses(i)
        PROVE  j \in DOMAIN row' /\ KeepsHistory(row[j], row'[j])
    <3>1. j \in DOMAIN row'
      BY <2>6 DEF TtlPasses
    <3>2. row'[j] = row[j] \/ row'[j] = [row[j] EXCEPT !.seen = "expired"]
      BY <2>6 DEF TtlPasses
    <3> QED BY <2>1, <3>1, <3>2 DEF KeepsHistory, Row
  <2> QED
    BY <2>2, <2>3, <2>4, <2>5, <2>6
    DEF Next, Publish, Report, Announce, Debounced, Stamp, DebounceExpires,
        RequestBreaks, FlushBreaks, ReadGenerations, ListContinueWatching
<1> QED
  BY <1>1, <1>2, <1>3, PTL DEF Spec, PlaybackKeepsHistory

==============================================================================
