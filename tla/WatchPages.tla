------------------------------ MODULE WatchPages ------------------------------
(***************************************************************************)
(* A client reads a watch list page by page while the rows change          *)
(* (LocalUserWatchService.list*Page, pageFromRows, the page cursor).       *)
(*                                                                         *)
(* All lists are ordered by last_played_at DESC, item_id ASC, which puts   *)
(* NULL first, and go on below a cursor made of the last row of a page.    *)
(* The history shows stamped rows; watchlist and ratings show marked rows, *)
(* stamped or not.  Stamps are timestamptz with microseconds; a cursor     *)
(* holds a JavaScript Date, with milliseconds.                             *)
(***************************************************************************)
EXTENDS Naturals, FiniteSets

CONSTANTS
    WpItems,     \* number of rows of the profile
    WpLimit,     \* the page size asked for
    WpClock,     \* stamps written before the first page are below it
    WpWrites,    \* bound on writes while the client reads
    WpImports,   \* the rows a provider may have for the profile
    PerMilli,    \* instants of now() in a millisecond
    NoStamp      \* NULL

WpItem == 1..WpItems
WpStamp == 0..(WpClock + WpWrites) \cup {NoStamp}

ASSUME WatchPagesAssumption ==
    /\ WpItems \in Nat /\ WpLimit \in Nat \ {0} /\ WpClock \in Nat \ {0}
    /\ WpWrites \in Nat /\ PerMilli \in Nat \ {0} /\ NoStamp \notin Nat
    /\ WpImports \subseteq [stamp : [WpItem -> WpStamp], marked : SUBSET WpItem]

VARIABLES
    wpList,      \* history, or marked (watchlist, ratings)
    wpStamp,     \* wpStamp[i]: last_played_at of row i
    wpMarked,    \* rows with is_favorite, or with liked not NULL
    wpNow,       \* now()
    wpReader,    \* new, going, ended, or refused (400)
    wpCursor,    \* the cursor of the last page
    wpSeen,      \* rows returned (observation)
    wpTwice,     \* rows returned more than once (observation)
    wpCuts,      \* exact stamps of the rows the cursors were made of
                 \* (observation)
    wpTouched,   \* rows written since the first page (observation)
    wpImported   \* an import has replaced the rows since (observation)

wpRows == <<wpStamp, wpMarked, wpNow>>
wpRead == <<wpReader, wpCursor, wpSeen, wpTwice, wpCuts>>
wpVars == <<wpList, wpRows, wpRead, wpTouched, wpImported>>

NoCursor == [at |-> NoStamp, item |-> 0]

WpTypeOK ==
    /\ wpList \in {"history", "marked"}
    /\ wpStamp \in [WpItem -> WpStamp]
    /\ wpMarked \subseteq WpItem
    /\ wpNow \in WpStamp \ {NoStamp}
    /\ wpReader \in {"new", "going", "ended", "refused"}
    /\ wpCursor \in [at : WpStamp, item : 0..WpItems]
    /\ wpSeen \subseteq WpItem
    /\ wpTwice \subseteq wpSeen
    /\ wpCuts \subseteq WpStamp
    /\ wpTouched \subseteq WpItem
    /\ wpImported \in BOOLEAN

\* Rows stamped at any earlier instants, several at the same one.
WpInit ==
    /\ wpList \in {"history", "marked"}
    /\ wpStamp \in [WpItem -> 0..(WpClock - 1) \cup {NoStamp}]
    /\ wpMarked \in SUBSET WpItem
    /\ wpList = "history" => wpMarked = {}
    /\ wpNow = WpClock
    /\ wpReader = "new"
    /\ wpCursor = NoCursor
    /\ wpSeen = {}
    /\ wpTwice = {}
    /\ wpCuts = {}
    /\ wpTouched = {}
    /\ wpImported = FALSE

-----------------------------------------------------------------------------
(* Writes, each one statement; now() is the same for all rows of one *)

Touch(rows) ==
    /\ wpReader # "new" /\ wpNow < WpClock + WpWrites
    /\ wpNow' = wpNow + 1
    /\ wpTouched' = wpTouched \cup rows
    /\ UNCHANGED <<wpList, wpRead>>

\* A report, a mark-watched of a title, season or show.
WpPlay(rows) ==
    /\ Touch(rows)
    /\ wpStamp' = [i \in WpItem |-> IF i \in rows THEN wpNow ELSE wpStamp[i]]
    /\ UNCHANGED <<wpMarked, wpImported>>

\* unmarkWatched
WpUnmark(rows) ==
    /\ Touch(rows)
    /\ wpStamp' = [i \in WpItem |-> IF i \in rows THEN NoStamp ELSE wpStamp[i]]
    /\ UNCHANGED <<wpMarked, wpImported>>

\* deleteHistory: the rows are gone from every list, and may be inserted again.
WpDelete(rows) ==
    /\ Touch(rows)
    /\ wpStamp' = [i \in WpItem |-> IF i \in rows THEN NoStamp ELSE wpStamp[i]]
    /\ wpMarked' = wpMarked \ rows
    /\ UNCHANGED wpImported

\* setListItem leaves the stamp, setRating sets it.
WpMark(i) ==
    /\ wpList = "marked"
    /\ Touch({i})
    /\ wpMarked' = wpMarked \cup {i}
    /\ \/ UNCHANGED wpStamp
       \/ wpStamp' = [wpStamp EXCEPT ![i] = wpNow]
    /\ UNCHANGED wpImported

\* deleteListItem, deleteRating
WpClear(i) ==
    /\ i \in wpMarked
    /\ Touch({i})
    /\ wpMarked' = wpMarked \ {i}
    /\ UNCHANGED <<wpStamp, wpImported>>

\* replaceImportedInteractions, one transaction: every row is deleted, and the
\* provider's are inserted with the times it reports.
WpImport ==
    /\ Touch(WpItem)
    /\ \E import \in WpImports :
          /\ wpStamp' = import.stamp
          /\ wpMarked' = IF wpList = "history" THEN {} ELSE import.marked
    /\ wpImported' = TRUE

-----------------------------------------------------------------------------
(* Pages *)

Shown == {i \in WpItem : IF wpList = "history" THEN wpStamp[i] # NoStamp ELSE i \in wpMarked}

BelowNoTies(i, cursor) ==      \* the tie-breaker is left out (mutant)
    cursor = NoCursor \/ (wpStamp[i] # NoStamp /\ wpStamp[i] < cursor.at)

\* A comparison with NULL is not true.
Below(i, cursor) ==
    \/ cursor = NoCursor
    \/ wpStamp[i] # NoStamp /\ wpStamp[i] < cursor.at
    \/ wpStamp[i] = cursor.at /\ i > cursor.item

Earlier(i, j) ==    \* i is listed before j
    \/ wpStamp[i] = wpStamp[j] /\ i < j
    \/ wpStamp[i] = NoStamp /\ wpStamp[j] # NoStamp
    \/ /\ wpStamp[i] # NoStamp /\ wpStamp[j] # NoStamp
       /\ wpStamp[i] > wpStamp[j]

FirstOf(rows, n) == {i \in rows : Cardinality({j \in rows : Earlier(j, i)}) < n}

\* toISOString of the Date the driver made of the timestamp.
Truncated(stamp) == IF stamp = NoStamp THEN NoStamp ELSE stamp - (stamp % PerMilli)

\* Read limit + 1 rows, return limit, make a cursor of the last one returned.
WpPage ==
    LET rows == FirstOf({i \in Shown : Below(i, wpCursor)}, WpLimit + 1)
        items == FirstOf(rows, WpLimit)
        more == Cardinality(rows) > WpLimit
    IN /\ wpReader \in {"new", "going"}
       /\ wpCursor.item # 0 => wpCursor.at # NoStamp
       /\ wpSeen' = wpSeen \cup items
       /\ wpTwice' = wpTwice \cup (items \cap wpSeen)
       /\ wpReader' = IF more THEN "going" ELSE "ended"
       /\ \/ /\ more
             /\ \E last \in items :
                  /\ \A i \in items : i = last \/ Earlier(i, last)
                  /\ wpCursor' = [at |-> Truncated(wpStamp[last]), item |-> last]
                  /\ wpCuts' = wpCuts \cup {wpStamp[last]}
          \/ ~more /\ UNCHANGED <<wpCursor, wpCuts>>
       /\ UNCHANGED <<wpList, wpRows, wpTouched, wpImported>>

\* decodeWatchPageCursor refuses a cursor whose sort value is null.
WpRefuse ==
    /\ wpReader = "going"
    /\ wpCursor.at = NoStamp
    /\ wpReader' = "refused"
    /\ UNCHANGED <<wpList, wpRows, wpCursor, wpSeen, wpTwice, wpCuts, wpTouched,
                   wpImported>>

WpNext ==
    \/ \E rows \in SUBSET WpItem \ {{}} : WpPlay(rows) \/ WpUnmark(rows) \/ WpDelete(rows)
    \/ \E i \in WpItem : WpMark(i) \/ WpClear(i)
    \/ WpImport
    \/ WpPage \/ WpRefuse

WpSpec == WpInit /\ [][WpNext]_wpVars

-----------------------------------------------------------------------------
\* A cut lost its fraction: rows of its millisecond that come after it are not
\* below the cursor made of it.
LostBelow(stamp) ==
    \E cut \in wpCuts \ {NoStamp} :
        /\ Truncated(cut) # cut
        /\ Truncated(stamp) = Truncated(cut) /\ stamp <= cut

\* A client that reads a list to its end gets every row that nothing wrote
\* meanwhile, however the others move, unless its stamp shares the millisecond
\* of a page's last row, whose cursor lost the fraction (the episodes of a
\* show marked watched all share one now()).  No row comes twice, those that
\* are written included, until an import has given the rows the provider's
\* times, which may lie below the cursor; and a reader of the history is never
\* refused its own cursor (pageFromRows, ORDER BY last_played_at DESC, item_id).
PagesMissOnlyByCursor ==
    /\ wpReader = "ended" =>
          \A i \in Shown \ wpTouched : i \in wpSeen \/ LostBelow(wpStamp[i])
    /\ ~wpImported => wpTwice = {}
    /\ wpReader = "refused" => wpList # "history"
==============================================================================
