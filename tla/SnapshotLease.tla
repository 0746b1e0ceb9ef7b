---------------------------- MODULE SnapshotLease ----------------------------
(***************************************************************************)
(* Reading an eligible profile snapshot page by page:                      *)
(* DefaultEligibleProfileSnapshotService.listItems and                     *)
(* SqlEligibleProfileSnapshotRepo.listAndLeaseItems, which leases one row  *)
(* more than the page to learn whether there is a next one.                *)
(*                                                                         *)
(* The statement selects without FOR UPDATE: what it selected under its    *)
(* snapshot it updates after waiting for whoever updates the same rows, so *)
(* the two halves are two steps.                                           *)
(***************************************************************************)
EXTENDS Integers, FiniteSets

CONSTANTS
    LastItem,    \* item_offset of the snapshot's last item
    Traversal,   \* clients that read the snapshot from the start
    PageLimit    \* the limit asked for, after the clamp

ASSUME SnapshotLeaseAssumption == LastItem \in Nat /\ PageLimit \in Nat \ {0}

VARIABLES
    slLease,    \* slLease[i]: pending, leased, or leased with the lease over
    slPage,     \* slPage[t]: the request of t, its cursor, what it selected
    slHolds,    \* pairs <<t, i>>: t was given item i and its lease is not over
                \* (observation)
    slGiven,    \* items some response carried (observation)
    slAhead,    \* the other items some page leased (observation)
    slMet       \* sets of traversals whose statements overlapped (observation)

slVars == <<slLease, slPage, slHolds, slGiven, slAhead, slMet>>

SlItem == 0..LastItem

SlTypeOK ==
    /\ slLease \in [SlItem -> {"pending", "leased", "over"}]
    /\ slPage \in [Traversal -> [step : {"idle", "selected", "ended"},
                                 cursor : -1..LastItem, chosen : SUBSET SlItem]]
    /\ slHolds \subseteq Traversal \X SlItem
    /\ slGiven \subseteq SlItem
    /\ slAhead \subseteq SlItem
    /\ slMet \subseteq SUBSET Traversal

\* Without a cursor the statement takes offsets above -1.
SlInit ==
    /\ slLease = [i \in SlItem |-> "pending"]
    /\ slPage = [t \in Traversal |-> [step |-> "idle", cursor |-> -1, chosen |-> {}]]
    /\ slHolds = {}
    /\ slGiven = {}
    /\ slAhead = {}
    /\ slMet = {}

-----------------------------------------------------------------------------
SlFreeOrLeased(i) == TRUE      \* the lease is not looked at (mutant)
SlFree(i) == slLease[i] # "leased"

\* The first n items after the cursor that are free, in order of item_offset.
SlSelects(cursor, n) ==
    LET free == {i \in SlItem : i > cursor /\ SlFree(i)}
    IN {i \in free : Cardinality({j \in free : j < i}) < n}

SlSelect(t) ==
    /\ slPage[t].step = "idle"
    /\ slPage' = [slPage EXCEPT ![t].step = "selected",
                      ![t].chosen = SlSelects(slPage[t].cursor, PageLimit + 1)]
    /\ slMet' = slMet \cup {{t, u} : u \in {x \in Traversal : slPage[x].step = "selected"}}
    /\ UNCHANGED <<slLease, slHolds, slGiven, slAhead>>

\* hasMore compares items, the look-ahead row among them, with the limit.
SlHasMoreOfPage(items) ==      \* it compares returnedItems (mutant)
    LET returned == IF items < PageLimit THEN items ELSE PageLimit IN returned > PageLimit
SlHasMore(items) == items > PageLimit

\* nextOffset counts what was returned, from -1; the statement returns
\* the rows it leased in no order, and the page is the first PageLimit of them.
SlLeased(t) == [i \in SlItem |-> IF i \in slPage[t].chosen THEN "leased" ELSE slLease[i]]
SlReturns(t) ==
    {r \in SUBSET slPage[t].chosen :
        IF Cardinality(slPage[t].chosen) <= PageLimit THEN r = slPage[t].chosen
        ELSE Cardinality(r) = PageLimit}

SlUpdate(t) ==
    LET chosen == slPage[t].chosen
        more == SlHasMore(Cardinality(chosen))
    IN /\ slPage[t].step = "selected"
       /\ slLease' = SlLeased(t)
       /\ \E items \in SlReturns(t) :
            /\ slHolds' = slHolds \cup ({t} \X items)
            /\ slGiven' = slGiven \cup items
            /\ slAhead' = (slAhead \cup chosen) \ slGiven'
            /\ slPage' = [slPage EXCEPT ![t] =
                   [step |-> IF more THEN "idle" ELSE "ended",
                    cursor |-> IF more THEN @.cursor + Cardinality(items) ELSE @.cursor,
                    chosen |-> {}]]
       /\ UNCHANGED slMet

\* The lease is committed, the audit insert fails or the response is lost: the
\* client asks again with the cursor it has.
SlResponseLost(t) ==
    /\ slPage[t].step = "selected"
    /\ slLease' = SlLeased(t)
    /\ slAhead' = slAhead \cup (slPage[t].chosen \ slGiven)
    /\ slPage' = [slPage EXCEPT ![t].step = "idle", ![t].chosen = {}]
    /\ UNCHANGED <<slHolds, slGiven, slMet>>

\* leaseSeconds pass.
SlLapse(i) ==
    /\ slLease[i] = "leased"
    /\ slLease' = [slLease EXCEPT ![i] = "over"]
    /\ slHolds' = {h \in slHolds : h[2] # i}
    /\ UNCHANGED <<slPage, slGiven, slAhead, slMet>>

SlNext ==
    \/ \E t \in Traversal : SlSelect(t) \/ SlUpdate(t) \/ SlResponseLost(t)
    \/ \E i \in SlItem : SlLapse(i)

SlSpec == SlInit /\ [][SlNext]_slVars

-----------------------------------------------------------------------------
\* An item is in two clients' hands at once only when their statements
\* overlapped: the lease keeps every later page off it (listAndLeaseItems; the
\* missing FOR UPDATE is why an overlap is not kept off).
HeldByOne ==
    \A h, k \in slHolds :
        h[2] = k[2] /\ h[1] # k[1] => {h[1], k[1]} \in slMet

\* When a client has read to the end, the items nobody was given are those a
\* page leased and did not return: its look-ahead row (one of each full page)
\* and the rows of a lost response.  No item is passed over unleased
\* (nextOffset in listItems).
MissedWasLeased ==
    \A t \in Traversal :
        slPage[t].step = "ended" => SlItem = slGiven \cup slAhead
==============================================================================
