----------------------------- MODULE WriteBehind -----------------------------
(***************************************************************************)
(* What the playback write-behind buffer promises its callers, with no     *)
(* Redis sets, flusher or crash in sight.  For each item:                  *)
(*                                                                         *)
(*   offered[i]  the newest position any request has put in the buffer;    *)
(*   acked[i]    the newest position a request was told "accepted" for;    *)
(*   stored[i]   the newest position the relational store has been given.  *)
(*                                                                         *)
(* Positions are numbered 1, 2, ... in the order in which they reach the   *)
(* buffer, 0 standing for none.                                            *)
(***************************************************************************)
EXTENDS Naturals

CONSTANTS
    Items,      \* playable items of one profile
    Poisoned    \* the items whose database write never succeeds

VARIABLES offered, acked, stored

wbVars == <<offered, acked, stored>>

WBInit ==
    /\ offered = [i \in Items |-> 0]
    /\ acked = [i \in Items |-> 0]
    /\ stored = [i \in Items |-> 0]

\* A request puts the next position of i in the buffer.
Offer(i) ==
    /\ offered' = [offered EXCEPT ![i] = @ + 1]
    /\ UNCHANGED <<acked, stored>>

\* A request is answered; answers may overtake one another.
Accept(i) ==
    /\ \E n \in acked[i] .. offered[i] : acked' = [acked EXCEPT ![i] = n]
    /\ UNCHANGED <<offered, stored>>

\* The store catches up with the buffer, in order, skipping what was
\* overwritten meanwhile; it never falls back.
Store(i) ==
    /\ \E n \in stored[i] .. offered[i] : stored' = [stored EXCEPT ![i] = n]
    /\ UNCHANGED <<offered, acked>>

WBNext == \E i \in Items : Offer(i) \/ Accept(i) \/ Store(i)

WBSpec == WBInit /\ [][WBNext]_wbVars

(***************************************************************************)
(* The promise: what was accepted is eventually stored (or superseded).    *)
(***************************************************************************)
AcceptedIsStored ==
    \A i \in Items \ Poisoned : \A n \in Nat :
        (acked[i] = n) ~> (stored[i] >= n)
==============================================================================
