----------------------------- MODULE WatchStream -----------------------------
(***************************************************************************)
(* The SSE connections of one profile on one server: the count in          *)
(* activeWatchStreams, the Redis subscription of each connection and its   *)
(* handlers.                                                               *)
(*                                                                         *)
(* The handler runs in one piece up to `await subscriber.subscribe` and in *)
(* one piece after it; the close handlers are registered in the second     *)
(* piece, so a client that goes away in between is not noticed.  What is   *)
(* written to the stream is left out.                                      *)
(***************************************************************************)
EXTENDS Naturals, FiniteSets

CONSTANTS
    Stream,       \* connections
    MaxStreams    \* MAX_WATCH_STREAMS_PER_PROFILE

ASSUME WatchStreamAssumption == MaxStreams \in Nat \ {0}

VARIABLES
    wsCount,      \* activeWatchStreams.get(streamKey) ?? 0
    wsState,      \* wsState[s]: the handler of connection s
    wsGone,       \* connections whose client has gone
    wsEvents,     \* wsEvents[s]: 'close' listeners of s that have yet to run
    wsClosed,     \* connections whose closed flag is set
    wsLost        \* slots that nothing will give back (observation)

wsVars == <<wsCount, wsState, wsGone, wsEvents, wsClosed, wsLost>>

WsTypeOK ==
    /\ wsCount \in Nat
    /\ wsState \in [Stream -> {"none", "refused", "subscribing", "open",
                               "failed"}]
    /\ wsGone \subseteq Stream
    /\ wsEvents \in [Stream -> 0..2]
    /\ wsClosed \subseteq Stream
    /\ wsLost \subseteq Stream

WsInit ==
    /\ wsCount = 0
    /\ wsState = [s \in Stream |-> "none"]
    /\ wsGone = {}
    /\ wsEvents = [s \in Stream |-> 0]
    /\ wsClosed = {}
    /\ wsLost = {}

-----------------------------------------------------------------------------
\* acquireWatchStream: a slot, or 429.
WsOpen(s) ==
    /\ wsState[s] = "none"
    /\ \/ /\ wsCount < MaxStreams
          /\ wsCount' = wsCount + 1
          /\ wsState' = [wsState EXCEPT ![s] = "subscribing"]
       \/ /\ wsCount >= MaxStreams
          /\ wsState' = [wsState EXCEPT ![s] = "refused"]
          /\ UNCHANGED wsCount
    /\ UNCHANGED <<wsGone, wsEvents, wsClosed, wsLost>>

\* subscribe resolved: both 'close' handlers are registered.  Those of a
\* client that has gone will never be called.
WsSubscribed(s) ==
    /\ wsState[s] = "subscribing"
    /\ wsState' = [wsState EXCEPT ![s] = "open"]
    /\ wsLost' = IF s \in wsGone THEN wsLost \cup {s} ELSE wsLost
    /\ UNCHANGED <<wsCount, wsGone, wsEvents, wsClosed>>

\* subscribe rejected: the handler throws after the hijack, with the slot.
WsSubscribeFails(s) ==
    /\ wsState[s] = "subscribing"
    /\ wsState' = [wsState EXCEPT ![s] = "failed"]
    /\ wsLost' = wsLost \cup {s}
    /\ UNCHANGED <<wsCount, wsGone, wsEvents, wsClosed>>

\* The socket closes; request and response each emit 'close'.
WsClientGoes(s) ==
    /\ wsState[s] \in {"subscribing", "open"} /\ s \notin wsGone
    /\ wsGone' = wsGone \cup {s}
    /\ wsEvents' = [wsEvents EXCEPT ![s] = IF wsState[s] = "open" THEN 2 ELSE 0]
    /\ UNCHANGED <<wsCount, wsState, wsClosed, wsLost>>

WsReleased == IF wsCount <= 1 THEN 0 ELSE wsCount - 1

WsFinishTwice(s) ==        \* finish does not look at closed (mutant)
    /\ wsEvents[s] > 0
    /\ wsEvents' = [wsEvents EXCEPT ![s] = @ - 1]
    /\ wsClosed' = wsClosed \cup {s}
    /\ wsCount' = WsReleased
    /\ UNCHANGED <<wsState, wsGone, wsLost>>

\* finish runs for each of the two events and acts once.
WsFinish(s) ==
    /\ wsEvents[s] > 0
    /\ wsEvents' = [wsEvents EXCEPT ![s] = @ - 1]
    /\ wsClosed' = wsClosed \cup {s}
    /\ wsCount' = IF s \in wsClosed THEN wsCount ELSE WsReleased
    /\ UNCHANGED <<wsState, wsGone, wsLost>>

WsNext ==
    \E s \in Stream : \/ WsOpen(s) \/ WsSubscribed(s) \/ WsSubscribeFails(s)
                      \/ WsClientGoes(s) \/ WsFinish(s)
WsSpec == WsInit /\ [][WsNext]_wsVars

-----------------------------------------------------------------------------
WsHeld == {s \in Stream : wsState[s] \in {"subscribing", "open"}
                          /\ s \notin wsClosed}

\* The count is that of the connections being set up or open plus the slots
\* lost for good, and a slot is lost only when the subscription failed or the
\* client went away before it was made: closing gives back one slot, once.
SlotsMatchStreams ==
    /\ wsCount = Cardinality(WsHeld \cup wsLost)
    /\ Cardinality(WsHeld) <= MaxStreams
    /\ \A s \in wsLost : wsState[s] = "failed" \/ s \in wsGone
==============================================================================
