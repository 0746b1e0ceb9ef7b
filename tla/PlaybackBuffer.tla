--------------------------- MODULE PlaybackBuffer ---------------------------
(***************************************************************************)
(* The write-behind buffer of playback heartbeats of the API process       *)
(* (src/src/modules/watch/playback-progress-buffer.service.ts), for the    *)
(* items of one profile: the Redis keys cw:pos, cw:dirty and cw:processing,*)
(* the request handlers that fill them, the flushes that drain them (the   *)
(* interval timer and the drain on boot) and the crash of the process.     *)
(*                                                                         *)
(* Every await of the code is a step boundary here, so a flush is a chain  *)
(* of steps between which requests, other flushes and a crash may run.     *)
(* A position is its rank in the order of the SET commands (0: no          *)
(* position); what the database makes of it is the subject of WatchState.  *)
(***************************************************************************)
EXTENDS Integers, FiniteSets

CONSTANTS
    Items,        \* playable items of the profile
    Poisoned,     \* items whose database write always throws
    Flushers,     \* flush activations that may be in progress at once
    MaxBeats,     \* bound: heartbeats per item
    MaxCrashes,   \* bound: crashes of the API process
    MaxAborts     \* bound: flushes abandoned by a failing Redis command

ASSUME BufferAssumption ==
    /\ Poisoned \subseteq Items
    /\ MaxBeats \in Nat
    /\ MaxCrashes \in Nat
    /\ MaxAborts \in Nat

VARIABLES
    \* Redis
    pos,          \* pos[i]: content of cw:pos:..:i
    dirty,        \* the set cw:dirty:<account>:<profile>
    processing,   \* the set cw:processing:<account>:<profile>
    \* Postgres
    stored,       \* stored[i]: the last position recordPlaybackState wrote
    \* memory of the API process
    inflight,     \* requests between their SET and their SADD
    phase,        \* phase[f]: where flush f stands
    unmoved,      \* members flush f has still to SMOVE
    unread,       \* members flush f has still to GET
    taken,        \* the position flush f has read and is writing, if any
    failed,       \* the items whose write threw in flush f
    \* observation and bounds
    acked,        \* acked[i]: newest position a request was answered for
    crashes, aborts

redisVars == <<pos, dirty, processing>>
flushVars == <<phase, unmoved, unread, taken, failed>>
bounds == <<crashes, aborts>>
vars == <<redisVars, stored, inflight, flushVars, acked, bounds>>

Beat == [item : Items, seq : 1 .. MaxBeats]
Phase == {"idle", "boot", "flushing"}

TypeOK ==
    /\ pos \in [Items -> 0 .. MaxBeats]
    /\ dirty \subseteq Items
    /\ processing \subseteq Items
    /\ stored \in [Items -> 0 .. MaxBeats]
    /\ inflight \subseteq Beat
    /\ phase \in [Flushers -> Phase]
    /\ unmoved \in [Flushers -> SUBSET Items]
    /\ unread \in [Flushers -> SUBSET Items]
    /\ taken \in [Flushers -> SUBSET Beat]
    /\ failed \in [Flushers -> SUBSET Items]
    /\ acked \in [Items -> 0 .. MaxBeats]
    /\ crashes \in 0 .. MaxCrashes
    /\ aborts \in 0 .. MaxAborts

NoFlush == [f \in Flushers |-> {}]

Init ==
    /\ pos = [i \in Items |-> 0]
    /\ dirty = {}
    /\ processing = {}
    /\ stored = [i \in Items |-> 0]
    /\ inflight = {}
    /\ phase = [f \in Flushers |-> "idle"]
    /\ unmoved = NoFlush
    /\ unread = NoFlush
    /\ taken = NoFlush
    /\ failed = NoFlush
    /\ acked = [i \in Items |-> 0]
    /\ crashes = 0
    /\ aborts = 0

------------------------------------------------------------------------------
(* bufferProgress: two Redis commands, one after the other. *)

\* (mutant) the two commands swapped: the item is dirty before it has a position
HeartbeatAddFirst(i) ==
    /\ pos[i] < MaxBeats
    /\ dirty' = dirty \cup {i}
    /\ inflight' = inflight \cup {[item |-> i, seq |-> pos[i] + 1]}
    /\ UNCHANGED <<pos, processing, stored, flushVars, acked, bounds>>

HeartbeatSet(i) ==
    /\ pos[i] < MaxBeats
    /\ pos' = [pos EXCEPT ![i] = @ + 1]
    /\ inflight' = inflight \cup {[item |-> i, seq |-> pos[i] + 1]}
    /\ UNCHANGED <<dirty, processing, stored, flushVars, acked, bounds>>

\* SADD, and the request is answered { accepted: true }.
HeartbeatAck(b) ==
    /\ inflight' = inflight \ {b}
    /\ dirty' = dirty \cup {b.item}
    /\ acked' = IF b.seq > acked[b.item]
                THEN [acked EXCEPT ![b.item] = b.seq]
                ELSE acked
    /\ UNCHANGED <<pos, processing, stored, flushVars, bounds>>

\* The SADD throws: the request is answered with an error.
HeartbeatError(b) ==
    /\ inflight' = inflight \ {b}
    /\ UNCHANGED <<redisVars, stored, flushVars, acked, bounds>>

------------------------------------------------------------------------------
(* flush, flushPendingOnBoot and flushProfile. *)

\* SMEMBERS of the source set starts flushProfile.
StartWith(f, members, toMove) ==
    /\ phase' = [phase EXCEPT ![f] = "flushing"]
    /\ unmoved' = [unmoved EXCEPT ![f] = toMove]
    /\ unread' = [unread EXCEPT ![f] = members]
    /\ UNCHANGED <<redisVars, stored, inflight, taken, failed, acked, bounds>>

\* flushProfile f is over, one way or another.
Leave(f) ==
    /\ phase' = [phase EXCEPT ![f] = "idle"]
    /\ unmoved' = [unmoved EXCEPT ![f] = {}]
    /\ unread' = [unread EXCEPT ![f] = {}]
    /\ failed' = [failed EXCEPT ![f] = {}]
    /\ UNCHANGED <<pos, stored, inflight, taken, acked, crashes>>

\* The interval timer fires and cw:dirty is not empty.  The timer does not
\* look at flushes still in progress.
Tick(f) ==
    /\ phase[f] = "idle"
    /\ dirty # {}
    /\ StartWith(f, dirty, dirty)

\* The drain on boot reads cw:processing; its SMOVEs go from cw:processing
\* to itself and change nothing.
BootDrain(f) ==
    /\ phase[f] = "boot"
    /\ \/ /\ processing # {}
          /\ StartWith(f, processing, {})
       \/ /\ processing = {}
          /\ Leave(f)
          /\ UNCHANGED <<dirty, processing, aborts>>

\* One SMOVE cw:dirty -> cw:processing; without effect on a member another
\* flush has already moved.
Move(f) ==
    /\ phase[f] = "flushing"
    /\ \E i \in unmoved[f] :
        /\ unmoved' = [unmoved EXCEPT ![f] = @ \ {i}]
        /\ dirty' = dirty \ {i}
        /\ processing' = IF i \in dirty THEN processing \cup {i} ELSE processing
    /\ UNCHANGED <<pos, stored, inflight, phase, unread, taken, failed, acked,
                   bounds>>

\* GET of the latest position of the next member.
Read(f) ==
    /\ phase[f] = "flushing"
    /\ unmoved[f] = {}
    /\ taken[f] = {}
    /\ \E i \in unread[f] :
        /\ unread' = [unread EXCEPT ![f] = @ \ {i}]
        /\ taken' = [taken EXCEPT ![f] = {[item |-> i, seq |-> pos[i]]}]
    /\ UNCHANGED <<redisVars, stored, inflight, phase, unmoved, failed, acked,
                   bounds>>

\* recordPlaybackState returns.
WriteOk(f, b) ==
    /\ b \in taken[f]
    /\ b.item \notin Poisoned
    /\ stored' = [stored EXCEPT ![b.item] = b.seq]
    /\ taken' = [taken EXCEPT ![f] = {}]
    /\ UNCHANGED <<redisVars, inflight, phase, unmoved, unread, failed, acked,
                   bounds>>

\* (mutant) the payload of a failed write is put back into cw:pos
WriteErrorRestoresPayload(f) ==
    /\ \E b \in taken[f] :
        /\ failed' = [failed EXCEPT ![f] = @ \cup {b.item}]
        /\ pos' = [pos EXCEPT ![b.item] = b.seq]
    /\ taken' = [taken EXCEPT ![f] = {}]
    /\ UNCHANGED <<dirty, processing, stored, inflight, phase, unmoved, unread,
                   acked, bounds>>

\* The GET or recordPlaybackState throws: the item goes to the failed list.
\* The row may have been written, when it is the publish after it that threw.
WriteError(f) ==
    /\ \E b \in taken[f] :
        /\ \/ UNCHANGED stored
           \/ /\ b.item \notin Poisoned
              /\ stored' = [stored EXCEPT ![b.item] = b.seq]
        /\ failed' = [failed EXCEPT ![f] = @ \cup {b.item}]
    /\ taken' = [taken EXCEPT ![f] = {}]
    /\ UNCHANGED <<redisVars, inflight, phase, unmoved, unread, acked, bounds>>

\* All members of the flush have been handled.
BatchDone(f) ==
    /\ phase[f] = "flushing"
    /\ unmoved[f] = {}
    /\ unread[f] = {}
    /\ taken[f] = {}

\* (mutant) cw:processing is deleted whatever failed
FinishAlwaysDeletes(f) ==
    /\ BatchDone(f)
    /\ processing' = {}
    /\ Leave(f)
    /\ UNCHANGED <<dirty, aborts>>

\* (mutant) failures are left in cw:processing for the next boot
FinishWithoutRequeue(f) ==
    /\ BatchDone(f)
    /\ processing' = IF failed[f] = {} THEN {} ELSE processing
    /\ Leave(f)
    /\ UNCHANGED <<dirty, aborts>>

\* The end of flushProfile: failures go back to cw:dirty and cw:processing
\* is kept; without failures cw:processing is deleted.
Finish(f) ==
    /\ BatchDone(f)
    /\ \/ /\ failed[f] # {}
          /\ dirty' = dirty \cup failed[f]
          /\ UNCHANGED processing
       \/ /\ failed[f] = {}
          /\ processing' = {}
          /\ UNCHANGED dirty
    /\ Leave(f)
    /\ UNCHANGED aborts

\* SMOVE, SADD or DEL throws: flush() rejects, the timer's handler logs it,
\* and the process goes on with whatever Redis holds.
Abort(f) ==
    /\ phase[f] = "flushing"
    /\ taken[f] = {}
    /\ aborts < MaxAborts
    /\ aborts' = aborts + 1
    /\ Leave(f)
    /\ UNCHANGED <<dirty, processing>>

\* The process dies and comes back: memory is lost, Redis and Postgres are
\* not.  flushPendingOnBoot issues its first command before start() arms the
\* timer, and is not awaited.
CrashRestart ==
    /\ crashes < MaxCrashes
    /\ crashes' = crashes + 1
    /\ inflight' = {}
    /\ \E b \in Flushers :
         phase' = [f \in Flushers |-> IF f = b THEN "boot" ELSE "idle"]
    /\ unmoved' = NoFlush
    /\ unread' = NoFlush
    /\ taken' = NoFlush
    /\ failed' = NoFlush
    /\ UNCHANGED <<redisVars, stored, acked, aborts>>

------------------------------------------------------------------------------
FlushStep(f) ==
    \/ Tick(f)
    \/ BootDrain(f)
    \/ Move(f)
    \/ Read(f)
    \/ \E b \in taken[f] : WriteOk(f, b)
    \/ WriteError(f)
    \/ Finish(f)
    \/ Abort(f)

Next ==
    \/ \E i \in Items : HeartbeatSet(i)
    \/ \E b \in inflight : HeartbeatAck(b) \/ HeartbeatError(b)
    \/ \E f \in Flushers : FlushStep(f)
    \/ CrashRestart

Spec == Init /\ [][Next]_vars

\* A write of item i by flush f succeeds.
ItemWritten(f, i) == \E b \in taken[f] : b.item = i /\ WriteOk(f, b)

\* The event loop runs every flush to its end and fires the timer again and
\* again; the database is not down for good, so an item that is retried for
\* ever is written some time.
Fairness ==
    /\ \A f \in Flushers :
        /\ WF_vars(Tick(f))
        /\ WF_vars(BootDrain(f))
        /\ WF_vars(Move(f))
        /\ WF_vars(Read(f))
        /\ WF_vars(WriteError(f))
        /\ WF_vars(Finish(f))
    /\ \A f \in Flushers, i \in Items : SF_vars(ItemWritten(f, i))

FairSpec == Spec /\ Fairness

------------------------------------------------------------------------------
(* What the buffer is for. *)

\* An accepted position that the store does not have yet.
Pending(i) == acked[i] > stored[i]

\* Crash safety, as the class comment has it: at every moment, what has been
\* accepted and not written is named by one of the two Redis sets, so that
\* no crash at that moment can lose it.  A flush abandoned by a Redis error
\* voids this (see Abort), so the property speaks of runs without one.
NothingLost ==
    aborts = 0 => \A i \in Items : Pending(i) => i \in dirty \cup processing

\* The same, excusing a position some flush in progress still carries in
\* memory: once violated, nobody but a new heartbeat will write the item.
Carried(i) ==
    \E f \in Flushers :
        \/ i \in unread[f] \cup failed[f]
        \/ \E b \in taken[f] : b.item = i

CrashCannotDropProgress ==
    \A i \in Items :
        Pending(i) /\ ~Carried(i) => i \in dirty \cup processing

\* One flush at a time.
SingleFlight == \A f, g \in Flushers : f = g

WB == INSTANCE WriteBehind WITH offered <- pos

\* The buffer implements the write-behind promise: safety part ...
ImplementsWriteBehind == WB!WBSpec

\* ... and liveness part: an accepted position is eventually stored or
\* superseded, even while the writes of a poisoned item keep failing.
AcceptedIsStored ==
    [](aborts = 0) => \A i \in Items \ Poisoned : \A n \in 1 .. MaxBeats :
        (acked[i] = n) ~> (stored[i] >= n)
==============================================================================
