------------------------ MODULE PlaybackBuffer_proof ------------------------
(***************************************************************************)
(* Proofs about PlaybackBuffer, for any sets of items and flushers and any *)
(* bounds.  Two layers: Tracking holds however many flushes overlap; the   *)
(* crash-safety invariant and the refinement need SingleFlight.            *)
(***************************************************************************)
EXTENDS PlaybackBuffer, TLAPS

------------------------------------------------------------------------------
(* Layer one: what every interleaving keeps. *)

\* Everything Redis or a flush names has a position, and no number in the
\* system is ahead of the buffered one.
Tracking ==
    /\ \A i \in Items : acked[i] <= pos[i] /\ stored[i] <= pos[i]
    /\ \A b \in inflight : b.seq <= pos[b.item]
    /\ \A i \in dirty \cup processing : pos[i] > 0
    /\ \A f \in Flushers :
        /\ \A i \in unmoved[f] \cup unread[f] \cup failed[f] : pos[i] > 0
        /\ \A b \in taken[f] : b.seq <= pos[b.item]

TInv == TypeOK /\ Tracking

LEMMA TInvInit == Init => TInv
  BY BufferAssumption DEF Init, TInv, TypeOK, Tracking, NoFlush, Phase

\* No step of any flush breaks TInv; one case per action.
LEMMA TInvStep == TInv /\ [Next]_vars => TInv'
<1> SUFFICES ASSUME TInv, [Next]_vars PROVE TInv'
  OBVIOUS
<1> USE BufferAssumption DEF TInv, TypeOK, Tracking
<1>1. ASSUME NEW i \in Items, HeartbeatSet(i) PROVE TInv'
  <2>1. TypeOK'
    BY <1>1 DEF HeartbeatSet, flushVars, bounds, Beat
  <2>2. Tracking'
    BY <1>1 DEF HeartbeatSet, flushVars, bounds, Beat
  <2> QED BY <2>1, <2>2
<1>2. ASSUME NEW b \in inflight, HeartbeatAck(b) PROVE TInv'
  <2>1. TypeOK'
    BY <1>2 DEF HeartbeatAck, flushVars, bounds, Beat
  <2>2. Tracking'
    BY <1>2 DEF HeartbeatAck, flushVars, bounds, Beat
  <2> QED BY <2>1, <2>2
<1>3. ASSUME NEW b \in inflight, HeartbeatError(b) PROVE TInv'
  BY <1>3 DEF HeartbeatError, redisVars, flushVars, bounds
<1>4. ASSUME NEW f \in Flushers, Tick(f) PROVE TInv'
  <2>1. TypeOK'
    BY <1>4 DEF Tick, StartWith, redisVars, bounds, Phase
  <2>2. Tracking'
    BY <1>4 DEF Tick, StartWith, redisVars, bounds
  <2> QED BY <2>1, <2>2
<1>5. ASSUME NEW f \in Flushers, BootDrain(f) PROVE TInv'
  <2>1. TypeOK'
    BY <1>5 DEF BootDrain, StartWith, Leave, redisVars, bounds, Phase
  <2>2. Tracking'
    BY <1>5 DEF BootDrain, StartWith, Leave, redisVars, bounds
  <2> QED BY <2>1, <2>2
<1>6. ASSUME NEW f \in Flushers, Move(f) PROVE TInv'
  <2>1. TypeOK'
    BY <1>6 DEF Move, bounds
  <2>2. Tracking'
    BY <1>6 DEF Move, bounds
  <2> QED BY <2>1, <2>2
<1>7. ASSUME NEW f \in Flushers, Read(f) PROVE TInv'
  <2> PICK i \in unread[f] :
        /\ unread' = [unread EXCEPT ![f] = @ \ {i}]
        /\ taken' = [taken EXCEPT ![f] = {[item |-> i, seq |-> pos[i]]}]
    BY <1>7 DEF Read
  <2>1. [item |-> i, seq |-> pos[i]] \in Beat
    BY DEF Beat
  <2>2. TypeOK'
    BY <1>7, <2>1 DEF Read, redisVars, bounds
  <2>3. Tracking'
    BY <1>7 DEF Read, redisVars, bounds
  <2> QED BY <2>2, <2>3
<1>8. ASSUME NEW f \in Flushers, NEW b \in taken[f], WriteOk(f, b) PROVE TInv'
  <2>1. b \in Beat
    OBVIOUS
  <2>2. TypeOK'
    BY <1>8, <2>1 DEF WriteOk, redisVars, bounds, Beat
  <2>3. Tracking'
    BY <1>8, <2>1 DEF WriteOk, redisVars, bounds, Beat
  <2> QED BY <2>2, <2>3
<1>9. ASSUME NEW f \in Flushers, WriteError(f) PROVE TInv'
  <2> PICK b \in taken[f] :
        /\ \/ UNCHANGED stored
           \/ stored' = [stored EXCEPT ![b.item] = b.seq]
        /\ failed' = [failed EXCEPT ![f] = @ \cup {b.item}]
    BY <1>9 DEF WriteError
  <2>1. b \in Beat /\ b.seq <= pos[b.item]
    OBVIOUS
  <2>2. TypeOK'
    BY <1>9, <2>1 DEF WriteError, redisVars, bounds, Beat
  <2>3. Tracking'
    BY <1>9, <2>1 DEF WriteError, redisVars, bounds, Beat
  <2> QED BY <2>2, <2>3
<1>10. ASSUME NEW f \in Flushers, Finish(f) PROVE TInv'
  <2>1. TypeOK'
    BY <1>10 DEF Finish, Leave, Phase
  <2>2. Tracking'
    BY <1>10 DEF Finish, Leave
  <2> QED BY <2>1, <2>2
<1>11. ASSUME NEW f \in Flushers, Abort(f) PROVE TInv'
  <2>1. TypeOK'
    BY <1>11 DEF Abort, Leave, Phase
  <2>2. Tracking'
    BY <1>11 DEF Abort, Leave
  <2> QED BY <2>1, <2>2
<1>12. ASSUME CrashRestart PROVE TInv'
  <2>1. TypeOK'
    BY <1>12 DEF CrashRestart, redisVars, NoFlush, Phase
  <2>2. Tracking'
    BY <1>12 DEF CrashRestart, redisVars, NoFlush
  <2> QED BY <2>1, <2>2
<1>13. CASE UNCHANGED vars
  BY <1>13 DEF vars, redisVars, flushVars, bounds
<1> QED
  BY <1>1, <1>2, <1>3, <1>4, <1>5, <1>6, <1>7, <1>8, <1>9, <1>10, <1>11,
     <1>12, <1>13 DEF Next, FlushStep

LEMMA TInvariant == Spec => []TInv
  BY TInvInit, TInvStep, PTL DEF Spec

\* Type correctness of the buffer, whatever overlaps, fails or crashes.
THEOREM BufferTypeCorrect == Spec => []TypeOK
  BY TInvariant, PTL DEF TInv

------------------------------------------------------------------------------
(* Layer two: one flush at a time. *)

\* An idle or booting flush holds nothing, and the phases of a flush follow
\* one another: move all, then read and write one by one.
Phases ==
    \A f \in Flushers :
        /\ phase[f] # "flushing" =>
             /\ unmoved[f] = {}
             /\ unread[f] = {}
             /\ taken[f] = {}
             /\ failed[f] = {}
        /\ unmoved[f] \subseteq unread[f]
        /\ taken[f] # {} => unmoved[f] = {}
        /\ \A b, c \in taken[f] : b = c

\* A position read by the flush is at least the stored one, and at least the
\* accepted one unless the item has become dirty again.
FreshReads ==
    \A f \in Flushers : \A b \in taken[f] :
        /\ stored[b.item] <= b.seq
        /\ acked[b.item] <= b.seq \/ b.item \in dirty

\* Once the drain on boot has read cw:processing, that set holds nothing the
\* flush is not about to write, put back or find dirty: deleting it is safe.
LeftoversCovered ==
    aborts = 0 =>
        \A f \in Flushers : phase[f] # "boot" =>
            \A i \in processing :
                Pending(i) =>
                    \/ i \in dirty
                    \/ i \in unread[f] \cup failed[f]
                    \/ \E b \in taken[f] : b.item = i

SafeInv == Phases /\ FreshReads /\ LeftoversCovered /\ NothingLost
LEMMA SafeInvInit == Init => SafeInv
  BY DEF Init, SafeInv, Phases, FreshReads, LeftoversCovered, NothingLost,
         Pending, NoFlush

\* The step lemma, one case per action and, where an action disturbs several
\* of them, one step per conjunct of the invariant.
LEMMA SafeInvStep ==
    ASSUME SingleFlight, TInv, SafeInv, [Next]_vars
    PROVE  SafeInv'
<1> USE BufferAssumption DEF TInv, TypeOK, Tracking, SafeInv, SingleFlight
<1> DEFINE Parts == Phases' /\ FreshReads' /\ LeftoversCovered' /\ NothingLost'
<1>1. ASSUME NEW i \in Items, HeartbeatSet(i) PROVE Parts
  <2> USE <1>1 DEF HeartbeatSet, flushVars, bounds
  <2>1. Phases'
    BY DEF Phases
  <2>2. FreshReads'
    BY DEF FreshReads
  <2>3. LeftoversCovered'
    BY DEF LeftoversCovered, Pending
  <2>4. NothingLost'
    BY DEF NothingLost, Pending
  <2> QED BY <2>1, <2>2, <2>3, <2>4
<1>2. ASSUME NEW b \in inflight, HeartbeatAck(b) PROVE Parts
  <2> USE <1>2 DEF HeartbeatAck, flushVars, bounds, Beat
  <2>1. Phases'
    BY DEF Phases
  <2>2. FreshReads'
    BY DEF FreshReads
  <2>3. LeftoversCovered'
    BY DEF LeftoversCovered, Pending
  <2>4. NothingLost'
    BY DEF NothingLost, Pending
  <2> QED BY <2>1, <2>2, <2>3, <2>4
<1>3. ASSUME NEW b \in inflight, HeartbeatError(b) PROVE Parts
  BY <1>3 DEF HeartbeatError, redisVars, flushVars, bounds, Phases, FreshReads,
              LeftoversCovered, NothingLost, Pending
<1>4. ASSUME NEW f \in Flushers, Tick(f) PROVE Parts
  <2> USE <1>4 DEF Tick, StartWith, redisVars, bounds
  <2>1. Phases'
    BY DEF Phases
  <2>2. FreshReads'
    BY DEF FreshReads
  <2>3. LeftoversCovered'
    BY DEF LeftoversCovered, Pending, Phases
  <2>4. NothingLost'
    BY DEF NothingLost, Pending
  <2> QED BY <2>1, <2>2, <2>3, <2>4
<1>5. ASSUME NEW f \in Flushers, BootDrain(f) PROVE Parts
  <2> USE <1>5 DEF BootDrain, StartWith, Leave, redisVars, bounds
  <2>1. Phases'
    BY DEF Phases
  <2>2. FreshReads'
    BY DEF FreshReads
  <2>3. LeftoversCovered'
    BY DEF LeftoversCovered, Pending
  <2>4. NothingLost'
    BY DEF NothingLost, Pending
  <2> QED BY <2>1, <2>2, <2>3, <2>4
<1>6. ASSUME NEW f \in Flushers, Move(f) PROVE Parts
  <2> USE <1>6 DEF Move, bounds
  <2>1. Phases'
    BY DEF Phases
  <2>2. FreshReads'
    BY DEF FreshReads, Phases
  <2>3. LeftoversCovered'
    BY DEF LeftoversCovered, Pending, Phases
  <2>4. NothingLost'
    BY DEF NothingLost, Pending
  <2> QED BY <2>1, <2>2, <2>3, <2>4
<1>7. ASSUME NEW f \in Flushers, Read(f) PROVE Parts
  <2> USE <1>7 DEF Read, redisVars, bounds
  <2>1. Phases'
    BY DEF Phases
  <2>2. FreshReads'
    BY DEF FreshReads
  <2>3. LeftoversCovered'
    <3> PICK i \in unread[f] :
          /\ unread' = [unread EXCEPT ![f] = @ \ {i}]
          /\ taken' = [taken EXCEPT ![f] = {[item |-> i, seq |-> pos[i]]}]
      OBVIOUS
    <3>1. unread'[f] = unread[f] \ {i} /\ \E b \in taken'[f] : b.item = i
      OBVIOUS
    <3>2. taken[f] = {}
      OBVIOUS
    <3> QED BY <3>1, <3>2 DEF LeftoversCovered, Pending
  <2>4. NothingLost'
    BY DEF NothingLost, Pending
  <2> QED BY <2>1, <2>2, <2>3, <2>4
<1>8. ASSUME NEW f \in Flushers, NEW b \in taken[f], WriteOk(f, b) PROVE Parts
  <2> USE <1>8 DEF WriteOk, redisVars, bounds, Beat
  <2>0. b.seq >= stored[b.item] /\ b \in Beat
    BY DEF FreshReads
  <2>1. Phases'
    BY DEF Phases
  <2>2. FreshReads'
    BY DEF FreshReads
  <2>3. LeftoversCovered'
    BY <2>0 DEF LeftoversCovered, Pending, Phases, FreshReads
  <2>4. NothingLost'
    BY <2>0 DEF NothingLost, Pending
  <2> QED BY <2>1, <2>2, <2>3, <2>4
<1>9. ASSUME NEW f \in Flushers, WriteError(f) PROVE Parts
  <2> PICK b \in taken[f] :
        /\ \/ UNCHANGED stored
           \/ stored' = [stored EXCEPT ![b.item] = b.seq]
        /\ failed' = [failed EXCEPT ![f] = @ \cup {b.item}]
    BY <1>9 DEF WriteError
  <2> USE <1>9 DEF WriteError, redisVars, bounds, Beat
  <2>0. b.seq >= stored[b.item] /\ b \in Beat
    BY DEF FreshReads
  <2>1. Phases'
    BY DEF Phases
  <2>2. FreshReads'
    BY DEF FreshReads
  <2>3. LeftoversCovered'
    BY <2>0 DEF LeftoversCovered, Pending, Phases, FreshReads
  <2>4. NothingLost'
    BY <2>0 DEF NothingLost, Pending
  <2> QED BY <2>1, <2>2, <2>3, <2>4
<1>10. ASSUME NEW f \in Flushers, Finish(f) PROVE Parts
  <2> USE <1>10 DEF Finish, BatchDone, Leave
  <2>1. Phases'
    BY DEF Phases
  <2>2. FreshReads'
    BY DEF FreshReads
  <2>3. LeftoversCovered'
    BY DEF LeftoversCovered, Pending
  <2>4. NothingLost'
    BY DEF NothingLost, Pending, LeftoversCovered
  <2> QED BY <2>1, <2>2, <2>3, <2>4
<1>11. ASSUME NEW f \in Flushers, Abort(f) PROVE Parts
  <2> USE <1>11 DEF Abort, Leave
  <2>1. Phases'
    BY DEF Phases
  <2>2. FreshReads'
    BY DEF FreshReads
  <2>3. LeftoversCovered' /\ NothingLost'
    BY DEF LeftoversCovered, NothingLost
  <2> QED BY <2>1, <2>2, <2>3
<1>12. ASSUME CrashRestart PROVE Parts
  <2> USE <1>12 DEF CrashRestart, redisVars, NoFlush
  <2>1. Phases'
    BY DEF Phases
  <2>2. FreshReads'
    BY DEF FreshReads
  <2>3. LeftoversCovered'
    BY DEF LeftoversCovered
  <2>4. NothingLost'
    BY DEF NothingLost, Pending
  <2> QED BY <2>1, <2>2, <2>3, <2>4
<1>13. CASE UNCHANGED vars
  BY <1>13 DEF vars, redisVars, flushVars, bounds, Phases, FreshReads,
               LeftoversCovered, NothingLost, Pending
<1> QED
  BY <1>1, <1>2, <1>3, <1>4, <1>5, <1>6, <1>7, <1>8, <1>9, <1>10, <1>11,
     <1>12, <1>13 DEF Next, FlushStep

\* Crash safety: as long as flushes do not overlap and none is abandoned
\* halfway, every accepted and unwritten position is named by cw:dirty or
\* cw:processing at every moment, so no crash can lose it.
THEOREM NothingLostTheorem == SingleFlight => (Spec => []NothingLost)
<1> SUFFICES ASSUME SingleFlight PROVE Spec => []NothingLost
  OBVIOUS
<1>1. Init => TInv /\ SafeInv
  BY TInvInit, SafeInvInit
<1>2. (TInv /\ SafeInv) /\ [Next]_vars => (TInv /\ SafeInv)'
  BY TInvStep, SafeInvStep
<1>3. TInv /\ SafeInv => NothingLost
  BY DEF SafeInv
<1> QED BY <1>1, <1>2, <1>3, PTL DEF Spec

------------------------------------------------------------------------------
(* Refinement. *)

LEMMA RefinementStep ==
    ASSUME TInv, FreshReads, [Next]_vars
    PROVE  [WB!WBNext]_(WB!wbVars)
<1> USE BufferAssumption DEF TInv, TypeOK, Tracking, WB!wbVars
<1>1. ASSUME NEW i \in Items, HeartbeatSet(i) PROVE WB!WBNext
  BY <1>1 DEF HeartbeatSet, WB!WBNext, WB!Offer
<1>2. ASSUME NEW b \in inflight, HeartbeatAck(b) PROVE [WB!WBNext]_(WB!wbVars)
  <2>0. b \in Beat /\ b.item \in Items /\ b.seq \in Nat /\ b.seq <= pos[b.item]
    BY DEF Beat
  <2>1. CASE b.seq > acked[b.item]
    <3>1. b.seq \in acked[b.item] .. pos[b.item]
      BY <2>0, <2>1
    <3>2. WB!Accept(b.item)
      BY <1>2, <2>1, <3>1 DEF HeartbeatAck, WB!Accept
    <3> QED BY <2>0, <3>2 DEF WB!WBNext
  <2>2. CASE ~(b.seq > acked[b.item])
    BY <1>2, <2>2 DEF HeartbeatAck
  <2> QED BY <2>1, <2>2
<1>3. ASSUME NEW f \in Flushers, NEW b \in taken[f],
             stored' = [stored EXCEPT ![b.item] = b.seq],
             UNCHANGED <<pos, acked>>
      PROVE  WB!WBNext
  <2>1. b.item \in Items /\ b.seq \in stored[b.item] .. pos[b.item]
    BY <1>3 DEF FreshReads, Beat
  <2>2. WB!Store(b.item)
    BY <1>3, <2>1 DEF WB!Store
  <2> QED BY <2>1, <2>2 DEF WB!WBNext
<1>4. ASSUME NEW f \in Flushers, NEW b \in taken[f], WriteOk(f, b)
      PROVE  WB!WBNext
  BY <1>3, <1>4 DEF WriteOk, redisVars
<1>5. ASSUME NEW f \in Flushers, WriteError(f)
      PROVE  [WB!WBNext]_(WB!wbVars)
  BY <1>3, <1>5 DEF WriteError, redisVars
<1>6. ASSUME \/ \E b \in inflight : HeartbeatError(b)
             \/ \E f \in Flushers :
                  \/ Tick(f) \/ BootDrain(f) \/ Move(f)
                  \/ Read(f) \/ Finish(f) \/ Abort(f)
             \/ CrashRestart
             \/ UNCHANGED vars
      PROVE  UNCHANGED WB!wbVars
  BY <1>6 DEF HeartbeatError, Tick, BootDrain, StartWith, Leave, Move, Read,
              Finish, Abort, CrashRestart, redisVars, vars
<1> QED
  BY <1>1, <1>2, <1>4, <1>5, <1>6 DEF Next, FlushStep

\* Without overlapping flushes the buffer implements the write-behind
\* promise: the store follows the accepted positions in order, never falls
\* back, and never holds a position nobody reported.
THEOREM BufferRefinesWriteBehind ==
    SingleFlight => (Spec => ImplementsWriteBehind)
<1> SUFFICES ASSUME SingleFlight PROVE Spec => ImplementsWriteBehind
  OBVIOUS
<1>1. Init => TInv /\ SafeInv /\ WB!WBInit
  BY TInvInit, SafeInvInit DEF Init, WB!WBInit
<1>2. (TInv /\ SafeInv) /\ [Next]_vars => (TInv /\ SafeInv)'
  BY TInvStep, SafeInvStep
<1>3. (TInv /\ SafeInv) /\ [Next]_vars => [WB!WBNext]_(WB!wbVars)
  BY RefinementStep DEF SafeInv
<1> QED
  BY <1>1, <1>2, <1>3, PTL DEF Spec, ImplementsWriteBehind, WB!WBSpec
==============================================================================
