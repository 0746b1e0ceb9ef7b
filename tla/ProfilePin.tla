----------------------------- MODULE ProfilePin ------------------------------
(***************************************************************************)
(* The PIN of one profile (ProfilePinService): the PIN columns of the      *)
(* profile row in Postgres and the unlock flag of its owner in Redis.      *)
(*                                                                         *)
(* Each request reads the row, compares the PIN (bcrypt, hundreds of       *)
(* milliseconds) and writes all three columns back from what it read; the  *)
(* flag is set or deleted after that.  A lockout is a tier, the index of   *)
(* its window, and is over once the window has passed.                     *)
(***************************************************************************)
EXTENDS Naturals

CONSTANTS
    Pin,           \* PINs
    NoPin,         \* NULL
    PinRequest,    \* requests in progress at once
    PinAttempts,   \* MAX_ATTEMPTS_BEFORE_LOCKOUT
    LockTiers,     \* number of LOCKOUT_WINDOWS_MS
    MaxAttempts    \* bound on failures in a row

ASSUME ProfilePinAssumption ==
    /\ NoPin \notin Pin
    /\ PinAttempts \in Nat /\ LockTiers \in Nat \ {0} /\ MaxAttempts \in Nat

VARIABLES
    pinRow,       \* pin_hash, pin_failed_attempts, pin_locked_until
    pinLockOver,  \* pin_locked_until has passed
    pinFlag,      \* profile_unlock: the PIN that was verified, or NoPin
    pinReq,       \* pinReq[r]: what a request is doing and the row it read
    pinLast,      \* the PIN last set, changed or removed (observation)
    pinFails,     \* failures since the last success or change (observation)
    pinStale,     \* requests whose row was written since they read it
                  \* (observation)
    pinTorn       \* a stale request wrote, or a change died half done
                  \* (observation)

pinVars == <<pinRow, pinLockOver, pinFlag, pinReq, pinLast, pinFails,
             pinStale, pinTorn>>

PinRow == [pin : Pin \cup {NoPin}, attempts : 0..MaxAttempts,
           lock : 0..LockTiers]
FreshRow(p) == [pin |-> p, attempts |-> 0, lock |-> 0]
Kinds == {"verify", "change", "remove", "set"}
IdleReq == [step |-> "idle", kind |-> "verify", row |-> FreshRow(NoPin),
            given |-> NoPin, new |-> NoPin]
FlagReq(kind, new) == [step |-> "flag", kind |-> kind, row |-> FreshRow(NoPin),
                       given |-> NoPin, new |-> new]

PinTypeOK ==
    /\ pinRow \in PinRow
    /\ pinLockOver \in BOOLEAN
    /\ pinFlag \in Pin \cup {NoPin}
    /\ pinReq \in [PinRequest -> [step : {"idle", "comparing", "flag"},
                                  kind : Kinds, row : PinRow,
                                  given : Pin \cup {NoPin},
                                  new : Pin \cup {NoPin}]]
    /\ pinLast \in Pin \cup {NoPin}
    /\ pinFails \in 0..MaxAttempts
    /\ pinStale \subseteq PinRequest
    /\ pinTorn \in BOOLEAN

PinInit ==
    /\ \E p \in Pin \cup {NoPin} : pinRow = FreshRow(p) /\ pinLast = p
    /\ pinLockOver = FALSE
    /\ pinFlag = NoPin
    /\ pinReq = [r \in PinRequest |-> IdleReq]
    /\ pinFails = 0
    /\ pinStale = {}
    /\ pinTorn = FALSE

-----------------------------------------------------------------------------
Locked(row) == row.lock # 0 /\ ~pinLockOver

\* The observations after a step; once torn, the others are forgotten.
Observe(last, fails, stale, torn) ==
    /\ pinTorn' = torn
    /\ pinLast' = IF torn THEN NoPin ELSE last
    /\ pinFails' = IF torn THEN 0 ELSE fails
    /\ pinStale' = IF torn THEN {} ELSE stale

\* verifyPin, changePin and removePin read the row.  Without a PIN, or while
\* it is locked, they end here (removePin still deletes the flag).
PinRead(r) ==
    /\ pinReq[r].step = "idle"
    /\ \E kind \in Kinds \ {"set"}, given \in Pin :
       \E new \in IF kind = "change" THEN Pin ELSE {NoPin} :
         \/ /\ pinRow.pin # NoPin /\ ~Locked(pinRow)
            /\ pinRow.attempts < MaxAttempts
            /\ pinReq' = [pinReq EXCEPT ![r] =
                 [step |-> "comparing", kind |-> kind, row |-> pinRow,
                  given |-> given, new |-> new]]
         \/ /\ pinRow.pin = NoPin /\ kind = "remove"
            /\ pinReq' = [pinReq EXCEPT ![r] = FlagReq("remove", NoPin)]
    /\ Observe(pinLast, pinFails, pinStale \ {r}, pinTorn)
    /\ UNCHANGED <<pinRow, pinLockOver, pinFlag>>

\* UPDATE of the three columns; whoever compares meanwhile now has a stale row.
Writes(r, row, last, fails) ==
    /\ pinRow' = row
    /\ pinLockOver' = FALSE
    /\ Observe(last, fails, {q \in PinRequest \ {r} : pinReq[q].step = "comparing"}
                               \cup (pinStale \ {r}),
               pinTorn \/ r \in pinStale)

\* The owner sets a PIN, whatever there was before.
PinSet(r) ==
    /\ pinReq[r].step = "idle"
    /\ \E new \in Pin :
         /\ Writes(r, FreshRow(new), new, 0)
         /\ pinReq' = [pinReq EXCEPT ![r] = FlagReq("set", new)]
    /\ UNCHANGED pinFlag

LockAfterNoLast(n) ==       \* the window index is not clamped (mutant)
    IF n <= PinAttempts THEN 0 ELSE n - PinAttempts

\* The lockout after the n-th failure in a row: none up to PinAttempts, then
\* the next window each time, the last one for good.
LockAfter(n) ==
    LET above == n - PinAttempts
    IN  IF n <= PinAttempts THEN 0 ELSE IF above > LockTiers THEN LockTiers ELSE above

OneMore(n) == IF n < MaxAttempts THEN n + 1 ELSE n

PinWrongKeepsCount(r) ==    \* writes back the count it read (mutant)
    LET q == pinReq[r] IN
    /\ q.step = "comparing" /\ q.given # q.row.pin
    /\ Writes(r, [q.row EXCEPT !.lock = LockAfter(q.row.attempts + 1)],
              pinLast, OneMore(pinFails))
    /\ pinReq' = [pinReq EXCEPT ![r] = IdleReq]
    /\ UNCHANGED pinFlag

\* A wrong PIN: the hash as read, the count as read plus one.
PinWrong(r) ==
    LET q == pinReq[r]
        n == q.row.attempts + 1 IN
    /\ q.step = "comparing" /\ q.given # q.row.pin
    /\ Writes(r, [pin |-> q.row.pin, attempts |-> n, lock |-> LockAfter(n)],
              pinLast, OneMore(pinFails))
    /\ pinReq' = [pinReq EXCEPT ![r] = IdleReq]
    /\ UNCHANGED pinFlag

\* The right PIN: verify writes the hash it read and clears the count.
PinRight(r) ==
    LET q == pinReq[r]
        pin == IF q.kind = "verify" THEN q.row.pin ELSE q.new IN
    /\ q.step = "comparing" /\ q.given = q.row.pin
    /\ Writes(r, FreshRow(pin), IF q.kind = "verify" THEN pinLast ELSE pin, 0)
    /\ pinReq' = [pinReq EXCEPT ![r].step = "flag"]
    /\ UNCHANGED pinFlag

Changing(r) == pinReq[r].step = "flag" /\ pinReq[r].kind # "verify"
LateVerify(r) == pinReq[r].kind = "verify" /\ pinReq[r].given # pinRow.pin

PinFlagKept(r) ==           \* a change leaves the profile unlocked (mutant)
    /\ pinReq[r].step = "flag"
    /\ pinFlag' = IF pinReq[r].kind = "verify" THEN pinReq[r].given ELSE pinFlag
    /\ Observe(pinLast, pinFails, pinStale, pinTorn \/ LateVerify(r))
    /\ pinReq' = [pinReq EXCEPT ![r] = IdleReq]
    /\ UNCHANGED <<pinRow, pinLockOver>>

\* verify sets the flag, the others delete it.
PinFlag(r) ==
    /\ pinReq[r].step = "flag"
    /\ pinFlag' = IF pinReq[r].kind = "verify" THEN pinReq[r].given ELSE NoPin
    /\ Observe(pinLast, pinFails, pinStale, pinTorn \/ LateVerify(r))
    /\ pinReq' = [pinReq EXCEPT ![r] = IdleReq]
    /\ UNCHANGED <<pinRow, pinLockOver>>

\* The process dies or a store refuses: before the write nothing happened; a
\* change that dies before its DEL leaves the flag of the old PIN.
PinDies(r) ==
    /\ pinReq[r].step # "idle"
    /\ Observe(pinLast, pinFails, pinStale \ {r}, pinTorn \/ Changing(r))
    /\ pinReq' = [pinReq EXCEPT ![r] = IdleReq]
    /\ UNCHANGED <<pinRow, pinLockOver, pinFlag>>

\* POST lock, or the flag's TTL.
PinLock ==
    /\ pinFlag # NoPin
    /\ pinFlag' = NoPin
    /\ UNCHANGED <<pinRow, pinLockOver, pinReq, pinLast, pinFails, pinStale,
                   pinTorn>>

PinLockPasses ==
    /\ Locked(pinRow)
    /\ pinLockOver' = TRUE
    /\ UNCHANGED <<pinRow, pinFlag, pinReq, pinLast, pinFails, pinStale,
                   pinTorn>>

PinNext ==
    \/ \E r \in PinRequest : \/ PinRead(r) \/ PinSet(r) \/ PinWrong(r)
                             \/ PinRight(r) \/ PinFlag(r) \/ PinDies(r)
    \/ PinLock \/ PinLockPasses

PinSpec == PinInit /\ [][PinNext]_pinVars

-----------------------------------------------------------------------------
\* The row holds the PIN last set, and a profile is unlocked only by a verify
\* of that PIN, once the change that set it has deleted the flag: unless a
\* request wrote from a row that another had changed, or died half done.
UnlockFollowsPin ==
    ~pinTorn =>
        /\ pinRow.pin = pinLast
        /\ pinFlag # NoPin /\ pinRow.pin # NoPin =>
             \/ pinFlag = pinRow.pin
             \/ \E r \in PinRequest : Changing(r)

\* Every wrong PIN since the last success is counted, across lockouts and
\* kinds of request, unless requests overlapped; and past the limit the row
\* is locked by the window of that count.
FailuresCounted ==
    ~pinTorn => /\ pinRow.attempts = pinFails
                /\ pinFails > PinAttempts => pinRow.lock # 0
==============================================================================
