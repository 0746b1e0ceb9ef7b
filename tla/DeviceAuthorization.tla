------------------------ MODULE DeviceAuthorization ------------------------
(***************************************************************************)
(* Sign-in of a TV with a device code (DeviceAuthorizationService): the    *)
(* rows of device_authorization_codes, devices and personal_access_tokens, *)
(* the polls of the TVs, the people who approve, deny and revoke, and the  *)
(* deletion of an account.                                                 *)
(*                                                                         *)
(* A transaction is one step: each locks the rows it decides on with an    *)
(* UPDATE that repeats the condition.  A poll is not a transaction: what   *)
(* it read may be stale when it exchanges the code.  Token values, names   *)
(* and rate limits are left out; the poll interval only delays a poll.     *)
(***************************************************************************)
EXTENDS Naturals

CONSTANTS
    Codes,       \* device codes
    UserCodes,   \* user codes; nothing keeps them distinct
    Devices,     \* ids of rows of private.devices
    Accounts,
    Polls,       \* poll requests in progress at once
    None         \* NULL

ASSUME DeviceAssumption ==
    /\ None \notin UserCodes
    /\ None \notin Devices
    /\ None \notin Accounts
    /\ None \notin Codes

VARIABLES
    auth,      \* auth[c]: the authorization row of code c
    expired,   \* codes whose expires_at has passed
    accounts,  \* accounts that exist
    deleting,  \* accounts whose deletion has begun
    issued,    \* device ids given out so far
    device,    \* device[d]: the device row; owner None if there is no row
    tokens,    \* session tokens
    poll,      \* poll[p]: the row a poll in progress has read
    mints,     \* mints[c]: tokens minted for c so far (observation)
    told       \* told[c]: final answers polls of c were given (observation)

people == <<accounts, deleting>>
deviceVars == <<issued, device>>
pollVars == <<poll, told>>
vars == <<auth, expired, accounts, deleting, issued, device, tokens, poll,
          mints, told>>

Status == {"none", "pending", "approved", "denied", "consumed"}
Row == [user : UserCodes \cup {None}, claimed : Devices \cup {None},
        status : Status, account : Accounts \cup {None},
        device : Devices \cup {None}]
Token == [code : Codes, nth : Nat, account : Accounts, device : Devices,
          live : BOOLEAN]
Found == [code : Codes \cup {None}, seen : Status]

TypeOK ==
    /\ auth \in [Codes -> Row]
    /\ expired \subseteq Codes
    /\ accounts \subseteq Accounts
    /\ deleting \subseteq accounts
    /\ issued \subseteq Devices
    /\ device \in [Devices -> [owner : Accounts \cup {None}, revoked : BOOLEAN]]
    /\ tokens \subseteq Token
    /\ poll \in [Polls -> Found]
    /\ mints \in [Codes -> Nat]
    /\ told \in [Codes -> SUBSET {"access_denied", "expired_token"}]

NoRow == [user |-> None, claimed |-> None, status |-> "none", account |-> None,
          device |-> None]
NoPoll == [code |-> None, seen |-> "none"]

Init ==
    /\ auth = [c \in Codes |-> NoRow]
    /\ expired = {}
    /\ accounts = Accounts
    /\ deleting = {}
    /\ issued = {}
    /\ device = [d \in Devices |-> [owner |-> None, revoked |-> FALSE]]
    /\ tokens = {}
    /\ poll = [p \in Polls |-> NoPoll]
    /\ mints = [c \in Codes |-> 0]
    /\ told = [c \in Codes |-> {}]

------------------------------------------------------------------------------
\* A TV asks for codes and echoes any device id it was ever given.
CreateAuthorization(c, u, claim) ==
    /\ auth[c].status = "none"
    /\ auth' = [auth EXCEPT ![c] = [NoRow EXCEPT !.user = u, !.claimed = claim,
                                                 !.status = "pending"]]
    /\ UNCHANGED <<expired, people, deviceVars, tokens, pollVars, mints>>

\* Fifteen minutes have passed.
Expire(c) ==
    /\ auth[c].status # "none"
    /\ c \notin expired
    /\ expired' = expired \cup {c}
    /\ UNCHANGED <<auth, people, deviceVars, tokens, pollVars, mints>>

\* The rows an UPDATE by user code hits.
Pending(u) ==
    {c \in Codes : auth[c].user = u /\ auth[c].status = "pending" /\ c \notin expired}

\* (mutant) any device row that exists is reused
ReusableWhoeverOwns(a, d) ==
    d \in issued /\ device[d].owner # None /\ ~device[d].revoked

\* The claimed device is reused only by its owner and unless revoked.
Reusable(a, d) == d \in issued /\ device[d].owner = a /\ ~device[d].revoked

\* (mutant) a status the CHECK of the column does not know
ApprovedRowUnknown(r, a, d) == [r EXCEPT !.status = "granted", !.account = a, !.device = d]

\* The row after the UPDATE of approveByUserCode and bindDevice of d.
ApprovedRow(r, a, d) == [r EXCEPT !.status = "approved", !.account = a, !.device = d]

\* (mutant) the device is registered but not bound to the code
ApproveWithoutBinding(a, u) ==
    /\ a \in accounts
    /\ \E d \in Devices \ issued :
        /\ Pending(u) # {}
        /\ auth' = [c \in Codes |->
                      IF c \in Pending(u)
                      THEN ApprovedRow(auth[c], a, None)
                      ELSE auth[c]]
        /\ issued' = issued \cup {d}
        /\ device' = [device EXCEPT ![d] = [owner |-> a, revoked |-> FALSE]]
    /\ UNCHANGED <<expired, people, tokens, pollVars, mints>>

\* approve: every hit is approved, but the device goes to the first only.
Approve(a, u) ==
    /\ a \in accounts
    /\ \E first \in Pending(u), d \in Devices :
        /\ auth' = [c \in Codes |->
                      IF c \in Pending(u)
                      THEN ApprovedRow(auth[c], a, IF c = first THEN d ELSE auth[c].device)
                      ELSE auth[c]]
        /\ \/ /\ Reusable(a, auth[first].claimed)
              /\ d = auth[first].claimed
              /\ UNCHANGED deviceVars
           \/ /\ ~Reusable(a, auth[first].claimed)
              /\ d \notin issued
              /\ issued' = issued \cup {d}
              /\ device' = [device EXCEPT ![d] = [owner |-> a, revoked |-> FALSE]]
    /\ UNCHANGED <<expired, people, tokens, pollVars, mints>>

Deny(u) ==
    /\ Pending(u) # {}
    /\ auth' = [c \in Codes |->
                  IF c \in Pending(u) THEN [auth[c] EXCEPT !.status = "denied"]
                  ELSE auth[c]]
    /\ UNCHANGED <<expired, people, deviceVars, tokens, pollVars, mints>>

------------------------------------------------------------------------------
(* poll: find the row, then answer by what was read. *)

Answer(p, c, final) ==
    /\ poll' = [poll EXCEPT ![p] = NoPoll]
    /\ told' = [told EXCEPT ![c] = @ \cup final]

\* findByDeviceCodeHash.  A poll before the interval is over is told to slow
\* down and changes nothing here.
PollFind(p, c) ==
    /\ poll[p] = NoPoll
    /\ auth[c].status # "none"
    /\ \/ /\ c \in expired
          /\ Answer(p, c, {"expired_token"})
       \/ /\ c \notin expired
          /\ poll' = [poll EXCEPT ![p] = [code |-> c, seen |-> auth[c].status]]
          /\ UNCHANGED told
    /\ UNCHANGED <<auth, expired, people, deviceVars, tokens, mints>>

PollRefused(p, c) ==
    /\ poll[p].code = c
    /\ \/ /\ poll[p].seen = "denied"
          /\ Answer(p, c, {"access_denied"})
       \/ /\ poll[p].seen = "pending"
          /\ Answer(p, c, {})
    /\ UNCHANGED <<auth, expired, people, deviceVars, tokens, mints>>

\* (mutant) the UPDATE trusts the status the poll has read
ConsumableTwice(c) == auth[c].status \in {"approved", "consumed"} /\ c \notin expired

\* (mutant) the UPDATE does not repeat the condition on expires_at
ConsumableForEver(c) == auth[c].status = "approved"

\* The condition of consumeApprovedByDeviceCodeHash.
Consumable(c) == auth[c].status = "approved" /\ c \notin expired

\* The transaction that consumes an approved row and mints its token.
PollExchange(p, c) ==
    /\ poll[p].code = c
    /\ poll[p].seen \in {"approved", "consumed"}
    /\ LET row == auth[c]
       IN  \/ /\ Consumable(c)
              /\ auth' = [auth EXCEPT ![c].status = "consumed"]
              /\ row.account # None /\ row.device # None
              /\ tokens' = tokens \cup
                    {[code |-> c, nth |-> mints[c] + 1, account |-> row.account,
                      device |-> row.device, live |-> TRUE]}
              /\ mints' = [mints EXCEPT ![c] = @ + 1]
              /\ Answer(p, c, {})
           \/ /\ Consumable(c)
              /\ auth' = [auth EXCEPT ![c].status = "consumed"]
              /\ row.account = None \/ row.device = None
              /\ Answer(p, c, {"expired_token"})
              /\ UNCHANGED <<tokens, mints>>
           \/ /\ ~Consumable(c)
              /\ Answer(p, c, {"expired_token"})
              /\ UNCHANGED <<auth, tokens, mints>>
    /\ UNCHANGED <<expired, people, deviceVars>>

\* The database or the process fails: the poll has no answer and, at most,
\* a transaction is rolled back.
PollFails(p) ==
    /\ poll[p] # NoPoll
    /\ poll' = [poll EXCEPT ![p] = NoPoll]
    /\ UNCHANGED <<auth, expired, people, deviceVars, tokens, mints, told>>

------------------------------------------------------------------------------
\* revokeDevice: the row and the active tokens of the device.
RevokeDevice(a, d) ==
    /\ d \in issued
    /\ device[d].owner = a
    /\ ~device[d].revoked
    /\ device' = [device EXCEPT ![d].revoked = TRUE]
    /\ tokens' = {IF t.device = d /\ t.account = a THEN [t EXCEPT !.live = FALSE] ELSE t
                    : t \in tokens}
    /\ UNCHANGED <<auth, expired, people, issued, pollVars, mints>>

\* deleteAccount: revokeAllForUser first, then the transaction that deletes.
RevokeAllForUser(a) ==
    /\ a \in accounts \ deleting
    /\ deleting' = deleting \cup {a}
    /\ tokens' = {IF t.account = a THEN [t EXCEPT !.live = FALSE] ELSE t : t \in tokens}
    /\ UNCHANGED <<auth, expired, accounts, deviceVars, pollVars, mints>>

\* Devices and tokens go with the account; the codes lose both references.
DeleteAccount(a) ==
    /\ a \in deleting
    /\ accounts' = accounts \ {a}
    /\ deleting' = deleting \ {a}
    /\ device' = [d \in Devices |->
                    IF device[d].owner = a THEN [device[d] EXCEPT !.owner = None]
                    ELSE device[d]]
    /\ auth' = [c \in Codes |->
                  IF auth[c].account = a
                  THEN [auth[c] EXCEPT !.account = None, !.device = None]
                  ELSE auth[c]]
    /\ tokens' = {t \in tokens : t.account # a}
    /\ UNCHANGED <<expired, issued, pollVars, mints>>

------------------------------------------------------------------------------
TVStep(c) ==
    \/ \E u \in UserCodes, claim \in issued \cup {None} : CreateAuthorization(c, u, claim)
    \/ Expire(c)
    \/ \E p \in Polls : PollFind(p, c) \/ PollRefused(p, c) \/ PollExchange(p, c)

UserStep(a) ==
    \/ \E u \in UserCodes : Approve(a, u)
    \/ \E d \in Devices : RevokeDevice(a, d)
    \/ RevokeAllForUser(a)
    \/ DeleteAccount(a)

Next ==
    \/ \E c \in Codes : TVStep(c)
    \/ \E a \in Accounts : UserStep(a)
    \/ \E u \in UserCodes : Deny(u)
    \/ \E p \in Polls : PollFails(p)

Spec == Init /\ [][Next]_vars

\* A TV polls as long as it has no final answer, and not all its polls fail.
Fairness ==
    \A c \in Codes :
        /\ SF_vars(told[c] = {} /\ \E p \in Polls : PollFind(p, c))
        /\ \A p \in Polls : SF_vars(PollExchange(p, c))
        /\ \A p \in Polls : SF_vars(PollRefused(p, c))

FairSpec == Spec /\ Fairness

------------------------------------------------------------------------------
(* What the flow promises. *)

\* The device code is single use, however many polls race for it.
SingleUse == \A c \in Codes : mints[c] <= 1

\* A session exists only for a code somebody approved and the exchange
\* consumed, belongs to the account that approved it, and hangs on a device
\* of that account, whatever device id the TV claimed.
SessionFollowsApproval ==
    \A t \in tokens :
        /\ auth[t.code].status = "consumed"
        /\ auth[t.code].account = t.account
        /\ device[t.device].owner = t.account

\* Once a poll was told that the code was refused or is used up, no later
\* step of anybody mints a session nobody would be waiting for.
RefusalIsFinal ==
    [][\A c \in Codes : told[c] # {} => mints'[c] = mints[c]]_vars

\* Nobody else has been given the user code of c.
OwnUserCode(c) == \A e \in Codes \ {c} : auth[e].user # auth[c].user

\* A TV that keeps polling gets the session it was approved for, unless the
\* code expires or the account goes away first, or shares its user code.
ApprovedGetsSession ==
    \A c \in Codes :
        (auth[c].status = "approved" /\ auth[c].account # None /\ OwnUserCode(c))
            ~> (mints[c] > 0 \/ c \in expired \/ auth[c].account = None
                \/ ~OwnUserCode(c))

\* Revoking a device revokes all its sessions.
RevokedHasNoSession ==
    \A t \in tokens : t.live => ~device[t.device].revoked
==============================================================================
