--------------------- MODULE DeviceAuthorization_proof ---------------------
(***************************************************************************)
(* Proofs about DeviceAuthorization, for any number of codes, devices,     *)
(* accounts and concurrent polls, user codes that collide included.        *)
(***************************************************************************)
EXTENDS DeviceAuthorization, TLAPS

------------------------------------------------------------------------------
(* The inductive invariant. *)

\* A token was minted for a code only when the code was consumed.
Ledger ==
    \A c \in Codes :
        /\ mints[c] \in {0, 1}
        /\ mints[c] = 1 => auth[c].status = "consumed"

\* A device bound to a code is a row of the account that approved the code.
Ownership ==
    /\ \A c \in Codes :
        /\ auth[c].device # None =>
             /\ auth[c].account # None
             /\ auth[c].device \in issued
             /\ device[auth[c].device].owner = auth[c].account
        /\ auth[c].status \in {"none", "pending", "denied"} =>
             auth[c].account = None /\ auth[c].device = None

\* A session token repeats the row of its code.
Sessions ==
    \A t \in tokens :
        /\ auth[t.code].status = "consumed"
        /\ auth[t.code].account = t.account
        /\ auth[t.code].device = t.device

\* What a poll has read is behind the row by legal steps only.
Readings ==
    \A p \in Polls : \A c \in Codes :
        poll[p].code = c =>
            /\ poll[p].seen = "denied" => auth[c].status = "denied"
            /\ poll[p].seen \in {"approved", "consumed"} =>
                 auth[c].status \in {"approved", "consumed"}

\* A final answer was given only for a code with no way back.
Refused ==
    \A c \in Codes :
        told[c] # {} => c \in expired \/ auth[c].status \in {"denied", "consumed"}

Inv == TypeOK /\ Ledger /\ Ownership /\ Sessions /\ Readings /\ Refused

LEMMA InvInit == Init => Inv
  BY DeviceAssumption DEF Init, Inv, TypeOK, Ledger, Ownership, Sessions, Readings, Refused,
     NoRow, NoPoll, Row, Status, Found, Token

------------------------------------------------------------------------------
(* One lemma per step that touches more than one conjunct. *)

LEMMA CreateStep ==
    ASSUME Inv, NEW c \in Codes, NEW u \in UserCodes, NEW claim \in issued \cup {None},
           CreateAuthorization(c, u, claim)
    PROVE  Inv'
<1> USE DeviceAssumption DEF Inv, CreateAuthorization
<1>1. TypeOK'
  BY DEF TypeOK, NoRow, Row, Status, people, deviceVars, pollVars
<1>2. \A e \in Codes : e # c => auth'[e] = auth[e]
  BY DEF TypeOK
<1>3. auth'[c] = [NoRow EXCEPT !.user = u, !.claimed = claim, !.status = "pending"]
  BY DEF TypeOK
<1>4. Ledger' /\ Ownership'
  BY <1>2, <1>3 DEF TypeOK, Ledger, Ownership, NoRow, deviceVars
<1>5. Sessions' /\ Readings' /\ Refused'
  BY <1>2, <1>3 DEF TypeOK, Sessions, Readings, Refused, NoRow, pollVars, Token
<1> QED BY <1>1, <1>4, <1>5

\* What an approval makes of a row.
LEMMA ApprovedRowFields ==
    ASSUME NEW r \in Row, NEW a \in Accounts, NEW d \in Devices \cup {None}
    PROVE  /\ ApprovedRow(r, a, d) \in Row
           /\ ApprovedRow(r, a, d).status = "approved"
           /\ ApprovedRow(r, a, d).account = a
           /\ ApprovedRow(r, a, d).device = d
           /\ ApprovedRow(r, a, d).user = r.user
  BY DEF ApprovedRow, Row, Status

\* approve: a code other than the first hit stays without a device.
LEMMA ApproveStep ==
    ASSUME Inv, NEW a \in Accounts, NEW u \in UserCodes, Approve(a, u)
    PROVE  Inv'
<1> USE DeviceAssumption DEF Inv
<1> PICK first \in Pending(u), d \in Devices :
      /\ auth' = [c \in Codes |->
                    IF c \in Pending(u)
                    THEN ApprovedRow(auth[c], a, IF c = first THEN d ELSE auth[c].device)
                    ELSE auth[c]]
      /\ \/ /\ Reusable(a, auth[first].claimed)
            /\ d = auth[first].claimed
            /\ UNCHANGED deviceVars
         \/ /\ ~Reusable(a, auth[first].claimed)
            /\ d \notin issued
            /\ issued' = issued \cup {d}
            /\ device' = [device EXCEPT ![d] = [owner |-> a, revoked |-> FALSE]]
  BY DEF Approve
<1>0. UNCHANGED <<expired, accounts, deleting, tokens, poll, told, mints>>
  BY DEF Approve, people, pollVars
<1> DEFINE bound(c) == IF c = first THEN d ELSE auth[c].device
<1>2. \A c \in Pending(u) : c \in Codes /\ auth[c].status = "pending"
  BY DEF Pending
<1>3. \A c \in Codes \ Pending(u) : auth'[c] = auth[c]
  OBVIOUS
<1>a. \A c \in Codes : auth[c] \in Row /\ bound(c) \in Devices \cup {None}
  BY DEF TypeOK, Row
<1>b. \A c \in Pending(u) : auth'[c] = ApprovedRow(auth[c], a, bound(c))
  BY <1>2
<1>c. \A c \in Pending(u) : /\ auth'[c] \in Row
                            /\ auth'[c].status = "approved"
                            /\ auth'[c].account = a
                            /\ auth'[c].device = bound(c)
  BY <1>2, <1>a, <1>b, ApprovedRowFields
<1>4. \A c \in Pending(u) : auth'[c].status = "approved" /\ auth'[c].account = a
  BY <1>c
<1>5. \A c \in Pending(u) : auth'[c].device = IF c = first THEN d ELSE None
  BY <1>2, <1>c DEF Ownership
<1>d. auth' \in [Codes -> Row]
  BY <1>3, <1>a, <1>c
<1>e. \/ /\ d \in issued /\ device[d].owner = a
         /\ UNCHANGED <<issued, device>>
      \/ /\ d \notin issued
         /\ issued' = issued \cup {d}
         /\ device' = [device EXCEPT ![d] = [owner |-> a, revoked |-> FALSE]]
  BY DEF Reusable, deviceVars
<1> HIDE DEF bound
<1>1. TypeOK'
  <2>1. issued' \subseteq Devices
    BY <1>e DEF TypeOK
  <2>2. device' \in [Devices -> [owner : Accounts \cup {None}, revoked : BOOLEAN]]
    <3>1. [owner |-> a, revoked |-> FALSE] \in [owner : Accounts \cup {None}, revoked : BOOLEAN]
      OBVIOUS
    <3>2. device \in [Devices -> [owner : Accounts \cup {None}, revoked : BOOLEAN]]
      BY DEF TypeOK
    <3> HIDE DEF Inv
    <3> QED BY <3>1, <3>2, <1>e
  <2> QED BY <1>0, <1>d, <2>1, <2>2 DEF TypeOK
<1>6. issued \subseteq issued' /\ d \in issued' /\ device'[d].owner = a
  BY <1>e DEF TypeOK
<1>7. \A e \in issued : device'[e].owner = device[e].owner
  BY <1>e DEF TypeOK
<1>8. Ledger'
  BY <1>0, <1>2, <1>3 DEF Ledger, TypeOK
<1>9. Ownership'
  <2> SUFFICES ASSUME NEW c \in Codes
               PROVE  /\ auth'[c].device # None =>
                           /\ auth'[c].account # None
                           /\ auth'[c].device \in issued'
                           /\ device'[auth'[c].device].owner = auth'[c].account
                      /\ auth'[c].status \in {"none", "pending", "denied"} =>
                           auth'[c].account = None /\ auth'[c].device = None
    BY DEF Ownership
  <2>1. CASE c \in Pending(u)
    BY <2>1, <1>4, <1>5, <1>6
  <2>2. CASE c \notin Pending(u)
    BY <2>2, <1>3, <1>6, <1>7 DEF Ownership
  <2> QED BY <2>1, <2>2
<1>10. Sessions'
  BY <1>0, <1>2, <1>3 DEF Sessions, TypeOK, Token
<1>11. Readings' /\ Refused'
  BY <1>0, <1>2, <1>3, <1>4 DEF Readings, Refused, TypeOK
<1> QED BY <1>1, <1>8, <1>9, <1>10, <1>11

LEMMA DenyStep ==
    ASSUME Inv, NEW u \in UserCodes, Deny(u)
    PROVE  Inv'
<1> USE DeviceAssumption DEF Inv
<1>0. UNCHANGED <<expired, accounts, deleting, issued, device, tokens, poll, told, mints>>
  BY DEF Deny, people, pollVars, deviceVars
<1>1. TypeOK'
  <2>1. "denied" \in Status
    BY DEF Status
  <2>2. ASSUME NEW c \in Codes PROVE [auth[c] EXCEPT !.status = "denied"] \in Row
    <3>1. auth[c] \in Row
      BY DEF TypeOK
    <3> QED BY <2>1, <3>1 DEF Row
  <2>3. auth' \in [Codes -> Row]
    <3>1. auth \in [Codes -> Row]
      BY DEF TypeOK
    <3>2. auth' = [c \in Codes |->
                     IF c \in Pending(u) THEN [auth[c] EXCEPT !.status = "denied"]
                     ELSE auth[c]]
      BY DEF Deny
    <3> HIDE DEF Inv
    <3> QED BY <2>2, <3>1, <3>2
  <2> QED BY <1>0, <2>3 DEF TypeOK
<1>2. \A c \in Pending(u) : c \in Codes /\ auth[c].status = "pending"
  BY DEF Pending
<1>3. \A c \in Codes \ Pending(u) : auth'[c] = auth[c]
  BY DEF Deny
<1>4. \A c \in Pending(u) : /\ auth'[c].status = "denied"
                            /\ auth'[c].account = auth[c].account
                            /\ auth'[c].device = auth[c].device
  BY <1>2 DEF TypeOK, Row, Deny
<1>5. Ledger' /\ Ownership'
  BY <1>0, <1>2, <1>3, <1>4 DEF Ledger, Ownership, TypeOK
<1>6. Sessions'
  BY <1>0, <1>2, <1>3 DEF Sessions, TypeOK, Token
<1>7. Readings' /\ Refused'
  BY <1>0, <1>2, <1>3, <1>4 DEF Readings, Refused, TypeOK
<1> QED BY <1>1, <1>5, <1>6, <1>7

\* A poll remembers what the row says now, or answers that it has expired.
LEMMA PollFindStep ==
    ASSUME Inv, NEW p \in Polls, NEW c \in Codes, PollFind(p, c)
    PROVE  Inv'
<1> USE DeviceAssumption DEF Inv, PollFind, Answer
<1>0. UNCHANGED <<auth, expired, accounts, deleting, issued, device, tokens, mints>>
  BY DEF people, deviceVars
<1>1. TypeOK'
  <2>1. NoPoll \in Found /\ [code |-> c, seen |-> auth[c].status] \in Found
    BY DEF TypeOK, NoPoll, Found, Status, Row
  <2>2. poll' \in [Polls -> Found]
    BY <2>1 DEF TypeOK
  <2>3. told' \in [Codes -> SUBSET {"access_denied", "expired_token"}]
    BY DEF TypeOK
  <2> QED BY <1>0, <2>2, <2>3 DEF TypeOK
<1>2. Ledger' /\ Ownership' /\ Sessions'
  BY <1>0 DEF Ledger, Ownership, Sessions
<1>3. Readings'
  <2>1. poll \in [Polls -> Found] /\ auth \in [Codes -> Row]
    BY DEF TypeOK
  <2>2. \A q \in Polls : q # p => poll'[q] = poll[q]
    BY <2>1
  <2>3. poll'[p] = NoPoll \/ poll'[p] = [code |-> c, seen |-> auth[c].status]
    BY <2>1
  <2>4. \A e \in Codes : poll'[p].code = e =>
           e = c /\ poll'[p].seen = auth[e].status
    BY <2>3 DEF NoPoll
  <2>5. \A q \in Polls : \A e \in Codes : q # p /\ poll'[q].code = e =>
           /\ poll'[q].seen = "denied" => auth[e].status = "denied"
           /\ poll'[q].seen \in {"approved", "consumed"} =>
                auth[e].status \in {"approved", "consumed"}
    BY <2>2 DEF Readings
  <2> QED BY <1>0, <2>4, <2>5 DEF Readings
<1>4. Refused'
  BY <1>0 DEF Refused, TypeOK
<1> QED BY <1>1, <1>2, <1>3, <1>4

LEMMA PollRefusedStep ==
    ASSUME Inv, NEW p \in Polls, NEW c \in Codes, PollRefused(p, c)
    PROVE  Inv'
<1> USE DeviceAssumption DEF Inv, PollRefused, Answer
<1>0. UNCHANGED <<auth, expired, accounts, deleting, issued, device, tokens, mints>>
  BY DEF people, deviceVars
<1>1. TypeOK'
  BY <1>0 DEF TypeOK, NoPoll, Found, Status
<1>2. Ledger' /\ Ownership' /\ Sessions'
  BY <1>0 DEF Ledger, Ownership, Sessions
<1>3. Readings'
  BY <1>0 DEF Readings, TypeOK, NoPoll, Found
<1>4. Refused'
  BY <1>0 DEF Refused, Readings, TypeOK
<1> QED BY <1>1, <1>2, <1>3, <1>4

\* The exchange consumes at most once because it repeats the condition.
LEMMA PollExchangeStep ==
    ASSUME Inv, NEW p \in Polls, NEW c \in Codes, PollExchange(p, c)
    PROVE  Inv'
<1> USE DeviceAssumption DEF Inv
<1>0. UNCHANGED <<expired, accounts, deleting, issued, device>>
  BY DEF PollExchange, people, deviceVars
<1>1. poll' = [poll EXCEPT ![p] = NoPoll]
  BY DEF PollExchange, Answer
<1>2. auth[c].status \in {"approved", "consumed"}
  BY DEF PollExchange, Readings
<1>3. CASE ~Consumable(c)
  <2>0. /\ UNCHANGED <<auth, tokens, mints>>
        /\ told' = [told EXCEPT ![c] = @ \cup {"expired_token"}]
    BY <1>3 DEF PollExchange, Answer
  <2>1. TypeOK'
    BY <1>0, <1>1, <2>0 DEF TypeOK, NoPoll, Found, Status
  <2>2. Ledger' /\ Ownership' /\ Sessions'
    BY <1>0, <2>0 DEF Ledger, Ownership, Sessions
  <2>3. Readings'
    BY <1>1, <2>0 DEF Readings, TypeOK, NoPoll, Found
  <2>4. Refused'
    BY <1>0, <1>2, <1>3, <2>0 DEF Refused, TypeOK, Consumable
  <2> QED BY <2>1, <2>2, <2>3, <2>4
<1>4. CASE Consumable(c)
  <2>1. auth' = [auth EXCEPT ![c].status = "consumed"]
    BY <1>4 DEF PollExchange
  <2>2. \A e \in Codes : e # c => auth'[e] = auth[e]
    BY <2>1 DEF TypeOK
  <2>3. /\ auth'[c].status = "consumed"
        /\ auth'[c].account = auth[c].account
        /\ auth'[c].device = auth[c].device
    BY <2>1 DEF TypeOK, Row
  <2>4. auth' \in [Codes -> Row]
    <3>1. auth \in [Codes -> Row] /\ auth[c] \in Row /\ "consumed" \in Status
      BY DEF TypeOK, Status
    <3>2. [auth[c] EXCEPT !.status = "consumed"] \in Row
      BY <3>1 DEF Row
    <3> QED BY <2>1, <3>1, <3>2
  <2>5. mints[c] = 0
    BY <1>4 DEF Ledger, Consumable
  <2>6. Ownership'
    BY <1>0, <1>4, <2>2, <2>3 DEF Ownership, Consumable
  <2>7. Readings'
    BY <1>1, <2>2, <2>3, <1>4 DEF Readings, TypeOK, NoPoll, Found, Consumable
  <2>8. CASE auth[c].account # None /\ auth[c].device # None
    <3> DEFINE new == [code |-> c, nth |-> mints[c] + 1, account |-> auth[c].account,
                       device |-> auth[c].device, live |-> TRUE]
    <3>1. /\ tokens' = tokens \cup {new}
          /\ mints' = [mints EXCEPT ![c] = @ + 1]
          /\ told' = [told EXCEPT ![c] = @ \cup {}]
      BY <1>4, <2>8 DEF PollExchange, Answer
    <3>2. new \in Token
      BY <2>8, <2>5 DEF TypeOK, Row, Token
    <3>3. TypeOK'
      <4>1. tokens' \subseteq Token
        BY <3>1, <3>2 DEF TypeOK
      <4>2. mints' \in [Codes -> Nat]
        BY <2>5, <3>1 DEF TypeOK
      <4>3. told' \in [Codes -> SUBSET {"access_denied", "expired_token"}]
        BY <3>1 DEF TypeOK
      <4>4. poll' \in [Polls -> Found]
        BY <1>1 DEF TypeOK, NoPoll, Found, Status
      <4> QED BY <1>0, <2>4, <4>1, <4>2, <4>3, <4>4 DEF TypeOK
    <3>4. Ledger'
      BY <2>2, <2>3, <2>5, <3>1 DEF Ledger, TypeOK
    <3>5. Sessions'
      BY <2>2, <2>3, <3>1 DEF Sessions, TypeOK, Token
    <3>6. Refused'
      BY <1>0, <2>2, <2>3, <3>1 DEF Refused, TypeOK
    <3> QED BY <2>6, <2>7, <3>3, <3>4, <3>5, <3>6
  <2>9. CASE ~(auth[c].account # None /\ auth[c].device # None)
    <3>1. /\ UNCHANGED <<tokens, mints>>
          /\ told' = [told EXCEPT ![c] = @ \cup {"expired_token"}]
      BY <1>4, <2>9 DEF PollExchange, Answer
    <3>2. TypeOK'
      BY <1>0, <1>1, <2>4, <3>1 DEF TypeOK, NoPoll, Found, Status
    <3>3. Ledger'
      BY <2>2, <2>3, <3>1 DEF Ledger, TypeOK
    <3>4. Sessions'
      BY <2>2, <2>3, <3>1 DEF Sessions, TypeOK, Token
    <3>5. Refused'
      BY <1>0, <2>2, <2>3, <3>1 DEF Refused, TypeOK
    <3> QED BY <2>6, <2>7, <3>2, <3>3, <3>4, <3>5
  <2> QED BY <2>8, <2>9
<1> QED BY <1>3, <1>4

\* Revoking touches only the revoked and live marks.
LEMMA RevokeStep ==
    ASSUME Inv, NEW a \in Accounts, NEW d \in Devices, RevokeDevice(a, d)
    PROVE  Inv'
<1> USE DeviceAssumption DEF Inv, RevokeDevice
<1>0. UNCHANGED <<auth, expired, accounts, deleting, issued, poll, told, mints>>
  BY DEF people, pollVars
<1>1. \A e \in Devices : device'[e].owner = device[e].owner
  BY DEF TypeOK
<1>2. \A t \in tokens' : \E s \in tokens :
        t.code = s.code /\ t.account = s.account /\ t.device = s.device
  BY DEF TypeOK, Token
<1>3. tokens' \subseteq Token
  <2>1. \A t \in Token : [t EXCEPT !.live = FALSE] \in Token
    BY DEF Token
  <2>2. tokens \subseteq Token
    BY DEF TypeOK
  <2>3. tokens' = {IF t.device = d /\ t.account = a THEN [t EXCEPT !.live = FALSE] ELSE t
                     : t \in tokens}
    OBVIOUS
  <2> HIDE DEF Inv, RevokeDevice
  <2> QED BY <2>1, <2>2, <2>3
<1>4. TypeOK'
  <2>1. device' \in [Devices -> [owner : Accounts \cup {None}, revoked : BOOLEAN]]
    <3>1. /\ device \in [Devices -> [owner : Accounts \cup {None}, revoked : BOOLEAN]]
          /\ device' = [device EXCEPT ![d] = [device[d] EXCEPT !.revoked = TRUE]]
      BY DEF TypeOK
    <3> HIDE DEF Inv, RevokeDevice
    <3>2. [device[d] EXCEPT !.revoked = TRUE]
             \in [owner : Accounts \cup {None}, revoked : BOOLEAN]
      BY <3>1
    <3> QED BY <3>1, <3>2
  <2> QED BY <1>0, <1>3, <2>1 DEF TypeOK
<1>5. Ledger' /\ Readings' /\ Refused'
  BY <1>0 DEF Ledger, Readings, Refused
<1>6. Ownership'
  BY <1>0, <1>1 DEF Ownership, TypeOK
<1>7. Sessions'
  BY <1>0, <1>2 DEF Sessions
<1> QED BY <1>4, <1>5, <1>6, <1>7

LEMMA RevokeAllStep ==
    ASSUME Inv, NEW a \in Accounts, RevokeAllForUser(a)
    PROVE  Inv'
<1> USE DEF Inv, RevokeAllForUser
<1>0. UNCHANGED <<auth, expired, accounts, issued, device, poll, told, mints>>
  BY DEF deviceVars, pollVars
<1>1. \A t \in tokens' : \E s \in tokens :
        t.code = s.code /\ t.account = s.account /\ t.device = s.device
  BY DEF TypeOK, Token
<1>2. tokens' \subseteq Token
  <2>1. \A t \in Token : [t EXCEPT !.live = FALSE] \in Token
    BY DEF Token
  <2>2. tokens \subseteq Token
    BY DEF TypeOK
  <2>3. tokens' = {IF t.account = a THEN [t EXCEPT !.live = FALSE] ELSE t : t \in tokens}
    OBVIOUS
  <2> HIDE DEF Inv, RevokeAllForUser
  <2> QED BY <2>1, <2>2, <2>3
<1>3. TypeOK'
  BY <1>0, <1>2 DEF TypeOK
<1>4. Ledger' /\ Ownership' /\ Readings' /\ Refused'
  BY <1>0 DEF Ledger, Ownership, Readings, Refused
<1>5. Sessions'
  BY <1>0, <1>1 DEF Sessions
<1> QED BY <1>3, <1>4, <1>5

\* The rows that refer to the account go or forget it together.
LEMMA DeleteStep ==
    ASSUME Inv, NEW a \in Accounts, DeleteAccount(a)
    PROVE  Inv'
<1> USE DeviceAssumption DEF Inv, DeleteAccount
<1>0. UNCHANGED <<expired, issued, poll, told, mints>>
  BY DEF pollVars
<1>a. /\ \A c \in Codes : auth[c] \in Row
      /\ auth' = [c \in Codes |->
                    IF auth[c].account = a
                    THEN [auth[c] EXCEPT !.account = None, !.device = None]
                    ELSE auth[c]]
  BY DEF TypeOK
<1>b. \A r \in Row : LET n == [r EXCEPT !.account = None, !.device = None]
                     IN  n.status = r.status /\ n.account = None /\ n.device = None
  BY DEF Row
<1>1. \A c \in Codes : auth'[c].status = auth[c].status
  <2> HIDE DEF Inv, DeleteAccount
  <2> QED BY <1>a, <1>b
<1>2. \A c \in Codes : auth[c].account = a =>
                         auth'[c].account = None /\ auth'[c].device = None
  <2> HIDE DEF Inv, DeleteAccount
  <2> QED BY <1>a, <1>b
<1>3. \A c \in Codes : auth[c].account # a => auth'[c] = auth[c]
  OBVIOUS
<1>4. \A d \in Devices : device[d].owner # a => device'[d] = device[d]
  OBVIOUS
<1>5. TypeOK'
  <2>1. auth' \in [Codes -> Row]
    <3>1. \A c \in Codes : auth[c] \in Row
      BY DEF TypeOK
    <3>2. \A r \in Row : [r EXCEPT !.account = None, !.device = None] \in Row
      BY DEF Row
    <3> QED BY <3>1, <3>2
  <2>2. device' \in [Devices -> [owner : Accounts \cup {None}, revoked : BOOLEAN]]
    <3> DEFINE D == [owner : Accounts \cup {None}, revoked : BOOLEAN]
    <3>1. \A d \in Devices : device[d] \in D
      BY DEF TypeOK
    <3>2. \A e \in D : [e EXCEPT !.owner = None] \in D
      OBVIOUS
    <3>3. device' = [d \in Devices |->
                       IF device[d].owner = a THEN [device[d] EXCEPT !.owner = None]
                       ELSE device[d]]
      OBVIOUS
    <3> HIDE DEF D, Inv, DeleteAccount
    <3>4. device' \in [Devices -> D]
      BY <3>1, <3>2, <3>3
    <3> QED BY <3>4 DEF D
  <2>3. accounts' \subseteq Accounts /\ deleting' \subseteq accounts' /\ tokens' \subseteq Token
    BY DEF TypeOK
  <2> QED BY <1>0, <2>1, <2>2, <2>3 DEF TypeOK
<1>6. Ledger' /\ Readings' /\ Refused'
  BY <1>0, <1>1 DEF Ledger, Readings, Refused
<1>7. Ownership'
  <2> SUFFICES ASSUME NEW c \in Codes
               PROVE  /\ auth'[c].device # None =>
                           /\ auth'[c].account # None
                           /\ auth'[c].device \in issued'
                           /\ device'[auth'[c].device].owner = auth'[c].account
                      /\ auth'[c].status \in {"none", "pending", "denied"} =>
                           auth'[c].account = None /\ auth'[c].device = None
    BY DEF Ownership
  <2>1. CASE auth[c].account = a
    BY <2>1, <1>2
  <2>2. CASE auth[c].account # a
    BY <2>2, <1>0, <1>3, <1>4 DEF Ownership, TypeOK
  <2> QED BY <2>1, <2>2
<1>8. Sessions'
  BY <1>1, <1>3 DEF Sessions, TypeOK, Token
<1> QED BY <1>5, <1>6, <1>7, <1>8

LEMMA InvStep == Inv /\ [Next]_vars => Inv'
<1> SUFFICES ASSUME Inv, [Next]_vars PROVE Inv'
  OBVIOUS
<1>1. ASSUME NEW c \in Codes, TVStep(c) PROVE Inv'
  <2>1. ASSUME Expire(c) PROVE Inv'
    BY <2>1 DEF Expire, Inv, TypeOK, Ledger, Ownership, Sessions, Readings, Refused,
       people, deviceVars, pollVars
  <2> QED
    BY <1>1, <2>1, CreateStep, PollFindStep, PollRefusedStep, PollExchangeStep DEF TVStep
<1>2. ASSUME NEW a \in Accounts, UserStep(a) PROVE Inv'
  BY <1>2, ApproveStep, RevokeStep, RevokeAllStep, DeleteStep DEF UserStep
<1>3. ASSUME NEW u \in UserCodes, Deny(u) PROVE Inv'
  BY <1>3, DenyStep
<1>4. ASSUME NEW p \in Polls, PollFails(p) PROVE Inv'
  <2>1. UNCHANGED <<auth, expired, accounts, deleting, issued, device, tokens, mints, told>>
    BY <1>4 DEF PollFails, people, deviceVars
  <2>2. TypeOK'
    BY <1>4, <2>1 DEF PollFails, Inv, TypeOK, NoPoll, Found, Status
  <2>3. Readings'
    BY <1>4, <2>1, DeviceAssumption DEF PollFails, Inv, TypeOK, Readings, NoPoll, Found
  <2> QED BY <2>1, <2>2, <2>3 DEF Inv, Ledger, Ownership, Sessions, Refused
<1>5. CASE UNCHANGED vars
  BY <1>5 DEF vars, Inv, TypeOK, Ledger, Ownership, Sessions, Readings, Refused
<1> QED BY <1>1, <1>2, <1>3, <1>4, <1>5 DEF Next

LEMMA Invariance == Spec => []Inv
  BY InvInit, InvStep, PTL DEF Spec

------------------------------------------------------------------------------
(* The theorems. *)

\* Every reachable state is well typed.
THEOREM DeviceTypeCorrect == Spec => []TypeOK
  BY Invariance, PTL DEF Inv

\* A device code yields at most one session, however many polls race.
THEOREM SingleUseTheorem == Spec => []SingleUse
<1>1. Inv => SingleUse
  <2> SUFFICES ASSUME Inv, NEW c \in Codes PROVE mints[c] <= 1
    BY DEF SingleUse
  <2> mints[c] = 0 \/ mints[c] = 1
    BY DEF Inv, Ledger
  <2> QED OBVIOUS
<1> QED BY <1>1, Invariance, PTL

\* Sessions belong to the account that approved the code and to a device of
\* that account.
THEOREM SessionFollowsApprovalTheorem == Spec => []SessionFollowsApproval
<1>1. Inv => SessionFollowsApproval
  BY DeviceAssumption DEF Inv, TypeOK, Sessions, Ownership, SessionFollowsApproval, Token
<1> QED BY <1>1, Invariance, PTL

\* No session is minted after a poll was given a final answer.
THEOREM RefusalIsFinalTheorem == Spec => RefusalIsFinal
<1>1. Inv /\ [Next]_vars => [\A c \in Codes : told[c] # {} => mints'[c] = mints[c]]_vars
  <2> SUFFICES ASSUME Inv, Next, NEW c \in Codes, told[c] # {}
               PROVE  mints'[c] = mints[c]
    OBVIOUS
  <2>1. c \in expired \/ auth[c].status \in {"denied", "consumed"}
    BY DEF Inv, Refused
  <2>2. ASSUME NEW p \in Polls, NEW e \in Codes, PollExchange(p, e)
        PROVE  mints'[c] = mints[c]
    BY <2>1, <2>2 DEF PollExchange, Consumable, Inv, TypeOK
  <2> QED
    BY <2>2 DEF Next, TVStep, UserStep, CreateAuthorization, Expire, PollFind, PollRefused,
       Approve, RevokeDevice, RevokeAllForUser, DeleteAccount, Deny, PollFails
<1> QED BY <1>1, Invariance, PTL DEF Spec, RefusalIsFinal
==============================================================================
