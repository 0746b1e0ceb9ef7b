------------------------ MODULE MCDeviceAuthorization ------------------------
(* Model-checking instances of DeviceAuthorization. *)
EXTENDS DeviceAuthorization, TLC

CONSTANTS c1, c2, u1, u2, d1, d2, a1, a2, p1, p2

TwoCodes == {c1, c2}
TwoUserCodes == {u1, u2}
TwoDevices == {d1, d2}
TwoAccounts == {a1, a2}
TwoPolls == {p1, p2}

OneAccount == {a1}
OnePoll == {p1}

\* Codes, user codes, devices, accounts and polls are interchangeable.
Interchangeable ==
    Permutations(TwoCodes) \cup Permutations(TwoUserCodes) \cup
    Permutations(TwoDevices) \cup Permutations(TwoAccounts) \cup
    Permutations(TwoPolls)
==============================================================================
