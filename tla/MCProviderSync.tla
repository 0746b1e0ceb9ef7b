--------------------------- MODULE MCProviderSync ---------------------------
(* Model-checking instances of ProviderSync. *)
EXTENDS ProviderSync, TLC

CONSTANTS r1, r2

TwoRequests == {r1, r2}
Interchangeable == Permutations(TwoRequests)
==============================================================================
