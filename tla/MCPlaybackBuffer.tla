-------------------------- MODULE MCPlaybackBuffer --------------------------
(* Model-checking instances of PlaybackBuffer. *)
EXTENDS PlaybackBuffer

CONSTANTS i1, i2, f1, f2

TwoItems == {i1, i2}
OneFlusher == {f1}
TwoFlushers == {f1, f2}
Poison == {i2}
==============================================================================
