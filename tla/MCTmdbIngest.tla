---------------------------- MODULE MCTmdbIngest -----------------------------
(***************************************************************************)
(* Two cold titles of one list: getTitles ingests both at the same time on *)
(* the client of the request.                                              *)
(***************************************************************************)
EXTENDS TmdbIngest, TLC

CONSTANTS i1, i2, t1, t2, c1

MCTitleOf == i1 :> t1 @@ i2 :> t2
MCConnOf == i1 :> c1 @@ i2 :> c1
==============================================================================
