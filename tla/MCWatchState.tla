---------------------------- MODULE MCWatchState ----------------------------
(***************************************************************************)
(* A show with one episode of twenty seconds, and the reports that sit on  *)
(* the thresholds: below the floor of 5%, in between, the last position    *)
(* that is not yet 90%, and the end.                                       *)
(***************************************************************************)
EXTENDS WatchState, TLC

CONSTANTS show, episode, d1, flush

TitleItems == {show, episode}
OneEpisode == {episode}
ShowCascade == [i \in TitleItems |-> IF i = show THEN TitleItems ELSE {i}]
EpisodeRuntime == [i \in TitleItems |-> IF i = show THEN -1 ELSE 20]

Null == -1
Ticks == {[at |-> p, dur |-> Null] : p \in {0, 1, 18, 19}}

\* Without a runtime from TMDB the reported duration decides, if there is one.
NoTmdbRuntime == [i \in TitleItems |-> -1]
DurationTicks == {[at |-> p, dur |-> 20] : p \in {0, 18}}
                 \cup {[at |-> 0, dur |-> 1], [at |-> 18, dur |-> Null]}

OneDevice == {d1}

\* Day 1 is past the time limit of Continue Watching, days 2 and 3 are not.
Histories == {[on |-> 0, plays |-> 0], [on |-> 2, plays |-> 0]}
Playbacks == {[on |-> 0, at |-> 0, completed |-> FALSE],
              [on |-> 3, at |-> 9, completed |-> FALSE],
              [on |-> 3, at |-> 19, completed |-> TRUE]}
Marks == {[rated |-> 0, fav |-> FALSE], [rated |-> 1, fav |-> TRUE]}
==============================================================================
