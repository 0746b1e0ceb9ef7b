--------------------------- MODULE ContentIdentity ---------------------------
(***************************************************************************)
(* Content ids: one id per provider ref, made by whoever stores the ref    *)
(* first, and the relations of episodes and seasons to their parents; the  *)
(* canonical id of an episode that was reported under an add-on's ids.     *)
(*                                                                         *)
(* One show with one season and one episode, known under TMDB's ids and    *)
(* under an add-on's.  A ref is <<namespace, kind>>, an id is <<ref, call>>*)
(* (gen_random_uuid: the ids of two calls differ).  A call runs its        *)
(* statements one by one (withDbClient, each commits) or in one            *)
(* transaction (withTransaction).  A statement reads its snapshot, then    *)
(* inserts what was missing row by row, waiting for rows of calls that     *)
(* have not committed.  Metadata is what canonicalization reads of it: the *)
(* TMDB id of the show.                                                    *)
(***************************************************************************)
EXTENDS Naturals, Sequences

CONSTANTS
    CiCall,
    CiWork,      \* CiWork[c]: [whole, stages, asks], see below
    NoCall,      \* "nobody", and "no id"
    NoAsk        \* the call is not a canonicalization

Ref == {"tmdb", "addon"} \X {"show", "season", "episode"}
ContentId == Ref \X CiCall

\* What one ensure* method sends: refs in the order of the statement, the
\* relations <<child, type, parent>>, and whether the metadata of an add-on
\* show carries its TMDB id.
TitleStage(refs, tmdb) == [refs |-> refs, links |-> {}, tmdb |-> tmdb]
SeasonStage(ns) ==
    [refs |-> <<<<ns, "show">>, <<ns, "season">>>>,
     links |-> {<<<<ns, "season">>, "series", <<ns, "show">>>>},
     tmdb |-> FALSE]
EpisodeStage(ns) ==
    [refs |-> <<<<ns, "episode">>, <<ns, "show">>, <<ns, "season">>>>,
     links |-> {<<<<ns, "episode">>, "series", <<ns, "show">>>>,
                <<<<ns, "episode">>, "season", <<ns, "season">>>>,
                <<<<ns, "season">>, "series", <<ns, "show">>>>},
     tmdb |-> FALSE]

IsStage(s) ==
    \/ s.refs \in Seq(Ref) /\ s.tmdb \in BOOLEAN /\ s = TitleStage(s.refs, s.tmdb)
    \/ \E ns \in {"tmdb", "addon"} : s = SeasonStage(ns) \/ s = EpisodeStage(ns)

ASSUME ContentIdentityAssumption ==
    /\ NoCall \notin CiCall /\ NoCall \notin ContentId
    /\ DOMAIN CiWork = CiCall
    /\ \A c \in CiCall : /\ CiWork[c].whole \in BOOLEAN
                         /\ CiWork[c].asks \in Ref \cup {NoAsk}
                         /\ Len(CiWork[c].stages) \in Nat \ {0}
                         /\ \A s \in 1..Len(CiWork[c].stages) :
                              IsStage(CiWork[c].stages[s])

VARIABLES
    ciRef,       \* ciRef[r]: the call whose id ref r has, committed
    ciKnown,     \* committed refs whose metadata carry the show's TMDB id
    ciLink,      \* committed relations <<child id, type, parent id>>
    ciPend,      \* ciPend[c]: what c has written and not committed
    ciPhase,     \* ciPhase[c]: where c is
    ciStage,     \* ciStage[c]: the stage it is in
    ciTodo,      \* ciTodo[c]: refs its statement has yet to insert
    ciGot        \* ciGot[c][r]: the id c was given for ref r

ciVars == <<ciRef, ciKnown, ciLink, ciPend, ciPhase, ciStage, ciTodo, ciGot>>

NoPend == [refs |-> {}, merged |-> {}, known |-> {}, links |-> {}]
Link == ContentId \X {"series", "season"} \X ContentId

CiTypeOK ==
    /\ ciRef \in [Ref -> CiCall \cup {NoCall}]
    /\ ciKnown \subseteq Ref
    /\ ciLink \subseteq Link
    /\ ciPend \in [CiCall -> [refs : SUBSET Ref, merged : SUBSET Ref,
                             known : SUBSET Ref, links : SUBSET Link]]
    /\ ciStage \in [CiCall -> Nat]
    /\ \A c \in CiCall : ciStage[c] \in 1..Len(CiWork[c].stages)
    /\ ciTodo \in [CiCall -> SUBSET Ref]
    /\ ciPhase \in [CiCall -> {"new", "next", "insert", "link", "commit",
                               "answered", "failed"}]
    /\ ciGot \in [CiCall -> [Ref -> ContentId \cup {NoCall}]]

CiInit ==
    /\ ciRef = [r \in Ref |-> NoCall]
    /\ ciKnown = {}
    /\ ciLink = {}
    /\ ciPend = [c \in CiCall |-> NoPend]
    /\ ciPhase = [c \in CiCall |-> "new"]
    /\ ciStage = [c \in CiCall |-> 1]
    /\ ciTodo = [c \in CiCall |-> {}]
    /\ ciGot = [c \in CiCall |-> [r \in Ref |-> NoCall]]

-----------------------------------------------------------------------------
Stage(c) == CiWork[c].stages[ciStage[c]]
Whole(c) == CiWork[c].whole
Goto(c, phase) == ciPhase' = [ciPhase EXCEPT ![c] = phase]

\* What is stored after p commits.  A ref another call stored first keeps its
\* id, and the two metadata are merged.
MergeReplaces(p) == (ciKnown \ p.merged) \cup p.known    \* the later wins (mutant)
Merge(p) == ciKnown \cup p.known

Over(links, new) ==
    {l \in links : \A n \in new : <<n[1], n[2]>> # <<l[1], l[2]>>} \cup new

Store(c, p) ==
    /\ ciRef' = [r \in Ref |-> IF r \in p.refs THEN c ELSE ciRef[r]]
    /\ ciKnown' = Merge(p)
    /\ ciLink' = Over(ciLink, p.links)
    /\ ciPend' = [ciPend EXCEPT ![c] = NoPend]

\* The end of a statement that leaves p pending.
StatementEnds(c, p) ==
    IF Whole(c)
    THEN ciPend' = [ciPend EXCEPT ![c] = p] /\ UNCHANGED <<ciRef, ciKnown, ciLink>>
    ELSE Store(c, p)

\* After a stage: the next one, the COMMIT, or the answer.
StageEnds(c) ==
    IF ciStage[c] < Len(CiWork[c].stages)
    THEN Goto(c, "next") /\ ciStage' = [ciStage EXCEPT ![c] = @ + 1]
    ELSE /\ Goto(c, IF Whole(c) THEN "commit" ELSE "answered")
         /\ UNCHANGED ciStage

\* canonicalizePlayableItemId resolves item to an episode of TMDB's: the show
\* is the item, or the item's series, and its metadata name the TMDB id.
Canonical(item) ==
    LET show == <<item[1], "show">> IN
    /\ ciRef[item] # NoCall
    /\ item[2] = "episode" =>
          \E l \in ciLink : l[1] = <<item, ciRef[item]>> /\ l[2] = "series"
                            /\ l[3][1] = show /\ ciRef[show] = l[3][2]
    /\ show[1] = "tmdb" \/ show \in ciKnown

-----------------------------------------------------------------------------
CiBegin(c) ==
    /\ ciPhase[c] = "new" /\ CiWork[c].asks = NoAsk
    /\ Goto(c, "next")
    /\ UNCHANGED <<ciRef, ciKnown, ciLink, ciPend, ciStage, ciTodo, ciGot>>

\* canonicalizePlayableItemId of an item the caller has the id of: its refs,
\* its series and the metadata of the series (three reads; what they read only
\* grows, so the last moment stands for all), then the TMDB episode, or the
\* item itself.
CiAsk(c) ==
    /\ ciPhase[c] = "new" /\ CiWork[c].asks # NoAsk
    /\ ciRef[CiWork[c].asks] # NoCall
    /\ Goto(c, IF Canonical(CiWork[c].asks) THEN "next" ELSE "answered")
    /\ UNCHANGED <<ciRef, ciKnown, ciLink, ciPend, ciStage, ciTodo, ciGot>>

\* The snapshot of ensureProviderRefs: ids of the refs it sees; the others
\* are missing.
CiSelect(c) ==
    LET sees == {r \in Ref : ciRef[r] # NoCall} \cup ciPend[c].refs IN
    /\ ciPhase[c] = "next"
    /\ Goto(c, "insert")
    /\ ciTodo' = [ciTodo EXCEPT ![c] =
                    {Stage(c).refs[i] : i \in 1..Len(Stage(c).refs)} \ sees]
    /\ ciGot' = [ciGot EXCEPT ![c] = [r \in Ref |->
                    IF r \in ciPend[c].refs THEN <<r, c>>
                    ELSE IF r \in sees THEN <<r, ciRef[r]>> ELSE @[r]]]
    /\ UNCHANGED <<ciRef, ciKnown, ciLink, ciPend, ciStage>>

\* RETURNING content_id after a conflict.
OwnId(c, r) == <<r, c>>              \* the id it drew itself (mutant)
StoredId(c, r) == <<r, ciRef[r]>>

\* The first of the missing refs, in the order of the statement.
NextRef(c, r) ==
    \E i \in 1..Len(Stage(c).refs) :
        /\ r = Stage(c).refs[i]
        /\ \A j \in 1..(i - 1) : Stage(c).refs[j] \notin ciTodo[c]

\* The next missing row: inserted, or merged into the row that another call
\* has committed since the snapshot.
CiInsert(c) ==
    /\ ciPhase[c] = "insert"
    /\ \E r \in ciTodo[c] :
       LET stored == ciRef[r] # NoCall
           known == IF Stage(c).tmdb /\ r = <<"addon", "show">> THEN {r} ELSE {} IN
       /\ NextRef(c, r)
       /\ \A d \in CiCall \ {c} : r \notin ciPend[d].refs \cup ciPend[d].merged
       /\ ciGot' = [ciGot EXCEPT ![c][r] = IF stored THEN StoredId(c, r) ELSE <<r, c>>]
       /\ ciPend' = [ciPend EXCEPT
              ![c].refs = IF stored THEN @ ELSE @ \cup {r},
              ![c].merged = IF stored THEN @ \cup {r} ELSE @,
              ![c].known = @ \cup known]
       /\ ciTodo' = [ciTodo EXCEPT ![c] = @ \ {r}]
    /\ UNCHANGED <<ciRef, ciKnown, ciLink, ciPhase, ciStage>>

CiSelected(c) ==
    /\ ciPhase[c] = "insert" /\ ciTodo[c] = {}
    /\ StatementEnds(c, ciPend[c])
    /\ IF Stage(c).links = {} THEN StageEnds(c)
                              ELSE Goto(c, "link") /\ UNCHANGED ciStage
    /\ UNCHANGED <<ciTodo, ciGot>>

\* upsertContentRelationships, for every ref of the stage, found or made.
CiLink(c) ==
    LET mine == {<<ciGot[c][l[1]], l[2], ciGot[c][l[3]]>> : l \in Stage(c).links} IN
    /\ ciPhase[c] = "link"
    /\ \A d \in CiCall \ {c} : \A l \in ciPend[d].links, m \in mine :
          <<l[1], l[2]>> # <<m[1], m[2]>>
    /\ StatementEnds(c, [ciPend[c] EXCEPT !.links = Over(@, mine)])
    /\ StageEnds(c)
    /\ UNCHANGED <<ciTodo, ciGot>>

CiCommit(c) ==
    /\ ciPhase[c] = "commit"
    /\ Store(c, ciPend[c])
    /\ Goto(c, "answered")
    /\ UNCHANGED <<ciStage, ciTodo, ciGot>>

\* A statement fails, as a deadlock victim or otherwise, or the server dies:
\* what was pending is gone, what was committed stays.
CiFail(c) ==
    /\ ciPhase[c] \in {"next", "insert", "link", "commit"}
    /\ ciPend' = [ciPend EXCEPT ![c] = NoPend]
    /\ Goto(c, "failed")
    /\ UNCHANGED <<ciRef, ciKnown, ciLink, ciStage, ciTodo, ciGot>>

CiNext ==
    \E c \in CiCall : \/ CiBegin(c) \/ CiAsk(c) \/ CiSelect(c) \/ CiInsert(c)
                      \/ CiSelected(c) \/ CiLink(c) \/ CiCommit(c) \/ CiFail(c)
CiSpec == CiInit /\ [][CiNext]_ciVars

-----------------------------------------------------------------------------
\* The ids a call answers are the stored ids of their refs, whoever stored
\* them first and however the two met, and an answered episode or season has
\* its parents, even when the call that stored its ref died before relating it.
AnsweredIsStored ==
    \A c \in CiCall : ciPhase[c] = "answered" =>
        /\ \A r \in Ref : ciGot[c][r] \in {NoCall, <<r, ciRef[r]>>}
        /\ \A s \in 1..Len(CiWork[c].stages) : \A l \in CiWork[c].stages[s].links :
              ciGot[c][l[1]] # NoCall =>
                  <<ciGot[c][l[1]], l[2], ciGot[c][l[3]]>> \in ciLink

\* An item that resolves to an episode of TMDB's does so from then on: progress
\* reported under the add-on's ids does not move back to the add-on's item.
CanonicalStays ==
    [][\A k \in {"show", "episode"} :
          Canonical(<<"addon", k>>) => Canonical(<<"addon", k>>)']_ciVars
==============================================================================
