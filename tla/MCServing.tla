------------------------------ MODULE MCServing ------------------------------
(***************************************************************************)
(* The serving components in one run.  They share no state: "part" says    *)
(* which of them moves, and the others stay in their initial states, so    *)
(* the state graph is the union of the components' graphs.                 *)
(***************************************************************************)
EXTENDS HomeWrite, HomeCache, DefaultHome, ProfilePin, DbPool, WatchStream,
        AiInsights, SnapshotLease, WatchPages, TmdbIngest, ContentIdentity

CONSTANTS w1, w2, w3, k1, b1, b2, r1, r2, r3, n1, n2, u1, i1, i2, t1, m1, m2, x1, x2, x3, x4

\* w2 retries w1; w3 sends another home under the same key.
MCIdem == w1 :> k1 @@ w2 :> k1 @@ w3 :> k1
MCBody == w1 :> b1 @@ w2 :> b1 @@ w3 :> b2

\* Two requests nest one client in another, one more deeply than the pool is
\* large; a home write versions two lists side by side.
MCDepth == r1 :> 2 @@ r2 :> 3 @@ r3 :> 1
MCParallel == r1 :> <<>> @@ r2 :> <<>> @@ r3 :> <<n1, n2>>

\* A provider whose history is older than what the profile has, and one that
\* knows a watchlist item without a play and a play of now.
MCImports ==
    {[stamp |-> 1 :> 0 @@ 2 :> 0 @@ 3 :> 1, marked |-> 1..WpItems],
     [stamp |-> 1 :> NoStamp @@ 2 :> WpClock @@ 3 :> 0, marked |-> {1, 3}]}

\* Two requests ingest the same cold title, each on its own client.
MCTitleOf == i1 :> t1 @@ i2 :> t1
MCConnOf == i1 :> m1 @@ i2 :> m2

\* A home write resolves its titles and an import its episodes in one
\* transaction (x1); a season page makes its refs (x2); a heartbeat is
\* canonicalized (x3); an import's batch names the shows in another order (x4).
AddonShow == <<"addon", "show">>
TmdbShow == <<"tmdb", "show">>
MCWork ==
    x1 :> [whole |-> TRUE, asks |-> NoAsk,
           stages |-> <<TitleStage(<<AddonShow, TmdbShow>>, TRUE), EpisodeStage("addon")>>]
    @@ x2 :> [whole |-> FALSE, asks |-> NoAsk, stages |-> <<EpisodeStage("addon")>>]
    @@ x3 :> [whole |-> FALSE, asks |-> <<"addon", "episode">>,
              stages |-> <<EpisodeStage("tmdb")>>]
    @@ x4 :> [whole |-> FALSE, asks |-> NoAsk,
              stages |-> <<TitleStage(<<TmdbShow, AddonShow>>, TRUE), SeasonStage("addon")>>]

VARIABLE part

vars == <<part, hwVars, hcVars, dhVars, pinVars, dbVars, wsVars, aiVars, slVars,
          wpVars, tmVars, ciVars>>

Init ==
    /\ part \in {"homeWrite", "homeCache", "defaultHome", "pin", "pool",
                 "stream", "insights", "snapshot", "pages", "tmdb", "identity"}
    /\ HwInit /\ HcInit /\ DhInit /\ DbInit /\ WsInit /\ SlInit /\ TmInit /\ CiInit
    /\ PinInit
    /\ part # "pin" => pinRow.pin = NoPin
    /\ AiInit
    /\ LET v == CHOOSE w \in GenVersion : TRUE IN
       /\ aiSettings[u1] = v
       /\ aiRow[v] = "none"
       /\ part # "insights" => /\ \A c \in Caller : aiSettings[c] = v
                               /\ \A w \in GenVersion : aiRow[w] = "none"
    /\ WpInit
    /\ part # "pages" => /\ wpList = "history"
                         /\ \A i \in WpItem : wpStamp[i] = NoStamp

Next ==
    \/ part = "homeWrite" /\ HwNext
       /\ UNCHANGED <<part, hcVars, dhVars, pinVars, dbVars, wsVars, aiVars, slVars, wpVars, tmVars, ciVars>>
    \/ part = "homeCache" /\ HcNext
       /\ UNCHANGED <<part, hwVars, dhVars, pinVars, dbVars, wsVars, aiVars, slVars, wpVars, tmVars, ciVars>>
    \/ part = "defaultHome" /\ DhNext
       /\ UNCHANGED <<part, hwVars, hcVars, pinVars, dbVars, wsVars, aiVars, slVars, wpVars, tmVars, ciVars>>
    \/ part = "pin" /\ PinNext
       /\ UNCHANGED <<part, hwVars, hcVars, dhVars, dbVars, wsVars, aiVars, slVars, wpVars, tmVars, ciVars>>
    \/ part = "pool" /\ DbNext
       /\ UNCHANGED <<part, hwVars, hcVars, dhVars, pinVars, wsVars, aiVars, slVars, wpVars, tmVars, ciVars>>
    \/ part = "stream" /\ WsNext
       /\ UNCHANGED <<part, hwVars, hcVars, dhVars, pinVars, dbVars, aiVars, slVars, wpVars, tmVars, ciVars>>
    \/ part = "insights" /\ AiNext
       /\ UNCHANGED <<part, hwVars, hcVars, dhVars, pinVars, dbVars, wsVars, slVars, wpVars, tmVars, ciVars>>
    \/ part = "snapshot" /\ SlNext
       /\ UNCHANGED <<part, hwVars, hcVars, dhVars, pinVars, dbVars, wsVars, aiVars, wpVars, tmVars, ciVars>>
    \/ part = "pages" /\ WpNext
       /\ UNCHANGED <<part, hwVars, hcVars, dhVars, pinVars, dbVars, wsVars, aiVars, slVars, tmVars, ciVars>>
    \/ part = "tmdb" /\ TmNext
       /\ UNCHANGED <<part, hwVars, hcVars, dhVars, pinVars, dbVars, wsVars, aiVars, slVars, wpVars, ciVars>>
    \/ part = "identity" /\ CiNext
       /\ UNCHANGED <<part, hwVars, hcVars, dhVars, pinVars, dbVars, wsVars, aiVars, slVars, wpVars, tmVars>>

\* HcFairness, DbFairness and AiFairness of the component that moves.  "part"
\* never changes, so one condition may serve a component in each disjunct.
liveVars == <<hcVars, dbVars, aiVars>>
DbMoves == part = "pool" /\ DbMove /\ UNCHANGED <<hcVars, aiVars>>
AiMoves == part = "insights" /\ (\E e \in GenSlot : AiSlotStep(e)) /\ UNCHANGED <<hcVars, dbVars>>
AiStalls == /\ part = "insights" /\ (\E v \in GenVersion : Unlocked(v) /\ AiStall(v))
            /\ UNCHANGED <<hcVars, dbVars>>
HcMoves(A) == part = "homeCache" /\ A /\ UNCHANGED <<dbVars, aiVars>>
Fairness ==
    /\ \A p \in HomeProc : WF_liveVars(HcMoves(HcBuildStep(p)))
    /\ WF_liveVars(HcMoves(HcAge) \/ DbMoves \/ AiMoves)
    /\ WF_liveVars(HcMoves(\E p \in HomeProc : HcGet(p)) \/ AiStalls)
Spec == Init /\ [][Next]_vars /\ Fairness

\* The state of the component that moves is well formed.
TypeOK ==
    /\ part = "homeWrite" => HwTypeOK
    /\ part = "homeCache" => HcTypeOK
    /\ part = "defaultHome" => DhTypeOK
    /\ part = "pin" => PinTypeOK
    /\ part = "pool" => DbTypeOK
    /\ part = "stream" => WsTypeOK
    /\ part = "insights" => AiTypeOK
    /\ part = "snapshot" => SlTypeOK
    /\ part = "pages" => WpTypeOK
    /\ part = "tmdb" => TmTypeOK
    /\ part = "identity" => CiTypeOK
==============================================================================
