---------------------------- MODULE Serving_proof ----------------------------
(***************************************************************************)
(* What one run of the serving components shows of each of them: a         *)
(* behaviour of MCServing is a behaviour of every component, so what the   *)
(* other proof modules state of a component holds of the run, and its type *)
(* invariant follows from theirs.                                          *)
(***************************************************************************)
EXTENDS MCServing, Requests_proof, Home_proof, Reads_proof

\* The run starts where every component may start.
LEMMA ServingInit ==
    Init => /\ HwInit /\ HcInit /\ DhInit /\ PinInit /\ DbInit /\ WsInit /\ AiInit
            /\ SlInit /\ WpInit /\ TmInit /\ CiInit
BY DEF Init

\* A step of the run is a step of the component that moves, and the others
\* stand still.
LEMMA ServingNext ==
    [Next]_vars => /\ [HwNext]_hwVars /\ [HcNext]_hcVars /\ [DhNext]_dhVars
                   /\ [PinNext]_pinVars /\ [DbNext]_dbVars /\ [WsNext]_wsVars
                   /\ [AiNext]_aiVars /\ [SlNext]_slVars /\ [WpNext]_wpVars
                   /\ [TmNext]_tmVars /\ [CiNext]_ciVars
BY DEF Next, vars

\* Running the components side by side adds no behaviour to any of them: the
\* safety part of each component's specification is implied.
THEOREM ServingIsComponents ==
    Spec => /\ HwSpec /\ HcInit /\ [][HcNext]_hcVars
            /\ DhSpec /\ PinSpec /\ DbInit /\ [][DbNext]_dbVars
            /\ WsSpec /\ AiInit /\ [][AiNext]_aiVars
            /\ SlSpec /\ WpSpec /\ TmSpec /\ CiSpec
BY ServingInit, ServingNext, PTL
   DEF Spec, HwSpec, DhSpec, PinSpec, WsSpec, SlSpec, WpSpec, TmSpec, CiSpec

\* The invariants the proofs of the components rest on.
ServingInv ==
    /\ HwInv /\ HcInv /\ DhInv /\ PinInv /\ DbInv /\ WsInv /\ AiInv /\ SlInv /\ WpInv
    /\ TmTrying /\ CiInv

LEMMA ServingSpecInv == Spec => []ServingInv
<1>1. Init => ServingInv
  BY ServingInit, HwInvInit, HcInvInit, DhInvInit, PinInvInit, DbInvInit, WsInvInit,
     AiInvInit, SlInvInit, WpInvInit, TmTryingInit, CiInvInit DEF ServingInv
<1>2. ServingInv /\ [Next]_vars => ServingInv'
  BY ServingNext, HwInvNext, HcInvNext, DhInvNext, PinInvNext, DbInvNext, WsInvNext,
     AiInvNext, SlInvNext, WpInvNext, TmTryingNext, CiInvNext DEF ServingInv
<1> QED BY <1>1, <1>2, PTL DEF Spec

\* Every component's state keeps its shape, for any number of processes,
\* requests, titles, rows and refs.
THEOREM ServingTypes == Spec => []TypeOK
<1>1. ServingInv => TypeOK
  BY DEF ServingInv, HwInv, HcInv, DhInv, PinInv, DbInv, WsInv, AiInv, SlInv, WpInv,
         TmTrying, CiInv, TypeOK
<1> QED BY <1>1, ServingSpecInv, PTL
==============================================================================
