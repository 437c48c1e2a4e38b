------------------------------ MODULE ApiProofs ------------------------------
(***************************************************************************)
(* MCApi puts the six components around a send side by side.  Here each of *)
(* its behaviours is shown to be one of each component, whose invariants   *)
(* the other modules prove, for any values of the constants.               *)
(***************************************************************************)
EXTENDS MCApi, AdmissionProofs, DraftProofs, SweepProofs

\* One of the six moves and the others stand still.
LEMMA InstanceIsEach ==
  MCSpec => AdmSpec /\ DomSpec /\ AgentSpec /\ ThrottleSpec /\ Spec /\ DunSpec
<1>1. MCInit => AdmInit /\ DomInit /\ AgentInit /\ ThrottleInit /\ Init /\ DunInit
  BY DEF MCInit
<1>2. [MCNext]_<<admVars, domVars, agentVars, throttleVars, vars, dunVars, part>>
        => /\ [AdmNext]_admVars /\ [DomNext]_domVars /\ [AgentNext]_agentVars
           /\ [ThrottleNext]_throttleVars /\ [Next]_vars /\ [DunNext]_dunVars
  BY DEF MCNext
<1> QED
  BY <1>1, <1>2, PTL DEF MCSpec, AdmSpec, DomSpec, AgentSpec, ThrottleSpec, Spec, DunSpec

\* Whichever of the six is at work, its variables keep their shape.
THEOREM ApiTypesCorrect == MCSpec => []ApiTypeOK
<1>1. AdmTypeOK /\ DomTypeOK /\ AgentTypeOK /\ ThrottleTypeOK /\ DunTypeOK /\ TypeOK => ApiTypeOK
  BY DEF ApiTypeOK
<1> QED
  BY <1>1, InstanceIsEach, AdmTypeCorrect, DomTypeCorrect, AgentTypeCorrect, ThrottleTypeCorrect,
     DunTypeCorrect, TypeCorrect, PTL
=============================================================================
