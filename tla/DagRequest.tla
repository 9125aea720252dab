----------------------------- MODULE DagRequest -----------------------------
(***************************************************************************)
(* The definition a request to the graph endpoint carries: validate_dag    *)
(* checks it, then execute walks it, and neither changes it.               *)
(***************************************************************************)
EXTENDS DagGraph

CONSTANT Dags          \* the definitions a request may carry

ASSUME DagsAssumption == \A d \in Dags : IsDag(d)

VARIABLE dag           \* the definition
=============================================================================
