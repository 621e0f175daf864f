-------------------------- MODULE MCPhasePipeline --------------------------
(***************************************************************************)
(* PhasePipeline with the numbers of agents of the code, three in Phase 1  *)
(* and four in Phase 2, which the configurations give.                     *)
(***************************************************************************)
EXTENDS PhasePipeline
=============================================================================
