---------------------------- MODULE MCAgentPhase ----------------------------
(* AgentPhase with the constants its configurations give.                  *)
EXTENDS AgentPhase
=============================================================================
