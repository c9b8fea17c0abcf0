--------------------------- MODULE MCAgentRuntime ---------------------------
(***************************************************************************)
(* The kernel's agents under small limits for TLC.                         *)
(***************************************************************************)
EXTENDS AgentRuntime
=============================================================================
