--------------------------- MODULE MCAgentApprovals ---------------------------
(* Instances of AgentApprovals for TLC. *)
EXTENDS AgentApprovals, TLC

CONSTANTS c1, c2, c3
=============================================================================
