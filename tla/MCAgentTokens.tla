---------------------------- MODULE MCAgentTokens ----------------------------
(* One node and two replicas of the master. *)
EXTENDS AgentTokens, TLC

=============================================================================
