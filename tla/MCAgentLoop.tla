---------------------------- MODULE MCAgentLoop ----------------------------
(* AgentLoop for TLC: two messages of one session. *)
EXTENDS AgentLoop, TLC

CONSTANTS t1, t2

=============================================================================
