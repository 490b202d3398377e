---------------------------- MODULE MCMcpClient ----------------------------
(* McpClient for TLC. *)
EXTENDS McpClient, TLC

CONSTANTS c1, c2

=============================================================================
