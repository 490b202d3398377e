---------------------------- MODULE MCTurnQueue ----------------------------
(* A small instance of TurnQueue: three sessions over two slots, so that a *)
(* turn has to queue for a slot, and two turns of one of them.             *)
EXTENDS TurnQueue

CONSTANTS a1, a2, b1, c1, sa, sb, sc

ThreeSessions == {a1, a2, b1, c1}

MCSessionOf ==
    [r \in Requests |-> CASE r = b1 -> sb [] r = c1 -> sc [] OTHER -> sa]
=============================================================================
