--------------------------- MODULE TurnScheduler ---------------------------
(***************************************************************************)
(* What the gateway worker promises about the order of agent turns, without*)
(* saying how: the turns of one session run one at a time and in the order *)
(* their requests arrived, and at most Limit turns run at once.  It is the *)
(* contract audit CQ-007 asks of runSerialized in                          *)
(* packages/platform/src/gateway-worker.ts; module TurnQueue implements it.*)
(***************************************************************************)
EXTENDS Naturals, FiniteSets

CONSTANTS
    Requests,   \* the run requests that may be published
    Sessions,   \* the sessions they belong to
    SessionOf,  \* the session of each request
    Limit       \* turns that may run at once, over all sessions

VARIABLES
    stage,      \* "unsent", "queued", "running" or "done", for each request
    ticket,     \* arrival number of a request within its session; 0 before
    arrivals    \* requests that arrived so far, for each session

vars == <<stage, ticket, arrivals>>

Running == {r \in Requests : stage[r] = "running"}

\* The requests of r's session that arrived before r.
Earlier(r) == {q \in Requests : /\ SessionOf[q] = SessionOf[r]
                                /\ ticket[q] > 0
                                /\ ticket[q] < ticket[r]}

Init ==
    /\ stage = [r \in Requests |-> "unsent"]
    /\ ticket = [r \in Requests |-> 0]
    /\ arrivals = [s \in Sessions |-> 0]

Arrive(r) ==
    /\ stage[r] = "unsent"
    /\ stage' = [stage EXCEPT ![r] = "queued"]
    /\ arrivals' = [arrivals EXCEPT ![SessionOf[r]] = @ + 1]
    /\ ticket' = [ticket EXCEPT ![r] = arrivals[SessionOf[r]] + 1]

Begin(r) ==
    /\ stage[r] = "queued"
    /\ \A q \in Earlier(r) : stage[q] = "done"
    /\ Cardinality(Running) < Limit
    /\ stage' = [stage EXCEPT ![r] = "running"]
    /\ UNCHANGED <<ticket, arrivals>>

End(r) ==
    /\ stage[r] = "running"
    /\ stage' = [stage EXCEPT ![r] = "done"]
    /\ UNCHANGED <<ticket, arrivals>>

\* A turn ends and the turn that waited longest for its slot begins at once.
HandOver(r, q) ==
    /\ stage[r] = "running"
    /\ stage[q] = "queued"
    /\ \A p \in Earlier(q) : stage[p] = "done"
    /\ stage' = [stage EXCEPT ![r] = "done", ![q] = "running"]
    /\ UNCHANGED <<ticket, arrivals>>

Next ==
    \/ \E r \in Requests : Arrive(r) \/ Begin(r) \/ End(r)
    \/ \E r, q \in Requests : HandOver(r, q)

Spec == Init /\ [][Next]_vars
=============================================================================
