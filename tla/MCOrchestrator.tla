--------------------------- MODULE MCOrchestrator ---------------------------
(* Orchestrator for TLC: three tasks, in the shapes that differ. *)
EXTENDS Orchestrator, TLC

None == {}

\* Independent tasks, a chain, a join, two tasks that wait for each other, and
\* one that waits for a task the plan does not have.
Shapes ==
    {<<None, None, None>>, <<None, {1}, {2}>>, <<None, None, {1, 2}>>,
     <<None, {3}, {2}>>, <<None, {Unknown}, {1}>>}

MCPlans ==
    {[mode |-> mode, deps |-> deps, policy |-> policy, nested |-> nested] :
        mode \in Modes, deps \in Shapes,
        policy \in {<<p, q, "abort">> : p \in Policies, q \in {"abort", "retry"}},
        nested \in {{}, {2}}}

=============================================================================
