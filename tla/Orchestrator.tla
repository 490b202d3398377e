---------------------------- MODULE Orchestrator ----------------------------
(***************************************************************************)
(* One execute() of SupervisorOrchestrator                                 *)
(* (packages/agents/src/orchestrator.ts, task-planner.ts): a plan of tasks *)
(* with dependencies is run one by one or in waves of sub-agents, with a   *)
(* failure policy for each task.  A task with a sub-plan is a whole        *)
(* execution of its own, of which the outer one sees the results.  The     *)
(* text that flows from task to task is left out.                          *)
(***************************************************************************)
EXTENDS Integers, FiniteSets

CONSTANTS
    Tasks,
    Plans,          \* the plans to run
    FanIn,          \* the task id of the synthesis
    Unknown,        \* a task id no plan has
    MaxConcurrency, \* maxConcurrency
    MaxAttempts,    \* maxAttempts of a task whose policy is retry
    MaxBusFailures  \* bound: publishEvent calls that throw

Modes == {"sequential", "parallel", "fan-in"}
Policies == {"abort", "continue", "retry"}

\* "hierarchical" runs as "sequential" does, and "fan-out" as "parallel".
\* deps may name tasks in a circle, or none of the plan; nested: the tasks with
\* a sub-plan.
Plan == [mode : Modes, deps : [Tasks -> SUBSET (Tasks \cup {Unknown})],
         policy : [Tasks -> Policies], nested : SUBSET Tasks]

ASSUME PlanAssumption == Plans \subseteq Plan
ASSUME TasksAssumption ==
    IsFiniteSet(Tasks) /\ FanIn \notin Tasks /\ Unknown \notin Tasks
ASSUME NumbersAssumption ==
    /\ MaxConcurrency \in Nat \ {0}
    /\ MaxAttempts \in Nat \ {0}
    /\ MaxBusFailures \in Nat

VARIABLES
    plan,
    phase,     \* where execute() is
    pending,   \* tasks that no wave has taken up
    queue,     \* tasks of the wave that no worker has taken
    task,      \* where runSingleTask is, and the attempt it makes
    completed, failed, skipped, \* the three sets of the execution
    aborted,
    results,   \* <<task, status>> pairs of the results
    bus        \* [failures, lost]: throws so far, and workers they ended

vars == <<plan, phase, pending, queue, task, completed, failed, skipped,
          aborted, results, bus>>

Statuses == {"completed", "failed", "skipped", "awaiting_approval"}

TypeOK ==
    /\ plan \in Plan
    /\ phase \in {"starting", "running", "synthesising", "done", "thrown"}
    /\ pending \subseteq Tasks
    /\ queue \subseteq Tasks
    /\ task \in [Tasks -> [at : {"waiting", "starting", "running", "sleeping",
                                 "nested", "failing", "reporting", "settled",
                                 "out"},
                           attempt : 1..MaxAttempts]]
    /\ completed \subseteq Tasks
    /\ failed \subseteq Tasks
    /\ skipped \subseteq Tasks
    /\ aborted \in BOOLEAN
    /\ results \subseteq (Tasks \cup {FanIn}) \X Statuses
    /\ bus \in [failures : 0..MaxBusFailures, lost : Nat]

At(t, place) == task[t].at = place
Goes(t, place) == task' = [task EXCEPT ![t] = [at |-> place, attempt |-> 1]]
Active == {"starting", "running", "sleeping", "nested"}
Busy == {t \in Tasks : task[t].at \in Active \cup {"failing", "reporting", "settled"}}

OneByOne == plan.mode = "sequential"

\* Workers of mapWithConcurrency; the sequential loop is one.
Workers == (IF OneByOne THEN 1 ELSE MaxConcurrency) - bus.lost

-----------------------------------------------------------------------------
(* task-planner.ts *)

\* resolveTaskOrder throws: some tasks wait for one another, or for a task that
\* is not there.
Cyclic == \E S \in SUBSET Tasks \ {{}} : \A t \in S : plan.deps[t] \cap S # {}

NamesUnknown == \E t \in Tasks : Unknown \in plan.deps[t]

Ready == {t \in pending : /\ t \notin completed \cup failed \cup skipped
                          /\ plan.deps[t] \subseteq completed}

\* Mutant: only the dependents of failed tasks are skipped.
SkipAfterFailure(t) == plan.deps[t] \cap failed # {}

ShouldSkip(t) == plan.deps[t] \cap (failed \cup skipped) # {}

-----------------------------------------------------------------------------
(* executeAtDepth, runParallelWaves *)

Begin ==
    /\ phase = "starting"
    /\ IF OneByOne
       THEN /\ IF Cyclic \/ NamesUnknown
               THEN phase' = "thrown" /\ queue' = {}
               ELSE phase' = "running" /\ queue' = Tasks
            /\ pending' = {}
       ELSE /\ phase' = "running"
            /\ pending' = Tasks
            /\ UNCHANGED queue
    /\ UNCHANGED <<plan, task, completed, failed, skipped, aborted, results, bus>>

WaveIsOver == phase = "running" /\ queue = {} /\ Busy = {}

NextWave ==
    /\ WaveIsOver
    /\ Ready # {}
    /\ queue' = Ready
    /\ pending' = pending \ Ready
    /\ UNCHANGED <<plan, phase, task, completed, failed, skipped, aborted, results, bus>>

\* Mutant: tasks that are not ready are waited for.
WaitsForReady == pending \subseteq Ready /\ UNCHANGED <<pending, skipped>>

\* Mutant: they are dropped.
ForgetsTheRest == pending' = {} /\ UNCHANGED skipped

\* Nothing is ready: what is left is skipped, without a result.
SkipsTheRest == pending' = {} /\ skipped' = skipped \cup pending

Ends ==
    /\ WaveIsOver
    /\ Ready = {}
    /\ SkipsTheRest
    /\ phase' = IF plan.mode = "fan-in" THEN "synthesising" ELSE "done"
    /\ UNCHANGED <<plan, queue, task, completed, failed, aborted, results, bus>>

\* The manager agent sums the results up in a session of its own.
Synthesises ==
    /\ phase = "synthesising"
    /\ \/ phase' = "done" /\ results' = results \cup {<<FanIn, "completed">>}
       \/ phase' = "thrown" /\ UNCHANGED results
    /\ UNCHANGED <<plan, pending, queue, task, completed, failed, skipped, aborted, bus>>

\* finalize()
StatusOf(statuses) ==
    IF \/ statuses = {}
       \/ statuses \cap {"completed", "awaiting_approval"} = {} /\ "failed" \in statuses
    THEN "failed"
    ELSE IF statuses \cap {"failed", "awaiting_approval"} # {} THEN "partial"
    ELSE "completed"

PlanStatus == StatusOf({r[2] : r \in results})

-----------------------------------------------------------------------------
(* runSingleTask *)

\* A worker takes the next task; resolveTaskOrder puts dependencies first.
Takes(t) ==
    /\ t \in queue
    /\ Cardinality(Busy) < Workers
    /\ OneByOne => plan.deps[t] \cap queue = {}
    /\ queue' = queue \ {t}

TakeAndSkip(t) ==
    /\ Takes(t)
    /\ aborted \/ ShouldSkip(t)
    /\ skipped' = skipped \cup {t}
    /\ results' = results \cup {<<t, "skipped">>}
    /\ Goes(t, "out")
    /\ UNCHANGED <<plan, phase, pending, completed, failed, aborted, bus>>

TakeAndStart(t) ==
    /\ Takes(t)
    /\ ~aborted /\ ~ShouldSkip(t)
    /\ Goes(t, IF t \in plan.nested THEN "nested" ELSE "starting")
    /\ UNCHANGED <<plan, phase, pending, completed, failed, skipped, aborted, results, bus>>

\* The start was announced and the agent loaded.
StartRun(t) ==
    /\ At(t, "starting")
    /\ Goes(t, "running")
    /\ UNCHANGED <<plan, phase, pending, queue, completed, failed, skipped,
                   aborted, results, bus>>

RunCompletes(t) ==
    /\ At(t, "running")
    /\ completed' = completed \cup {t}
    /\ results' = results \cup {<<t, "completed">>}
    /\ task' = [task EXCEPT ![t].at = "reporting"]
    /\ UNCHANGED <<plan, phase, pending, queue, failed, skipped, aborted, bus>>

\* The sub-agent paused for a decision: its output is partial.
RunPauses(t) ==
    /\ At(t, "running")
    /\ skipped' = skipped \cup {t}
    /\ results' = results \cup {<<t, "awaiting_approval">>}
    /\ task' = [task EXCEPT ![t].at = "reporting"]
    /\ UNCHANGED <<plan, phase, pending, queue, completed, failed, aborted, bus>>

MayRetry(t) == plan.policy[t] = "retry" /\ task[t].attempt < MaxAttempts

\* The catch of an attempt, when the error can be retried: back off.
Retries(t) ==
    /\ At(t, "running")
    /\ MayRetry(t)
    /\ task' = [task EXCEPT ![t] = [at |-> "sleeping", attempt |-> @.attempt + 1]]
    /\ UNCHANGED <<plan, phase, pending, queue, completed, failed, skipped,
                   aborted, results, bus>>

WakesUp(t) ==
    /\ At(t, "sleeping")
    /\ task' = [task EXCEPT ![t].at = "running"]
    /\ UNCHANGED <<plan, phase, pending, queue, completed, failed, skipped,
                   aborted, results, bus>>

\* recordFailure: the sets and the result at once ...
RecordsFailure(t) ==
    /\ failed' = failed \cup {t}
    /\ results' = results \cup {<<t, "failed">>}
    /\ Goes(t, "failing")

\* The agent does not load, the run fails for good, the sub-plan throws.
TaskFails(t) ==
    /\ task[t].at \in {"starting", "running", "nested"}
    /\ RecordsFailure(t)
    /\ UNCHANGED <<plan, phase, pending, queue, completed, skipped, aborted, bus>>

\* ... and the policy when the event has been published.
FailureReported(t) ==
    /\ At(t, "failing")
    /\ aborted' = (aborted \/ plan.policy[t] = "abort")
    /\ Goes(t, "out")
    /\ UNCHANGED <<plan, phase, pending, queue, completed, failed, skipped, results, bus>>

\* The sub-plan's results join the outer ones; its failure stops no other task.
NestedEnds(t) ==
    /\ At(t, "nested")
    /\ \E statuses \in SUBSET Statuses :
         /\ results' = results \cup {<<t, s>> : s \in statuses}
         /\ IF StatusOf(statuses) = "completed"
            THEN completed' = completed \cup {t} /\ UNCHANGED failed
            ELSE failed' = failed \cup {t} /\ UNCHANGED completed
    /\ Goes(t, "settled")
    /\ UNCHANGED <<plan, phase, pending, queue, skipped, aborted, bus>>

Reported(t) ==
    /\ task[t].at \in {"reporting", "settled"}
    /\ Goes(t, "out")
    /\ UNCHANGED <<plan, phase, pending, queue, completed, failed, skipped,
                   aborted, results, bus>>

-----------------------------------------------------------------------------
(* publishEvent throws *)

\* The event that announces the execution: nothing has begun yet.
BusRefusesStart ==
    /\ bus.failures < MaxBusFailures
    /\ phase = "starting"
    /\ phase' = "thrown"
    /\ bus' = [bus EXCEPT !.failures = @ + 1]
    /\ UNCHANGED <<plan, pending, queue, task, completed, failed, skipped,
                   aborted, results>>

BusThrows ==
    /\ bus.failures < MaxBusFailures
    /\ phase \in {"running", "thrown"}

\* Outside an attempt the error ends the worker and with it execute(); the
\* other workers go on.
BusEndsExecution(t) ==
    /\ BusThrows
    /\ task[t].at \in {"starting", "failing", "settled"}
    /\ bus' = [failures |-> bus.failures + 1, lost |-> bus.lost + 1]
    /\ phase' = "thrown"
    /\ Goes(t, "out")
    /\ UNCHANGED <<plan, pending, queue, completed, failed, skipped, aborted, results>>

\* Within an attempt, after the task was settled, it counts as a failed run.
BusFailsAttempt(t) ==
    /\ BusThrows
    /\ At(t, "reporting")
    /\ bus' = [bus EXCEPT !.failures = @ + 1]
    /\ \/ /\ MayRetry(t)
          /\ task' = [task EXCEPT ![t] =
                        [at |-> "sleeping", attempt |-> @.attempt + 1]]
          /\ UNCHANGED <<failed, results>>
       \/ RecordsFailure(t)
    /\ UNCHANGED <<plan, phase, pending, queue, completed, skipped, aborted>>

-----------------------------------------------------------------------------
Init ==
    /\ plan \in Plans
    /\ phase = "starting"
    /\ pending = {}
    /\ queue = {}
    /\ task = [t \in Tasks |-> [at |-> "waiting", attempt |-> 1]]
    /\ completed = {}
    /\ failed = {}
    /\ skipped = {}
    /\ aborted = FALSE
    /\ results = {}
    /\ bus = [failures |-> 0, lost |-> 0]

TaskStep(t) ==
    \/ TakeAndSkip(t) \/ TakeAndStart(t) \/ StartRun(t)
    \/ RunCompletes(t) \/ RunPauses(t) \/ Retries(t) \/ WakesUp(t)
    \/ TaskFails(t) \/ FailureReported(t) \/ NestedEnds(t) \/ Reported(t)

PlanStep == Begin \/ NextWave \/ Ends \/ Synthesises

Next ==
    \/ PlanStep
    \/ BusRefusesStart
    \/ \E t \in Tasks : TaskStep(t) \/ BusEndsExecution(t) \/ BusFailsAttempt(t)

Spec == Init /\ [][Next]_vars

\* Runs, nested plans, loads and publishes come back.
FairSpec == Spec /\ WF_vars(PlanStep) /\ \A t \in Tasks : WF_vars(TaskStep(t))

-----------------------------------------------------------------------------
(* Properties *)

\* No sub-agent works on a task before every task it depends on has completed:
\* not after a failed, a skipped or a paused one (audit CQ-010), in no mode.
DependenciesHonoured ==
    \A t \in Tasks :
        task[t].at \in Active \/ t \in completed =>
            plan.deps[t] \subseteq completed \ (failed \cup skipped)

\* An execution that returns has put every task in exactly one of its sets; in
\* two only if the bus failed.
EveryTaskAccounted ==
    phase = "done" =>
        /\ completed \cup failed \cup skipped = Tasks
        /\ bus.failures = 0 =>
              /\ completed \cap failed = {}
              /\ skipped \cap (completed \cup failed) = {}

\* An execution returns or throws, circular plans included.
PlanEnds == phase = "starting" ~> phase \in {"done", "thrown"}

\* docs/40-subagent-delegation.md:131, "abort: Stop all remaining tasks
\* (default)": nothing starts once a task with that policy has failed.
AbortStopsTheRest ==
    [][\A t \in Tasks :
          (t \in queue /\ task'[t].at \in Active) =>
              \A f \in failed : plan.policy[f] # "abort"]_vars

\* orchestrator.ts:298: a plan whose status is completed has no failed task.
CompletedMeansNoneFailed ==
    phase = "done" /\ PlanStatus = "completed" => failed = {}

\* Once execute() has returned or thrown, no task starts.
NothingStartsAfterwards ==
    [][\A t \in Tasks :
          phase \in {"done", "thrown"} /\ t \in queue => task'[t].at \notin Active]_vars

=============================================================================
