-------------------------- MODULE OrchestratorProofs --------------------------
(***************************************************************************)
(* Proofs about Orchestrator for any plan over any finite set of tasks,    *)
(* any concurrency and any failures of the bus.  A dependency that counts  *)
(* as completed must stay so: until its worker is through with it, a       *)
(* completed task can still be recorded as failed.  DepsInv therefore says *)
(* of a task that started that its dependencies are out of their workers'  *)
(* hands; PlacesInv and PhaseInv relate where a task is to the sets it is  *)
(* in and to the phase of the execution.  FaultInv says what a failure     *)
(* leaves behind, and with it when the documented guarantees hold that     *)
(* fail in general.                                                        *)
(***************************************************************************)
EXTENDS Orchestrator, FiniteSetTheorems, TLAPS

PlacesInv ==
    /\ pending \cap queue = {}
    /\ \A t \in Tasks :
          /\ t \in pending \cup queue =>
                At(t, "waiting") /\ t \notin completed \cup failed \cup skipped
          /\ t \in completed \cup failed => ~At(t, "waiting")
          /\ At(t, "failing") => t \in failed
          /\ At(t, "reporting") => t \in completed \cup skipped
          /\ At(t, "settled") => t \in completed \cup failed
          /\ At(t, "out") => t \in completed \cup failed \cup skipped \/ bus.lost > 0

PhaseInv ==
    /\ bus.lost > 0 => phase = "thrown"
    /\ phase = "starting" =>
          pending = {} /\ queue = {} /\ skipped = {} /\ \A t \in Tasks : At(t, "waiting")
    /\ phase = "running" => \A t \in Tasks : At(t, "waiting") => t \in pending \cup queue
    /\ phase \in {"synthesising", "done"} =>
          /\ pending = {} /\ queue = {} /\ Busy = {}
          /\ \A t \in Tasks : At(t, "waiting") => t \in skipped
    /\ phase = "thrown" /\ bus.lost = 0 => queue = {}
    /\ OneByOne => pending = {}
    /\ OneByOne /\ phase = "running" => \A t \in Tasks : plan.deps[t] \subseteq Tasks

DepsInv ==
    \A t \in Tasks : \A d \in plan.deps[t] :
        /\ task[t].at \in Active \cup {"reporting"} \/ t \in completed =>
              At(d, "out") /\ d \in completed /\ d \notin failed \cup skipped
        /\ ~OneByOne /\ t \in queue => At(d, "out") /\ d \in completed

\* While the bus has not failed, a task is in one set at most, and in none
\* before it has come to an end.
OnceInv ==
    bus.failures = 0 =>
        \A t \in Tasks :
            /\ ~(t \in completed /\ t \in failed)
            /\ ~(t \in skipped /\ t \in completed \cup failed)
            /\ task[t].at \in Active => t \notin completed \cup failed \cup skipped

Inv ==
    /\ TypeOK
    /\ PlacesInv
    /\ PhaseInv
    /\ DepsInv
    /\ OnceInv

-----------------------------------------------------------------------------
(* The type invariant *)

Places == {"waiting", "starting", "running", "sleeping", "nested", "failing",
           "reporting", "settled", "out"}
TaskState == [at : Places, attempt : 1..MaxAttempts]

\* A task goes to a place, with a new or the same attempt.
LEMMA TaskType ==
    ASSUME TypeOK, NEW t \in Tasks, NEW a \in Places,
           \/ Goes(t, a) \/ task' = [task EXCEPT ![t].at = a]
           \/ /\ task' = [task EXCEPT ![t] = [at |-> a, attempt |-> @.attempt + 1]]
              /\ MayRetry(t)
    PROVE  /\ task' \in [Tasks -> TaskState]
           /\ \A u \in Tasks : task'[u].at = IF u = t THEN a ELSE task[u].at
<1>0. task \in [Tasks -> TaskState]
  BY DEF TypeOK, TaskState, Places
<1>1. CASE Goes(t, a)
  <2>1. [at |-> a, attempt |-> 1] \in TaskState
    BY NumbersAssumption DEF TaskState
  <2> QED
    BY <1>0, <1>1, <2>1 DEF Goes
<1>2. CASE task' = [task EXCEPT ![t].at = a]
  BY <1>0, <1>2 DEF TaskState
<1>3. CASE /\ task' = [task EXCEPT ![t] = [at |-> a, attempt |-> @.attempt + 1]]
           /\ MayRetry(t)
  <2>1. task[t].attempt + 1 \in 1..MaxAttempts
    BY <1>0, <1>3, NumbersAssumption DEF MayRetry, TaskState
  <2>2. [at |-> a, attempt |-> task[t].attempt + 1] \in TaskState
    BY <2>1 DEF TaskState
  <2>3. task' = [task EXCEPT ![t] = [at |-> a, attempt |-> task[t].attempt + 1]]
    BY <1>3
  <2> QED
    BY <1>0, <2>2, <2>3
<1> QED
  BY <1>1, <1>2, <1>3

\* Which of its steps takes a task where.
LEMMA StepPlaces ==
    ASSUME TypeOK, NEW t \in Tasks,
           TaskStep(t) \/ BusEndsExecution(t) \/ BusFailsAttempt(t)
    PROVE  /\ task' \in [Tasks -> TaskState]
           /\ \E a \in Places \ {"waiting"} :
                 \A u \in Tasks : task'[u].at = IF u = t THEN a ELSE task[u].at
<1> USE DEF Places
<1>g. ASSUME NEW a \in Places \ {"waiting"}, Goes(t, a)
      PROVE  /\ task' \in [Tasks -> TaskState]
             /\ \A u \in Tasks : task'[u].at = IF u = t THEN a ELSE task[u].at
  BY <1>g, TaskType
<1>1. CASE TakeAndSkip(t)
  BY <1>1, <1>g DEF TakeAndSkip
<1>2. CASE TakeAndStart(t)
  BY <1>2, <1>g DEF TakeAndStart
<1>3. CASE StartRun(t)
  BY <1>3, <1>g DEF StartRun
<1>4. CASE RunCompletes(t) \/ RunPauses(t)
  BY SMTT(20), <1>4, TaskType DEF RunCompletes, RunPauses
<1>5. CASE Retries(t)
  BY ZenonT(60), <1>5, TaskType DEF Retries
<1>6. CASE WakesUp(t)
  BY ZenonT(60), <1>6, TaskType DEF WakesUp
<1>7. CASE TaskFails(t)
  BY <1>7, <1>g DEF TaskFails, RecordsFailure
<1>8. CASE FailureReported(t)
  BY <1>8, <1>g DEF FailureReported
<1>9. CASE NestedEnds(t)
  BY <1>9, <1>g DEF NestedEnds
<1>10. CASE Reported(t)
  BY <1>10, <1>g DEF Reported
<1>11. CASE BusEndsExecution(t)
  BY <1>11, <1>g DEF BusEndsExecution
<1>12. CASE BusFailsAttempt(t)
  <2>1. CASE /\ MayRetry(t)
             /\ task' = [task EXCEPT ![t] = [at |-> "sleeping", attempt |-> @.attempt + 1]]
    BY ZenonT(60), <2>1, TaskType
  <2>2. CASE RecordsFailure(t)
    BY <2>2, <1>g DEF RecordsFailure
  <2> QED
    BY <1>12, <2>1, <2>2 DEF BusFailsAttempt
<1> QED
  BY <1>1, <1>2, <1>3, <1>4, <1>5, <1>6, <1>7, <1>8, <1>9, <1>10, <1>11, <1>12 DEF TaskStep

\* Every step keeps the type invariant.
LEMMA TypeNext == TypeOK /\ [Next]_vars => TypeOK'
<1> SUFFICES ASSUME TypeOK, [Next]_vars PROVE TypeOK'
  OBVIOUS
<1> DEFINE Pairs == (Tasks \cup {FanIn}) \X Statuses
<1>0. /\ task \in [Tasks -> TaskState] /\ results \subseteq Pairs
      /\ (task' \in [Tasks -> TaskState] => task' \in [Tasks -> [at : {"waiting",
             "starting", "running", "sleeping", "nested", "failing", "reporting",
             "settled", "out"}, attempt : 1..MaxAttempts]])
  BY DEF TypeOK, TaskState, Places
<1>pair. \A t \in Tasks : \A s \in Statuses : <<t, s>> \in Pairs
  OBVIOUS
<1>1. CASE PlanStep
  <2>1. CASE Begin
    BY <2>1 DEF Begin, TypeOK
  <2>2. CASE NextWave
    BY <2>2 DEF NextWave, Ready, TypeOK
  <2>3. CASE Ends
    BY <2>3 DEF Ends, SkipsTheRest, TypeOK
  <2>4. CASE Synthesises
    <3>1. <<FanIn, "completed">> \in Pairs
      BY DEF Statuses
    <3>2. results' \subseteq Pairs
      BY <1>0, <2>4, <3>1 DEF Synthesises
    <3> QED
      BY <2>4, <3>2 DEF Synthesises, TypeOK
  <2> QED
    BY <1>1, <2>1, <2>2, <2>3, <2>4 DEF PlanStep
<1>2. ASSUME NEW t \in Tasks, TaskStep(t) PROVE TypeOK'
  <2>0. task' \in [Tasks -> TaskState] /\ UNCHANGED <<plan, phase, pending, bus>>
    BY <1>2, StepPlaces
       DEF TaskStep, TakeAndSkip, TakeAndStart, StartRun, RunCompletes, RunPauses, Retries,
           WakesUp, TaskFails, FailureReported, NestedEnds, Reported
  <2>1. queue' \subseteq Tasks
    BY <1>2 DEF TaskStep, TakeAndSkip, TakeAndStart, Takes, StartRun, RunCompletes,
           RunPauses, Retries, WakesUp, TaskFails, FailureReported, NestedEnds, Reported,
           TypeOK
  <2>2. completed' \subseteq Tasks /\ failed' \subseteq Tasks /\ skipped' \subseteq Tasks
    BY <1>2 DEF TaskStep, TakeAndSkip, TakeAndStart, StartRun, RunCompletes,
           RunPauses, Retries, WakesUp, TaskFails, RecordsFailure, FailureReported,
           NestedEnds, Reported, TypeOK
  <2>3. aborted' \in BOOLEAN
    BY <1>2 DEF TaskStep, TakeAndSkip, TakeAndStart, StartRun, RunCompletes,
           RunPauses, Retries, WakesUp, TaskFails, FailureReported,
           NestedEnds, Reported, TypeOK
  <2>4. results' \subseteq Pairs
    <3>1. CASE NestedEnds(t)
      <4>1. PICK statuses \in SUBSET Statuses :
               results' = results \cup {<<t, s>> : s \in statuses}
        BY <3>1 DEF NestedEnds
      <4> QED
        BY <1>0, <4>1
    <3>2. CASE ~NestedEnds(t)
      BY <1>0, <1>2, <1>pair, <3>2
         DEF TaskStep, TakeAndSkip, TakeAndStart, StartRun, RunCompletes, RunPauses,
             Retries, WakesUp, TaskFails, RecordsFailure, FailureReported, Reported,
             Statuses
    <3> QED
      BY <3>1, <3>2
  <2> QED
    BY <1>0, <2>0, <2>1, <2>2, <2>3, <2>4 DEF TypeOK
<1>3. ASSUME NEW t \in Tasks, BusEndsExecution(t) \/ BusFailsAttempt(t) PROVE TypeOK'
  <2>0. task' \in [Tasks -> TaskState]
    BY <1>3, StepPlaces
  <2>1. bus' \in [failures : 0..MaxBusFailures, lost : Nat]
    BY <1>3, NumbersAssumption DEF BusEndsExecution, BusFailsAttempt, BusThrows, TypeOK
  <2>2. results' \subseteq Pairs /\ failed' \subseteq Tasks
    BY <1>0, <1>3, <1>pair DEF BusEndsExecution, BusFailsAttempt, RecordsFailure,
           Statuses, TypeOK
  <2> QED
    BY <1>0, <1>3, <2>0, <2>1, <2>2 DEF BusEndsExecution, BusFailsAttempt, TypeOK
<1>4. CASE BusRefusesStart
  BY <1>4, NumbersAssumption DEF BusRefusesStart, TypeOK
<1>5. CASE UNCHANGED vars
  BY <1>5 DEF vars, TypeOK
<1> QED
  BY <1>1, <1>2, <1>3, <1>4, <1>5 DEF Next

-----------------------------------------------------------------------------
(* The inductive invariant *)

\* A task that a wave holds or a worker works on goes to another place, and
\* nothing is said of the other tasks.
LEMMA TaskMoves ==
    ASSUME Inv, TypeOK', NEW t \in Tasks, NEW a \in Places \ {"waiting"},
           \A u \in Tasks : task'[u].at = IF u = t THEN a ELSE task[u].at,
           UNCHANGED <<plan, pending>>,
           queue' = queue \ {t}, t \in Busy \cup queue,
           \/ phase' = phase /\ bus'.lost = bus.lost
           \/ phase' = "thrown" /\ bus'.lost > 0,
           \A u \in Tasks \ {t} : /\ u \in completed' <=> u \in completed
                                  /\ u \in failed' <=> u \in failed
                                  /\ u \in skipped' <=> u \in skipped,
           a = "failing" => t \in failed',
           a = "reporting" => t \in completed' \cup skipped',
           a = "settled" => t \in completed' \cup failed',
           a = "out" => t \in completed' \cup failed' \cup skipped' \/ bus'.lost > 0,
           a \in Active \cup {"reporting"} \/ t \in completed' =>
               \A d \in plan.deps[t] : At(d, "out") /\ d \in completed
                                       /\ d \notin failed \cup skipped,
           bus'.failures = 0 =>
               /\ bus.failures = 0
               /\ ~(t \in completed' /\ t \in failed')
               /\ ~(t \in skipped' /\ t \in completed' \cup failed')
               /\ a \in Active => t \notin completed' \cup failed' \cup skipped'
    PROVE  Inv'
<1>deps. completed \subseteq Tasks
  BY DEF Inv, TypeOK
<1>same. (OneByOne)' <=> OneByOne
  BY DEF OneByOne
<1>at. task[t].at # "out" /\ t \notin pending
  BY DEF Busy, Active, Inv, PlacesInv, At
<1>busy. phase \notin {"starting", "synthesising", "done"}
  BY DEF Busy, Active, Inv, PhaseInv, At
<1>1. PlacesInv'
  BY <1>at DEF Inv, TypeOK, PlacesInv, At, Places
<1>2. PhaseInv'
  <2>1. (bus.lost > 0 => phase = "thrown")'
    BY DEF Inv, PhaseInv
  <2>2. phase' \notin {"starting", "synthesising", "done"}
    BY <1>busy
  <2>3. (phase = "running" => \A u \in Tasks : At(u, "waiting") => u \in pending \cup queue)'
    BY DEF Inv, PhaseInv, At
  <2>4. (phase = "thrown" /\ bus.lost = 0 => queue = {})'
    BY DEF Inv, PhaseInv
  <2>5. (OneByOne => pending = {})'
    BY <1>same DEF Inv, PhaseInv
  <2>6. (OneByOne /\ phase = "running" => \A u \in Tasks : plan.deps[u] \subseteq Tasks)'
    BY <1>same DEF Inv, PhaseInv
  <2> QED
    BY <2>1, <2>2, <2>3, <2>4, <2>5, <2>6 DEF PhaseInv
<1>3. DepsInv'
  <2> SUFFICES ASSUME NEW u \in Tasks, NEW d \in plan.deps[u]
               PROVE  /\ task'[u].at \in Active \cup {"reporting"} \/ u \in completed' =>
                             /\ task'[d].at = "out" /\ d \in completed'
                             /\ d \notin failed' \cup skipped'
                      /\ ~OneByOne /\ u \in queue' => task'[d].at = "out" /\ d \in completed'
    BY <1>same DEF DepsInv, At
  <2>0. d \in completed => d \in Tasks
    BY <1>deps
  <2>1. CASE u = t
    BY <1>at, <2>0, <2>1 DEF At
  <2>2. CASE u # t
    BY <1>at, <2>0, <2>2 DEF Inv, DepsInv, At
  <2> QED
    BY <2>1, <2>2
<1>4. OnceInv'
  BY DEF Inv, OnceInv
<1> QED
  BY <1>1, <1>2, <1>3, <1>4 DEF Inv

\* Once the sets say that no task it depends on failed or was left out, the
\* dependencies of a task that a worker takes have completed for good.
LEMMA TakenIsReady ==
    ASSUME Inv, NEW t \in Tasks, Takes(t), ~ShouldSkip(t)
    PROVE  \A d \in plan.deps[t] : At(d, "out") /\ d \in completed
                                   /\ d \notin failed \cup skipped
<1> SUFFICES ASSUME NEW d \in plan.deps[t]
             PROVE  At(d, "out") /\ d \in completed /\ d \notin failed \cup skipped
  OBVIOUS
<1>0. plan.deps[t] \subseteq Tasks => d \in Tasks
  OBVIOUS
<1>1. d \notin failed \cup skipped
  BY DEF ShouldSkip
<1>2. CASE ~OneByOne
  BY <1>1, <1>2 DEF Takes, Inv, DepsInv
<1>3. CASE OneByOne
  <2>1. bus.lost \in Nat /\ IsFiniteSet(Busy)
    <3>1. Busy \subseteq Tasks
      BY DEF Busy
    <3> QED
      BY <3>1, FS_Subset, TasksAssumption DEF Inv, TypeOK
  <2>2. Cardinality(Busy) \in Nat /\ Cardinality(Busy) < 1 - bus.lost
    BY <1>3, <2>1, FS_CardinalityType DEF Takes, Workers
  <2>3. Cardinality(Busy) = 0 /\ bus.lost = 0
    BY <2>1, <2>2
  <2>4. Busy = {}
    BY <2>1, <2>3, FS_EmptySet
  <2>5. phase = "running"
    BY <2>3 DEF Takes, Inv, PhaseInv, TypeOK
  <2>6. d \notin pending \cup queue
    BY <1>3 DEF Takes, Inv, PhaseInv
  <2>t. d \in Tasks
    BY <1>0, <1>3, <2>5 DEF Takes, Inv, TypeOK, PhaseInv
  <2>7. ~At(d, "waiting")
    BY <2>t, <2>5, <2>6 DEF Inv, PhaseInv
  <2>8. task[d].at \in Places
    BY <2>t DEF Inv, TypeOK, Places
  <2>9. At(d, "out")
    BY <2>t, <2>4, <2>7, <2>8 DEF Busy, Active, At, Places
  <2> QED
    BY <2>t, <1>1, <2>3, <2>9 DEF Inv, PlacesInv
<1> QED
  BY <1>2, <1>3

\* The steps of a task keep the invariant.
LEMMA TaskStepInv ==
    ASSUME Inv, TypeOK', NEW t \in Tasks,
           TaskStep(t) \/ BusEndsExecution(t) \/ BusFailsAttempt(t)
    PROVE  Inv'
<1> DEFINE Moved(a) == \A u \in Tasks : task'[u].at = IF u = t THEN a ELSE task[u].at
<1>t. TypeOK
  BY DEF Inv
<1>g. ASSUME NEW a \in Places, Goes(t, a) PROVE Moved(a)
  BY <1>t, <1>g, TaskType
<1>e. ASSUME NEW a \in Places, task' = [task EXCEPT ![t].at = a] PROVE Moved(a)
  BY <1>t, <1>e, TaskType
<1>r. ASSUME MayRetry(t), task' = [task EXCEPT ![t] = [at |-> "sleeping", attempt |-> @.attempt + 1]]
      PROVE  Moved("sleeping")
  BY <1>t, <1>r, TaskType DEF Places
<1>p. /\ "starting" \in Places /\ "running" \in Places /\ "sleeping" \in Places
      /\ "nested" \in Places /\ "failing" \in Places /\ "reporting" \in Places
      /\ "settled" \in Places /\ "out" \in Places
  BY DEF Places
\* What is known of a task that a worker has, and of one it has not.
<1>b. ASSUME task[t].at \in Active \cup {"failing", "reporting", "settled"}
      PROVE  t \in Busy /\ t \notin queue
  BY <1>b DEF Busy, Inv, PlacesInv, At, Active
<1>a. ASSUME task[t].at \in Active \cup {"reporting"} \/ t \in completed
      PROVE  \A d \in plan.deps[t] : At(d, "out") /\ d \in completed
                                     /\ d \notin failed \cup skipped
  BY <1>a DEF Inv, DepsInv
<1>q. ASSUME t \in queue PROVE t \notin completed \cup failed \cup skipped
  BY <1>q DEF Inv, PlacesInv
<1>o. ASSUME bus.failures = 0
      PROVE  /\ ~(t \in completed /\ t \in failed)
             /\ ~(t \in skipped /\ t \in completed \cup failed)
             /\ task[t].at \in Active => t \notin completed \cup failed \cup skipped
  BY <1>o DEF Inv, OnceInv
<1>s. /\ At(t, "failing") => t \in failed
      /\ At(t, "reporting") => t \in completed \cup skipped
      /\ At(t, "settled") => t \in completed \cup failed
  BY DEF Inv, PlacesInv
<1>1. CASE TakeAndSkip(t)
  <2>1. Moved("out")
    BY <1>1, <1>g, <1>p DEF TakeAndSkip
  <2> HIDE DEF Moved
  <2> QED
    BY <1>1, <1>p, <1>q, <2>1, TaskMoves DEF TakeAndSkip, Takes, Moved, Active
<1>2. CASE TakeAndStart(t)
  <2>1. PICK a \in {"nested", "starting"} : Goes(t, a)
    BY <1>2 DEF TakeAndStart
  <2>2. Moved(a)
    BY <1>g, <1>p, <2>1
  <2>3. \A d \in plan.deps[t] : At(d, "out") /\ d \in completed
                               /\ d \notin failed \cup skipped
    BY <1>2, TakenIsReady DEF TakeAndStart
  <2> HIDE DEF Moved
  <2> QED
    BY <1>2, <1>p, <1>q, <1>o, <2>1, <2>2, <2>3, TaskMoves
       DEF TakeAndStart, Takes, Moved, Active
<1>3. CASE StartRun(t) \/ WakesUp(t) \/ Retries(t)
  <2>1. Moved("running") \/ Moved("sleeping")
    BY <1>3, <1>g, <1>e, <1>r, <1>p DEF StartRun, WakesUp, Retries
  <2>2. task[t].at \in Active
    BY <1>3 DEF StartRun, WakesUp, Retries, At, Active
  <2>3. UNCHANGED <<plan, phase, pending, queue, completed, failed, skipped, bus>>
    BY <1>3 DEF StartRun, WakesUp, Retries
  <2> HIDE DEF Moved
  <2>4. CASE Moved("running")
    BY <1>p, <1>b, <1>a, <1>o, <2>2, <2>3, <2>4, TaskMoves DEF Moved, Active
  <2>5. CASE Moved("sleeping")
    BY <1>p, <1>b, <1>a, <1>o, <2>2, <2>3, <2>5, TaskMoves DEF Moved, Active
  <2> QED
    BY <2>1, <2>4, <2>5
<1>4. CASE RunCompletes(t) \/ RunPauses(t)
  <2>1. Moved("reporting")
    BY <1>4, <1>e, <1>p DEF RunCompletes, RunPauses
  <2>2. task[t].at \in Active
    BY <1>4 DEF RunCompletes, RunPauses, At, Active
  <2> HIDE DEF Moved
  <2> QED
    BY <1>4, <1>p, <1>b, <1>a, <1>o, <2>1, <2>2, TaskMoves
       DEF RunCompletes, RunPauses, Moved, Active
<1>5. CASE TaskFails(t)
  <2>1. Moved("failing")
    BY <1>5, <1>g, <1>p DEF TaskFails, RecordsFailure
  <2>2. task[t].at \in Active
    BY <1>5 DEF TaskFails, Active
  <2> HIDE DEF Moved
  <2> QED
    BY <1>5, <1>p, <1>b, <1>a, <1>o, <2>1, <2>2, TaskMoves
       DEF TaskFails, RecordsFailure, Moved, Active
<1>6. CASE FailureReported(t) \/ Reported(t)
  <2>1. Moved("out")
    BY <1>6, <1>g, <1>p DEF FailureReported, Reported
  <2>2. task[t].at \in {"failing", "reporting", "settled"}
    BY <1>6 DEF FailureReported, Reported, At
  <2>3. UNCHANGED <<plan, phase, pending, queue, completed, failed, skipped, bus>>
    BY <1>6 DEF FailureReported, Reported
  <2>4. t \in completed \cup failed \cup skipped
    BY <1>s, <2>2 DEF At
  <2> HIDE DEF Moved
  <2> QED
    BY <1>p, <1>b, <1>a, <1>o, <2>1, <2>2, <2>3, <2>4, TaskMoves DEF Moved, Active
<1>7. CASE NestedEnds(t)
  <2>1. Moved("settled")
    BY <1>7, <1>g, <1>p DEF NestedEnds
  <2>2. task[t].at \in Active
    BY <1>7 DEF NestedEnds, At, Active
  <2>3. \/ completed' = completed \cup {t} /\ UNCHANGED failed
        \/ failed' = failed \cup {t} /\ UNCHANGED completed
    BY <1>7 DEF NestedEnds
  <2>4. UNCHANGED <<plan, phase, pending, queue, skipped, bus>>
    BY <1>7 DEF NestedEnds
  <2> HIDE DEF Moved
  <2> QED
    BY <1>p, <1>b, <1>a, <1>o, <2>1, <2>2, <2>3, <2>4, TaskMoves DEF Moved, Active
<1>8. CASE BusEndsExecution(t)
  <2>1. Moved("out")
    BY <1>8, <1>g, <1>p DEF BusEndsExecution
  <2>2. task[t].at \in Active \cup {"failing", "settled"}
    BY <1>8 DEF BusEndsExecution, Active
  <2>3. bus'.lost > 0 /\ bus'.failures # 0
    BY <1>8, <1>t DEF BusEndsExecution, TypeOK
  <2> HIDE DEF Moved
  <2> QED
    BY <1>8, <1>p, <1>b, <1>a, <2>1, <2>2, <2>3, TaskMoves
       DEF BusEndsExecution, Moved, Active
<1>9. CASE BusFailsAttempt(t)
  <2>1. bus'.lost = bus.lost /\ bus'.failures # 0
    BY <1>9, <1>t DEF BusFailsAttempt, TypeOK
  <2>2. UNCHANGED <<plan, phase, pending, queue, completed, skipped>> /\ At(t, "reporting")
    BY <1>9 DEF BusFailsAttempt
  <2>3. t \in Busy /\ t \notin queue
    BY <1>b, <2>2 DEF At
  <2>4. CASE RecordsFailure(t)
    <3>1. Moved("failing") /\ failed' = failed \cup {t}
      BY <1>g, <1>p, <2>4 DEF RecordsFailure
    <3> HIDE DEF Moved
    <3> QED
      BY <1>p, <1>a, <2>1, <2>2, <2>3, <3>1, TaskMoves DEF Moved, Active
  <2>5. CASE /\ MayRetry(t) /\ UNCHANGED failed
             /\ task' = [task EXCEPT ![t] = [at |-> "sleeping", attempt |-> @.attempt + 1]]
    <3>1. Moved("sleeping")
      BY <1>r, <2>5
    <3> HIDE DEF Moved
    <3> QED
      <4>1. \A d \in plan.deps[t] : At(d, "out") /\ d \in completed
                                   /\ d \notin failed \cup skipped
        BY <1>a, <2>2 DEF At
      <4> QED
        BY <1>p, <2>1, <2>2, <2>3, <2>5, <3>1, <4>1, TaskMoves DEF Moved, Active
  <2> QED
    BY <1>9, <2>4, <2>5 DEF BusFailsAttempt
<1> QED
  BY <1>1, <1>2, <1>3, <1>4, <1>5, <1>6, <1>7, <1>8, <1>9 DEF TaskStep

\* The steps of the execution itself keep it.
LEMMA PlanStepInv ==
    ASSUME Inv, TypeOK', PlanStep
    PROVE  Inv'
<1>t. /\ completed \subseteq Tasks
      /\ pending \subseteq Tasks /\ queue \subseteq Tasks /\ bus.lost \in Nat
      /\ \A u \in Tasks : task[u].at \in Places
  BY DEF Inv, TypeOK, Plan, Places
<1>1. CASE Begin
  <2>1. /\ pending = {} /\ queue = {} /\ skipped = {} /\ phase = "starting"
        /\ \A u \in Tasks : At(u, "waiting")
    BY <1>1 DEF Begin, Inv, PhaseInv
  <2>2. \A u \in Tasks : u \notin completed \cup failed \cup skipped
    BY <2>1 DEF Inv, PlacesInv
  <2>3. UNCHANGED <<plan, task, completed, failed, skipped, bus>>
    BY <1>1 DEF Begin
  <2>0. completed = {} /\ failed = {} /\ skipped = {}
    BY <2>2 DEF Inv, TypeOK
  <2>4. /\ OneByOne => /\ pending' = {}
                        /\ \/ /\ phase' = "running" /\ queue' = Tasks
                              /\ \A u \in Tasks : plan.deps[u] \subseteq Tasks
                           \/ phase' = "thrown" /\ queue' = {}
        /\ ~OneByOne => phase' = "running" /\ pending' = Tasks /\ queue' = {}
    BY <1>1, <2>1 DEF Begin, NamesUnknown, Inv, TypeOK, Plan
  <2>5. ((OneByOne)' <=> OneByOne) /\ bus.lost = 0
    BY <1>t, <2>1, <2>3 DEF OneByOne, Inv, PhaseInv
  <2>6. PlacesInv'
    BY <2>1, <2>2, <2>3, <2>4 DEF PlacesInv, At
  <2>7. PhaseInv'
    BY <2>1, <2>3, <2>4, <2>5 DEF PhaseInv, At
  <2>8. DepsInv'
    BY <1>t, <2>1, <2>2, <2>3, <2>4, <2>5 DEF DepsInv, At, Active
  <2>9. OnceInv'
    BY <2>2, <2>3 DEF OnceInv
  <2> QED
    BY <2>6, <2>7, <2>8, <2>9 DEF Inv
<1>2. CASE NextWave
  <2>1. /\ phase = "running" /\ queue = {} /\ Busy = {} /\ queue' = Ready
        /\ pending' = pending \ Ready /\ Ready \subseteq pending
        /\ UNCHANGED <<plan, phase, task, completed, failed, skipped, bus>>
    BY <1>2 DEF NextWave, WaveIsOver, Ready
  <2>2. ((OneByOne)' <=> OneByOne)
    BY <2>1 DEF OneByOne
  <2>3. PlacesInv'
    BY <2>1 DEF Inv, PlacesInv, At
  <2>4. PhaseInv'
    BY <2>1, <2>2 DEF Inv, PhaseInv, At
  <2>5. \A u \in Ready : \A d \in plan.deps[u] : At(d, "out") /\ d \in completed
    <3> SUFFICES ASSUME NEW u \in Ready, NEW d \in plan.deps[u]
                 PROVE  At(d, "out") /\ d \in completed
      OBVIOUS
    <3>1. d \in Tasks /\ d \in completed
      BY <1>t DEF Ready
    <3>2. ~At(d, "waiting") /\ d \notin Busy /\ task[d].at \in Places
      BY <1>t, <2>1, <3>1 DEF Inv, PlacesInv
    <3> QED
      BY <3>1, <3>2 DEF Busy, Active, At, Places
  <2>6. DepsInv'
    BY <1>t, <2>1, <2>2, <2>5 DEF Inv, DepsInv, At
  <2>7. OnceInv'
    BY <2>1 DEF Inv, OnceInv
  <2> QED
    BY <2>3, <2>4, <2>6, <2>7 DEF Inv
<1>3. CASE Ends
  <2>1. /\ phase = "running" /\ queue = {} /\ Busy = {}
        /\ pending' = {} /\ skipped' = skipped \cup pending
        /\ phase' \in {"synthesising", "done"}
        /\ UNCHANGED <<plan, queue, task, completed, failed, bus>>
    BY <1>3 DEF Ends, WaveIsOver, SkipsTheRest
  <2>2. ((OneByOne)' <=> OneByOne) /\ Busy' = {}
    BY <2>1 DEF OneByOne, Busy
  <2>3. \A u \in pending : At(u, "waiting") /\ u \notin completed \cup failed
    BY <1>t DEF Inv, PlacesInv
  <2>4. PlacesInv'
    BY <2>1, <2>3 DEF Inv, PlacesInv, At
  <2>5. PhaseInv'
    BY <2>1, <2>2 DEF Inv, PhaseInv, At
  <2>6. DepsInv'
    BY <1>t, <2>1, <2>2, <2>3 DEF Inv, DepsInv, At
  <2>7. OnceInv'
    BY <2>1, <2>3 DEF Inv, OnceInv, At, Active
  <2> QED
    BY <2>4, <2>5, <2>6, <2>7 DEF Inv
<1>4. CASE Synthesises
  <2>1. /\ phase = "synthesising" /\ phase' \in {"done", "thrown"}
        /\ UNCHANGED <<plan, pending, queue, task, completed, failed, skipped, bus>>
    BY <1>4 DEF Synthesises
  <2>2. ((OneByOne)' <=> OneByOne) /\ Busy' = Busy
    BY <2>1 DEF OneByOne, Busy
  <2>3. PlacesInv' /\ OnceInv'
    BY <2>1 DEF Inv, PlacesInv, OnceInv, At
  <2>4. PhaseInv'
    BY <2>1, <2>2 DEF Inv, PhaseInv, At
  <2>5. DepsInv'
    BY <2>1, <2>2 DEF Inv, DepsInv, At
  <2> QED
    BY <2>3, <2>4, <2>5 DEF Inv
<1> QED
  BY <1>1, <1>2, <1>3, <1>4 DEF PlanStep

-----------------------------------------------------------------------------
(* Theorems *)

\* The initial states satisfy the invariant.
LEMMA InitInv == Init => Inv
<1> SUFFICES ASSUME Init PROVE Inv
  OBVIOUS
<1>1. TypeOK
  <2>1. [at |-> "waiting", attempt |-> 1] \in TaskState
    BY NumbersAssumption DEF TaskState, Places
  <2>2. task \in [Tasks -> TaskState]
    BY <2>1 DEF Init
  <2>3. bus \in [failures : 0..MaxBusFailures, lost : Nat]
    BY NumbersAssumption DEF Init
  <2> QED
    BY <2>2, <2>3, PlanAssumption DEF Init, TypeOK, TaskState, Places
<1>2. PlacesInv /\ PhaseInv
  BY DEF Init, PlacesInv, PhaseInv, At
<1>3. DepsInv /\ OnceInv
  BY PlanAssumption DEF Init, DepsInv, OnceInv, Active, Plan
<1> QED
  BY <1>1, <1>2, <1>3 DEF Inv

\* Every step keeps it.
LEMMA NextInv == Inv /\ [Next]_vars => Inv'
<1> SUFFICES ASSUME Inv, [Next]_vars PROVE Inv'
  OBVIOUS
<1>t. TypeOK'
  BY TypeNext DEF Inv
<1>1. CASE PlanStep
  BY <1>t, <1>1, PlanStepInv
<1>2. ASSUME NEW t \in Tasks, TaskStep(t) \/ BusEndsExecution(t) \/ BusFailsAttempt(t)
      PROVE  Inv'
  BY <1>t, <1>2, TaskStepInv
<1>3. CASE BusRefusesStart
  <2>1. PlacesInv' /\ PhaseInv' /\ DepsInv'
    BY <1>3 DEF BusRefusesStart, Inv, PlacesInv, PhaseInv, DepsInv, At, OneByOne, Busy
  <2>2. OnceInv'
    BY <1>3 DEF BusRefusesStart, Inv, OnceInv, TypeOK, At
  <2> QED
    BY <1>t, <2>1, <2>2 DEF Inv
<1>4. CASE UNCHANGED vars
  <2>1. PlacesInv' /\ OnceInv' /\ PhaseInv' /\ DepsInv'
    BY <1>4 DEF vars, Inv, PlacesInv, OnceInv, PhaseInv, DepsInv, At, OneByOne, Busy
  <2> QED
    BY <1>t, <2>1 DEF Inv
<1> QED
  BY <1>1, <1>2, <1>3, <1>4 DEF Next

\* It holds in every state of every behaviour.
LEMMA Invariance == Spec => []Inv
<1>1. Init => Inv
  BY InitInv
<1>2. Inv /\ [Next]_vars => Inv'
  BY NextInv
<1> QED
  BY <1>1, <1>2, PTL DEF Spec

\* Every variable of an execution keeps its type, whatever the plan and
\* however often the bus fails.
THEOREM TypeCorrect == Spec => []TypeOK
<1>1. Inv => TypeOK
  BY DEF Inv
<1> QED
  BY <1>1, Invariance, PTL

\* In every mode, with any number of workers, a sub-agent works on a task only
\* after all the tasks it depends on have completed (orchestrator.ts,
\* runSingleTask and shouldSkipTask).
THEOREM DependenciesComeFirst == Spec => []DependenciesHonoured
<1>1. Inv => DependenciesHonoured
  BY DEF Inv, DepsInv, DependenciesHonoured
<1> QED
  BY <1>1, Invariance, PTL

\* An execution that returns has every task in one of its sets, and unless the
\* bus failed in one only.
THEOREM TasksAreAccounted == Spec => []EveryTaskAccounted
<1>1. Inv => EveryTaskAccounted
  <2> SUFFICES ASSUME Inv, phase = "done" PROVE EveryTaskAccounted
    BY DEF EveryTaskAccounted
  <2>1. bus.lost = 0 /\ Busy = {}
    BY DEF Inv, PhaseInv, TypeOK
  <2>2. ASSUME NEW t \in Tasks PROVE t \in completed \cup failed \cup skipped
    <3>1. task[t].at \in Places
      BY DEF Inv, TypeOK, Places
    <3>2. At(t, "waiting") \/ At(t, "out")
      BY <2>1, <3>1 DEF Busy, Active, At, Places
    <3> QED
      BY <2>1, <3>2 DEF Inv, PhaseInv, PlacesInv
  <2>3. completed \cup failed \cup skipped = Tasks
    BY <2>2 DEF Inv, TypeOK
  <2>4. bus.failures = 0 =>
           completed \cap failed = {} /\ skipped \cap (completed \cup failed) = {}
    BY DEF Inv, OnceInv, TypeOK
  <2> QED
    BY <2>3, <2>4 DEF EveryTaskAccounted
<1> QED
  BY <1>1, Invariance, PTL

-----------------------------------------------------------------------------
(* When the documented guarantees do hold                                  *)

\* What a failure leaves behind.  That of a task with a sub-plan neither aborts
\* the execution nor shows in the results; any other one shows there, and from
\* the moment its event is out it aborts if its policy says so.
FaultInv ==
    /\ plan \in Plans
    /\ bus.lost <= bus.failures
    /\ \A t \in Tasks : At(t, "nested") => t \in plan.nested
    /\ \A f \in failed \ plan.nested :
          /\ <<f, "failed">> \in results
          /\ plan.policy[f] = "abort" => aborted \/ At(f, "failing") \/ bus.lost > 0

\* What a step of one task does to the failures that are known.
FaultStep(t) ==
    /\ plan' = plan
    /\ results \subseteq results'
    /\ aborted => aborted'
    /\ bus'.lost <= bus'.failures /\ bus'.lost >= bus.lost
    /\ task'[t].at = "nested" => t \in plan.nested
    /\ \/ failed' = failed
       \/ failed' = failed \cup {t} /\ t \in plan.nested
       \/ /\ failed' = failed \cup {t} /\ <<t, "failed">> \in results'
          /\ task'[t].at = "failing"
    /\ At(t, "failing") /\ plan.policy[t] = "abort" => aborted' \/ bus'.lost > 0

\* Every step of a task is one of these.
LEMMA StepFaults ==
    ASSUME Inv, FaultInv, NEW t \in Tasks,
           TaskStep(t) \/ BusEndsExecution(t) \/ BusFailsAttempt(t)
    PROVE  FaultStep(t)
<1> USE DEF FaultStep
<1>t. TypeOK /\ bus.lost \in Nat /\ bus.failures \in Nat /\ bus.lost <= bus.failures
  BY DEF Inv, TypeOK, FaultInv
<1>g. ASSUME NEW a, Goes(t, a) PROVE task'[t].at = a
  BY <1>t, <1>g DEF Goes, TypeOK
<1>e. ASSUME NEW a, task' = [task EXCEPT ![t].at = a] PROVE task'[t].at = a
  BY <1>t, <1>e DEF TypeOK
<1>r. ASSUME task' = [task EXCEPT ![t] = [at |-> "sleeping", attempt |-> @.attempt + 1]]
      PROVE  task'[t].at = "sleeping"
  BY <1>t, <1>r DEF TypeOK
<1>1. CASE TakeAndSkip(t)
  BY <1>t, <1>1, <1>g DEF TakeAndSkip, Takes, At, Inv, PlacesInv
<1>2. CASE TakeAndStart(t)
  <2>1. /\ UNCHANGED <<plan, results, aborted, bus, failed>> /\ At(t, "waiting")
        /\ \/ t \in plan.nested /\ Goes(t, "nested")
           \/ Goes(t, "starting")
    BY <1>2 DEF TakeAndStart, Takes, Inv, PlacesInv
  <2> QED
    BY <1>t, <1>g, <2>1 DEF At
<1>3. CASE StartRun(t) \/ Reported(t)
  BY <1>t, <1>3, <1>g DEF StartRun, Reported, At
<1>4. CASE RunCompletes(t) \/ RunPauses(t) \/ WakesUp(t)
  BY <1>t, <1>4, <1>e DEF RunCompletes, RunPauses, WakesUp, At
<1>5. CASE Retries(t)
  BY <1>t, <1>5, <1>r DEF Retries, At
<1>6. CASE TaskFails(t)
  BY <1>t, <1>6, <1>g DEF TaskFails, RecordsFailure, At
<1>7. CASE FailureReported(t)
  <2>1. /\ plan.policy[t] = "abort" => aborted'
        /\ aborted => aborted'
    BY Zenon, <1>7 DEF FailureReported
  <2>2. UNCHANGED <<plan, failed, results, bus>> /\ Goes(t, "out")
    BY <1>7 DEF FailureReported
  <2> QED
    BY <1>t, <1>g, <2>1, <2>2
<1>8. CASE NestedEnds(t)
  <2>1. results \subseteq results'
    BY <1>8 DEF NestedEnds
  <2>2. t \in plan.nested /\ (failed' = failed \/ failed' = failed \cup {t})
    BY <1>8 DEF NestedEnds, FaultInv
  <2> QED
    BY <1>t, <1>8, <1>g, <2>1, <2>2 DEF NestedEnds, At
<1>9. CASE BusEndsExecution(t)
  <2>1. bus'.lost = bus.lost + 1 /\ bus'.failures = bus.failures + 1
    BY <1>9 DEF BusEndsExecution
  <2> QED
    BY <1>t, <1>9, <1>g, <2>1 DEF BusEndsExecution, At
<1>10. CASE BusFailsAttempt(t)
  <2>1. bus'.lost = bus.lost /\ bus'.failures = bus.failures + 1
    BY <1>t, <1>10 DEF BusFailsAttempt, TypeOK
  <2>2. UNCHANGED <<plan, aborted>> /\ At(t, "reporting")
    BY <1>10 DEF BusFailsAttempt
  <2>3. CASE RecordsFailure(t)
    BY <1>t, <1>g, <2>1, <2>2, <2>3 DEF RecordsFailure, At
  <2>4. CASE /\ UNCHANGED <<failed, results>>
             /\ task' = [task EXCEPT ![t] = [at |-> "sleeping", attempt |-> @.attempt + 1]]
    BY <1>t, <1>r, <2>1, <2>2, <2>4 DEF At
  <2> QED
    BY <1>10, <2>3, <2>4 DEF BusFailsAttempt
<1> QED
  BY <1>1, <1>2, <1>3, <1>4, <1>5, <1>6, <1>7, <1>8, <1>9, <1>10 DEF TaskStep

\* Every step keeps what is known of the failures; the execution's own steps
\* touch none.
LEMMA FaultNext == Inv /\ FaultInv /\ [Next]_vars => FaultInv'
<1> SUFFICES ASSUME Inv, FaultInv, [Next]_vars PROVE FaultInv'
  OBVIOUS
<1>1. CASE PlanStep
  <2>1. UNCHANGED <<plan, task, failed, aborted, bus>> /\ results \subseteq results'
    BY <1>1 DEF PlanStep, Begin, NextWave, Ends, SkipsTheRest, Synthesises
  <2> QED
    BY <2>1 DEF FaultInv, At
<1>2. ASSUME NEW t \in Tasks, TaskStep(t) \/ BusEndsExecution(t) \/ BusFailsAttempt(t)
      PROVE  FaultInv'
  <2>1. \A u \in Tasks : u # t => task'[u].at = task[u].at
    BY <1>2, StepPlaces DEF Inv
  <2>2. failed \subseteq Tasks /\ bus.lost \in Nat /\ bus'.lost \in Nat
    BY <1>2, TaskStepInv, TypeNext DEF Inv, TypeOK, Next
  <2>3. FaultStep(t)
    BY <1>2, StepFaults
  <2>4. \A u \in Tasks : At(u, "nested")' => u \in plan'.nested
    BY <2>1, <2>3 DEF FaultStep, FaultInv, At
  <2>5. ASSUME NEW f \in failed', f \notin plan.nested
        PROVE  /\ <<f, "failed">> \in results'
               /\ plan.policy[f] = "abort" => aborted' \/ At(f, "failing")' \/ bus'.lost > 0
    <3>1. CASE f \notin failed
      BY <2>3, <2>5, <3>1 DEF FaultStep, At
    <3>2. CASE f \in failed /\ f # t
      <4>1. /\ <<f, "failed">> \in results
            /\ plan.policy[f] = "abort" => aborted \/ At(f, "failing") \/ bus.lost > 0
        BY <2>5, <3>2 DEF FaultInv
      <4>2. At(f, "failing") => At(f, "failing")'
        BY <2>1, <2>2, <3>2 DEF At
      <4> QED
        BY <2>2, <2>3, <4>1, <4>2 DEF FaultStep
    <3>3. CASE f \in failed /\ f = t
      <4>1. /\ <<f, "failed">> \in results
            /\ plan.policy[f] = "abort" => aborted \/ At(f, "failing") \/ bus.lost > 0
        BY <2>5, <3>3 DEF FaultInv
      <4> QED
        BY <2>2, <2>3, <3>3, <4>1 DEF FaultStep
    <3> QED
      BY <3>1, <3>2, <3>3
  <2> QED
    BY <2>3, <2>4, <2>5 DEF FaultStep, FaultInv
<1>3. CASE BusRefusesStart
  BY <1>3 DEF BusRefusesStart, FaultInv, Inv, TypeOK, At
<1>4. CASE UNCHANGED vars
  BY <1>4 DEF vars, FaultInv, At
<1> QED
  BY <1>1, <1>2, <1>3, <1>4 DEF Next

\* Both invariants hold in every state of every behaviour.
LEMMA FaultInvariance == Spec => [](Inv /\ FaultInv)
<1>1. Init => FaultInv
  BY DEF Init, FaultInv, At
<1> QED
  BY <1>1, InitInv, NextInv, FaultNext, PTL DEF Spec

\* A task that a wave holds starts only when a worker takes it.
LEMMA StartsWhenTaken ==
    ASSUME Inv, [Next]_vars, NEW t \in queue, task'[t].at \in Active
    PROVE  TakeAndStart(t)
<1>0. t \in Tasks /\ At(t, "waiting")
  BY DEF Inv, TypeOK, PlacesInv
<1>1. CASE PlanStep \/ BusRefusesStart \/ UNCHANGED vars
  <2>1. task' = task
    BY <1>1 DEF PlanStep, Begin, NextWave, Ends, Synthesises, BusRefusesStart, vars
  <2> QED
    BY <1>0, <2>1 DEF At, Active
<1>2. ASSUME NEW u \in Tasks, TaskStep(u) \/ BusEndsExecution(u) \/ BusFailsAttempt(u)
      PROVE  TakeAndStart(t)
  <2>1. u = t
    BY <1>0, <1>2, StepPlaces DEF Inv, At, Active
  <2>2. TakeAndSkip(t) \/ TakeAndStart(t)
    BY <1>0, <1>2, <2>1
       DEF TaskStep, StartRun, RunCompletes, RunPauses, Retries, WakesUp, TaskFails,
           FailureReported, NestedEnds, Reported, BusEndsExecution, BusFailsAttempt, At
  <2>3. ~TakeAndSkip(t)
    BY <1>0 DEF TakeAndSkip, Goes, Inv, TypeOK, Active
  <2> QED
    BY <2>2, <2>3
<1> QED
  BY <1>1, <1>2 DEF Next

\* The default policy, "abort: Stop all remaining tasks", is kept where one task
\* runs at a time and no plan is nested: the failed task occupies the worker
\* until its policy is applied.  With a second worker (AbortIsLate.cfg) another
\* task starts in between.
THEOREM AbortStopsOneWorker ==
    (\A p \in Plans : p.nested = {} /\ (p.mode = "sequential" \/ MaxConcurrency = 1))
        => (Spec => AbortStopsTheRest)
<1> SUFFICES ASSUME \A p \in Plans : /\ p.nested = {}
                                     /\ p.mode = "sequential" \/ MaxConcurrency = 1
             PROVE  Spec => AbortStopsTheRest
  OBVIOUS
<1> DEFINE Stops == \A t \in Tasks :
                       (t \in queue /\ task'[t].at \in Active) =>
                           \A f \in failed : plan.policy[f] # "abort"
<1>1. Inv /\ FaultInv /\ [Next]_vars => Stops
  <2> SUFFICES ASSUME Inv, FaultInv, [Next]_vars, NEW t \in queue, task'[t].at \in Active,
                      NEW f \in failed, plan.policy[f] = "abort"
               PROVE  FALSE
    OBVIOUS
  <2>1. /\ ~aborted /\ Cardinality(Busy) < Workers
        /\ bus.lost \in Nat /\ f \in Tasks
    BY StartsWhenTaken DEF TakeAndStart, Takes, Inv, TypeOK
  <2>2. plan.nested = {} /\ Workers = 1 - bus.lost
    BY DEF FaultInv, Workers, OneByOne
  <2>3. IsFiniteSet(Busy)
    <3>1. Busy \subseteq Tasks
      BY DEF Busy
    <3> QED
      BY <3>1, FS_Subset, TasksAssumption
  <2>4. Cardinality(Busy) = 0 /\ bus.lost = 0
    BY <2>1, <2>2, <2>3, FS_CardinalityType
  <2>5. f \notin Busy
    BY <2>3, <2>4, FS_EmptySet
  <2>6. ~At(f, "failing")
    BY <2>1, <2>5 DEF Busy, At
  <2>7. aborted \/ At(f, "failing") \/ bus.lost > 0
    BY <2>2 DEF FaultInv
  <2> QED
    BY <2>1, <2>4, <2>6, <2>7
<1>2. (Inv /\ FaultInv) /\ [Next]_vars => [Stops]_vars
  BY <1>1
<1>3. Spec => [][Stops]_vars
  BY <1>2, FaultInvariance, PTL DEF Spec
<1> QED
  BY <1>3 DEF AbortStopsTheRest

\* A completed plan has no failed task (finalize) as long as no task has a
\* sub-plan; only the failure of one with a sub-plan stays out of the results
\* (CompletedWithFailures.cfg).
THEOREM CompletedIsTrueWhenFlat ==
    (\A p \in Plans : p.nested = {}) => (Spec => []CompletedMeansNoneFailed)
<1> SUFFICES ASSUME \A p \in Plans : p.nested = {}
             PROVE  Spec => []CompletedMeansNoneFailed
  OBVIOUS
<1>1. Inv /\ FaultInv => CompletedMeansNoneFailed
  <2> SUFFICES ASSUME FaultInv, PlanStatus = "completed", NEW f \in failed
               PROVE  FALSE
    BY DEF CompletedMeansNoneFailed
  <2>1. <<f, "failed">> \in results
    BY DEF FaultInv
  <2>2. "failed" \in {r[2] : r \in results}
    BY <2>1
  <2> QED
    BY <2>2 DEF PlanStatus, StatusOf
<1> QED
  BY <1>1, FaultInvariance, PTL

\* If the bus takes every event, an execution that has returned or thrown leaves
\* no worker behind that would start another task; an error of the bus ends
\* execute() while the other workers go on (OrphanTasks.cfg).
THEOREM NoOrphansWhileBusWorks ==
    MaxBusFailures = 0 => (Spec => NothingStartsAfterwards)
<1> SUFFICES ASSUME MaxBusFailures = 0
             PROVE  Spec => NothingStartsAfterwards
  OBVIOUS
<1> DEFINE Quiet == \A t \in Tasks :
                phase \in {"done", "thrown"} /\ t \in queue => task'[t].at \notin Active
<1>1. Inv /\ FaultInv => Quiet
  <2> SUFFICES ASSUME Inv, FaultInv, phase \in {"done", "thrown"} PROVE queue = {}
    OBVIOUS
  <2>1. bus.lost = 0
    BY DEF FaultInv, Inv, TypeOK
  <2> QED
    BY <2>1 DEF Inv, PhaseInv
<1>2. (Inv /\ FaultInv) /\ [Next]_vars => [Quiet]_vars
  BY <1>1
<1>3. Spec => [][Quiet]_vars
  BY <1>2, FaultInvariance, PTL DEF Spec
<1> QED
  BY <1>3 DEF NothingStartsAfterwards

=============================================================================
