----------------------------- MODULE Automation -----------------------------
(***************************************************************************)
(* The automation engine (packages/automation/src/automation-engine.ts,    *)
(* action-executor.ts, filesystem-state-store.ts): the cron ticks of every *)
(* process that has built the platform, the runs they and other callers    *)
(* start, and the lastRunAt on disk by which a tick sees that a minute has *)
(* been handled.  A tick waits for each run before it looks at the next    *)
(* automation, and the next tick does not wait for it.                     *)
(***************************************************************************)
EXTENDS Integers, FiniteSets

CONSTANTS
    Processes,     \* processes with an engine: the gateway, one after a
                   \* restart, a CLI command
    Lanes,         \* the chains of awaits of a process: ticks, other runs
    MaxAtWork,     \* bound: lanes at work at once
    NumAutomations,
    MaxMinute,     \* bound: minutes that are looked at, others may lie between
    WallMinutes,   \* what cronMinuteKey returns
    Wall,          \* Wall[a][m]: the wall clock's minute m in the zone of a
    Schedule,      \* Schedule[a]: the wall minutes its cron expression matches
    MaxByHand      \* bound: runs that are not started by a tick

Automations == 1..NumAutomations
Minutes == 1..MaxMinute

ASSUME NumbersAssumption ==
    /\ NumAutomations \in Nat \ {0}
    /\ MaxMinute \in Nat \ {0}
    /\ MaxByHand \in Nat
    /\ MaxAtWork \in Nat
\* The wall clock goes back once a year: two minutes may read the same.
ASSUME ScheduleAssumption ==
    /\ Wall \in [Automations -> [Minutes -> WallMinutes]]
    /\ Schedule \in [Automations -> SUBSET WallMinutes]

Never == 0

VARIABLES
    clock,    \* the current minute
    process,  \* "off", "up", "gone"
    job,      \* what each lane of each process is doing
    lastRunAt, \* the minute of lastRunAt of each automation, on disk
    runs,     \* history: <<a, m, what>>, a tick began a run of a for minute m or
              \* recorded it, or a run by hand was recorded in m
    overlapped, \* history: a lane began while another one was at work
    byHand    \* how many runs were started by hand

vars == <<clock, process, job, lastRunAt, runs, overlapped, byHand>>

\* scheduled: a tick's `now`, or Never.
Idle == [at |-> "idle", automation |-> 1, scheduled |-> Never]

TypeOK ==
    /\ clock \in Minutes
    /\ process \in [Processes -> {"off", "up", "gone"}]
    /\ job \in [Processes -> [Lanes ->
          [at : {"idle", "looking", "running", "recording"},
           automation : Automations, scheduled : Minutes \cup {Never}]]]
    /\ lastRunAt \in [Automations -> Minutes \cup {Never}]
    /\ runs \subseteq Automations \X Minutes \X {"begun", "recorded", "by hand"}
    /\ overlapped \in BOOLEAN
    /\ byHand \in 0..MaxByHand

At(p, l, place) == job[p][l].at = place
Goes(p, l, next) == job' = [job EXCEPT ![p][l] = next]
AtWork == {x \in Processes \X Lanes : job[x[1]][x[2]].at # "idle"}

\* A lane of p that is free begins.
Begins(p, l, next) ==
    /\ <<p, l>> \notin AtWork
    /\ Cardinality(AtWork) < MaxAtWork
    /\ Goes(p, l, next)
    /\ overlapped' = (overlapped \/ AtWork # {})

\* Where a lane goes when it is through with an automation: a tick to the next
\* one.
Through(j) ==
    IF j.scheduled = Never \/ j.automation = NumAutomations THEN Idle
    ELSE [at |-> "looking", automation |-> j.automation + 1, scheduled |-> j.scheduled]

-----------------------------------------------------------------------------
(* The scheduler *)

\* tick() may be called at any time, by the timer or by others.
StartTick(p) ==
    \E l \in Lanes :
        Begins(p, l, [at |-> "looking", automation |-> 1, scheduled |-> clock])

\* start() ticks at once.
StartEngine(p) ==
    /\ process[p] = "off"
    /\ process' = [process EXCEPT ![p] = "up"]
    /\ StartTick(p)
    /\ UNCHANGED <<clock, lastRunAt, runs, byHand>>

TimerFires(p) ==
    /\ process[p] = "up"
    /\ StartTick(p)
    /\ UNCHANGED <<clock, process, lastRunAt, runs, byHand>>

\* cronMatches
Due(a, m) == Wall[a][m] \in Schedule[a]

\* Mutant: nobody asks for the last run.
NeverHandled(a, m) == FALSE

\* The state on disk says that it ran in this minute of the wall clock.
Handled(a, m) == lastRunAt[a] # Never /\ Wall[a][lastRunAt[a]] = Wall[a][m]

LeavesOut(p, l) ==
    LET j == job[p][l]
    IN  /\ At(p, l, "looking")
        /\ ~Due(j.automation, j.scheduled) \/ Handled(j.automation, j.scheduled)
        /\ Goes(p, l, Through(j))
        /\ UNCHANGED <<clock, process, lastRunAt, runs, overlapped, byHand>>

Triggers(p, l) ==
    LET j == job[p][l]
    IN  /\ At(p, l, "looking")
        /\ Due(j.automation, j.scheduled) /\ ~Handled(j.automation, j.scheduled)
        /\ Goes(p, l, [j EXCEPT !.at = "running"])
        /\ runs' = runs \cup {<<j.automation, j.scheduled, "begun">>}
        /\ UNCHANGED <<clock, process, lastRunAt, overlapped, byHand>>

\* Mutant: the failure of one automation rejects the whole tick.
TickRejected(j) == Idle

AfterFailure(j) == Through(j)

\* A time zone that does not exist, a state file that cannot be read or
\* written, a bus that takes no event: caught by the tick.
Throws(p, l) ==
    /\ <<p, l>> \in AtWork
    /\ Goes(p, l, AfterFailure(job[p][l]))
    /\ UNCHANGED <<clock, process, lastRunAt, runs, overlapped, byHand>>

-----------------------------------------------------------------------------
(* runAutomation *)

\* run(slug), an event or a goal.
StartByHand(p) ==
    /\ process[p] = "up"
    /\ byHand < MaxByHand
    /\ byHand' = byHand + 1
    /\ \E a \in Automations, l \in Lanes :
         Begins(p, l, [at |-> "running", automation |-> a, scheduled |-> Never])
    /\ UNCHANGED <<clock, process, lastRunAt, runs>>

\* The action succeeds, or its retries are used up; what it does in between is
\* not seen by the engine.
ActionEnds(p, l) ==
    /\ At(p, l, "running")
    /\ Goes(p, l, [job[p][l] EXCEPT !.at = "recording"])
    /\ UNCHANGED <<clock, process, lastRunAt, runs, overlapped, byHand>>

\* Mutant: the time of completion is recorded.
AtCompletion(j) == clock

\* The minute a run was scheduled for; without one, the time of completion.
RunAt(j) == IF j.scheduled = Never THEN clock ELSE j.scheduled

RecordRun(p, l) ==
    LET j == job[p][l]
    IN  /\ At(p, l, "recording")
        /\ lastRunAt' = [lastRunAt EXCEPT ![j.automation] = RunAt(j)]
        /\ runs' = runs \cup {IF j.scheduled = Never
                               THEN <<j.automation, clock, "by hand">>
                               ELSE <<j.automation, j.scheduled, "recorded">>}
        /\ Goes(p, l, Through(j))
        /\ UNCHANGED <<clock, process, overlapped, byHand>>

-----------------------------------------------------------------------------
(* Time and processes *)

MinutePasses ==
    /\ clock < MaxMinute
    /\ clock' = clock + 1
    /\ UNCHANGED <<process, job, lastRunAt, runs, overlapped, byHand>>

\* The process ends or crashes.  stop() before it clears the timer, which is
\* then late for good; the ticks that are under way go on until the end.
Exit(p) ==
    /\ process[p] = "up"
    /\ process' = [process EXCEPT ![p] = "gone"]
    /\ job' = [job EXCEPT ![p] = [l \in Lanes |-> Idle]]
    /\ UNCHANGED <<clock, lastRunAt, runs, overlapped, byHand>>

Init ==
    /\ clock = 1
    /\ process = [p \in Processes |-> "off"]
    /\ job = [p \in Processes |-> [l \in Lanes |-> Idle]]
    /\ lastRunAt = [a \in Automations |-> Never]
    /\ runs = {}
    /\ overlapped = FALSE
    /\ byHand = 0

LaneStep(p, l) ==
    \/ LeavesOut(p, l) \/ Triggers(p, l) \/ ActionEnds(p, l) \/ RecordRun(p, l)

Next ==
    \/ MinutePasses
    \/ \E p \in Processes :
          \/ StartEngine(p) \/ TimerFires(p) \/ Exit(p)
          \/ StartByHand(p)
          \/ \E l \in Lanes : LaneStep(p, l) \/ Throws(p, l)

Spec == Init /\ [][Next]_vars

\* Actions end, files and the bus answer.
FairSpec == Spec /\ \A p \in Processes, l \in Lanes : WF_vars(LaneStep(p, l))

-----------------------------------------------------------------------------
(* Properties *)

\* A run of a for the wall minute of m was begun by a tick, or one started by
\* hand ended in it.
RanInMinute(a, m) ==
    \E k \in Minutes : /\ Wall[a][k] = Wall[a][m]
                       /\ \/ <<a, k, "begun">> \in runs
                          \/ <<a, k, "by hand">> \in runs

\* A tick passes over an automation that is due in its minute.
PassesOver(p, l) == LeavesOut(p, l) /\ Due(job[p][l].automation, job[p][l].scheduled)

\* automation-engine.ts:222, "a run that crosses into the next minute must not
\* make that minute look already handled": what a tick passes over was run in
\* that minute of the wall clock, whatever other ticks, runs by hand and other
\* processes wrote to lastRunAt in which order.
PassedOverWasRun ==
    [][\A p \in Processes, l \in Lanes :
          PassesOver(p, l) => RanInMinute(job[p][l].automation, job[p][l].scheduled)]_vars

\* automation-engine.ts:61: a tick that began comes to every automation,
\* whatever became of the ones before, unless its process ends.
TickReachesAll ==
    \A p \in Processes, l \in Lanes :
        At(p, l, "looking")
            ~> job[p][l].automation = NumAutomations \/ process[p] = "gone"

\* A tick begins a run for a minute although one for it was recorded, or while
\* one for it is under way.
FiresTwice(p, l) ==
    LET j == job[p][l]
    IN  /\ At(p, l, "looking") /\ At(p, l, "running")'
        /\ \/ <<j.automation, j.scheduled, "recorded">> \in runs
           \/ \E q \in Processes, k \in Lanes :
                 /\ job[q][k].at \in {"running", "recording"}
                 /\ job[q][k].automation = j.automation
                 /\ job[q][k].scheduled = j.scheduled

\* tests/integration/e2e/scheduler.e2e.integration.spec.ts:69, "cron tick fires
\* once per minute and survives a restart without re-firing".
FiresOncePerMinute == [][\A p \in Processes, l \in Lanes : ~FiresTwice(p, l)]_vars

\* The same as long as no tick and no run began while another one was at work,
\* which is how the test calls tick(): as often as one likes in a minute, in
\* one process after the other.
SerialTicksFireOnce ==
    [][~overlapped => \A p \in Processes, l \in Lanes : ~FiresTwice(p, l)]_vars

\* The lastRunAt of an automation does not go back.
LastRunAtGrows ==
    [][\A a \in Automations : lastRunAt'[a] >= lastRunAt[a]]_vars

\* The comment at automation-engine.ts:222 of the minutes themselves, runs by
\* hand and minutes that read alike included.
ByHandSwallowsNothing ==
    [][\A p \in Processes, l \in Lanes :
          PassesOver(p, l)
             => <<job[p][l].automation, job[p][l].scheduled, "begun">> \in runs]_vars

=============================================================================
