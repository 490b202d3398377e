--------------------------- MODULE AutomationProofs ---------------------------
(***************************************************************************)
(* Proofs about Automation for any processes, lanes, automations, zones,   *)
(* schedules and bounds.  JobsInv says what is known of a lane at work,    *)
(* RecordedInv what a lastRunAt on disk stands for.  SerialInv, which is   *)
(* about behaviours in which no two lanes have been at work at once, puts  *)
(* the runs that were recorded, lastRunAt, the tick under way and the      *)
(* clock in order.                                                         *)
(***************************************************************************)
EXTENDS Automation, TLAPS

Job == [at : {"idle", "looking", "running", "recording"},
        automation : Automations, scheduled : Minutes \cup {Never}]

\* A tick is at work for a minute that has come, and the run it waits for has
\* begun for that minute.
JobOK(j, now, log) ==
    /\ j \in Job
    /\ j.scheduled <= now
    /\ j.at = "looking" => j.scheduled # Never
    /\ j.at \in {"running", "recording"} /\ j.scheduled # Never
          => <<j.automation, j.scheduled, "begun">> \in log

JobsInv == \A p \in Processes, l \in Lanes : JobOK(job[p][l], clock, runs)

RecordedInv ==
    \A a \in Automations : lastRunAt[a] # Never =>
        \/ <<a, lastRunAt[a], "begun">> \in runs
        \/ <<a, lastRunAt[a], "by hand">> \in runs

RunsOK(log) == log \subseteq Automations \X Minutes \X {"begun", "recorded", "by hand"}

LastRunInv == \A a \in Automations : lastRunAt[a] <= clock

Busy(p, l) == ~At(p, l, "idle")

\* While lanes come one after the other: recorded minutes <= lastRunAt <= the
\* minute of the tick under way.
OneLane ==
    \A p, q \in Processes, k, l \in Lanes : Busy(p, k) /\ Busy(q, l) => p = q /\ k = l
RecordedUpTo ==
    \A a \in Automations, m \in Minutes : <<a, m, "recorded">> \in runs => m <= lastRunAt[a]
TickIsLatest ==
    \A p \in Processes, l \in Lanes, a \in Automations :
        Busy(p, l) /\ job[p][l].scheduled # Never => lastRunAt[a] <= job[p][l].scheduled

SerialInv == ~overlapped => OneLane /\ RecordedUpTo /\ TickIsLatest

Inv == TypeOK /\ JobsInv /\ RecordedInv /\ LastRunInv /\ SerialInv

-----------------------------------------------------------------------------
(* Lemmas *)

\* Minutes are positive numbers.
LEMMA NumberFacts ==
    /\ NumAutomations \in Nat \ {0} /\ MaxMinute \in Nat \ {0}
    /\ \A m \in Minutes : m \in Nat /\ m # Never
    /\ 1 \in Automations /\ Never = 0 /\ Never \notin Minutes
BY NumbersAssumption DEF Minutes, Automations, Never

\* The lanes at work, without the pairs.
LEMMA AtWorkFacts ==
    /\ \A p \in Processes, l \in Lanes : <<p, l>> \in AtWork <=> Busy(p, l)
    /\ AtWork = {} => \A p \in Processes, l \in Lanes : ~Busy(p, l)
<1>1. \A p \in Processes, l \in Lanes : <<p, l>> \in AtWork <=> Busy(p, l)
  BY DEF AtWork, Busy, At
<1> QED
  BY <1>1

\* A free lane is good.
LEMMA IdleFacts ==
    ASSUME NEW now \in Minutes, NEW log
    PROVE  JobOK(Idle, now, log) /\ Idle.at = "idle" /\ Idle.scheduled = Never
BY NumberFacts DEF JobOK, Job, Idle

\* A lane that is through with an automation looks at the next one, or is free.
LEMMA ThroughFacts ==
    ASSUME NEW now \in Minutes, NEW log, NEW j, JobOK(j, now, log)
    PROVE  /\ JobOK(Through(j), now, log)
           /\ Through(j).at # "idle" => Through(j).scheduled = j.scheduled
           /\ Through(j).at # "running"
<1>1. CASE j.scheduled = Never \/ j.automation = NumAutomations
  <2>1. Through(j) = Idle
    BY <1>1 DEF Through
  <2> QED
    BY <2>1, IdleFacts
<1>2. CASE ~(j.scheduled = Never \/ j.automation = NumAutomations)
  <2>1. j \in Job
    BY DEF JobOK
  <2>2. Through(j) = [at |-> "looking", automation |-> j.automation + 1,
                      scheduled |-> j.scheduled]
    BY <1>2, <2>1 DEF Through, Job
  <2>3. j.automation + 1 \in Automations
    BY <1>2, <2>1, NumberFacts DEF Job, Automations
  <2> QED
    BY <1>2, <2>1, <2>2, <2>3 DEF JobOK, Job
<1> QED
  BY <1>1, <1>2

\* A lane is given a job that is good after the step; the others' stay good,
\* since the clock does not go back and nothing that began is forgotten.
LEMMA GoesKeeps ==
    ASSUME TypeOK, JobsInv, NEW p \in Processes, NEW l \in Lanes, NEW j,
           JobOK(j, clock', runs'), Goes(p, l, j), clock' = clock, runs \subseteq runs'
    PROVE  /\ job' \in [Processes -> [Lanes -> Job]]
           /\ JobsInv'
           /\ \A q \in Processes, k \in Lanes :
                 job'[q][k] = IF q = p /\ k = l THEN j ELSE job[q][k]
<1>1. job \in [Processes -> [Lanes -> Job]]
  BY DEF TypeOK, Job
<1>2. j \in Job
  BY DEF JobOK
<1>3. job' \in [Processes -> [Lanes -> Job]]
  BY <1>1, <1>2 DEF Goes
<1>4. \A q \in Processes, k \in Lanes :
         job'[q][k] = IF q = p /\ k = l THEN j ELSE job[q][k]
  BY <1>1 DEF Goes
<1>5. ASSUME NEW q \in Processes, NEW k \in Lanes
      PROVE  JobOK(job'[q][k], clock', runs')
  <2>1. CASE q = p /\ k = l
    BY <1>4, <2>1
  <2>2. CASE ~(q = p /\ k = l)
    <3>1. JobOK(job[q][k], clock, runs) /\ job'[q][k] = job[q][k]
      BY <1>4, <2>2 DEF JobsInv
    <3> QED
      BY <3>1 DEF JobOK
  <2> QED
    BY <2>1, <2>2
<1> QED
  BY <1>3, <1>4, <1>5 DEF JobsInv

-----------------------------------------------------------------------------
(* The invariant *)

\* What the lanes do, lastRunAt and the runs decide the order of a serial
\* behaviour.
LEMMA SerialStays ==
    ASSUME SerialInv, UNCHANGED <<job, lastRunAt, runs, overlapped>>
    PROVE  SerialInv'
<1>1. \A p \in Processes, l \in Lanes : Busy(p, l)' <=> Busy(p, l)
  BY DEF Busy, At
<1>2. (OneLane /\ RecordedUpTo /\ TickIsLatest) => (OneLane /\ RecordedUpTo /\ TickIsLatest)'
  BY <1>1 DEF OneLane, RecordedUpTo, TickIsLatest
<1> QED
  BY <1>2 DEF SerialInv

\* The initial states satisfy the invariant.
LEMMA InitInv == Init => Inv
<1> SUFFICES ASSUME Init PROVE Inv
  OBVIOUS
<1>1. /\ \A p \in Processes : \A l \in Lanes : job[p][l] = Idle
      /\ clock \in Minutes
  BY NumbersAssumption DEF Init, Minutes
<1>2. JobOK(Idle, clock, runs) /\ Idle.at = "idle"
  BY <1>1, IdleFacts
<1>3. JobsInv
  BY <1>1, <1>2 DEF JobsInv
<1>4. job \in [Processes -> [Lanes -> Job]]
  BY <1>2 DEF Init, JobOK
<1>5. TypeOK
  <2>1. lastRunAt \in [Automations -> Minutes \cup {Never}] /\ byHand \in 0..MaxByHand
    BY NumbersAssumption DEF Init
  <2>2. /\ process \in [Processes -> {"off", "up", "gone"}] /\ overlapped \in BOOLEAN
        /\ runs \subseteq Automations \X Minutes \X {"begun", "recorded", "by hand"}
    BY DEF Init
  <2> QED
    BY <1>1, <1>4, <2>1, <2>2 DEF TypeOK, Job
<1>6. RecordedInv /\ LastRunInv
  BY NumberFacts DEF RecordedInv, LastRunInv, Init
<1>7. SerialInv
  BY <1>1, <1>2 DEF SerialInv, OneLane, RecordedUpTo, TickIsLatest, Init, Busy, At
<1> QED
  BY <1>3, <1>5, <1>6, <1>7 DEF Inv

\* A lane begins: if no other one is at work, the order of a serial behaviour
\* is kept, because the new tick's minute is now.
LEMMA BeginKeeps ==
    ASSUME Inv, NEW p \in Processes, NEW l \in Lanes, NEW j,
           Begins(p, l, j), JobOK(j, clock, runs), j.scheduled \in {Never, clock},
           process' \in [Processes -> {"off", "up", "gone"}], byHand' \in 0..MaxByHand,
           UNCHANGED <<clock, lastRunAt, runs>>
    PROVE  Inv'
<1> USE DEF Inv
<1>1. /\ job' \in [Processes -> [Lanes -> Job]] /\ JobsInv'
      /\ \A q \in Processes, k \in Lanes :
            job'[q][k] = IF q = p /\ k = l THEN j ELSE job[q][k]
  BY GoesKeeps DEF Begins
<1>2. overlapped' \in BOOLEAN /\ (~overlapped' => ~overlapped /\ AtWork = {})
  BY DEF Begins, TypeOK
<1>3. TypeOK'
  BY <1>1, <1>2 DEF TypeOK, Job
<1>4. RecordedInv' /\ LastRunInv'
  BY DEF RecordedInv, LastRunInv
<1>5. ASSUME ~overlapped' PROVE OneLane' /\ RecordedUpTo' /\ TickIsLatest'
  <2>1. \A q \in Processes, k \in Lanes : Busy(q, k)' => q = p /\ k = l
    BY <1>1, <1>2, <1>5, AtWorkFacts DEF Busy, At
  <2>2. OneLane'
    BY <2>1 DEF OneLane
  <2>3. RecordedUpTo'
    BY <1>2, <1>5 DEF SerialInv, RecordedUpTo
  <2>4. TickIsLatest'
    BY <1>1, <2>1 DEF TickIsLatest, LastRunInv
  <2> QED
    BY <2>2, <2>3, <2>4
<1> QED
  BY <1>1, <1>3, <1>4, <1>5 DEF SerialInv

\* A lane at work goes on with the same minute or becomes free, and no run is
\* recorded.
LEMMA GoingOnKeeps ==
    ASSUME Inv, NEW p \in Processes, NEW l \in Lanes, NEW j,
           Busy(p, l), Goes(p, l, j), JobOK(j, clock, runs'),
           j.at # "idle" => j.scheduled = job[p][l].scheduled,
           UNCHANGED <<clock, process, lastRunAt, overlapped, byHand>>,
           RunsOK(runs'),
           runs \subseteq runs',
           \A a \in Automations, m \in Minutes :
              <<a, m, "recorded">> \in runs' => <<a, m, "recorded">> \in runs
    PROVE  Inv'
<1> USE DEF Inv
<1>1. /\ job' \in [Processes -> [Lanes -> Job]] /\ JobsInv'
      /\ \A q \in Processes, k \in Lanes :
            job'[q][k] = IF q = p /\ k = l THEN j ELSE job[q][k]
  <2>1. TypeOK /\ JobsInv /\ clock' = clock /\ runs \subseteq runs'
    OBVIOUS
  <2>2. JobOK(j, clock', runs') /\ Goes(p, l, j)
    BY <2>1
  <2> HIDE DEF Inv
  <2> QED
    BY <2>1, <2>2, GoesKeeps
<1>2. TypeOK'
  BY <1>1 DEF TypeOK, Job, RunsOK
<1>3. RecordedInv' /\ LastRunInv'
  BY DEF RecordedInv, LastRunInv
<1>4. SerialInv'
  <2>1. \A q \in Processes, k \in Lanes :
           Busy(q, k)' => Busy(q, k) /\ job'[q][k].scheduled = job[q][k].scheduled
    BY <1>1 DEF Busy, At
  <2> QED
    BY <2>1 DEF SerialInv, OneLane, RecordedUpTo, TickIsLatest
<1> QED
  BY <1>1, <1>2, <1>3, <1>4

\* A run is recorded: lastRunAt is now the latest of the recorded minutes, or
\* lanes have overlapped.
LEMMA RecordKeeps ==
    ASSUME Inv, NEW p \in Processes, NEW l \in Lanes, RecordRun(p, l)
    PROVE  Inv'
<1> USE DEF Inv
<1> DEFINE j == job[p][l]
           a == j.automation
           t == RunAt(j)
           w == IF j.scheduled = Never THEN "by hand" ELSE "recorded"
<1>1. /\ JobOK(j, clock, runs) /\ j \in Job /\ j.at = "recording" /\ a \in Automations
      /\ j.scheduled \in Minutes \cup {Never} /\ clock \in Minutes
  BY DEF RecordRun, At, TypeOK, Job, JobsInv, JobOK
<1>2. t \in Minutes /\ t <= clock
  BY <1>1, NumberFacts DEF RunAt, JobOK
<1>3. /\ lastRunAt' = [lastRunAt EXCEPT ![a] = t]
      /\ runs' = runs \cup {<<a, t, w>>}
      /\ Goes(p, l, Through(j))
      /\ UNCHANGED <<clock, process, overlapped, byHand>>
  BY DEF RecordRun, RunAt
<1>4. JobOK(j, clock', runs') /\ clock' \in Minutes
  BY <1>1, <1>3 DEF JobOK
<1>5. /\ JobOK(Through(j), clock', runs')
      /\ Through(j).at # "idle" => Through(j).scheduled = j.scheduled
  BY <1>4, ThroughFacts
<1>6. /\ job' \in [Processes -> [Lanes -> Job]] /\ JobsInv'
      /\ \A q \in Processes, k \in Lanes :
            job'[q][k] = IF q = p /\ k = l THEN Through(j) ELSE job[q][k]
  <2>1. clock' = clock /\ runs \subseteq runs' /\ Goes(p, l, Through(j))
    BY <1>3
  <2>2. TypeOK /\ JobsInv
    OBVIOUS
  <2> QED
    BY <1>5, <2>1, <2>2, GoesKeeps
<1>7. TypeOK'
  <2>1. lastRunAt' \in [Automations -> Minutes \cup {Never}]
    BY <1>1, <1>2, <1>3 DEF TypeOK
  <2>2. w \in {"recorded", "by hand"}
    OBVIOUS
  <2>3. <<a, t, w>> \in Automations \X Minutes \X {"begun", "recorded", "by hand"}
    BY <1>1, <1>2, <2>2
  <2>4. runs' \subseteq Automations \X Minutes \X {"begun", "recorded", "by hand"}
    BY <1>3, <2>3 DEF TypeOK
  <2> QED
    BY <1>3, <1>6, <2>1, <2>4 DEF TypeOK, Job
<1>8. \A b \in Automations : lastRunAt'[b] = IF b = a THEN t ELSE lastRunAt[b]
  BY <1>3 DEF TypeOK
<1>9. LastRunInv'
  BY <1>2, <1>3, <1>8 DEF LastRunInv
<1>10. RecordedInv'
  <2>1. <<a, t, "begun">> \in runs \/ w = "by hand"
    BY <1>1 DEF RunAt, JobOK
  <2>2. <<a, t, "begun">> \in runs' \/ <<a, t, "by hand">> \in runs'
    BY <1>3, <2>1
  <2>3. ASSUME NEW b \in Automations, lastRunAt'[b] # Never
        PROVE  <<b, lastRunAt'[b], "begun">> \in runs' \/ <<b, lastRunAt'[b], "by hand">> \in runs'
    <3>1. CASE b = a
      BY <1>8, <2>2, <3>1
    <3>2. CASE b # a
      <4>1. lastRunAt'[b] = lastRunAt[b] /\ lastRunAt[b] # Never /\ RecordedInv
        BY <1>8, <2>3, <3>2
      <4>2. runs \subseteq runs'
        BY <1>3
      <4>3. <<b, lastRunAt[b], "begun">> \in runs \/ <<b, lastRunAt[b], "by hand">> \in runs
        BY <4>1 DEF RecordedInv
      <4> QED
        BY <4>1, <4>2, <4>3
    <3> QED
      BY <3>1, <3>2
  <2> QED
    BY <2>3 DEF RecordedInv
<1>11. ASSUME ~overlapped' PROVE OneLane' /\ RecordedUpTo' /\ TickIsLatest'
  <2>1. OneLane /\ RecordedUpTo /\ TickIsLatest
    BY <1>3, <1>11 DEF SerialInv
  <2>2. /\ Busy(p, l)
        /\ \A q \in Processes, k \in Lanes : Busy(q, k)' => q = p /\ k = l
    BY <1>1, <1>6, <2>1 DEF Busy, At, OneLane
  <2>3. OneLane'
    BY <2>2 DEF OneLane
  <2>4. lastRunAt[a] <= t
    BY <1>1, <2>1, <2>2 DEF RunAt, TickIsLatest, LastRunInv
  <2>5. RecordedUpTo'
    <3> SUFFICES ASSUME NEW b \in Automations, NEW m \in Minutes,
                        <<b, m, "recorded">> \in runs'
                 PROVE  m <= lastRunAt'[b]
      BY DEF RecordedUpTo
    <3>1. CASE <<b, m, "recorded">> \in runs
      <4>1. m <= lastRunAt[b] /\ lastRunAt[b] \in Minutes \cup {Never}
        BY <2>1, <3>1 DEF RecordedUpTo, TypeOK
      <4> QED
        BY <1>2, <1>8, <2>4, <4>1, NumberFacts
    <3>2. CASE <<b, m, "recorded">> = <<a, t, w>>
      BY <1>2, <1>8, <3>2, NumberFacts
    <3> QED
      BY <1>3, <3>1, <3>2
  <2>6. TickIsLatest'
    <3> SUFFICES ASSUME NEW b \in Automations, Busy(p, l)', job'[p][l].scheduled # Never
                 PROVE  lastRunAt'[b] <= job'[p][l].scheduled
      BY <2>2 DEF TickIsLatest
    <3>1. job'[p][l].scheduled = j.scheduled /\ t = j.scheduled
      BY <1>5, <1>6 DEF Busy, At, RunAt
    <3>2. lastRunAt[b] <= j.scheduled
      BY <2>1, <2>2, <3>1 DEF TickIsLatest
    <3> QED
      BY <1>2, <1>8, <3>1, <3>2, NumberFacts
  <2> QED
    BY <2>3, <2>5, <2>6
<1> QED
  BY <1>6, <1>7, <1>9, <1>10, <1>11 DEF SerialInv

\* What a lane does without recording a run keeps the invariant.
LEMMA LaneKeeps ==
    ASSUME Inv, NEW p \in Processes, NEW l \in Lanes,
           LeavesOut(p, l) \/ Triggers(p, l) \/ ActionEnds(p, l) \/ Throws(p, l)
    PROVE  Inv'
<1> DEFINE j == job[p][l]
<1>1. /\ JobOK(j, clock, runs) /\ j \in Job
      /\ clock \in Minutes /\ TypeOK
  BY DEF Inv, JobsInv, JobOK, TypeOK
<1>2. /\ JobOK(Through(j), clock, runs)
      /\ Through(j).at # "idle" => Through(j).scheduled = j.scheduled
  BY <1>1, ThroughFacts
<1>3. CASE LeavesOut(p, l)
  BY <1>1, <1>2, <1>3, GoingOnKeeps DEF LeavesOut, Busy, At, TypeOK, RunsOK
<1>4. CASE Triggers(p, l)
  <2> DEFINE next == [j EXCEPT !.at = "running"]
  <2>1. JobOK(next, clock, runs') /\ next.scheduled = j.scheduled
    BY <1>1, <1>4 DEF Triggers, At, JobOK, Job
  <2>2. /\ runs' = runs \cup {<<j.automation, j.scheduled, "begun">>}
        /\ j.automation \in Automations /\ j.scheduled \in Minutes
    BY <1>1, <1>4 DEF Triggers, At, JobOK, Job
  <2>3. RunsOK(runs')
    <3>1. <<j.automation, j.scheduled, "begun">>
             \in Automations \X Minutes \X {"begun", "recorded", "by hand"}
      BY <2>2
    <3> QED
      BY <1>1, <2>2, <3>1 DEF TypeOK, RunsOK
  <2>4. \A b \in Automations, m \in Minutes :
           <<b, m, "recorded">> \in runs' => <<b, m, "recorded">> \in runs
    BY <2>2
  <2>5. runs \subseteq runs'
    BY <2>2
  <2>6. /\ Busy(p, l) /\ Goes(p, l, next)
        /\ UNCHANGED <<clock, process, lastRunAt, overlapped, byHand>>
    BY <1>4 DEF Triggers, Busy, At
  <2> QED
    BY <2>1, <2>3, <2>4, <2>5, <2>6, GoingOnKeeps
<1>5. CASE ActionEnds(p, l)
  <2> DEFINE next == [j EXCEPT !.at = "recording"]
  <2>1. /\ runs' = runs /\ Busy(p, l) /\ Goes(p, l, next)
        /\ UNCHANGED <<clock, process, lastRunAt, overlapped, byHand>>
    BY <1>5 DEF ActionEnds, Busy, At
  <2>2. JobOK(next, clock, runs') /\ next.scheduled = j.scheduled
    BY <1>1, <1>5, <2>1 DEF ActionEnds, At, JobOK, Job
  <2> QED
    BY <1>1, <2>1, <2>2, GoingOnKeeps DEF TypeOK, RunsOK
<1>6. CASE Throws(p, l)
  <2>1. /\ runs' = runs /\ Busy(p, l) /\ Goes(p, l, Through(j))
        /\ UNCHANGED <<clock, process, lastRunAt, overlapped, byHand>>
    BY <1>6, AtWorkFacts DEF Throws, AfterFailure
  <2> QED
    BY <1>1, <1>2, <2>1, GoingOnKeeps DEF TypeOK, RunsOK
<1> QED
  BY <1>3, <1>4, <1>5, <1>6

\* A tick begins: its minute is now.
LEMMA TickKeeps ==
    ASSUME Inv, NEW p \in Processes, StartEngine(p) \/ TimerFires(p)
    PROVE  Inv'
<1> DEFINE next == [at |-> "looking", automation |-> 1, scheduled |-> clock]
<1>1. PICK l \in Lanes : Begins(p, l, next)
  BY DEF StartEngine, TimerFires, StartTick
<1>3. clock \in Minutes /\ TypeOK
  BY DEF Inv, TypeOK
<1>4. JobOK(next, clock, runs) /\ next.scheduled = clock
  BY <1>3, NumberFacts DEF JobOK, Job
<1>5. /\ process' \in [Processes -> {"off", "up", "gone"}] /\ byHand' \in 0..MaxByHand
      /\ UNCHANGED <<clock, lastRunAt, runs>>
  BY <1>3 DEF StartEngine, TimerFires, TypeOK
<1> QED
  BY <1>1, <1>4, <1>5, BeginKeeps

\* Each action keeps the invariant.
LEMMA NextInv == Inv /\ [Next]_vars => Inv'
<1> SUFFICES ASSUME Inv, [Next]_vars PROVE Inv'
  OBVIOUS
<1>1. CASE MinutePasses
  <2>1. /\ clock \in Minutes /\ clock' = clock + 1 /\ clock' \in Minutes
        /\ UNCHANGED <<process, job, lastRunAt, runs, overlapped, byHand>>
    <3>1. clock \in Minutes /\ clock < MaxMinute /\ clock' = clock + 1
      BY <1>1 DEF MinutePasses, Inv, TypeOK
    <3>2. clock' \in Minutes
      BY <3>1, NumbersAssumption DEF Minutes
    <3> QED
      BY <1>1, <3>1, <3>2 DEF MinutePasses
  <2>2. TypeOK'
    BY <2>1 DEF Inv, TypeOK
  <2>3. JobsInv'
    <3> SUFFICES ASSUME NEW p \in Processes, NEW l \in Lanes
                 PROVE  JobOK(job[p][l], clock', runs)
      BY <2>1 DEF JobsInv
    <3>1. JobOK(job[p][l], clock, runs)
      BY DEF Inv, JobsInv
    <3>2. job[p][l].scheduled \in Minutes \cup {Never}
      BY <3>1 DEF JobOK, Job
    <3>3. job[p][l].scheduled \in Int /\ clock \in Int
      BY <2>1, <3>2, NumbersAssumption DEF Minutes, Never
    <3> QED
      BY <2>1, <3>1, <3>3 DEF JobOK
  <2>4. LastRunInv'
    <3> SUFFICES ASSUME NEW a \in Automations PROVE lastRunAt[a] <= clock'
      BY <2>1 DEF LastRunInv
    <3>1. lastRunAt[a] \in Minutes \cup {Never} /\ lastRunAt[a] <= clock
      BY DEF Inv, LastRunInv, TypeOK
    <3>2. lastRunAt[a] \in Int /\ clock \in Int
      BY <2>1, <3>1, NumbersAssumption DEF Minutes, Never
    <3> QED
      BY <2>1, <3>1, <3>2
  <2>5. RecordedInv'
    BY <2>1 DEF Inv, RecordedInv
  <2>6. SerialInv'
    BY <2>1, SerialStays DEF Inv
  <2> QED
    BY <2>2, <2>3, <2>4, <2>5, <2>6 DEF Inv
<1>2. ASSUME NEW p \in Processes, StartEngine(p) \/ TimerFires(p) PROVE Inv'
  BY <1>2, TickKeeps
<1>3. ASSUME NEW p \in Processes, Exit(p) PROVE Inv'
  <2>1. clock \in Minutes
    BY DEF Inv, TypeOK
  <2>2. JobOK(Idle, clock, runs) /\ Idle.at = "idle"
    BY <2>1, IdleFacts
  <2>3. job \in [Processes -> [Lanes -> Job]]
    BY DEF Inv, TypeOK, Job
  <2>4. /\ job' = [job EXCEPT ![p] = [l \in Lanes |-> Idle]]
        /\ process' = [process EXCEPT ![p] = "gone"]
        /\ UNCHANGED <<clock, lastRunAt, runs, overlapped, byHand>>
    BY <1>3 DEF Exit
  <2>5. /\ job' \in [Processes -> [Lanes -> Job]]
        /\ \A q \in Processes, l \in Lanes : job'[q][l] \in {Idle, job[q][l]}
    BY <2>2, <2>3, <2>4 DEF JobOK
  <2>6. TypeOK'
    BY <2>4, <2>5 DEF Inv, TypeOK, Job
  <2>7. JobsInv'
    BY <2>2, <2>4, <2>5 DEF Inv, JobsInv
  <2>8. RecordedInv' /\ LastRunInv'
    BY <2>4 DEF Inv, RecordedInv, LastRunInv
  <2>9. \A q \in Processes, l \in Lanes :
           Busy(q, l)' => Busy(q, l) /\ job'[q][l] = job[q][l]
    BY <2>2, <2>5 DEF Busy, At
  <2>10. SerialInv'
    BY <2>4, <2>9 DEF Inv, SerialInv, OneLane, RecordedUpTo, TickIsLatest
  <2> QED
    BY <2>6, <2>7, <2>8, <2>10 DEF Inv
<1>4. ASSUME NEW p \in Processes, StartByHand(p) PROVE Inv'
  <2>1. PICK a \in Automations, l \in Lanes :
           Begins(p, l, [at |-> "running", automation |-> a, scheduled |-> Never])
    BY <1>4 DEF StartByHand
  <2> DEFINE next == [at |-> "running", automation |-> a, scheduled |-> Never]
  <2>3. clock \in Minutes /\ TypeOK
    BY DEF Inv, TypeOK
  <2>4. JobOK(next, clock, runs) /\ next.scheduled = Never
    BY <2>3, NumberFacts DEF JobOK, Job
  <2>5. byHand' \in 0..MaxByHand
    <3>1. byHand \in 0..MaxByHand /\ byHand < MaxByHand /\ byHand' = byHand + 1
      BY <1>4, <2>3 DEF StartByHand, TypeOK
    <3> QED
      BY <3>1, NumbersAssumption
  <2>6. UNCHANGED <<clock, lastRunAt, runs>> /\ process' = process
    BY <1>4 DEF StartByHand
  <2>7. process' \in [Processes -> {"off", "up", "gone"}]
    BY <2>3, <2>6 DEF TypeOK
  <2> QED
    BY <2>1, <2>4, <2>5, <2>6, <2>7, BeginKeeps
<1>5. ASSUME NEW p \in Processes, NEW l \in Lanes, LaneStep(p, l) \/ Throws(p, l)
      PROVE  Inv'
  BY <1>5, LaneKeeps, RecordKeeps DEF LaneStep
<1>6. CASE UNCHANGED vars
  <2>1. TypeOK'
    BY <1>6 DEF vars, Inv, TypeOK
  <2>2. JobsInv' /\ RecordedInv' /\ LastRunInv'
    BY <1>6 DEF vars, Inv, JobsInv, RecordedInv, LastRunInv
  <2>3. SerialInv'
    BY <1>6, SerialStays DEF vars, Inv
  <2> QED
    BY <2>1, <2>2, <2>3 DEF Inv
<1> QED
  BY <1>1, <1>2, <1>3, <1>4, <1>5, <1>6 DEF Next

\* The invariant holds throughout.
THEOREM Invariance == Spec => []Inv
<1>1. Init => Inv
  BY InitInv
<1>2. Inv /\ [Next]_vars => Inv'
  BY NextInv
<1> QED
  BY <1>1, <1>2, PTL DEF Spec

-----------------------------------------------------------------------------
(* Theorems *)

\* Every variable of the engine keeps its type, however lanes overlap.
THEOREM TypeCorrect == Spec => []TypeOK
<1>1. Inv => TypeOK
  BY DEF Inv
<1> QED
  BY <1>1, Invariance, PTL

\* Triggers alone takes a lane from looking to running.
LEMMA OnlyTriggersRuns ==
    ASSUME TypeOK, [Next]_vars, NEW p \in Processes, NEW l \in Lanes,
           At(p, l, "looking"), At(p, l, "running")'
    PROVE  Triggers(p, l)
<1> USE DEF At
<1>1. job \in [Processes -> [Lanes -> Job]]
  BY DEF TypeOK, Job
<1>2. ASSUME NEW q \in Processes, NEW k \in Lanes, NEW j, Goes(q, k, j)
      PROVE  p = q /\ l = k /\ j.at = "running"
  <2>1. job'[p][l] = IF p = q /\ l = k THEN j ELSE job[p][l]
    BY <1>1, <1>2 DEF Goes
  <2> QED
    BY <2>1
<1>3. ASSUME NEW q \in Processes, NEW k \in Lanes, NEW j, Begins(q, k, j) PROVE FALSE
  BY <1>2, <1>3, AtWorkFacts DEF Begins, Busy
<1>4. job' # job
  OBVIOUS
<1>5. CASE MinutePasses
  BY <1>4, <1>5 DEF MinutePasses
<1>6. ASSUME NEW q \in Processes, StartEngine(q) \/ TimerFires(q) \/ StartByHand(q)
      PROVE  FALSE
  BY <1>3, <1>6 DEF StartEngine, TimerFires, StartByHand, StartTick
<1>7. ASSUME NEW q \in Processes, Exit(q) PROVE FALSE
  <2>1. job'[p][l] \in {Idle, job[p][l]}
    BY <1>1, <1>7 DEF Exit
  <2> QED
    BY <2>1 DEF Idle
<1>8. ASSUME NEW q \in Processes, NEW k \in Lanes,
             LeavesOut(q, k) \/ Throws(q, k) \/ RecordRun(q, k)
      PROVE  FALSE
  <2>1. Goes(q, k, Through(job[q][k]))
    BY <1>8 DEF LeavesOut, Throws, AfterFailure, RecordRun
  <2>2. Through(job[q][k]).at \in {"idle", "looking"}
    BY DEF Through, Idle
  <2> QED
    BY <1>2, <2>1, <2>2
<1>9. ASSUME NEW q \in Processes, NEW k \in Lanes, ActionEnds(q, k) PROVE FALSE
  <2>1. job[q][k].at = "running" /\ Goes(q, k, [job[q][k] EXCEPT !.at = "recording"])
    BY <1>9 DEF ActionEnds
  <2> QED
    BY <1>2, <2>1
<1>10. ASSUME NEW q \in Processes, NEW k \in Lanes, Triggers(q, k) PROVE q = p /\ k = l
  <2>1. PICK x : Goes(q, k, x)
    BY <1>10 DEF Triggers
  <2> QED
    BY <1>2, <2>1
<1> QED
  BY <1>4, <1>5, <1>6, <1>7, <1>8, <1>9, <1>10 DEF Next, LaneStep, vars

\* PassedOverWasRun: RecordedInv says that the lastRunAt for which a tick passes
\* over a due automation is the minute of a run, and reads like the tick's.
THEOREM NothingDueIsSwallowed == Spec => PassedOverWasRun
<1>1. ASSUME Inv, NEW p \in Processes, NEW l \in Lanes, PassesOver(p, l)
      PROVE  RanInMinute(job[p][l].automation, job[p][l].scheduled)
  <2> DEFINE a == job[p][l].automation
             m == job[p][l].scheduled
  <2>1. Handled(a, m) /\ a \in Automations
    BY <1>1 DEF PassesOver, LeavesOut, Inv, TypeOK
  <2>2. /\ lastRunAt[a] \in Minutes /\ Wall[a][lastRunAt[a]] = Wall[a][m]
        /\ lastRunAt[a] # Never
    BY <1>1, <2>1 DEF Handled, Inv, TypeOK
  <2>3. <<a, lastRunAt[a], "begun">> \in runs \/ <<a, lastRunAt[a], "by hand">> \in runs
    BY <1>1, <2>1, <2>2 DEF Inv, RecordedInv
  <2> QED
    BY <2>2, <2>3 DEF RanInMinute
<1>2. Inv => \A p \in Processes, l \in Lanes :
                PassesOver(p, l) => RanInMinute(job[p][l].automation, job[p][l].scheduled)
  BY <1>1
<1> QED
  BY <1>2, Invariance, PTL DEF PassedOverWasRun

\* SerialTicksFireOnce: while lanes have come one after the other, the tick
\* under way is the only lane at work, and a recorded minute m means
\* m <= lastRunAt <= the minute of the tick; a tick that looks at m once more
\* finds m in lastRunAt.
THEOREM SerialTicks == Spec => SerialTicksFireOnce
<1>1. ASSUME Inv, [Next]_vars, ~overlapped, NEW p \in Processes, NEW l \in Lanes,
             FiresTwice(p, l)
      PROVE  FALSE
  <2> DEFINE j == job[p][l]
  <2>1. /\ At(p, l, "looking") /\ At(p, l, "running")' /\ Busy(p, l)
        /\ JobOK(j, clock, runs) /\ TypeOK /\ clock \in Minutes
        /\ OneLane /\ RecordedUpTo /\ TickIsLatest
    BY <1>1 DEF FiresTwice, Busy, At, Inv, JobsInv, TypeOK, SerialInv
  <2>2. ~ \E q \in Processes, k \in Lanes : job[q][k].at \in {"running", "recording"}
    BY <2>1 DEF OneLane, Busy, At
  <2>3. <<j.automation, j.scheduled, "recorded">> \in runs
    BY <1>1, <2>2 DEF FiresTwice
  <2>4. j.automation \in Automations /\ j.scheduled \in Minutes
    BY <2>1 DEF JobOK, Job, At
  <2>5. lastRunAt[j.automation] \in Minutes \cup {Never}
    BY <2>1, <2>4 DEF TypeOK
  <2>6. lastRunAt[j.automation] = j.scheduled
    <3>1. /\ j.scheduled <= lastRunAt[j.automation]
          /\ lastRunAt[j.automation] <= j.scheduled
      BY <2>1, <2>3, <2>4, NumberFacts DEF RecordedUpTo, TickIsLatest
    <3> QED
      BY <2>4, <2>5, <3>1, NumberFacts
  <2>7. Handled(j.automation, j.scheduled)
    BY <2>4, <2>6, NumberFacts DEF Handled
  <2>8. Triggers(p, l)
    BY <1>1, <2>1, OnlyTriggersRuns
  <2> QED
    BY <2>7, <2>8 DEF Triggers
<1>2. Inv /\ [Next]_vars
         => (~overlapped => \A p \in Processes, l \in Lanes : ~FiresTwice(p, l))
  BY <1>1
<1> QED
  BY <1>2, Invariance, PTL DEF Spec, SerialTicksFireOnce

-----------------------------------------------------------------------------
(* The boundary of ByHandSwallowsNothing *)

\* Nothing is started by hand: no such run is recorded, and a lane at work is
\* a tick.
OnlyTicks ==
    /\ byHand = 0
    /\ \A a \in Automations, m \in Minutes : <<a, m, "by hand">> \notin runs
    /\ \A p \in Processes, l \in Lanes : Busy(p, l) => job[p][l].scheduled # Never

\* No two minutes read alike in the zone of an automation.
NoMinuteRepeats ==
    \A a \in Automations, k, m \in Minutes : Wall[a][k] = Wall[a][m] => k = m

\* No run is started by hand, and a tick does not forget its minute.
LEMMA OnlyTicksStays ==
    ASSUME MaxByHand = 0, Inv, OnlyTicks, [Next]_vars
    PROVE  OnlyTicks'
<1> USE DEF At, Busy
<1>1. /\ job \in [Processes -> [Lanes -> Job]] /\ clock \in Minutes
      /\ \A p \in Processes, l \in Lanes : JobOK(job[p][l], clock, runs)
  BY DEF Inv, TypeOK, Job, JobsInv
<1>2. ASSUME NEW q \in Processes, NEW k \in Lanes, NEW j, Goes(q, k, j),
             j.at # "idle" => j.scheduled # Never
      PROVE  \A p \in Processes, l \in Lanes : Busy(p, l)' => job'[p][l].scheduled # Never
  <2>1. \A p \in Processes, l \in Lanes :
           job'[p][l] = IF p = q /\ l = k THEN j ELSE job[p][l]
    BY <1>1, <1>2 DEF Goes
  <2> QED
    BY <1>2, <2>1 DEF OnlyTicks
<1>3. CASE MinutePasses \/ UNCHANGED vars
  BY <1>3 DEF MinutePasses, vars, OnlyTicks
<1>4. ASSUME NEW q \in Processes, StartEngine(q) \/ TimerFires(q) PROVE OnlyTicks'
  <2>1. /\ clock # Never /\ UNCHANGED <<byHand, runs>>
        /\ \E k \in Lanes :
              Goes(q, k, [at |-> "looking", automation |-> 1, scheduled |-> clock])
    BY <1>1, <1>4, NumberFacts DEF StartEngine, TimerFires, StartTick, Begins
  <2> QED
    BY <1>2, <2>1 DEF OnlyTicks
<1>5. ASSUME NEW q \in Processes, StartByHand(q) PROVE FALSE
  <2>1. byHand < MaxByHand /\ byHand = 0
    BY <1>5 DEF StartByHand, OnlyTicks
  <2> QED
    BY <2>1
<1>6. ASSUME NEW q \in Processes, Exit(q) PROVE OnlyTicks'
  <2>1. UNCHANGED <<byHand, runs>>
        /\ \A p \in Processes, l \in Lanes : job'[p][l] \in {Idle, job[p][l]}
    BY <1>1, <1>6 DEF Exit
  <2>2. \A p \in Processes, l \in Lanes :
           Busy(p, l)' => Busy(p, l) /\ job'[p][l] = job[p][l]
    BY <2>1 DEF Idle
  <2>3. \A p \in Processes, l \in Lanes : Busy(p, l)' => job'[p][l].scheduled # Never
    BY <2>2 DEF OnlyTicks
  <2> QED
    BY <2>1, <2>3 DEF OnlyTicks
<1>7. ASSUME NEW q \in Processes, NEW k \in Lanes, LaneStep(q, k) \/ Throws(q, k)
      PROVE  OnlyTicks'
  <2> DEFINE j == job[q][k]
  <2>1. Busy(q, k) /\ j.scheduled # Never /\ byHand' = byHand
    BY <1>7, AtWorkFacts DEF LaneStep, LeavesOut, Triggers, ActionEnds, RecordRun, Throws,
       OnlyTicks
  <2>2. /\ JobOK(Through(j), clock, runs)
        /\ Through(j).at # "idle" => Through(j).scheduled # Never
    BY <1>1, <2>1, ThroughFacts
  <2>3. j \in Job
    BY <1>1 DEF JobOK
  <2>4. PICK next : Goes(q, k, next) /\ (next = Through(j) \/ next.scheduled = j.scheduled)
    <3>1. CASE LeavesOut(q, k) \/ RecordRun(q, k) \/ Throws(q, k)
      BY <3>1 DEF LeavesOut, RecordRun, Throws, AfterFailure
    <3>2. CASE Triggers(q, k)
      <4>1. Goes(q, k, [j EXCEPT !.at = "running"])
        BY <3>2 DEF Triggers
      <4>2. [j EXCEPT !.at = "running"].scheduled = j.scheduled
        BY <2>3 DEF Job
      <4> QED
        BY <4>1, <4>2
    <3>3. CASE ActionEnds(q, k)
      <4>1. Goes(q, k, [j EXCEPT !.at = "recording"])
        BY <3>3 DEF ActionEnds
      <4>2. [j EXCEPT !.at = "recording"].scheduled = j.scheduled
        BY <2>3 DEF Job
      <4> QED
        BY <4>1, <4>2
    <3> QED
      BY <1>7, <3>1, <3>2, <3>3 DEF LaneStep
  <2>5. next.at # "idle" => next.scheduled # Never
    BY <2>1, <2>2, <2>4
  <2>6. \A p \in Processes, l \in Lanes : Busy(p, l)' => job'[p][l].scheduled # Never
    BY <1>2, <2>4, <2>5
  <2>7. \A a \in Automations, m \in Minutes :
           <<a, m, "by hand">> \in runs' => <<a, m, "by hand">> \in runs
    <3>1. CASE LeavesOut(q, k) \/ ActionEnds(q, k) \/ Throws(q, k)
      BY <3>1 DEF LeavesOut, ActionEnds, Throws
    <3>2. CASE Triggers(q, k)
      BY <3>2 DEF Triggers
    <3>3. CASE RecordRun(q, k)
      <4>1. runs' = runs \cup {<<j.automation, j.scheduled, "recorded">>}
        BY <2>1, <3>3 DEF RecordRun
      <4> QED
        BY <4>1
    <3> QED
      BY <1>7, <3>1, <3>2, <3>3 DEF LaneStep
  <2> QED
    BY <2>1, <2>6, <2>7 DEF OnlyTicks
<1> QED
  BY <1>3, <1>4, <1>5, <1>6, <1>7 DEF Next

\* Where nothing is run by hand and the wall clock does not go back, what a tick
\* passes over was begun by a tick for that very minute: the runs by hand and the
\* repeated hour are the only causes of what RunByHandSwallowsMinute.cfg shows.
THEOREM TicksSwallowNothing ==
    ASSUME MaxByHand = 0, NoMinuteRepeats
    PROVE  Spec => ByHandSwallowsNothing
<1>1. Init => OnlyTicks
  BY DEF Init, OnlyTicks, Busy, At, Idle
<1>2. Inv /\ OnlyTicks /\ [Next]_vars => OnlyTicks'
  BY OnlyTicksStays
<1>3. ASSUME Inv, OnlyTicks, NEW p \in Processes, NEW l \in Lanes, PassesOver(p, l)
      PROVE  <<job[p][l].automation, job[p][l].scheduled, "begun">> \in runs
  <2> DEFINE a == job[p][l].automation
             m == job[p][l].scheduled
  <2>1. /\ Handled(a, m) /\ a \in Automations /\ m \in Minutes \cup {Never}
        /\ Busy(p, l) /\ m \in Minutes
    BY <1>3 DEF PassesOver, LeavesOut, Inv, TypeOK, OnlyTicks, Busy, At
  <2>2. lastRunAt[a] \in Minutes /\ Wall[a][lastRunAt[a]] = Wall[a][m]
    BY <1>3, <2>1 DEF Handled, Inv, TypeOK
  <2>3. lastRunAt[a] = m /\ lastRunAt[a] # Never
    BY <2>1, <2>2 DEF NoMinuteRepeats, Handled
  <2> QED
    BY <1>3, <2>1, <2>3 DEF Inv, RecordedInv, OnlyTicks
<1>4. Inv /\ OnlyTicks => \A p \in Processes, l \in Lanes :
         PassesOver(p, l) => <<job[p][l].automation, job[p][l].scheduled, "begun">> \in runs
  BY <1>3
<1> QED
  BY <1>1, <1>2, <1>4, Invariance, PTL DEF Spec, ByHandSwallowsNothing

=============================================================================
