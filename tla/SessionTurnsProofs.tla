------------------------- MODULE SessionTurnsProofs -------------------------
(* Proofs about SessionTurns, for every number of messages and approvals,  *)
(* every budget of disturbances and both kinds of runtime.                 *)
EXTENDS SessionTurns, TLAPS, SequenceTheorems

-----------------------------------------------------------------------------
(* Type correctness                                                        *)

\* A request either brings a message or a decision.
ProperRequests ==
    {q \in RunRequests : q.req = None <=> q.content \in Messages}

\* Points from which the turn goes on with the approval it raised.
AskedPoints == {"prompting", "pausing", "announcing", "arming", "asking",
                "sending", "blocked", "answered"}

TypeInv ==
    /\ TypeOK
    /\ queue \in Seq(ProperRequests)
    /\ turn.point # "idle" => turn.job \in ProperRequests
    /\ turn.point \in AskedPoints => turn.asked \in Requests

\* The initial states satisfy the type invariant.
LEMMA InitType == Init => TypeInv
BY NoneAssumption, BudgetAssumption, SwitchAssumption, RuntimeAssumption
DEF Init, TypeInv, TypeOK, FreshSession, NoTurn, Snapshot, EmptyGate, Sessions,
    Snapshots, Statuses, Checkpoints, Turns, Points, ActivePoints, RunRequests,
    AskedPoints, Requests

\* Appending and taking a request, and minting an id.
LEMMA Enqueued ==
    ASSUME NEW s \in Seq(ProperRequests), NEW q \in ProperRequests
    PROVE  Append(s, q) \in Seq(ProperRequests) /\ Append(s, q) \in Seq(RunRequests)
BY DEF ProperRequests

\* What is taken from the queue is a proper request, and so is the rest.
LEMMA Dequeued ==
    ASSUME NEW s \in Seq(ProperRequests), s # <<>>
    PROVE  /\ Head(s) \in ProperRequests
           /\ Tail(s) \in Seq(ProperRequests) /\ Tail(s) \in Seq(RunRequests)
<1>1. Head(s) \in ProperRequests /\ Tail(s) \in Seq(ProperRequests)
  BY HeadTailProperties
<1>2. Tail(s) \in Seq(RunRequests)
  BY <1>1 DEF ProperRequests
<1> QED BY <1>1, <1>2

\* A minted id is one of Requests.
LEMMA Minted ==
    ASSUME TypeInv, Mint
    PROVE  minted' \in 0..MaxRequests /\ minted' \in Requests
BY BudgetAssumption DEF TypeInv, TypeOK, Mint, Requests

\* A disturbance leaves its budget a number.
LEMMA Spent ==
    ASSUME TypeInv, NEW kind \in Disturbances, Spend(kind)
    PROVE  left' \in [Disturbances -> Nat]
BY DEF TypeInv, TypeOK, Spend

\* The snapshot a turn begins with.
LEMMA SnapshotType == ASSUME NEW s \in Sessions PROVE Snapshot(s) \in Snapshots
BY DEF Sessions, Snapshots, Snapshot

\* No turn is a turn at idle.
LEMMA NoTurnType == NoTurn \in Turns /\ NoTurn.point = "idle"
BY NoneAssumption
DEF NoTurn, Turns, Points, ActivePoints, RunRequests, Snapshots, Snapshot,
    FreshSession, Checkpoints

\* Steps that keep all but the point of the turn.
LEMMA Moved ==
    ASSUME TypeInv, NEW p \in Points, GoTo(p),
           turn.point # "idle" \/ p = "idle",
           turn.point \in AskedPoints \/ p \notin AskedPoints
    PROVE  /\ turn' \in Turns
           /\ turn'.point # "idle" => turn'.job \in ProperRequests
           /\ turn'.point \in AskedPoints => turn'.asked \in Requests
BY DEF TypeInv, TypeOK, GoTo, Turns

\* A turn that ends leaves no local variables behind.
LEMMA Ended ==
    ASSUME EndTurn
    PROVE  /\ turn' \in Turns
           /\ turn'.point # "idle" => turn'.job \in ProperRequests
           /\ turn'.point \in AskedPoints => turn'.asked \in Requests
BY NoTurnType DEF EndTurn, AskedPoints

\* The waiter of a settled approval goes on, nothing else moves.
LEMMA Woken ==
    ASSUME TypeInv, NEW r \in Requests, NEW ok \in BOOLEAN,
           turn' = SettleWaiters(r, ok)
    PROVE  /\ turn' \in Turns
           /\ turn'.point # "idle" => turn'.job \in ProperRequests
           /\ turn'.point \in AskedPoints => turn'.asked \in Requests
BY DEF TypeInv, TypeOK, SettleWaiters, At, Turns, Points, ActivePoints, AskedPoints

\* What an unfinished turn leaves in memory is a history.
LEMMA UnfinishedType ==
    ASSUME TypeInv PROVE UnfinishedHistory \in Seq(Messages)
BY DEF TypeInv, TypeOK, Turns, UnfinishedHistory

\* Messages and the start of a turn.
LEMMA InboundType ==
    ASSUME TypeInv, NEW m \in Messages, Inbound(m) \/ Deliver(m)
    PROVE  TypeInv'
<1>1. CASE Inbound(m)
  BY <1>1, NoneAssumption
  DEF Inbound, TypeInv, TypeOK, Sessions, approvalVars
<1>2. CASE Deliver(m)
  BY <1>2, NoneAssumption
  DEF Deliver, TypeInv, TypeOK, approvalVars, ProperRequests, RunRequests
<1> QED BY <1>1, <1>2

\* Steps in which a turn begins keep the types.
LEMMA StartType ==
    ASSUME TypeInv, BeginTurn \/ MarkCalling \/ StartFails \/ StartRun
    PROVE  TypeInv'
<1>1. CASE BeginTurn
  <2>1. turn'.point = "loading" /\ turn'.job = Head(queue) /\ turn' \in Turns
    BY <1>1, Dequeued, SnapshotType, NoTurnType
    DEF BeginTurn, TypeInv, TypeOK, Turns, Points, ActivePoints,
        ProperRequests, RunRequests
  <2> QED
    BY <1>1, <2>1, Dequeued
    DEF BeginTurn, TypeInv, TypeOK, approvalVars, outsideVars, inboundVars,
        AskedPoints
<1>2. CASE MarkCalling
  BY <1>2
  DEF MarkCalling, TypeInv, TypeOK, approvalVars, At, GoTo, SetStatus, Turns,
      Points, ActivePoints, Sessions, Statuses, outsideVars, inboundVars,
      AskedPoints
<1>3. CASE StartFails
  BY <1>3, Ended
  DEF StartFails, SetStatus, TypeInv, TypeOK, Sessions, Statuses,
      approvalVars, outsideVars, inboundVars
<1>4. CASE StartRun
  <2>1. turn.stored.checkpoint # None
            => turn.stored.checkpoint.history \in Seq(Messages)
    BY DEF TypeInv, TypeOK, Turns, Snapshots, Checkpoints
  <2>2. ~Resuming => turn.job.content \in Messages
    BY <1>4 DEF StartRun, At, Resuming, TypeInv, ProperRequests
  <2>3. turn'.context \in Seq(Messages)
    BY <1>4, <2>1, <2>2 DEF StartRun, CannotResume, TypeInv, TypeOK, Turns
  <2>4. turn' = [turn EXCEPT !.point = "running", !.context = turn'.context]
    BY <1>4 DEF StartRun, TypeInv, TypeOK, Turns
  <2>5. turn' \in Turns /\ turn'.point = "running" /\ turn'.job = turn.job
    BY <2>3, <2>4 DEF TypeInv, TypeOK, Turns, Points, ActivePoints
  <2> QED
    BY <1>4, <2>5
    DEF StartRun, At, TypeInv, TypeOK, approvalVars, outsideVars, inboundVars,
        AskedPoints
<1> QED BY <1>1, <1>2, <1>3, <1>4

\* Steps in which it ends keep them.
LEMMA EndType ==
    ASSUME TypeInv, Complete \/ WorkerDone \/ FailTurn PROVE TypeInv'
<1>1. CASE Complete
  BY <1>1, Moved
  DEF Complete, TypeInv, TypeOK, Turns, At, Points, ActivePoints, AskedPoints,
      approvalVars, outsideVars, inboundVars
<1>2. CASE WorkerDone
  <2>1. session' \in Sessions
    BY <1>2, NoneAssumption
    DEF WorkerDone, At, TypeInv, TypeOK, Turns, Snapshots, Sessions, Statuses,
        ProperRequests, RunRequests
  <2> QED
    BY <1>2, <2>1, Ended
    DEF WorkerDone, TypeInv, TypeOK, approvalVars, outsideVars, inboundVars
<1>3. CASE FailTurn
  BY <1>3, Ended, UnfinishedType
  DEF FailTurn, SetStatus, TypeInv, TypeOK, Sessions, Statuses,
      approvalVars, outsideVars, inboundVars
<1> QED BY <1>1, <1>2, <1>3

\* Steps in which it pauses keep them.
LEMMA PauseType == ASSUME TypeInv, LocalTurnStep PROVE TypeInv'
<1> USE DEF outsideVars, inboundVars, approvalVars
<1>1. CASE PauseAtPolicy
  BY <1>1, Minted
  DEF PauseAtPolicy, TypeInv, TypeOK, Turns, At, Points, ActivePoints
<1>2. CASE PauseAtHarness
  <2>1. turn' \in Turns /\ turn'.asked \in Requests /\ turn'.job = turn.job
    BY <1>2, Minted
    DEF PauseAtHarness, TypeInv, TypeOK, Turns, Points, ActivePoints
  <2>2. gate' \in [pending : SUBSET Requests, timers : SUBSET Requests]
    BY <1>2, Minted DEF PauseAtHarness, Register, TypeInv, TypeOK
  <2> QED
    BY <1>2, <2>1, <2>2, Minted DEF PauseAtHarness, At, TypeInv, TypeOK
<1>3. CASE PromptSent
  BY <1>3, Moved
  DEF PromptSent, MarkAwaiting, WithTimer, TypeInv, TypeOK, At, Points,
      ActivePoints, AskedPoints, Sessions, Statuses
<1>4. CASE AbortPrompting
  BY <1>4, Ended, UnfinishedType
  DEF AbortPrompting, SetStatus, TypeInv, TypeOK, At, AskedPoints, Sessions,
      Statuses
<1>5. CASE WorkerPause
  <2>1. session' \in Sessions
    BY <1>5
    DEF WorkerPause, CheckpointOfTurn, TypeInv, TypeOK, At, Turns, Snapshots,
        Sessions, Checkpoints, Statuses, AskedPoints
  <2> QED
    BY <1>5, <2>1, Moved
    DEF WorkerPause, TypeInv, TypeOK, At, Points, ActivePoints, AskedPoints
<1>6. CASE Announce
  BY <1>6, Moved
  DEF Announce, Register, TypeInv, TypeOK, At, Points, ActivePoints, AskedPoints
<1>7. CASE Arm
  BY <1>7, Ended, UnfinishedType
  DEF Arm, WithTimer, TypeInv, TypeOK, At, AskedPoints
<1> QED BY <1>1, <1>2, <1>3, <1>4, <1>5, <1>6, <1>7 DEF LocalTurnStep

\* Prompts that cannot be sent keep them.
LEMMA PromptFailsType == ASSUME TypeInv, PromptFails PROVE TypeInv'
<1> USE DEF outsideVars, inboundVars, approvalVars
<1>1. left' \in [Disturbances -> Nat]
  BY Spent
  DEF PromptFails, AnnounceFails, PromptNotSent, PromptInlineNotSent, OrphanNotSent,
      Disturbances
<1>2. CASE AnnounceFails
  <2>1. gate' \in [pending : SUBSET Requests, timers : SUBSET Requests]
    BY <1>2 DEF AnnounceFails, Register, TypeInv, TypeOK, At, AskedPoints
  <2> QED
    BY <1>1, <1>2, <2>1, Ended, UnfinishedType
    DEF AnnounceFails, TypeInv, TypeOK
<1>3. CASE PromptNotSent
  BY <1>1, <1>3, Ended, UnfinishedType
  DEF PromptNotSent, SetStatus, TypeInv, TypeOK, Sessions, Statuses
<1>4. CASE PromptInlineNotSent
  BY <1>1, <1>4, Moved
  DEF PromptInlineNotSent, TypeInv, TypeOK, At, Points, ActivePoints, AskedPoints
<1>5. ASSUME NEW r \in Requests, OrphanNotSent(r) PROVE TypeInv'
  BY <1>1, <1>5 DEF OrphanNotSent, TypeInv, TypeOK
<1> QED BY <1>2, <1>3, <1>4, <1>5 DEF PromptFails

\* Steps in which it blocks keep them.
LEMMA InlineType == ASSUME TypeInv, VendorTurnStep PROVE TypeInv'
<1> USE DEF outsideVars, inboundVars, approvalVars
<1>1. CASE AskInline
  <2>1. turn' \in Turns /\ turn'.asked \in Requests /\ turn'.job = turn.job
    BY <1>1, Minted
    DEF AskInline, TypeInv, TypeOK, Turns, Points, ActivePoints
  <2>2. session' \in Sessions
    BY <1>1, Minted DEF AskInline, TypeInv, TypeOK, Sessions, Statuses
  <2> QED
    BY <1>1, <2>1, <2>2, Minted DEF AskInline, At, TypeInv, TypeOK
<1>2. CASE PromptInline
  BY <1>2, Moved
  DEF PromptInline, Register, TypeInv, TypeOK, At, Points, ActivePoints,
      AskedPoints
<1>3. CASE WaitFor
  <2>1. turn' \in Turns /\ turn'.asked = turn.asked /\ turn'.job = turn.job
    BY <1>3 DEF WaitFor, TypeInv, TypeOK, Turns, Points, ActivePoints
  <2> QED
    BY <1>3, <2>1 DEF WaitFor, WithTimer, At, TypeInv, TypeOK, AskedPoints
<1>4. CASE Continue
  BY <1>4, Moved
  DEF Continue, TypeInv, TypeOK, At, Points, ActivePoints, AskedPoints,
      Sessions, Statuses
<1> QED BY <1>1, <1>2, <1>3, <1>4 DEF VendorTurnStep

\* Steps of the decision handlers keep them.
LEMMA DecisionType == ASSUME TypeInv, DecisionStep PROVE TypeInv'
<1> USE DEF outsideVars, inboundVars, approvalVars
<1>1. PICK d \in decisions :
          ExpireSession(d) \/ ClearPending(d) \/ Decide(d) \/ Apply(d) \/ Resume(d)
  BY DEF DecisionStep
<1>2. d \in Decisions
  BY DEF TypeInv, TypeOK
<1>3. ASSUME NEW step \in {"decide", "apply", "resume"}, Advance(d, step)
      PROVE  decisions' \subseteq Decisions
  BY <1>2, <1>3 DEF Advance, Decisions, TypeInv, TypeOK
<1>4. CASE ExpireSession(d)
  BY <1>3, <1>4 DEF ExpireSession, TypeInv, TypeOK, Sessions, Statuses
<1>5. CASE ClearPending(d)
  BY <1>3, <1>5 DEF ClearPending, TypeInv, TypeOK, Sessions
<1>6. CASE Decide(d)
  <2>1. decisions' \subseteq Decisions
    BY <1>3, <1>6 DEF Decide, TypeInv, TypeOK
  <2> QED BY <1>6, <2>1 DEF Decide, TypeInv, TypeOK
<1>7. CASE Apply(d)
  BY <1>3, <1>7 DEF Apply, TypeInv, TypeOK, Sessions, Statuses
<1>8. CASE Resume(d)
  <2>1. [content |-> None, req |-> d.req] \in ProperRequests
    BY <1>2, NoneAssumption DEF Decisions, ProperRequests, RunRequests
  <2>2. queue' \in Seq(ProperRequests) /\ queue' \in Seq(RunRequests)
    BY <1>8, <2>1, Enqueued DEF Resume, ResumeQueue, TypeInv
  <2> QED
    BY <1>8, <2>2 DEF Resume, TypeInv, TypeOK
<1> QED BY <1>1, <1>4, <1>5, <1>6, <1>7, <1>8

\* Answers, timeouts and approval tools that finish late.
LEMMA AnswerType ==
    ASSUME TypeInv, NEW r \in Requests, NEW ok \in BOOLEAN,
           Click(r, ok) \/ ClickUngated(r, ok) \/ TextReply(ok) \/ Expire(r)
             \/ OrphanFinishes(r)
    PROVE  TypeInv'
<1> USE DEF outsideVars, inboundVars, approvalVars
<1>1. \A q \in Requests, i \in BOOLEAN, s \in {"expire", "clear"} :
          /\ Decision(q, ok, i, s) \in Decisions
          /\ Decision(q, FALSE, i, s) \in Decisions
  BY DEF Decision, Decisions
<1>2. CASE Click(r, ok)
  <2>1. decisions' \subseteq Decisions
    BY <1>1, <1>2 DEF Click, TypeInv, TypeOK
  <2> QED BY <1>2, <2>1, Woken DEF Click, TypeInv, TypeOK
<1>3. CASE ClickUngated(r, ok)
  <2>1. left' \in [Disturbances -> Nat]
    BY <1>3, Spent DEF ClickUngated, Disturbances
  <2> QED BY <1>1, <1>3, <2>1 DEF ClickUngated, TypeInv, TypeOK
<1>4. CASE TextReply(ok)
  <2>1. left' \in [Disturbances -> Nat]
    BY <1>4, Spent DEF TextReply, Disturbances
  <2>2. session.pendingApproval \in Requests
    BY <1>4 DEF TextReply, TypeInv, TypeOK, Sessions
  <2> QED BY <1>1, <1>4, <2>1, <2>2 DEF TextReply, TypeInv, TypeOK
<1>5. CASE Expire(r)
  BY <1>1, <1>5, Woken DEF Expire, TypeInv, TypeOK
<1>6. CASE OrphanFinishes(r)
  BY <1>6
  DEF OrphanFinishes, MarkAwaiting, WithTimer, TypeInv, TypeOK, Sessions,
      Statuses
<1> QED BY <1>2, <1>3, <1>4, <1>5, <1>6

\* A stop, a reset, a crash and the restart keep them.
LEMMA ProcessType ==
    ASSUME TypeInv, Stop \/ Reset \/ Crash \/ Restart \/ StartWorker
    PROVE  TypeInv'
<1> USE DEF outsideVars, inboundVars, approvalVars
<1>1. CASE Stop
  <2>1. left' \in [Disturbances -> Nat]
    BY <1>1, Spent DEF Stop, Disturbances
  <2>2. turn' \in Turns /\ turn'.point = turn.point /\ turn'.job = turn.job
          /\ turn'.asked = turn.asked
    BY <1>1 DEF Stop, TypeInv, TypeOK, Turns
  <2> QED
    BY <1>1, <2>1, <2>2 DEF Stop, SetStatus, TypeInv, TypeOK, Sessions, Statuses
<1>2. CASE Reset
  <2>1. left' \in [Disturbances -> Nat]
    BY <1>2, Spent DEF Reset, Disturbances
  <2> QED
    BY <1>2, <2>1
    DEF Reset, FreshSession, TypeInv, TypeOK, Sessions, Statuses
<1>3. CASE Crash
  <2>1. left' \in [Disturbances -> Nat]
    BY <1>3, Spent DEF Crash, Disturbances
  <2> QED
    BY <1>3, <2>1, NoTurnType DEF Crash, EmptyGate, TypeInv, TypeOK, AskedPoints
<1>4. CASE Restart
  <2>1. session.pendingApproval # None => session.pendingApproval \in Requests
    BY DEF TypeInv, TypeOK, Sessions
  <2> DEFINE r == session.pendingApproval
  <2>2. CASE r # None /\ gate' = [pending |-> {r}, timers |-> {r}]
             /\ decisions' = decisions
    <3>1. {r} \subseteq Requests
      BY <2>1, <2>2
    <3> HIDE DEF r
    <3>2. gate' \in [pending : SUBSET Requests, timers : SUBSET Requests]
      BY <2>2, <3>1
    <3> QED BY <1>4, <2>2, <3>2 DEF Restart, TypeInv, TypeOK
  <2>3. CASE r # None /\ gate' = gate
             /\ decisions' = decisions \cup {Decision(r, FALSE, FALSE, "expire")}
    <3>1. Decision(r, FALSE, FALSE, "expire") \in Decisions
      BY <2>1, <2>3 DEF Decision, Decisions
    <3> QED BY <1>4, <2>3, <3>1 DEF Restart, TypeInv, TypeOK
  <2>4. CASE gate' = gate /\ decisions' = decisions
    BY <1>4, <2>4 DEF Restart, TypeInv, TypeOK
  <2> QED BY <1>4, <2>2, <2>3, <2>4 DEF Restart
<1>5. CASE StartWorker
  BY <1>5
  DEF StartWorker, Repaired, TypeInv, TypeOK, Sessions, Statuses
<1> QED BY <1>1, <1>2, <1>3, <1>4, <1>5

\* Every step keeps the type invariant.
LEMMA NextType == TypeInv /\ [Next]_vars => TypeInv'
<1> SUFFICES ASSUME TypeInv, [Next]_vars PROVE TypeInv'
  OBVIOUS
<1>1. CASE \E m \in Messages : Inbound(m) \/ Deliver(m)
  BY <1>1, InboundType
<1>2. CASE TurnStep
  BY <1>2, StartType, EndType, PauseType, InlineType DEF TurnStep
<1>3. CASE DecisionStep
  BY <1>3, DecisionType
<1>4. CASE \E r \in Requests : \/ Expire(r) \/ OrphanFinishes(r)
                               \/ \E ok \in BOOLEAN : Click(r, ok)
  BY <1>4, AnswerType
<1>5. CASE Disturbance
  <2>1. CASE \E ok \in BOOLEAN : TextReply(ok)
    <3>1. PICK ok \in BOOLEAN : TextReply(ok)
      BY <2>1
    <3>2. session.pendingApproval \in Requests
      BY <3>1 DEF TextReply, TypeInv, TypeOK, Sessions
    <3> QED BY <3>1, <3>2, AnswerType
  <2> QED BY <1>5, <2>1, AnswerType, PromptFailsType, ProcessType DEF Disturbance
<1>6. CASE Restart \/ StartWorker
  BY <1>6, ProcessType
<1>7. CASE UNCHANGED vars
  BY <1>7 DEF vars, TypeInv, TypeOK
<1> QED
  BY <1>1, <1>2, <1>3, <1>4, <1>5, <1>6, <1>7 DEF Next, Rest

\* The type invariant with what it rests on: a turn has a request, and from the
\* moment it raised an approval it knows which.
THEOREM TypeInvariant == Spec => []TypeInv
BY InitType, NextType, PTL DEF Spec

\* All state of the session, the gate, the worker and the runtime keeps its
\* type through every interleaving, crash and restart.
THEOREM TypeCorrect == Spec => []TypeOK
<1>1. TypeInv => TypeOK
  BY DEF TypeInv
<1> QED BY <1>1, TypeInvariant, PTL

-----------------------------------------------------------------------------
(* No session stays in progress without a turn                             *)

\* A turn that is about to pause no longer counts: the pause has marked the
\* session, so "calling_model" was written by a decision, whose handler queued a
\* run or is about to.
ProgressInv ==
    session.status = "calling_model" /\ process = "up" =>
        \/ turn.point \notin {"idle", "announcing", "arming"}
        \/ queue # <<>>
        \/ \E d \in decisions : d.step = "resume"

\* Every step keeps a session in progress accounted for.
LEMMA NextProgress == TypeInv /\ ProgressInv /\ [Next]_vars => ProgressInv'
<1> SUFFICES ASSUME TypeInv, ProgressInv, [Next]_vars PROVE ProgressInv'
  OBVIOUS
<1> USE DEF ProgressInv, inboundVars, outsideVars, approvalVars
<1>1. CASE \E m \in Messages : Inbound(m) \/ Deliver(m)
  <2>1. PICK m \in Messages : Inbound(m) \/ Deliver(m)
    BY <1>1
  <2>2. /\ session'.status = session.status /\ turn' = turn
        /\ process' = process /\ decisions' = decisions
    BY <2>1 DEF Inbound, Deliver, TypeInv, TypeOK, Sessions
  <2>3. queue' # <<>> \/ queue' = queue
    BY <2>1 DEF Inbound, Deliver, TypeInv, TypeOK
  <2> QED BY <2>2, <2>3
<1>2. CASE TurnStep
  <2>1. CASE BeginTurn
    BY <2>1, NoTurnType DEF BeginTurn, NoTurn
  <2>2. CASE MarkCalling \/ StartRun
    BY <2>2
    DEF MarkCalling, StartRun, GoTo, At, SetStatus, TypeInv, TypeOK, Turns
  <2>3. CASE StartFails \/ WorkerDone \/ FailTurn \/ AbortPrompting
    BY <2>3
    DEF StartFails, WorkerDone, FailTurn, AbortPrompting, SetStatus, TypeInv,
        TypeOK, Sessions
  <2>4. CASE Complete \/ PauseAtPolicy \/ PauseAtHarness \/ PromptInline
               \/ WaitFor \/ Continue
    BY <2>4
    DEF Complete, PauseAtPolicy, PauseAtHarness, PromptInline, WaitFor,
        Continue, At, GoTo, TypeInv, TypeOK, Turns
  <2>5. CASE PromptSent \/ WorkerPause \/ AskInline
    BY <2>5
    DEF PromptSent, MarkAwaiting, WorkerPause, AskInline, TypeInv, TypeOK,
        Sessions
  <2>6. CASE Announce \/ Arm
    BY <2>6 DEF Announce, Arm, At, GoTo, EndTurn, TypeInv, TypeOK, Turns
  <2> QED
    BY <1>2, <2>1, <2>2, <2>3, <2>4, <2>5, <2>6
    DEF TurnStep, LocalTurnStep, VendorTurnStep
<1>3. CASE DecisionStep
  <2>1. PICK d \in decisions :
            ExpireSession(d) \/ ClearPending(d) \/ Decide(d) \/ Apply(d) \/ Resume(d)
    BY <1>3 DEF DecisionStep
  <2>2. CASE ExpireSession(d)
    BY <2>2 DEF ExpireSession, TypeInv, TypeOK, Sessions
  <2>3. CASE ClearPending(d) \/ Decide(d)
    <3>1. /\ session'.status = session.status /\ turn' = turn
          /\ process' = process /\ queue' = queue
      BY <2>3 DEF ClearPending, Decide, TypeInv, TypeOK, Sessions
    <3>2. \A e \in decisions : e.step = "resume" => e \in decisions'
      BY <2>3 DEF ClearPending, Decide, Advance
    <3> QED BY <3>1, <3>2
  <2>4. CASE Apply(d)
    <3>1. [d EXCEPT !.step = "resume"] \in decisions'
      BY <2>4 DEF Apply, Advance
    <3>2. [d EXCEPT !.step = "resume"].step = "resume"
      BY DEF TypeInv, TypeOK, Decisions
    <3> QED BY <3>1, <3>2
  <2>5. CASE Resume(d)
    BY SMTT(20), <2>5 DEF Resume, ResumeQueue, TypeInv, TypeOK
  <2> QED BY <2>1, <2>2, <2>3, <2>4, <2>5
<1>4. CASE \E r \in Requests : \/ Expire(r) \/ OrphanFinishes(r)
                               \/ \E ok \in BOOLEAN : Click(r, ok)
  BY ZenonT(60), <1>4
  DEF Expire, OrphanFinishes, Click, SettleWaiters, MarkAwaiting, At, TypeInv,
      TypeOK, Turns, Sessions
<1>5. CASE Disturbance
  BY <1>5
  DEF Disturbance, ClickUngated, TextReply, PromptFails, AnnounceFails,
      PromptNotSent, PromptInlineNotSent, OrphanNotSent,
      GoTo, EndTurn, At, Stop, SetStatus, Reset, FreshSession, Crash, TypeInv, TypeOK,
      Turns, Sessions
<1>6. CASE Restart \/ StartWorker
  BY <1>6 DEF Restart, StartWorker, Repaired, TypeInv, TypeOK, Sessions
<1>7. CASE UNCHANGED vars
  BY <1>7 DEF vars
<1> QED
  BY <1>1, <1>2, <1>3, <1>4, <1>5, <1>6, <1>7 DEF Next, Rest

\* Whatever fails, crashes, is stopped or answered twice: while the worker is
\* up, a session in progress has a turn that runs or is queued
\* (repairInterruptedSessions and failRun).
THEOREM NoSessionStuckInProgress == Spec => []NoOrphanInProgress
<1>1. Init => ProgressInv
  BY DEF Init, FreshSession, ProgressInv
<1>2. ProgressInv => NoOrphanInProgress
  BY DEF ProgressInv, NoOrphanInProgress, At
<1> QED BY <1>1, <1>2, TypeInvariant, NextProgress, PTL DEF Spec

-----------------------------------------------------------------------------
(* A blocked turn can be woken                                             *)

\* Nothing runs while the process is down, so Restart finds no blocked turn.
WakeInv == NoLostWakeup /\ (process # "up" => turn.point = "idle")

\* Every step keeps a blocked turn's request in the gate.
LEMMA NextWakeup == TypeInv /\ WakeInv /\ [Next]_vars => WakeInv'
<1> SUFFICES ASSUME TypeInv, WakeInv, [Next]_vars PROVE WakeInv'
  OBVIOUS
<1> USE DEF WakeInv, NoLostWakeup, inboundVars, outsideVars, approvalVars, At
<1>1. CASE \E m \in Messages : Inbound(m) \/ Deliver(m)
  BY <1>1 DEF Inbound, Deliver
<1>2. CASE TurnStep
  <2>1. CASE WaitFor
    BY <2>1 DEF WaitFor, WithTimer, TypeInv, TypeOK, Turns
  <2>2. CASE TurnStep /\ ~WaitFor
    BY <2>2, NoTurnType
    DEF TurnStep, LocalTurnStep, VendorTurnStep, BeginTurn, MarkCalling,
        StartFails, StartRun, Complete, WorkerDone, FailTurn, PauseAtPolicy,
        PauseAtHarness, PromptSent, AbortPrompting, WorkerPause, Announce, Arm,
        AskInline, PromptInline, Continue, GoTo, EndTurn, TypeInv, TypeOK, Turns
  <2> QED BY <1>2, <2>1, <2>2
<1>3. CASE DecisionStep
  BY <1>3 DEF DecisionStep, ExpireSession, ClearPending, Decide, Apply, Resume
<1>4. CASE \E r \in Requests : \/ Expire(r) \/ OrphanFinishes(r)
                               \/ \E ok \in BOOLEAN : Click(r, ok)
  <2>1. ASSUME NEW r \in Requests, NEW ok \in BOOLEAN,
               turn' = SettleWaiters(r, ok),
               gate'.pending = gate.pending \ {r}, process' = process
        PROVE  WakeInv'
    BY <2>1 DEF SettleWaiters, TypeInv, TypeOK, Turns
  <2>2. ASSUME NEW r \in Requests, Expire(r) PROVE WakeInv'
    BY <2>1, <2>2 DEF Expire
  <2>3. ASSUME NEW r \in Requests, NEW ok \in BOOLEAN, Click(r, ok)
        PROVE  WakeInv'
    BY <2>1, <2>3 DEF Click
  <2>4. ASSUME NEW r \in Requests, OrphanFinishes(r) PROVE WakeInv'
    BY <2>4 DEF OrphanFinishes, WithTimer, TypeInv, TypeOK
  <2> QED BY <1>4, <2>2, <2>3, <2>4
<1>5. CASE Disturbance
  BY <1>5, NoTurnType
  DEF Disturbance, ClickUngated, TextReply, PromptFails, AnnounceFails,
      PromptNotSent, PromptInlineNotSent, OrphanNotSent,
      GoTo, EndTurn, Stop, Reset, Crash, TypeInv, TypeOK, Turns
<1>6. CASE Restart \/ StartWorker
  BY <1>6 DEF Restart, StartWorker
<1>7. CASE UNCHANGED vars
  BY <1>7 DEF vars
<1> QED
  BY <1>1, <1>2, <1>3, <1>4, <1>5, <1>6, <1>7 DEF Next, Rest

\* No answer, timeout, stop, text reply or crash takes a request away from the
\* gate and leaves the turn that waits for it asleep (ApprovalGate.waitFor and
\* settleWaiters).
THEOREM BlockedTurnCanBeWoken == Spec => []NoLostWakeup
<1>1. Init => WakeInv
  BY NoTurnType DEF Init, WakeInv, NoLostWakeup, At
<1>2. WakeInv => NoLostWakeup
  BY DEF WakeInv
<1> QED BY <1>1, <1>2, TypeInvariant, NextWakeup, PTL DEF Spec

-----------------------------------------------------------------------------
(* A turn adds its message to the history and drops nothing                *)

\* A turn of a message works on the history as it still is, plus its message:
\* nobody else writes the history until the turn does.
HistoryInv ==
    /\ Runtime = "local" /\ turn.job.req = None
    /\ turn.point \in ActivePoints \ {"storing"}
    => turn.context = Append(memory, turn.job.content)

\* Only a vendor turn waits inside a tool call.
InlineInv ==
    turn.point \in {"asking", "sending", "blocked", "answered"}
        => Runtime = "vendor"

\* Between its start and its end a turn's history is the one it read.
LEMMA NextHistory == 
    TypeInv /\ HistoryInv /\ InlineInv /\ [Next]_vars => HistoryInv' /\ InlineInv'
<1> SUFFICES ASSUME TypeInv, HistoryInv, InlineInv, [Next]_vars
             PROVE  HistoryInv' /\ InlineInv'
  OBVIOUS
<1> USE DEF HistoryInv, InlineInv, inboundVars, outsideVars, approvalVars, At, ActivePoints
<1>1. CASE \E m \in Messages : Inbound(m) \/ Deliver(m)
  BY <1>1 DEF Inbound, Deliver
<1>2. CASE TurnStep
  <2>1. CASE StartRun
    BY <2>1 DEF StartRun, CannotResume, Resuming, TypeInv, TypeOK, Turns
  <2>2. CASE BeginTurn
    <3>1. turn'.point = "loading"
      BY <2>2, NoTurnType DEF BeginTurn, Turns
    <3> QED BY <3>1
  <2>3. CASE StartFails \/ WorkerDone \/ FailTurn \/ AbortPrompting \/ Arm
    BY <2>3, NoTurnType
    DEF StartFails, WorkerDone, FailTurn, AbortPrompting, Arm, EndTurn
  <2>4. CASE Continue
    <3>1. Runtime = "vendor"
      BY <2>4, RuntimeAssumption DEF Continue
    <3> QED BY <2>4, <3>1 DEF Continue, GoTo, TypeInv, TypeOK, Turns
  <2>5. CASE MarkCalling \/ Complete \/ PauseAtPolicy \/ PauseAtHarness
               \/ PromptSent \/ WorkerPause \/ Announce
    BY ZenonT(60), <2>5
    DEF MarkCalling, Complete, PauseAtPolicy, PauseAtHarness, PromptSent,
        WorkerPause, Announce, GoTo, TypeInv, TypeOK, Turns
  <2>6. CASE AskInline \/ PromptInline \/ WaitFor
    BY <2>6 DEF AskInline, PromptInline, WaitFor, GoTo, TypeInv, TypeOK, Turns
  <2> QED
    BY <1>2, <2>1, <2>2, <2>3, <2>4, <2>5, <2>6
    DEF TurnStep, LocalTurnStep, VendorTurnStep
<1>3. CASE DecisionStep
  BY <1>3 DEF DecisionStep, ExpireSession, ClearPending, Decide, Apply, Resume
<1>4. CASE \E r \in Requests : \/ Expire(r) \/ OrphanFinishes(r)
                               \/ \E ok \in BOOLEAN : Click(r, ok)
  BY <1>4
  DEF Expire, OrphanFinishes, Click, SettleWaiters, TypeInv, TypeOK, Turns
<1>5. CASE Disturbance
  BY <1>5, NoTurnType
  DEF Disturbance, ClickUngated, TextReply, PromptFails, AnnounceFails,
      PromptNotSent, PromptInlineNotSent, OrphanNotSent,
      GoTo, EndTurn, Stop, Reset, Crash, TypeInv, TypeOK, Turns
<1>6. CASE Restart \/ StartWorker
  BY <1>6 DEF Restart, StartWorker
<1>7. CASE UNCHANGED vars
  BY <1>7 DEF vars
<1> QED
  BY <1>1, <1>2, <1>3, <1>4, <1>5, <1>6, <1>7 DEF Next, Rest

\* Between the read of the history and its write nothing comes in between, and
\* however the turn ends it writes back what it read plus its message: the
\* theorem for unfinishedTurnHistory (audit G-01).
THEOREM TurnsKeepHistory == Spec => HistoryGrowsByTheMessage
<1>1. Init => HistoryInv /\ InlineInv
  BY NoTurnType DEF Init, HistoryInv, InlineInv, ActivePoints
<1>2. TypeInv /\ HistoryInv /\ [Next]_vars
        => [memory' # memory /\ turn.job.content # None
               => memory' = Append(memory, turn.job.content)]_vars
  <2> SUFFICES ASSUME TypeInv, HistoryInv, [Next]_vars,
                      memory' # memory, turn.job.content # None
               PROVE  memory' = Append(memory, turn.job.content)
    OBVIOUS
  <2> USE DEF inboundVars, outsideVars, approvalVars, At
  <2>1. turn.point # "idle" => turn.job.req = None
    BY DEF TypeInv, TypeOK, Turns, RunRequests, ProperRequests
  <2>2. CASE Complete \/ FailTurn
    BY <2>1, <2>2
    DEF Complete, FailTurn, UnfinishedHistory, Resuming, HistoryInv, ActivePoints
  <2>3. CASE AbortPrompting \/ Arm \/ AnnounceFails \/ PromptNotSent
    BY <2>1, <2>3
    DEF AbortPrompting, Arm, AnnounceFails, PromptNotSent, UnfinishedHistory,
        Resuming, HistoryInv, ActivePoints
  <2>4. CASE ~(Complete \/ FailTurn \/ AbortPrompting \/ Arm \/ AnnounceFails
                  \/ PromptNotSent)
    BY <2>4
    DEF Next, TurnStep, LocalTurnStep, VendorTurnStep, DecisionStep, Disturbance,
        PromptFails, PromptInlineNotSent, OrphanNotSent, Resume,
        Rest, Inbound, Deliver, BeginTurn, MarkCalling, StartFails, StartRun,
        WorkerDone, PauseAtPolicy, PauseAtHarness, PromptSent, WorkerPause,
        Announce, AskInline, PromptInline, WaitFor, Continue, ExpireSession,
        ClearPending, Decide, Apply, Expire, OrphanFinishes, Click, ClickUngated,
        TextReply, Stop, Reset, Crash, Restart, StartWorker, vars
  <2> QED BY <2>2, <2>3, <2>4
<1> QED
  BY <1>1, <1>2, TypeInvariant, NextHistory, PTL
  DEF Spec, HistoryGrowsByTheMessage

-----------------------------------------------------------------------------
(* A session that waits for an approval can be given it                    *)

\* No crash; and no stop where a stopped tool could go on and mark the session.
Calm ==
    /\ Budget["crash"] = 0
    /\ HarnessEnabled /\ Runtime = "local" => Budget["stop"] = 0

PausePoints == {"prompting", "pausing", "announcing", "arming"}
\* Where a vendor turn may be while its session is marked, also when it went on
\* after a prompt that could not be sent.
InlinePoints == {"asking", "sending", "blocked", "answered", "running", "storing"}

\* What a calm session never sees, and whose turns pause and whose block.
CalmInv ==
    /\ process = "up" /\ left["crash"] = 0
    /\ HarnessEnabled /\ Runtime = "local" => left["stop"] = 0
    /\ HarnessEnabled => ~turn.aborted
    /\ orphans = {}
    /\ turn.point \in PausePoints => Runtime = "local"
    /\ turn.point = "prompting" => HarnessEnabled
    /\ Runtime = "local" => session.inline = None /\ turn.stored.inline = None

\* A waiting session's request is in the gate, or else there is something on
\* its way that takes the session out of the wait: a turn that has not marked
\* it yet, a queued one, or a decision.
WaitingInv ==
    session.status = "awaiting_approval" =>
        /\ IF Runtime = "vendor" THEN turn.point \in InlinePoints
           ELSE turn.point \in {"idle", "loading", "pausing", "announcing", "arming"}
        /\ \/ turn.point \in {"loading", "pausing"} \cup InlinePoints
           \/ queue # <<>> \/ decisions # {}
           \/ turn.point = "announcing" /\ session.pendingApproval = turn.asked
           \/ /\ turn.point \in {"idle", "arming"}
              /\ session.pendingApproval # None
              /\ HarnessEnabled => session.pendingApproval \in gate.pending

\* The same of its checkpoint, which a message takes away and replaces by its
\* own turn.
ResumableInv ==
    session.status = "awaiting_approval" =>
        \/ turn.point \in {"loading", "pausing"}
        \/ queue # <<>> \/ decisions # {} \/ arriving # {}
        \/ /\ session.checkpoint # None
           /\ session.checkpoint.req = session.pendingApproval

\* A calm session stays calm.
LEMMA NextCalm == TypeInv /\ InlineInv /\ CalmInv /\ [Next]_vars => CalmInv'
<1> SUFFICES ASSUME TypeInv, InlineInv, CalmInv, [Next]_vars PROVE CalmInv'
  OBVIOUS
<1> USE DEF CalmInv, PausePoints, inboundVars, outsideVars, approvalVars, At
<1>0. /\ turn \in Turns /\ session \in Sessions /\ decisions \subseteq Decisions
      /\ left \in [Disturbances -> Nat]
      /\ Runtime \in {"local", "vendor"}
  BY RuntimeAssumption DEF TypeInv, TypeOK
<1>1. CASE \E m \in Messages : Inbound(m) \/ Deliver(m)
  BY <1>0, <1>1 DEF Inbound, Deliver, Sessions
<1>2. CASE TurnStep
  <2>1. CASE BeginTurn
    BY <1>0, <2>1, NoTurnType DEF BeginTurn, NoTurn, Snapshot, Turns
  <2>2. CASE MarkCalling \/ StartRun \/ Complete
    BY <1>0, <2>2 DEF MarkCalling, StartRun, Complete, SetStatus, GoTo, Turns, Sessions
  <2>3. CASE StartFails \/ FailTurn \/ Arm
    BY <1>0, <2>3, NoTurnType
    DEF StartFails, FailTurn, Arm, EndTurn, NoTurn, SetStatus, Sessions, Snapshot,
        FreshSession
  <2>4. CASE WorkerDone
    BY <1>0, <2>4 DEF WorkerDone, EndTurn, NoTurn, Snapshot, FreshSession
  <2>5. CASE PauseAtPolicy \/ PauseAtHarness \/ Announce
    BY <1>0, <2>5 DEF PauseAtPolicy, PauseAtHarness, Announce, GoTo, Turns
  <2>6. CASE PromptSent \/ WorkerPause
    BY <1>0, <2>6
    DEF PromptSent, MarkAwaiting, WorkerPause, GoTo, Turns, Sessions
  <2>7. CASE AbortPrompting
    BY <2>7 DEF AbortPrompting
  <2>8. CASE VendorTurnStep
    <3>1. Runtime = "vendor"
      BY <2>8 DEF VendorTurnStep, AskInline, PromptInline, WaitFor, Continue, InlineInv
    <3> QED
      BY <1>0, <2>8, <3>1
      DEF VendorTurnStep, AskInline, PromptInline, WaitFor, Continue, GoTo, Turns
  <2> QED
    BY <1>2, <2>1, <2>2, <2>3, <2>4, <2>5, <2>6, <2>7, <2>8 DEF TurnStep, LocalTurnStep
<1>3. CASE DecisionStep
  BY <1>0, <1>3
  DEF DecisionStep, ExpireSession, ClearPending, Decide, Apply, Resume, Sessions
<1>4. CASE \E r \in Requests : \/ Expire(r) \/ OrphanFinishes(r)
                               \/ \E ok \in BOOLEAN : Click(r, ok)
  <2>1. PICK r \in Requests : \/ Expire(r) \/ OrphanFinishes(r)
                              \/ \E ok \in BOOLEAN : Click(r, ok)
    BY <1>4
  <2>2. CASE OrphanFinishes(r)
    BY <2>2 DEF OrphanFinishes
  <2>3. CASE Expire(r) \/ \E ok \in BOOLEAN : Click(r, ok)
    <3>1. /\ turn'.aborted = turn.aborted /\ turn'.stored = turn.stored
          /\ \/ turn'.point = turn.point
             \/ turn'.point = "answered"
      BY <1>0, <2>3 DEF Expire, Click, SettleWaiters, Turns
    <3>2. /\ process' = process /\ left' = left /\ orphans' = orphans
          /\ session' = session
      BY <2>3 DEF Expire, Click
    <3> QED BY <3>1, <3>2
  <2> QED BY <2>1, <2>2, <2>3
<1>5. CASE Disturbance
  <2>1. CASE (\E r \in Requests, ok \in BOOLEAN : ClickUngated(r, ok))
               \/ (\E ok \in BOOLEAN : TextReply(ok))
    <3>1. left'["crash"] = left["crash"] /\ left'["stop"] = left["stop"]
      BY <1>0, <2>1 DEF ClickUngated, TextReply, Spend, Disturbances
    <3>2. /\ process' = process /\ orphans' = orphans
          /\ session' = session /\ turn' = turn
      BY <2>1 DEF ClickUngated, TextReply
    <3> QED BY <3>1, <3>2
  <2>5. CASE PromptFails
    <3>1. left'["crash"] = left["crash"] /\ left'["stop"] = left["stop"]
      BY <1>0, <2>5
      DEF PromptFails, AnnounceFails, PromptNotSent, PromptInlineNotSent,
          OrphanNotSent, Spend, Disturbances
    <3>2. /\ process' = process /\ orphans' = {}
          /\ session'.inline = session.inline
          /\ \/ turn' = NoTurn
             \/ GoTo("running")
      BY <1>0, <2>5
      DEF PromptFails, AnnounceFails, PromptNotSent, PromptInlineNotSent,
          OrphanNotSent, SetStatus, EndTurn, Sessions
    <3>3. /\ turn'.aborted => turn.aborted
          /\ turn'.point \in {"idle", "running"}
          /\ turn'.stored.inline \in {None, turn.stored.inline}
      BY <1>0, <3>2 DEF NoTurn, Snapshot, FreshSession, GoTo, Turns
    <3> QED BY <3>1, <3>2, <3>3
  <2>2. CASE Reset
    BY <1>0, <2>2 DEF Reset, Spend, Disturbances, FreshSession, Sessions
  <2>3. CASE Stop
    BY <1>0, <2>3 DEF Stop, Spend, Disturbances, SetStatus, Turns, Sessions
  <2>4. CASE Crash
    BY <1>0, <2>4 DEF Crash, Spend, Disturbances
  <2> QED BY <1>5, <2>1, <2>2, <2>3, <2>4, <2>5 DEF Disturbance
<1>6. CASE Restart \/ StartWorker
  BY <1>6 DEF Restart, StartWorker
<1>7. CASE UNCHANGED vars
  BY <1>7 DEF vars
<1> QED
  BY <1>1, <1>2, <1>3, <1>4, <1>5, <1>6, <1>7 DEF Next, Rest

\* Every step of a calm session keeps its request in the gate.
LEMMA NextWaiting ==
    TypeInv /\ InlineInv /\ CalmInv /\ WaitingInv /\ [Next]_vars => WaitingInv'
<1> SUFFICES ASSUME TypeInv, InlineInv, CalmInv, WaitingInv, [Next]_vars
             PROVE  WaitingInv'
  OBVIOUS
<1> USE DEF WaitingInv, InlinePoints, inboundVars, outsideVars, approvalVars, At
<1>0. /\ turn \in Turns /\ session \in Sessions /\ decisions \subseteq Decisions
      /\ Runtime \in {"local", "vendor"}
  BY RuntimeAssumption DEF TypeInv, TypeOK
<1>1. CASE \E m \in Messages : Inbound(m) \/ Deliver(m)
  <2>1. /\ session'.status = session.status
        /\ session'.pendingApproval = session.pendingApproval
        /\ turn' = turn /\ decisions' = decisions /\ gate' = gate
    BY <1>0, <1>1 DEF Inbound, Deliver, Sessions
  <2>2. queue' # <<>> \/ queue' = queue
    BY <1>1 DEF Inbound, Deliver, TypeInv, TypeOK
  <2> QED BY <2>1, <2>2
<1>2. CASE TurnStep
  <2>1. CASE BeginTurn
    <3>1. turn'.point = "loading" /\ session' = session
      BY <2>1, NoTurnType DEF BeginTurn, Turns
    <3> QED BY <2>1, <3>1 DEF BeginTurn
  <2>2. CASE MarkCalling \/ StartFails \/ WorkerDone \/ FailTurn \/ AbortPrompting
               \/ Continue
    <3>1. CASE MarkCalling \/ StartFails \/ FailTurn \/ AbortPrompting
      BY <1>0, <3>1
      DEF MarkCalling, StartFails, FailTurn, AbortPrompting, SetStatus, Sessions
    <3>2. CASE WorkerDone
      BY <3>2 DEF WorkerDone
    <3>3. CASE Continue
      BY <1>0, <3>3 DEF Continue, Sessions
    <3> QED BY <2>2, <3>1, <3>2, <3>3
  <2>3. CASE StartRun \/ PauseAtPolicy \/ PauseAtHarness
    BY <2>3 DEF StartRun, PauseAtPolicy, PauseAtHarness
  <2>9. CASE Complete
    BY <1>0, <2>9 DEF Complete, GoTo, Turns
  <2>4. CASE PromptSent
    BY <1>0, <2>4 DEF PromptSent, GoTo, Turns, CalmInv, PausePoints
  <2>5. CASE WorkerPause
    BY <1>0, <2>5 DEF WorkerPause, GoTo, Turns, CalmInv, PausePoints, Sessions
  <2>6. CASE Announce
    <3>1. turn'.point = "arming" /\ turn.asked \in Requests
      BY <1>0, <2>6 DEF Announce, GoTo, Turns, TypeInv, AskedPoints
    <3>2. HarnessEnabled => turn.asked \in gate'.pending
      BY <2>6 DEF Announce, Register, TypeInv, TypeOK
    <3> QED BY <2>6, <3>1, <3>2, NoneAssumption DEF Announce
  <2>7. CASE Arm
    <3>1. gate'.pending = gate.pending /\ turn'.point = "idle"
      BY <2>7, NoTurnType DEF Arm, WithTimer, EndTurn, TypeInv, TypeOK
    <3> QED BY <2>7, <3>1 DEF Arm
  <2>8. CASE AskInline \/ PromptInline \/ WaitFor
    <3>1. turn'.point \in InlinePoints /\ Runtime = "vendor"
      BY <1>0, <2>8 DEF AskInline, PromptInline, WaitFor, GoTo, Turns, InlineInv
    <3> QED BY <3>1
  <2> QED
    BY <1>2, <2>1, <2>2, <2>3, <2>4, <2>5, <2>6, <2>7, <2>8, <2>9
    DEF TurnStep, LocalTurnStep, VendorTurnStep
<1>3. CASE DecisionStep
  <2>1. PICK d \in decisions :
            ExpireSession(d) \/ ClearPending(d) \/ Decide(d) \/ Apply(d) \/ Resume(d)
    BY <1>3 DEF DecisionStep
  <2>2. d.req # None
    BY <1>0, NoneAssumption DEF Decisions
  <2>3. CASE ExpireSession(d) \/ Apply(d)
    BY <1>0, <2>3 DEF ExpireSession, Apply, Sessions
  <2>6. CASE Resume(d)
    <3>1. queue' # <<>> /\ session' = session /\ turn' = turn
      BY <2>6 DEF Resume, ResumeQueue, TypeInv, TypeOK
    <3> QED BY <3>1
  <2>4. CASE ClearPending(d)
    <3>1. session'.status = session.status /\ turn' = turn /\ decisions' # {}
      BY <1>0, <2>4 DEF ClearPending, Advance, Sessions
    <3> QED BY <3>1
  <2>5. CASE Decide(d)
    <3>1. session' = session /\ turn' = turn
      BY <2>5 DEF Decide
    <3>2. CASE Runtime = "local"
      <4>1. decisions' # {}
        BY <2>2, <2>5, <3>2 DEF Decide, Advance, TurnIsWaiting, CalmInv
      <4> QED BY <3>1, <4>1
    <3>3. CASE Runtime = "vendor"
      BY <3>1, <3>3
    <3> QED BY <1>0, <3>2, <3>3
  <2> QED BY <2>1, <2>3, <2>4, <2>5, <2>6
<1>4. CASE \E r \in Requests : \/ Expire(r) \/ OrphanFinishes(r)
                               \/ \E ok \in BOOLEAN : Click(r, ok)
  <2>1. decisions' # {} /\ session' = session
    BY <1>4 DEF Expire, OrphanFinishes, Click, CalmInv
  <2>2. turn'.point = turn.point \/ {turn.point, turn'.point} \subseteq InlinePoints
    BY <1>0, <1>4 DEF Expire, OrphanFinishes, Click, SettleWaiters, Turns
  <2> QED BY <2>1, <2>2
<1>5. CASE Disturbance
  <2>1. CASE (\E r \in Requests, ok \in BOOLEAN : ClickUngated(r, ok))
               \/ (\E ok \in BOOLEAN : TextReply(ok))
    BY <2>1 DEF ClickUngated, TextReply
  <2>2. CASE AnnounceFails
    <3>1. turn'.point = "idle" /\ turn.asked \in Requests
      BY <2>2, NoTurnType DEF AnnounceFails, EndTurn, TypeInv, AskedPoints
    <3>2. HarnessEnabled => turn.asked \in gate'.pending
      BY <2>2 DEF AnnounceFails, Register, TypeInv, TypeOK
    <3> QED BY <2>2, <3>1, <3>2, NoneAssumption DEF AnnounceFails
  <2>5. CASE PromptNotSent \/ \E r \in Requests : OrphanNotSent(r)
    BY <1>0, <2>5 DEF PromptNotSent, OrphanNotSent, SetStatus, Sessions, CalmInv
  <2>6. CASE PromptInlineNotSent
    BY <1>0, <2>6 DEF PromptInlineNotSent, GoTo, Turns, InlineInv
  <2>3. CASE Stop \/ Reset
    BY <1>0, <2>3 DEF Stop, Reset, SetStatus, FreshSession, Sessions
  <2>4. CASE Crash
    BY <2>4 DEF Crash, Spend, CalmInv
  <2> QED BY <1>5, <2>1, <2>2, <2>3, <2>4, <2>5, <2>6 DEF Disturbance, PromptFails
<1>6. CASE Restart \/ StartWorker
  BY <1>6 DEF Restart, StartWorker, CalmInv
<1>7. CASE UNCHANGED vars
  BY <1>7 DEF vars
<1> QED
  BY <1>1, <1>2, <1>3, <1>4, <1>5, <1>6, <1>7 DEF Next, Rest

\* And its checkpoint with the request.
LEMMA NextResumable ==
    TypeInv /\ CalmInv /\ WaitingInv /\ ResumableInv /\ Runtime = "local" /\ [Next]_vars
        => ResumableInv'
<1> SUFFICES ASSUME TypeInv, CalmInv, WaitingInv, ResumableInv, Runtime = "local",
                    [Next]_vars
             PROVE  ResumableInv'
  OBVIOUS
<1> USE DEF ResumableInv, inboundVars, outsideVars, approvalVars, At
<1>0. /\ turn \in Turns /\ session \in Sessions /\ decisions \subseteq Decisions
  BY DEF TypeInv, TypeOK
<1>1. CASE \E m \in Messages : Inbound(m) \/ Deliver(m)
  <2>1. PICK m \in Messages : Inbound(m) \/ Deliver(m)
    BY <1>1
  <2>2. CASE Inbound(m)
    BY <2>2 DEF Inbound
  <2>3. CASE Deliver(m)
    <3>1. queue' # <<>>
      BY <2>3 DEF Deliver, TypeInv, TypeOK
    <3> QED BY <3>1
  <2> QED BY <2>1, <2>2, <2>3
<1>2. CASE TurnStep
  <2>1. CASE BeginTurn
    <3>1. turn'.point = "loading"
      BY <2>1, NoTurnType DEF BeginTurn, Turns
    <3> QED BY <3>1
  <2>2. CASE MarkCalling \/ StartFails \/ WorkerDone \/ FailTurn \/ AbortPrompting
               \/ Continue
    <3>1. CASE MarkCalling \/ StartFails \/ FailTurn \/ AbortPrompting
      BY <1>0, <3>1
      DEF MarkCalling, StartFails, FailTurn, AbortPrompting, SetStatus, Sessions
    <3>2. CASE WorkerDone
      BY <3>2 DEF WorkerDone
    <3>3. CASE Continue
      BY <1>0, <3>3 DEF Continue, Sessions
    <3> QED BY <2>2, <3>1, <3>2, <3>3
  <2>3. CASE StartRun \/ Complete \/ PauseAtPolicy \/ PauseAtHarness
    BY <2>3
    DEF StartRun, Complete, PauseAtPolicy, PauseAtHarness, WaitingInv, InlinePoints
  <2>4. CASE PromptSent
    BY <1>0, <2>4 DEF PromptSent, GoTo, Turns
  <2>5. CASE WorkerPause
    <3>1. turn.asked \in Requests /\ turn.context \in Seq(Messages)
      BY <1>0, <2>5 DEF WorkerPause, TypeInv, AskedPoints, Turns
    <3>2. CheckpointOfTurn \in Checkpoints /\ CheckpointOfTurn.req = turn.asked
      BY <3>1 DEF CheckpointOfTurn, Checkpoints
    <3>3. session'.checkpoint = CheckpointOfTurn /\ session'.pendingApproval = turn.asked
      BY <1>0, <2>5 DEF WorkerPause, Sessions
    <3> QED BY <3>2, <3>3, NoneAssumption
  <2>6. CASE Announce \/ Arm
    BY <1>0, <2>6 DEF Announce, Arm
  <2>7. CASE AskInline \/ PromptInline \/ WaitFor
    BY <2>7 DEF AskInline, PromptInline, WaitFor, WaitingInv, InlinePoints
  <2> QED
    BY <1>2, <2>1, <2>2, <2>3, <2>4, <2>5, <2>6, <2>7
    DEF TurnStep, LocalTurnStep, VendorTurnStep
<1>3. CASE DecisionStep
  <2>1. PICK d \in decisions :
            ExpireSession(d) \/ ClearPending(d) \/ Decide(d) \/ Apply(d) \/ Resume(d)
    BY <1>3 DEF DecisionStep
  <2>2. d.req # None
    BY <1>0, NoneAssumption DEF Decisions
  <2>3. CASE ExpireSession(d) \/ Apply(d)
    BY <1>0, <2>3 DEF ExpireSession, Apply, Sessions
  <2>6. CASE Resume(d)
    <3>1. queue' # <<>> /\ session' = session /\ turn' = turn
      BY <2>6 DEF Resume, ResumeQueue, TypeInv, TypeOK
    <3> QED BY <3>1
  <2>4. CASE ClearPending(d) \/ Decide(d)
    BY <2>2, <2>4 DEF ClearPending, Decide, Advance, TurnIsWaiting, CalmInv
  <2> QED BY <2>1, <2>3, <2>4, <2>6
<1>4. CASE \E r \in Requests : \/ Expire(r) \/ OrphanFinishes(r)
                               \/ \E ok \in BOOLEAN : Click(r, ok)
  BY <1>4 DEF Expire, OrphanFinishes, Click, CalmInv
<1>5. CASE Disturbance
  <2>1. CASE (\E r \in Requests, ok \in BOOLEAN : ClickUngated(r, ok))
               \/ (\E ok \in BOOLEAN : TextReply(ok))
    BY <2>1 DEF ClickUngated, TextReply
  <2>2. CASE AnnounceFails
    BY <2>2 DEF AnnounceFails
  <2>5. CASE PromptNotSent \/ \E r \in Requests : OrphanNotSent(r)
    BY <1>0, <2>5 DEF PromptNotSent, OrphanNotSent, SetStatus, Sessions, CalmInv
  <2>6. CASE PromptInlineNotSent
    BY <2>6 DEF PromptInlineNotSent, WaitingInv
  <2>3. CASE Stop \/ Reset
    BY <1>0, <2>3 DEF Stop, Reset, SetStatus, FreshSession, Sessions
  <2>4. CASE Crash
    BY <2>4 DEF Crash, Spend, CalmInv
  <2> QED BY <1>5, <2>1, <2>2, <2>3, <2>4, <2>5, <2>6 DEF Disturbance, PromptFails
<1>6. CASE Restart \/ StartWorker
  BY <1>6 DEF Restart, StartWorker, CalmInv
<1>7. CASE UNCHANGED vars
  BY <1>7 DEF vars
<1> QED
  BY <1>1, <1>2, <1>3, <1>4, <1>5, <1>6, <1>7 DEF Next, Rest

\* Who is told that an approval is awaited can give it: messages, answers of
\* every kind, timeouts, /reset and prompts that cannot be sent never leave a
\* session waiting for a request the gate does not hold (requestApproval,
\* registerRuntimeApproval and resolveApproval).  A crash can, and so can a stop
\* while the approval tool is sending its prompt: those are the two exceptions.
THEOREM WaitingIsPending == Calm => (Spec => []AwaitingIsPaused)
<1> SUFFICES ASSUME Calm PROVE Spec => []AwaitingIsPaused
  OBVIOUS
<1>1. Init => CalmInv /\ WaitingInv /\ HistoryInv /\ InlineInv
  BY NoTurnType
  DEF Calm, Init, CalmInv, WaitingInv, HistoryInv, InlineInv, ActivePoints, PausePoints,
      FreshSession, NoTurn, Snapshot
<1>2. WaitingInv => AwaitingIsPaused
  BY DEF WaitingInv, AwaitingIsPaused, Quiet, At, InlinePoints
<1> QED
  BY <1>1, <1>2, TypeInvariant, NextHistory, NextCalm, NextWaiting, PTL DEF Spec

\* And with the local runtime the turn can be taken up where it paused: its
\* checkpoint is there and belongs to the request the session waits for, under
\* the same conditions.
THEOREM WaitingIsResumable ==
    Calm /\ Runtime = "local" => (Spec => []PausedIsResumable)
<1> SUFFICES ASSUME Calm, Runtime = "local" PROVE Spec => []PausedIsResumable
  OBVIOUS
<1>1. Init => CalmInv /\ WaitingInv /\ ResumableInv /\ HistoryInv /\ InlineInv
  BY NoTurnType
  DEF Calm, Init, CalmInv, WaitingInv, ResumableInv, HistoryInv, InlineInv, ActivePoints,
      PausePoints, FreshSession, NoTurn, Snapshot
<1>2. ResumableInv => PausedIsResumable
  BY DEF ResumableInv, PausedIsResumable, Quiet, At
<1>3. TypeInv /\ CalmInv /\ WaitingInv /\ ResumableInv /\ [Next]_vars => ResumableInv'
  BY NextResumable
<1> QED
  BY <1>1, <1>2, <1>3, TypeInvariant, NextHistory, NextCalm, NextWaiting, PTL DEF Spec

-----------------------------------------------------------------------------
(* A turn's copy of the transcript                                         *)

\* Where nobody resets, a turn's copy of the transcript is the stored one until
\* the turn writes it.
TranscriptInv ==
    /\ left["reset"] = 0
    /\ turn.point # "idle" => turn.stored.messages = session.messages

\* Every step but the turn's end leaves both alone.
LEMMA NextTranscript ==
    TypeInv /\ TranscriptInv /\ [Next]_vars
        => /\ TranscriptInv'
           /\ \A m \in Messages :
                 m \in session'.messages \ session.messages => m = turn.job.content
<1> DEFINE Same == session'.messages = session.messages
           Kept == turn'.point # "idle" =>
                       turn.point # "idle" /\ turn'.stored = turn.stored
           Left == left'["reset"] = left["reset"]
<1> SUFFICES ASSUME TypeInv, TranscriptInv, [Next]_vars
             PROVE  /\ TranscriptInv'
                    /\ \A m \in Messages :
                          m \in session'.messages \ session.messages
                              => m = turn.job.content
  OBVIOUS
<1> USE DEF inboundVars, outsideVars, approvalVars, At
<1>0. /\ session \in Sessions /\ turn \in Turns /\ left \in [Disturbances -> Nat]
      /\ "reset" \in Disturbances /\ NoTurn.point = "idle"
  BY NoTurnType DEF TypeInv, TypeOK, Disturbances
<1>s. ASSUME Same, Kept, Left PROVE TranscriptInv'
  BY <1>s DEF TranscriptInv
<1>1. CASE \E m \in Messages : Inbound(m) \/ Deliver(m)
  <2>1. Same /\ Kept /\ Left
    BY <1>0, <1>1 DEF Inbound, Deliver, Sessions
  <2> QED BY <1>s, <2>1
<1>2. CASE TurnStep
  <2>1. CASE BeginTurn
    <3>1. turn'.stored.messages = session.messages
      BY <2>1, NoTurnType DEF BeginTurn, Turns, Snapshot
    <3> QED BY <2>1, <3>1 DEF BeginTurn, TranscriptInv
  <2>2. CASE WorkerDone
    <3>1. session'.messages = session.messages \cup ({turn.job.content} \ {None})
      BY <2>2 DEF WorkerDone, TranscriptInv
    <3> QED BY <1>0, <2>2, <3>1 DEF WorkerDone, EndTurn, TranscriptInv
  <2>3. CASE StartFails \/ FailTurn \/ AbortPrompting \/ Arm
    <3>1. Same /\ Kept /\ Left
      BY <1>0, <2>3
      DEF StartFails, FailTurn, AbortPrompting, Arm, EndTurn, SetStatus, Sessions
    <3> QED BY <1>s, <3>1
  <2>4. CASE MarkCalling \/ StartRun \/ Complete
    <3>1. Same /\ Kept /\ Left
      BY <1>0, <2>4
      DEF MarkCalling, StartRun, Complete, GoTo, SetStatus, Sessions, Turns
    <3> QED BY <1>s, <3>1
  <2>5. CASE PauseAtPolicy \/ PauseAtHarness \/ PromptSent \/ WorkerPause \/ Announce
    <3>1. Same /\ Kept /\ Left
      BY <1>0, <2>5
      DEF PauseAtPolicy, PauseAtHarness, PromptSent, WorkerPause, Announce, GoTo,
          MarkAwaiting, Sessions, Turns
    <3> QED BY <1>s, <3>1
  <2>6. CASE AskInline \/ PromptInline \/ WaitFor \/ Continue
    <3>1. Same /\ Kept /\ Left
      BY <1>0, <2>6
      DEF AskInline, PromptInline, WaitFor, Continue, GoTo, Sessions, Turns
    <3> QED BY <1>s, <3>1
  <2> QED
    BY <1>2, <2>1, <2>2, <2>3, <2>4, <2>5, <2>6
    DEF TurnStep, LocalTurnStep, VendorTurnStep
<1>3. CASE DecisionStep
  <2>1. Same /\ Kept /\ Left
    BY <1>0, <1>3
    DEF DecisionStep, ExpireSession, ClearPending, Decide, Apply, Resume, Sessions
  <2> QED BY <1>s, <2>1
<1>4. CASE \E r \in Requests : \/ Expire(r) \/ OrphanFinishes(r)
                               \/ \E ok \in BOOLEAN : Click(r, ok)
  <2>1. Same /\ Kept /\ Left
    BY <1>0, <1>4
    DEF Expire, OrphanFinishes, Click, SettleWaiters, MarkAwaiting, Sessions, Turns
  <2> QED BY <1>s, <2>1
<1>5. CASE Disturbance
  <2>1. ~Reset
    BY DEF Reset, Spend, TranscriptInv
  <2>2. Same /\ Kept
    BY <1>0, <1>5, <2>1
    DEF Disturbance, ClickUngated, TextReply, PromptFails, AnnounceFails,
      PromptNotSent, PromptInlineNotSent, OrphanNotSent,
        GoTo, EndTurn, Stop, SetStatus, Crash, Sessions, Turns
  <2>3. Left
    BY <1>0, <1>5, <2>1
    DEF Disturbance, ClickUngated, TextReply, PromptFails, AnnounceFails,
      PromptNotSent, PromptInlineNotSent, OrphanNotSent,
        Stop, Crash, Spend
  <2> QED BY <1>s, <2>2, <2>3
<1>6. CASE Restart \/ StartWorker
  <2>1. Same /\ Kept /\ Left
    BY <1>0, <1>6 DEF Restart, StartWorker, Repaired, Sessions
  <2> QED BY <1>s, <2>1
<1>7. CASE UNCHANGED vars
  BY <1>7 DEF vars, TranscriptInv
<1> QED
  BY <1>1, <1>2, <1>3, <1>4, <1>5, <1>6, <1>7 DEF Next, Rest

\* A turn adds its own message to the transcript and nothing else.  The worker
\* writes the copy back that it read at the beginning of the turn ("done" in
\* gateway-worker.ts); only a /reset in between makes that copy stale
\* (ResetDuringTurn.cfg): no message, decision, timeout, stop or crash does.
THEOREM OnlyResetIsUndone == Budget["reset"] = 0 => (Spec => ResetSticks)
<1> SUFFICES ASSUME Budget["reset"] = 0 PROVE Spec => ResetSticks
  OBVIOUS
<1> DEFINE Sticks == \A m \in Messages :
                m \in session'.messages \ session.messages => m = turn.job.content
<1>1. Init => TranscriptInv
  BY NoTurnType DEF Init, TranscriptInv
<1>2. TypeInv /\ TranscriptInv /\ [Next]_vars => TranscriptInv' /\ Sticks
  BY NextTranscript
<1>3. TypeInv /\ TranscriptInv /\ [Next]_vars => [Sticks]_vars
  BY <1>2
<1>4. Spec => [][Sticks]_vars
  BY <1>1, <1>2, <1>3, TypeInvariant, PTL DEF Spec
<1> QED
  BY <1>4 DEF ResetSticks

=============================================================================
