---------------------------- MODULE SessionTurns ----------------------------
(***************************************************************************)
(* The turns of one session in the gateway worker, with everything that    *)
(* writes the session while they run: inbound messages, the approval gate  *)
(* and its timers, the people who answer prompts, /reset, stop requests, and *)
(* a process that dies and comes back.  Module TurnQueue shows that turns  *)
(* of a session run one at a time and in order; here they are a queue and  *)
(* a record of where the current turn is.  Each action is what the code    *)
(* does between two awaits that let another handler in; one                *)
(* SessionStore.update is one step.                                        *)
(***************************************************************************)
EXTENDS Naturals, Sequences, FiniteSets

CONSTANTS
    Messages,       \* user messages that may arrive
    MaxRequests,    \* bound: approval request ids minted
    Budget,         \* bound: how often each disturbance may happen
    Runtime,        \* "local" checkpoints a gated turn, "vendor" holds it open
    HarnessEnabled, \* whether messages and approvals go through the harness
    TimeoutsOn,     \* policy.approvalTimeoutSeconds > 0
    LocalBus,       \* LocalEventBus; else NATS
    None            \* undefined

Requests == 1..MaxRequests
Disturbances == {"crash", "stop", "reset", "text", "click", "sendFailure"}

ASSUME RuntimeAssumption == Runtime \in {"local", "vendor"}
ASSUME SwitchAssumption == {HarnessEnabled, TimeoutsOn, LocalBus} \subseteq BOOLEAN
ASSUME BudgetAssumption ==
    MaxRequests \in Nat /\ Budget \in [Disturbances -> Nat]

VARIABLES
    session,    \* the stored session
    memory,     \* short-term history: the user messages it keeps
    gate,       \* ApprovalGate.pending and .timers
    prompts,    \* requests whose Approve/Reject buttons a person can press
    minted,     \* ids handed out so far
    arriving,   \* messages between the harness's inbound gate and the bus
    queue,      \* run requests waiting for the session's turn
    turn,       \* the current turn: where it is and its local variables
    orphans,    \* approval tools that outlive their aborted turn
    decisions,  \* decisions on their way, each with the step it comes to next
    process,    \* "up", "down" or "starting"
    left,       \* what remains of Budget
    sent        \* messages that arrived

vars == <<session, memory, gate, prompts, minted, arriving, queue, turn,
          orphans, decisions, process, left, sent>>
\* What only inbound messages, crashes and the other disturbances change.
inboundVars == <<arriving, sent>>
outsideVars == <<inboundVars, left, process>>
approvalVars == <<gate, prompts, minted>>

Statuses == {"idle", "calling_model", "awaiting_approval", "completed", "failed"}

\* agentRunCheckpoint: the pause's request and the messages up to it.
Checkpoints == [req : Requests, history : Seq(Messages)]

ASSUME NoneAssumption == None \notin Messages \cup Requests \cup Checkpoints

Sessions ==
    [status : Statuses,
     pendingApproval : Requests \cup {None},
     checkpoint : Checkpoints \cup {None},
     inline : Requests \cup {None},        \* inlineApprovalRequestId
     messages : SUBSET Messages]           \* the transcript
Snapshots ==
    [checkpoint : Checkpoints \cup {None}, inline : Requests \cup {None},
     messages : SUBSET Messages]

\* A resumed run is also told the decision; only what the model reads depends
\* on it.
RunRequests == [content : Messages \cup {None}, req : Requests \cup {None}]

Decisions ==
    [req : Requests, approved : BOOLEAN, inline : BOOLEAN,
     step : {"expire", "clear", "decide", "apply", "resume"}]

\* Points at which DefaultAgentRuntime.activeRuns holds the turn's controller.
ActivePoints == {"running", "prompting", "pausing", "announcing", "arming",
                 "storing"}
Points == ActivePoints \cup
    {"idle", "loading", "starting", "asking", "sending", "blocked", "answered"}

Turns ==
    [point : Points,
     job : RunRequests,
     stored : Snapshots,              \* what the worker read of the session
     context : Seq(Messages),         \* the messages the turn works on
     asked : Requests \cup {None},    \* the approval it raised
     answer : BOOLEAN,                \* what waitFor returned
     aborted : BOOLEAN]               \* its AbortController

TypeOK ==
    /\ session \in Sessions
    /\ memory \in Seq(Messages)
    /\ gate \in [pending : SUBSET Requests, timers : SUBSET Requests]
    /\ prompts \subseteq Requests /\ orphans \subseteq Requests
    /\ minted \in 0..MaxRequests
    /\ queue \in Seq(RunRequests)
    /\ turn \in Turns
    /\ decisions \subseteq Decisions
    /\ process \in {"up", "down", "starting"}
    /\ left \in [Disturbances -> Nat]
    /\ arriving \subseteq Messages /\ sent \subseteq Messages

FreshSession ==
    [status |-> "idle", pendingApproval |-> None, checkpoint |-> None,
     inline |-> None, messages |-> {}]

Snapshot(s) ==
    [checkpoint |-> s.checkpoint, inline |-> s.inline, messages |-> s.messages]

NoTurn ==
    [point |-> "idle",
     job |-> [content |-> None, req |-> None],
     stored |-> Snapshot(FreshSession), context |-> <<>>, asked |-> None,
     answer |-> FALSE, aborted |-> FALSE]

EmptyGate == [pending |-> {}, timers |-> {}]

Init ==
    /\ session = FreshSession /\ memory = <<>>
    /\ gate = EmptyGate /\ prompts = {} /\ minted = 0
    /\ arriving = {} /\ queue = <<>> /\ turn = NoTurn /\ orphans = {}
    /\ decisions = {} /\ process = "up"
    /\ left = Budget /\ sent = {}

At(point) == turn.point = point
GoTo(point) == turn' = [turn EXCEPT !.point = point]
Spend(kind) == left[kind] > 0 /\ left' = [left EXCEPT ![kind] = @ - 1]

\* SessionStore.update: fields not named keep their values.
SetStatus(status) == session' = [session EXCEPT !.status = status]

-----------------------------------------------------------------------------
(* Messages and the start of a turn                                        *)

\* The inbound handler up to the harness: recordActivity replaces the
\* session's metadata by { harnessLastActiveAt }.
Inbound(m) ==
    /\ process = "up"
    /\ m \notin sent
    /\ sent' = sent \cup {m} /\ arriving' = arriving \cup {m}
    /\ session' = IF HarnessEnabled
                  THEN [session EXCEPT !.checkpoint = None, !.inline = None]
                  ELSE session
    /\ UNCHANGED <<memory, approvalVars, queue, turn, orphans, decisions, process, left>>

\* The rest of it: AGENT_RUN_REQUESTED.
Deliver(m) ==
    /\ m \in arriving
    /\ arriving' = arriving \ {m}
    /\ queue' = Append(queue, [content |-> m, req |-> None])
    /\ UNCHANGED <<session, memory, approvalVars, turn, orphans, decisions, process, left, sent>>

\* The worker takes the next request and reads the session.
BeginTurn ==
    /\ process = "up" /\ At("idle") /\ queue # <<>>
    /\ queue' = Tail(queue)
    /\ turn' = [NoTurn EXCEPT !.point = "loading", !.job = Head(queue),
                              !.stored = Snapshot(session)]
    /\ UNCHANGED <<session, memory, approvalVars, orphans, decisions,
                   outsideVars>>

MarkCalling ==
    /\ At("loading")
    /\ SetStatus("calling_model")
    /\ GoTo("starting")
    /\ UNCHANGED <<memory, approvalVars, queue, orphans, decisions,
                   outsideVars>>

EndTurn == turn' = NoTurn

\* failRun: the agent file cannot be loaded, or a resumed turn finds no
\* checkpoint.  With a vendor runtime a resume is a turn with empty input.
Resuming == turn.job.req # None
CannotResume == Runtime = "local" /\ Resuming /\ turn.stored.checkpoint = None

StartFails ==
    /\ At("starting")
    /\ SetStatus("failed")
    /\ EndTurn
    /\ UNCHANGED <<memory, approvalVars, queue, orphans, decisions,
                   outsideVars>>

\* The runtime assembles the messages of the turn: the checkpoint's when it
\* resumes, else the short-term history and the new message.
StartRun ==
    /\ At("starting") /\ ~CannotResume
    /\ turn' = [turn EXCEPT
           !.point = "running",
           !.context = IF Runtime = "local" /\ Resuming
                       THEN turn.stored.checkpoint.history
                       ELSE IF Resuming THEN memory
                       ELSE Append(memory, turn.job.content)]
    /\ UNCHANGED <<session, memory, approvalVars, queue, orphans, decisions,
                   outsideVars>>

-----------------------------------------------------------------------------
(* How a turn of the local runtime ends without a pause                    *)

\* The turn stored its conversation; the "done" event is on its way.  After the
\* model's final answer nobody looks at the signal again.
Complete ==
    /\ At("running")
    /\ GoTo("storing")
    /\ memory' = IF Runtime = "local" THEN turn.context ELSE memory
    /\ UNCHANGED <<session, approvalVars, queue, orphans, decisions,
                   outsideVars>>

\* The worker's branch for "done": everything but the status comes from the
\* snapshot the turn began with.
WorkerDone ==
    /\ At("storing")
    /\ session' = [status |-> "completed", pendingApproval |-> None,
                   checkpoint |-> None, inline |-> turn.stored.inline,
                   messages |-> turn.stored.messages \cup
                                  ({turn.job.content} \ {None})]
    /\ EndTurn
    /\ UNCHANGED <<memory, approvalVars, queue, orphans, decisions,
                   outsideVars>>

\* Mutant: only the user's message is stored (audit G-01).
MessageAlone ==
    IF Runtime = "local" /\ ~Resuming THEN <<turn.job.content>> ELSE memory

\* unfinishedTurnHistory: what an unfinished turn leaves in memory.
UnfinishedHistory ==
    IF Runtime = "local" /\ ~Resuming THEN turn.context ELSE memory

\* The model fails or the stop aborts it: an "error" event, then failRun.
FailTurn ==
    /\ At("running")
    /\ memory' = UnfinishedHistory
    /\ SetStatus("failed")
    /\ EndTurn
    /\ UNCHANGED <<approvalVars, queue, orphans, decisions, outsideVars>>

-----------------------------------------------------------------------------
(* Pauses of the local runtime                                             *)

Mint == minted < MaxRequests /\ minted' = minted + 1

\* Mutant: the prompt is sent without telling the gate (issue #68).
Unregistered(r) == UNCHANGED gate

Register(r) == gate' = [gate EXCEPT !.pending = @ \cup {r}]

\* Mutant: the timer is forgotten.
WithoutTimer(g, r) == g

\* ApprovalGate.scheduleTimeout
WithTimer(g, r) == IF TimeoutsOn THEN [g EXCEPT !.timers = @ \cup {r}] ELSE g

\* A tool call stops at the first-call gate and returns pending_approval, with
\* a new request id as every tool does that returns it.
PauseAtPolicy ==
    /\ Runtime = "local" /\ At("running") /\ ~turn.aborted
    /\ Mint
    /\ turn' = [turn EXCEPT !.point = "pausing", !.asked = minted']
    /\ UNCHANGED <<session, memory, gate, prompts, queue, orphans, decisions, outsideVars>>

\* The model calls anvio_channel__request_approval: the request is pending,
\* its prompt is being sent.
PauseAtHarness ==
    /\ HarnessEnabled
    /\ Runtime = "local" /\ At("running") /\ ~turn.aborted
    /\ Mint /\ Register(minted')
    /\ prompts' = prompts \cup {minted'}
    /\ turn' = [turn EXCEPT !.point = "prompting", !.asked = minted']
    /\ UNCHANGED <<session, memory, queue, orphans, decisions,
                   outsideVars>>

\* The prompt was sent: scheduleTimeout, and the tool marks the session.
MarkAwaiting(r) ==
    session' = [session EXCEPT !.status = "awaiting_approval",
                               !.pendingApproval = r]
PromptSent ==
    /\ At("prompting") /\ ~turn.aborted
    /\ gate' = WithTimer(gate, turn.asked)
    /\ MarkAwaiting(turn.asked)
    /\ GoTo("pausing")
    /\ UNCHANGED <<memory, prompts, minted, queue, orphans, decisions,
                   outsideVars>>

\* The same call after the stop: the round no longer waits for it (abortable),
\* but the call itself goes on.
AbortPrompting ==
    /\ At("prompting") /\ turn.aborted
    /\ orphans' = orphans \cup {turn.asked}
    /\ memory' = UnfinishedHistory
    /\ SetStatus("failed")
    /\ EndTurn
    /\ UNCHANGED <<approvalVars, queue, decisions, outsideVars>>
OrphanFinishes(r) ==
    /\ r \in orphans
    /\ orphans' = orphans \ {r}
    /\ gate' = WithTimer(gate, r)
    /\ MarkAwaiting(r)
    /\ UNCHANGED <<memory, prompts, minted, queue, turn, decisions,
                   outsideVars>>

\* Sending that prompt throws, perhaps after it got there: the request stays in
\* the gate without a timer, and the error ends the turn, if it still waits.
PromptNotSent ==
    /\ At("prompting") /\ ~turn.aborted
    /\ Spend("sendFailure")
    /\ memory' = UnfinishedHistory
    /\ SetStatus("failed")
    /\ EndTurn
    /\ UNCHANGED <<approvalVars, queue, orphans, decisions, inboundVars, process>>

OrphanNotSent(r) ==
    /\ r \in orphans
    /\ Spend("sendFailure")
    /\ orphans' = orphans \ {r}
    /\ UNCHANGED <<session, memory, approvalVars, queue, turn, decisions, inboundVars, process>>

\* Mutants: the checkpoint does not say whose it is; it is not saved.
CheckpointUnnamed == [req |-> None, history |-> turn.context]
CheckpointNotSaved == turn.stored.checkpoint

CheckpointOfTurn == [req |-> turn.asked, history |-> turn.context]

\* The worker's branch for "approval_required".
WorkerPause ==
    /\ At("pausing")
    /\ session' = [session EXCEPT !.status = "awaiting_approval",
                                  !.pendingApproval = turn.asked,
                                  !.checkpoint = CheckpointOfTurn,
                                  !.inline = turn.stored.inline]
    /\ GoTo("announcing")
    /\ UNCHANGED <<memory, approvalVars, queue, orphans, decisions,
                   outsideVars>>

\* The request goes to the channel: with the harness through the gate.
Announce ==
    /\ At("announcing")
    /\ IF HarnessEnabled THEN Register(turn.asked) ELSE UNCHANGED gate
    /\ prompts' = prompts \cup {turn.asked}
    /\ GoTo("arming")
    /\ UNCHANGED <<session, memory, minted, queue, orphans, decisions,
                   outsideVars>>

\* Sending it throws: deliver() logs that and the turn ends all the same.
AnnounceFails ==
    /\ At("announcing")
    /\ IF HarnessEnabled THEN Register(turn.asked) ELSE UNCHANGED gate
    /\ Spend("sendFailure")
    /\ memory' = UnfinishedHistory
    /\ EndTurn
    /\ UNCHANGED <<session, prompts, minted, queue, orphans, decisions,
                   inboundVars, process>>

\* requestApproval schedules the timeout once the prompt is out.
Arm ==
    /\ At("arming")
    /\ gate' = IF HarnessEnabled THEN WithTimer(gate, turn.asked) ELSE gate
    /\ memory' = UnfinishedHistory
    /\ EndTurn
    /\ UNCHANGED <<session, prompts, minted, queue, orphans, decisions,
                   outsideVars>>

-----------------------------------------------------------------------------
(* Approvals of a vendor runtime: HarnessGateway.requestApprovalAndWait    *)

AskInline ==
    /\ Runtime = "vendor" /\ HarnessEnabled /\ At("running")
    /\ Mint
    /\ session' = [session EXCEPT !.status = "awaiting_approval",
                                  !.pendingApproval = minted',
                                  !.inline = minted']
    /\ turn' = [turn EXCEPT !.point = "asking", !.asked = minted']
    /\ UNCHANGED <<memory, gate, prompts, queue, orphans, decisions,
                   outsideVars>>

PromptInline ==
    /\ At("asking")
    /\ Register(turn.asked)
    /\ prompts' = prompts \cup {turn.asked}
    /\ GoTo("sending")
    /\ UNCHANGED <<session, memory, minted, queue, orphans, decisions,
                   outsideVars>>

\* waitFor answers false when the request is no longer pending.
WaitFor ==
    /\ At("sending")
    /\ gate' = WithTimer(gate, turn.asked)
    /\ turn' = IF turn.asked \in gate.pending
               THEN [turn EXCEPT !.point = "blocked"]
               ELSE [turn EXCEPT !.point = "answered", !.answer = FALSE]
    /\ UNCHANGED <<session, memory, prompts, minted, queue, orphans, decisions, outsideVars>>

\* Sending it throws: the vendor's permission handler takes that for a denial
\* and the turn goes on; the session stays marked, the request in the gate.
PromptInlineNotSent ==
    /\ At("sending")
    /\ Spend("sendFailure")
    /\ GoTo("running")
    /\ UNCHANGED <<session, memory, approvalVars, queue, orphans, decisions, inboundVars, process>>

\* LocalEventBus calls the worker's handler, which reads the session, before
\* the woken turn has read and written it; over NATS either may be first.
HandlerReadsFirst ==
    \E d \in decisions :
        /\ LocalBus /\ d.inline /\ d.req = turn.asked
        /\ d.step \in {"clear", "decide"}

Continue ==
    /\ At("answered") /\ ~HandlerReadsFirst
    /\ session' = [session EXCEPT !.status = "calling_model",
                                  !.pendingApproval = None, !.inline = None]
    /\ GoTo("running")
    /\ UNCHANGED <<memory, approvalVars, queue, orphans, decisions,
                   outsideVars>>

\* Mutant: nobody wakes the waiter.
SettleNobody(r, ok) == turn

\* settleWaiters: the turn blocked on r goes on with the answer.
SettleWaiters(r, ok) ==
    IF At("blocked") /\ turn.asked = r
    THEN [turn EXCEPT !.point = "answered", !.answer = ok]
    ELSE turn

-----------------------------------------------------------------------------
(* Decisions                                                               *)

Decision(r, ok, inline, step) ==
    [req |-> r, approved |-> ok, inline |-> inline, step |-> step]
Advance(d, step) ==
    decisions' = (decisions \ {d}) \cup {[d EXCEPT !.step = step]}

\* An approver presses a button: HarnessGateway.resolveApproval up to
\* ApprovalGate.resolve, which turns down what is not pending.
Click(r, ok) ==
    /\ process = "up" /\ HarnessEnabled
    /\ r \in prompts /\ r \in gate.pending
    /\ gate' = [pending |-> gate.pending \ {r}, timers |-> gate.timers \ {r}]
    /\ turn' = SettleWaiters(r, ok)
    /\ decisions' = decisions \cup {Decision(r, ok, session.inline = r, "clear")}
    /\ UNCHANGED <<session, memory, prompts, minted, queue, orphans, outsideVars>>

\* Without the harness a button press is not checked against anything.
ClickUngated(r, ok) ==
    /\ process = "up" /\ ~HarnessEnabled
    /\ r \in prompts
    /\ Spend("click")
    /\ decisions' = decisions \cup {Decision(r, ok, FALSE, "clear")}
    /\ UNCHANGED <<session, memory, approvalVars, queue, turn, orphans, inboundVars, process>>

\* A person types "approve" or "reject" in Slack, Discord, Mattermost or
\* WhatsApp: the adapter passes no user id, so the gate is not asked.
TextReply(ok) ==
    /\ process = "up"
    /\ session.pendingApproval # None
    /\ Spend("text")
    /\ decisions' = decisions \cup
           {Decision(session.pendingApproval, ok, FALSE, "clear")}
    /\ UNCHANGED <<session, memory, approvalVars, queue, turn, orphans, inboundVars, process>>

\* handleTimeout: denied by system:timeout.
Expire(r) ==
    /\ r \in gate.timers /\ r \in gate.pending
    /\ gate' = [pending |-> gate.pending \ {r}, timers |-> gate.timers \ {r}]
    /\ turn' = SettleWaiters(r, FALSE)
    /\ decisions' = decisions \cup {Decision(r, FALSE, FALSE, "expire")}
    /\ UNCHANGED <<session, memory, prompts, minted, queue, orphans, outsideVars>>

\* onApprovalTimedOut; its metadata replaces what the session had.
ExpireSession(d) ==
    /\ d \in decisions /\ d.step = "expire"
    /\ session' = [session EXCEPT !.pendingApproval = None,
                                  !.status = "failed",
                                  !.checkpoint = None, !.inline = None]
    /\ Advance(d, "decide")
    /\ UNCHANGED <<memory, approvalVars, queue, turn, orphans, outsideVars>>

\* The rest of resolveApproval, or onApproval without the gate.
ClearPending(d) ==
    /\ d \in decisions /\ d.step = "clear"
    /\ session' = IF d.inline THEN session
                  ELSE [session EXCEPT !.pendingApproval = None]
    /\ Advance(d, "decide")
    /\ UNCHANGED <<memory, approvalVars, queue, turn, orphans, outsideVars>>

TurnIsWaiting(d) == session.inline = d.req

\* The worker's APPROVAL_DECIDED handler reads the session and leaves a
\* decision to the turn that waits for it.  Before the worker has subscribed
\* nobody hears it.
Decide(d) ==
    /\ d \in decisions /\ d.step = "decide"
    /\ IF process = "up" /\ ~TurnIsWaiting(d)
       THEN Advance(d, "apply")
       ELSE decisions' = decisions \ {d}
    /\ UNCHANGED <<session, memory, approvalVars, queue, turn, orphans, outsideVars>>

\* Mutant: the run is not dispatched again.
NoResume(d) == queue

ResumeQueue(d) == Append(queue, [content |-> None, req |-> d.req])

\* The decision is written to the session, and then the run is published.
Apply(d) ==
    /\ d \in decisions /\ d.step = "apply"
    /\ session' = [session EXCEPT !.pendingApproval = None,
                                  !.status = "calling_model"]
    /\ Advance(d, "resume")
    /\ UNCHANGED <<memory, approvalVars, queue, turn, orphans, outsideVars>>

Resume(d) ==
    /\ d \in decisions /\ d.step = "resume"
    /\ queue' = ResumeQueue(d)
    /\ decisions' = decisions \ {d}
    /\ UNCHANGED <<session, memory, approvalVars, turn, orphans, outsideVars>>

-----------------------------------------------------------------------------
(* Stop requests, /reset, and the end of a process                           *)

\* AGENT_RUN_STOP_REQUESTED: only the local runtime has a run to abort.
Stop ==
    /\ process = "up"
    /\ Spend("stop")
    /\ turn' = IF Runtime = "local" /\ turn.point \in ActivePoints
               THEN [turn EXCEPT !.aborted = TRUE] ELSE turn
    /\ SetStatus("failed")
    /\ UNCHANGED <<memory, approvalVars, queue, orphans, decisions,
                   inboundVars, process>>

\* /reset
Reset ==
    /\ process = "up"
    /\ Spend("reset")
    /\ session' = [FreshSession EXCEPT !.inline = session.inline]
    /\ UNCHANGED <<memory, approvalVars, queue, turn, orphans, decisions, inboundVars, process>>

\* The process dies: what it kept in its own memory is gone.
Crash ==
    /\ process = "up"
    /\ Spend("crash")
    /\ process' = "down"
    /\ gate' = EmptyGate /\ arriving' = {} /\ queue' = <<>> /\ turn' = NoTurn
    /\ orphans' = {} /\ decisions' = {}
    /\ UNCHANGED <<session, memory, prompts, minted, sent>>

\* It starts again: rehydrateApprovals puts the approval the session waits for
\* back into the gate, with what is left of its time, or times it out.
Restart ==
    /\ process = "down"
    /\ process' = "starting"
    /\ LET r == session.pendingApproval IN
       \/ /\ HarnessEnabled /\ r # None
          /\ gate' = [pending |-> {r}, timers |-> {r}]
          /\ UNCHANGED decisions
       \/ /\ HarnessEnabled /\ r # None
          /\ decisions' = decisions \cup {Decision(r, FALSE, FALSE, "expire")}
          /\ UNCHANGED gate
       \/ /\ ~HarnessEnabled \/ r = None
          /\ UNCHANGED <<gate, decisions>>
    /\ UNCHANGED <<session, memory, prompts, minted, queue, turn, orphans,
                   inboundVars, left>>

\* Mutant: the session is left as it was.
Unrepaired == session

\* repairInterruptedSessions
Repaired ==
    IF session.status = "calling_model"
    THEN [session EXCEPT !.status = "failed"] ELSE session

\* registerGatewayWorker: repair, then subscribe.
StartWorker ==
    /\ process = "starting"
    /\ session' = Repaired
    /\ process' = "up"
    /\ UNCHANGED <<memory, approvalVars, queue, turn, orphans, decisions, inboundVars, left>>

-----------------------------------------------------------------------------
LocalTurnStep ==
    \/ PauseAtPolicy \/ PauseAtHarness
    \/ PromptSent \/ AbortPrompting \/ WorkerPause \/ Announce \/ Arm

VendorTurnStep == AskInline \/ PromptInline \/ WaitFor \/ Continue

TurnStep ==
    \/ BeginTurn \/ MarkCalling \/ StartFails \/ StartRun
    \/ Complete \/ WorkerDone \/ FailTurn
    \/ LocalTurnStep \/ VendorTurnStep

\* Decisions carry a record, so the quantifier ranges over those on their way.
DecisionStep ==
    \E d \in decisions :
        ExpireSession(d) \/ ClearPending(d) \/ Decide(d) \/ Apply(d) \/ Resume(d)

PromptFails ==
    \/ AnnounceFails \/ PromptNotSent \/ PromptInlineNotSent
    \/ \E r \in Requests : OrphanNotSent(r)

Disturbance ==
    \/ \E r \in Requests, ok \in BOOLEAN : ClickUngated(r, ok)
    \/ \E ok \in BOOLEAN : TextReply(ok)
    \/ PromptFails \/ Stop \/ Reset \/ Crash

\* Nothing is left that the code would do by itself.
Quiet ==
    /\ At("idle") /\ queue = <<>> /\ arriving = {} /\ decisions = {}
    /\ orphans = {} /\ process = "up"
Rest == Quiet /\ UNCHANGED vars

Next ==
    \/ \E m \in Messages : Inbound(m) \/ Deliver(m)
    \/ TurnStep \/ DecisionStep
    \/ \E r \in Requests :
           \/ Expire(r) \/ OrphanFinishes(r)
           \/ \E ok \in BOOLEAN : Click(r, ok)
    \/ Disturbance \/ Restart \/ StartWorker
    \/ Rest

\* What the event loop does by itself: turns go on, handlers run to their end,
\* timers fire.  No person has to write, answer or stop, and nothing but the
\* approval ids ends a turn that keeps asking, which MaxRequests bounds.
Fairness ==
    /\ \A m \in Messages : WF_vars(Deliver(m))
    /\ WF_vars(TurnStep)
    /\ WF_vars(DecisionStep)
    /\ \A r \in Requests : WF_vars(Expire(r))

Spec == Init /\ [][Next]_vars
FairSpec == Spec /\ Fairness

-----------------------------------------------------------------------------
(* Properties                                                              *)

\* A session is marked in progress only while a turn of it runs, waits to run
\* or is being published by the handler of a decision, also after a crash and a
\* restart (repairInterruptedSessions).
NoOrphanInProgress ==
    session.status = "calling_model" /\ process = "up"
        => \/ ~At("idle") \/ queue # <<>>
           \/ \E d \in decisions : d.step = "resume"

\* A session that waits for an approval, when the code is done with it, waits
\* for one that can still be given: its request is the one the gate holds
\* ("awaiting_approval is a real paused state", gateway-worker.ts).
AwaitingIsPaused ==
    Quiet /\ session.status = "awaiting_approval" =>
        /\ session.pendingApproval # None
        /\ HarnessEnabled => session.pendingApproval \in gate.pending

\* And with the local runtime the answer finds the turn it belongs to: the
\* checkpoint is there and is that request's (registerRuntimeApproval).
PausedIsResumable ==
    Quiet /\ session.status = "awaiting_approval" =>
        /\ session.checkpoint # None
        /\ session.checkpoint.req = session.pendingApproval

\* Whatever happens to a turn of a message -- an error, a stop, a pause -- it
\* adds that message to the short-term history and drops nothing (audit G-01).
HistoryGrowsByTheMessage ==
    [][memory' # memory /\ turn.job.content # None
           => memory' = Append(memory, turn.job.content)]_vars

\* A turn blocked on an approval can still be woken: its request is pending
\* (ApprovalGate.waitFor; every path that takes it out settles the waiters).
NoLostWakeup == At("blocked") => turn.asked \in gate.pending

\* With timeouts on, no session waits for a person for ever.
AwaitingEnds == []<>(session.status # "awaiting_approval")

\* Every message gets its turn, also behind turns that pause, block or fail.
EveryMessageServed ==
    \A m \in Messages : m \in arriving ~> turn.job.content = m

\* An answer to an approval a vendor turn waits for does not dispatch the run
\* again (comment of the APPROVAL_DECIDED handler, gateway-worker.ts:144-146).
NoRedispatch ==
    Runtime = "vendor" => \A i \in DOMAIN queue : queue[i].req = None

\* What waitFor gives the turn is what the gate accepted, however fast the
\* answer came (gateway.ts:295-298).
AnswerIsHonoured ==
    \A d \in decisions :
        At("answered") /\ d.req = turn.asked => turn.answer = d.approved

\* A decision resumes the pause it was made for: "`resolve` and
\* `session.pendingApproval.id` must agree (issue #68)" (gateway.ts:261-262).
DecisionResumesItsPause ==
    Runtime = "local" /\ At("starting") /\ Resuming /\ ~CannotResume
        => turn.stored.checkpoint.req = turn.job.req

\* A turn that paused resumes after the decision (docs/07-mcp.md:14): the
\* resumed run finds its checkpoint.
DecidedTurnResumes == At("starting") => ~CannotResume

\* A turn adds its own message to the transcript and nothing else: what a
\* reset cleared stays cleared (core/src/ports/slash-command.port.ts:37-38).
ResetSticks ==
    [][\A m \in Messages :
          m \in session'.messages \ session.messages => m = turn.job.content]_vars

\* The short-term history never loses a message: "so the next turn still sees
\* both" (agents/src/runtime.ts:377).
HistoryNeverShrinks ==
    [][\A i \in DOMAIN memory : i \in DOMAIN memory' /\ memory'[i] = memory[i]]_vars

\* A turn blocked on an approval is woken when a person answers on the channel
\* (runtime-approval.port.ts:8-9).
AnswerWakesTurn ==
    \A d \in Decisions :
        (d \in decisions /\ At("blocked") /\ turn.asked = d.req)
            ~> ~(At("blocked") /\ turn.asked = d.req)
=============================================================================
