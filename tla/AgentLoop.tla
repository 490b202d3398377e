----------------------------- MODULE AgentLoop -----------------------------
(***************************************************************************)
(* The tool loop of DefaultAgentRuntime                                    *)
(* (packages/agents/src/runtime.ts, tool-round.ts, run-checkpoint.ts): the *)
(* turns of one session, the model calls and tool calls of each, pauses    *)
(* for an approval and their resumption, stop(), and what is left in the   *)
(* short-term history.  A turn is an async generator: it moves between its *)
(* awaits and yields, and its consumer can keep it waiting at a yield or   *)
(* leave it there.                                                         *)
(***************************************************************************)
EXTENDS Integers, Sequences, FiniteSets

CONSTANTS
    Turns,         \* the user messages a session gets, each run as a turn
    None,
    Queued,        \* TRUE: the consumer starts a turn when the last one is out
    MaxIterations, \* maxToolIterations
    MaxCalls,      \* bound: tool calls in one answer of the model
    MaxStops,      \* bound: calls of stop()
    MaxPauses      \* bound: approvals asked for

ASSUME NoneAssumption == None \notin Turns
ASSUME QueuedAssumption == Queued \in BOOLEAN
ASSUME LoopAssumption == MaxIterations \in Nat \ {0} /\ MaxCalls \in Nat \ {0}
ASSUME BoundAssumption == MaxStops \in Nat /\ MaxPauses \in Nat

VARIABLES
    turn,      \* the generator of each turn
    activeRuns, \* the turn whose AbortController is registered
    history,   \* the short-term memory of the session
    ran,       \* history: the tool calls that were executed to their end
    used       \* how much of the bounds is used up

vars == <<turn, activeRuns, history, ran, used>>

\* A tool call: which turn asked for it, in which iteration, at which place.
Calls == Turns \X (0..MaxIterations) \X (1..MaxCalls)

\* Messages.  An assistant turn with tool calls is pushed together with the
\* messages of all its calls: `told` has one entry per call in order, TRUE
\* for a real result and FALSE for "not executed".
Said(role, t) == [role |-> role, turn |-> t, at |-> 0, asked |-> 0, told |-> <<>>]
Round(t, i, n, told) ==
    [role |-> "round", turn |-> t, at |-> i, asked |-> n, told |-> told]
Message == [role : {"user", "assistant", "decision", "round"}, turn : Turns,
            at : 0..MaxIterations, asked : 0..MaxCalls, told : Seq(BOOLEAN)]

Running == {"preparing", "looping", "calling", "checking", "announcing",
            "executing", "handing", "storing", "reporting"}
Ended == {"completed", "failed", "busy"}

\* messages: what the next model call will be sent; asked, told: the round of
\* tool calls under way; unfinished: the history to keep should the turn not
\* complete, while `keeps`; result: what the turn ended with; modelCalls:
\* history, the calls of the model.
Turn == [at : {"new", "paused", "closing"} \cup Running \cup Ended,
         resuming : BOOLEAN, stopped : BOOLEAN, messages : Seq(Message),
         iteration : 0..MaxIterations, asked : 0..MaxCalls,
         told : Seq(BOOLEAN), keeps : BOOLEAN, unfinished : Seq(Message),
         result : {"none", "completed", "failed", "paused"}, modelCalls : Nat]

TypeOK ==
    /\ turn \in [Turns -> Turn]
    /\ activeRuns \in Turns \cup {None}
    /\ history \in Seq(Message)
    /\ ran \subseteq Calls
    /\ used \in [stops : 0..MaxStops, pauses : 0..MaxPauses]

NewTurn == [at |-> "new", resuming |-> FALSE, stopped |-> FALSE,
            messages |-> <<>>, iteration |-> 0, asked |-> 0, told |-> <<>>,
            keeps |-> FALSE, unfinished |-> <<>>, result |-> "none",
            modelCalls |-> 0]

At(t, place) == turn[t].at = place
Goes(t, place) == turn' = [turn EXCEPT ![t].at = place]

-----------------------------------------------------------------------------
(* The end of a generator *)

\* An error event is yielded: the turn is over, its controller registered until
\* the consumer comes back.
EndsWith(t, result) ==
    turn' = [turn EXCEPT ![t] =
               [@ EXCEPT !.at = "reporting", !.result = result,
                         !.asked = 0, !.told = <<>>]]

\* Mutant: a tool call is awaited as it is, without the signal.
NotInTool(t) == turn[t].at \in {"calling", "checking"}

LooksAtSignal(t) == turn[t].at \in {"calling", "checking", "executing"}

\* stop() ends a turn that looks at its signal here; the loop does not look
\* once its iterations are used up.
StopLands(t) ==
    /\ turn[t].stopped
    /\ \/ LooksAtSignal(t)
       \/ At(t, "looping") /\ turn[t].iteration < MaxIterations
    /\ EndsWith(t, "failed")
    /\ UNCHANGED <<activeRuns, history, ran, used>>

\* An error nobody handles: preparing the turn or reading its checkpoint, a
\* model call that fails before any content, a tool that throws, a history
\* that cannot be stored.
Fails(t) ==
    /\ turn[t].at \in {"preparing", "calling", "executing", "storing"}
    /\ EndsWith(t, "failed")
    /\ UNCHANGED <<activeRuns, history, ran, used>>

\* finally: the controller is dropped first.
Leaves(t, result) ==
    /\ activeRuns' = None
    /\ turn' = [turn EXCEPT ![t] =
                  [@ EXCEPT !.at = "closing", !.result = result,
                            !.asked = 0, !.told = <<>>]]

\* The consumer has read the last event.
Finally(t) ==
    /\ At(t, "reporting")
    /\ Leaves(t, turn[t].result)
    /\ UNCHANGED <<history, ran, used>>

\* The consumer stops reading at a yield: generator.return().
ConsumerLeaves(t) ==
    /\ turn[t].at \in {"preparing", "looping", "calling", "announcing",
                       "handing", "storing"}
    /\ Leaves(t, "failed")
    /\ UNCHANGED <<history, ran, used>>

HistoryAfter(k) == k.unfinished

\* ... and then the history of an unfinished turn is stored, which may fail
\* without changing how the turn ended.
Closes(t) ==
    /\ At(t, "closing")
    /\ \/ UNCHANGED history
       \/ turn[t].keeps /\ history' = HistoryAfter(turn[t])
    /\ turn' = [turn EXCEPT ![t] =
         IF @.result = "paused"
         THEN [@ EXCEPT !.at = "paused", !.stopped = FALSE, !.keeps = FALSE,
                        !.unfinished = <<>>, !.result = "none"]
         ELSE [NewTurn EXCEPT !.at = turn[t].result,
                              !.modelCalls = turn[t].modelCalls]]
    /\ UNCHANGED <<activeRuns, ran, used>>

-----------------------------------------------------------------------------
(* The start *)

\* Whether every other turn of the session is out of its generator.
OthersAreOut(t) == \A u \in Turns \ {t} : turn[u].at \notin Running \cup {"closing"}

\* Mutant: the turn that finds another one running takes over its entry.
TakesOver(t) == activeRuns' = t

RefusedEntry(t) == UNCHANGED activeRuns

\* stream(): a second turn of a session that is running is refused.
Start(t) ==
    /\ At(t, "new") \/ (At(t, "paused") /\ turn[t].resuming)
    /\ Queued => OthersAreOut(t)
    /\ IF activeRuns # None
       THEN Goes(t, "busy") /\ RefusedEntry(t)
       ELSE Goes(t, "preparing") /\ activeRuns' = t
    /\ UNCHANGED <<history, ran, used>>

\* Mutant: a resumed run starts counting again.
FromTheStart(k) == 0

ResumeIteration(k) == k.iteration

\* The history and the user message, or the checkpoint and the decision.
Assemble(t) ==
    /\ At(t, "preparing")
    /\ turn' = [turn EXCEPT ![t] =
         IF turn[t].resuming
         THEN [@ EXCEPT !.at = "looping", !.resuming = FALSE,
                        !.messages = Append(turn[t].messages, Said("decision", t)),
                        !.iteration = ResumeIteration(turn[t])]
         ELSE [@ EXCEPT !.at = "looping", !.keeps = TRUE,
                        !.messages = Append(history, Said("user", t)),
                        !.unfinished = Append(history, Said("user", t))]]
    /\ UNCHANGED <<activeRuns, history, ran, used>>

-----------------------------------------------------------------------------
(* The loop *)

CallModel(t) ==
    /\ At(t, "looping") /\ ~turn[t].stopped
    /\ turn[t].iteration < MaxIterations
    /\ turn' = [turn EXCEPT ![t] =
                  [@ EXCEPT !.at = "calling",
                            !.modelCalls = turn[t].modelCalls + 1]]
    /\ UNCHANGED <<activeRuns, history, ran, used>>

\* An answer without tool calls, one that broke off after some content, or
\* any answer when there are no tools.
Answers(t) ==
    /\ At(t, "calling") /\ ~turn[t].stopped
    /\ Goes(t, "storing")
    /\ UNCHANGED <<activeRuns, history, ran, used>>

AsksForTools(t) ==
    /\ At(t, "calling") /\ ~turn[t].stopped
    /\ \E n \in 1..MaxCalls :
         turn' = [turn EXCEPT ![t] =
                    [@ EXCEPT !.at = "checking", !.asked = n, !.told = <<>>]]
    /\ UNCHANGED <<activeRuns, history, ran, used>>

\* No iterations are left and the model still asks for tools.
HitsLimit(t) ==
    /\ At(t, "looping")
    /\ turn[t].iteration = MaxIterations
    /\ Goes(t, "storing")
    /\ UNCHANGED <<activeRuns, history, ran, used>>

\* storeConversation, then done.
Store(t) ==
    /\ At(t, "storing")
    /\ history' = Append(turn[t].messages, Said("assistant", t))
    /\ turn' = [turn EXCEPT ![t] =
                  [@ EXCEPT !.at = "reporting", !.result = "completed",
                            !.keeps = FALSE, !.unfinished = <<>>]]
    /\ UNCHANGED <<activeRuns, ran, used>>

-----------------------------------------------------------------------------
(* executeToolRound *)

\* The signal is looked at, then "Running <tool>" goes to the consumer.
AnnounceTool(t) ==
    /\ At(t, "checking") /\ ~turn[t].stopped
    /\ Goes(t, "announcing")
    /\ UNCHANGED <<activeRuns, history, ran, used>>

\* The consumer comes back: the tool is called, whatever became of the signal.
CallTool(t) ==
    /\ At(t, "announcing")
    /\ Goes(t, "executing")
    /\ UNCHANGED <<activeRuns, history, ran, used>>

\* What is pushed to the messages after a round.
RoundOf(t, told) == Round(t, turn[t].iteration, turn[t].asked, told)

NextCall(t) == <<t, turn[t].iteration, Len(turn[t].told) + 1>>

ToolReturns(t) ==
    /\ At(t, "executing") /\ ~turn[t].stopped
    /\ ran' = ran \cup {NextCall(t)}
    /\ LET told == Append(turn[t].told, TRUE)
       IN  turn' = [turn EXCEPT ![t] =
             IF Len(told) < turn[t].asked
             THEN [@ EXCEPT !.at = "checking", !.told = told]
             ELSE [@ EXCEPT !.at = "looping", !.asked = 0, !.told = <<>>,
                            !.messages = Append(turn[t].messages, RoundOf(t, told)),
                            !.iteration = turn[t].iteration + 1]]
    /\ UNCHANGED <<activeRuns, history, used>>

\* Mutant: the checkpoint says nothing of the calls that ran before the pause.
NothingRan(t) == [i \in 1..turn[t].asked |-> FALSE]

\* Mutant: only the calls up to the one that waits get a message.
UpToThePause(t) == Append(turn[t].told, FALSE)

\* The results so far; the call that waits and those after it did not run.
ToldAtPause(t) ==
    [i \in 1..turn[t].asked |->
        IF i <= Len(turn[t].told) THEN turn[t].told[i] ELSE FALSE]

\* The tool asks for approval: the round ends here, and the checkpoint goes to
\* the consumer with the request.
ToolPends(t) ==
    /\ At(t, "executing") /\ ~turn[t].stopped
    /\ used.pauses < MaxPauses
    /\ used' = [used EXCEPT !.pauses = @ + 1]
    /\ turn' = [turn EXCEPT ![t] =
         [@ EXCEPT !.at = "handing", !.asked = 0, !.told = <<>>,
                   !.messages = Append(turn[t].messages, RoundOf(t, ToldAtPause(t))),
                   !.iteration = turn[t].iteration + 1]]
    /\ UNCHANGED <<activeRuns, history, ran>>

\* The consumer has saved the checkpoint and announced the request.
Pauses(t) ==
    /\ At(t, "handing")
    /\ Leaves(t, "paused")
    /\ UNCHANGED <<history, ran, used>>

-----------------------------------------------------------------------------
(* The outside *)

\* resume() with the decision on a paused turn.
Decide(t) ==
    /\ At(t, "paused") /\ ~turn[t].resuming
    /\ turn' = [turn EXCEPT ![t].resuming = TRUE]
    /\ UNCHANGED <<activeRuns, history, ran, used>>

\* stop() of the session reaches the turn that is registered, if any.
Stop ==
    /\ used.stops < MaxStops
    /\ used' = [used EXCEPT !.stops = @ + 1]
    /\ turn' = IF activeRuns = None THEN turn
               ELSE [turn EXCEPT ![activeRuns].stopped = TRUE]
    /\ UNCHANGED <<activeRuns, history, ran>>

\* The tool call of a stopped turn is no longer waited for; a tool that pays no
\* heed to the signal runs on all the same.
AbandonedToolRuns(t) ==
    /\ At(t, "executing") /\ turn[t].stopped
    /\ ran' = ran \cup {NextCall(t)}
    /\ EndsWith(t, "failed")
    /\ UNCHANGED <<activeRuns, history, used>>

-----------------------------------------------------------------------------
Init ==
    /\ turn = [t \in Turns |-> NewTurn]
    /\ activeRuns = None
    /\ history = <<>>
    /\ ran = {}
    /\ used = [stops |-> 0, pauses |-> 0]

\* What a turn does without its model and its tools, its consumer reading on.
OwnSteps(t) ==
    \/ Assemble(t) \/ CallModel(t) \/ HitsLimit(t) \/ Store(t)
    \/ AnnounceTool(t) \/ CallTool(t) \/ Pauses(t)
    \/ StopLands(t) \/ Finally(t) \/ Closes(t)

\* What the model and the tools do to it.
ModelAndTools(t) ==
    \/ Answers(t) \/ AsksForTools(t)
    \/ ToolReturns(t) \/ ToolPends(t) \/ AbandonedToolRuns(t)

Next ==
    \/ \E t \in Turns :
          \/ Start(t) \/ OwnSteps(t) \/ ModelAndTools(t) \/ Fails(t)
          \/ ConsumerLeaves(t) \/ Decide(t)
    \/ Stop

Spec == Init /\ [][Next]_vars

\* The memory and the consumer answer.  Nothing is said of the model and the
\* tools: a call of either may hang for ever.
FairSpec == Spec /\ \A t \in Turns : WF_vars(OwnSteps(t))

-----------------------------------------------------------------------------
(* Properties *)

\* Every conversation that is sent to a model or kept for the next turn has one
\* message for each tool call, in call order: providers refuse a request with
\* a call that is not answered.
OneMessagePerCall(messages) ==
    \A j \in DOMAIN messages :
        messages[j].role = "round" => Len(messages[j].told) = messages[j].asked

CallsAreAnswered ==
    /\ OneMessagePerCall(history)
    /\ \A t \in Turns : OneMessagePerCall(turn[t].messages)

ToldAsRun(t) ==
    {c \in Calls :
        /\ c[1] = t
        /\ \E j \in DOMAIN turn[t].messages :
             LET m == turn[t].messages[j]
             IN  /\ m.role = "round" /\ m.turn = t /\ m.at = c[2]
                 /\ c[3] \in DOMAIN m.told
                 /\ m.told[c[3]]}

\* When a model is asked to go on, it is told of every tool call of the turn
\* that ran, across pauses too, and of no other; what it is not told of it
\* would ask for again (audit CQ-004).
ModelKnowsWhatRan ==
    \A t \in Turns :
        At(t, "calling") => ToldAsRun(t) = {c \in ran : c[1] = t}

\* A turn calls the model maxToolIterations times at most, pauses or not.
BudgetKept == \A t \in Turns : turn[t].modelCalls <= MaxIterations

\* The controller that stop() will abort is that of the turn that runs.
StopReachesTheRun ==
    \A t \in Turns : turn[t].at \in Running <=> activeRuns = t

\* A turn adds to the history it found and takes nothing from it, however it
\* ends (audit G-01).  A paused turn is another matter: its checkpoint holds the
\* conversation as it was.
IsPrefixOf(h, k) == Len(h) <= Len(k) /\ SubSeq(k, 1, Len(h)) = h

HistoryIsKept ==
    [][(\E t \in Turns : turn[t].keeps /\ turn'[t].at # turn[t].at)
           => IsPrefixOf(history, history')]_vars

\* A stopped turn gets to its end, were its model or its tool never to answer
\* (tool-round.ts:131, "Settle with the abort reason as soon as `signal` fires";
\* runtime.ts:703, "Neither depends on the provider honouring its own signal").
StopEndsTurn ==
    \A t \in Turns : turn[t].stopped ~> turn[t].at \in Ended \cup {"paused"}

\* runtime.ts:171, "Abort the session's in-flight turn: the model stream and any
\* tool call it is waiting on": a stopped turn calls no further tool.
StopCallsNoTool ==
    [][\A t \in Turns :
           turn[t].stopped /\ At(t, "announcing") => ~At(t, "executing")']_vars

\* docs/07-mcp.md:14, "the run pauses and resumes after the decision": the
\* model hears of a decision before the turn ends.
DecisionReachesModel ==
    [][\A t \in Turns :
           At(t, "looping") /\ (At(t, "storing"))' =>
               turn[t].messages[Len(turn[t].messages)].role # "decision"]_vars

=============================================================================
