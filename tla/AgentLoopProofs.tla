--------------------------- MODULE AgentLoopProofs ---------------------------
(***************************************************************************)
(* Proofs about AgentLoop for any number of turns, iterations, calls,      *)
(* stops and pauses.  TurnInv is what holds of each turn by itself: where  *)
(* it stands within its iterations, and that its conversations answer      *)
(* every call.  What it is told of the calls that ran needs two facts      *)
(* more: RanInv relates the calls that ran to the messages and to the      *)
(* round under way, wherever a turn may still go on from, and FreshInv     *)
(* says that nobody's conversation has a round of a turn that has not      *)
(* begun.  KeptInv, for turns that a queue starts one by one, says         *)
(* that what the turn under way would leave behind extends the history as  *)
(* it is now.                                                              *)
(***************************************************************************)
EXTENDS AgentLoop, SequenceTheorems, TLAPS

InRound == {"checking", "announcing", "executing"}
InIteration == {"calling"} \cup InRound

\* Between two iterations, or on the way to a pause or back from it.
Between(k) ==
    \/ k.at \in {"new", "preparing", "looping", "handing", "paused"}
    \/ k.at = "closing" /\ k.result = "paused"

TurnInv(k) ==
    /\ OneMessagePerCall(k.messages) /\ OneMessagePerCall(k.unfinished)
    /\ k.at \in InRound =>
          Len(k.told) < k.asked /\ \A j \in DOMAIN k.told : k.told[j]
    /\ k.at \notin InRound => k.told = <<>>
    /\ k.at \in InIteration =>
          k.iteration < MaxIterations /\ k.modelCalls <= k.iteration + 1
    /\ Between(k) => k.modelCalls <= k.iteration
    /\ k.modelCalls <= MaxIterations
    /\ k.at = "new" => ~k.resuming
    /\ k.at = "reporting" => k.result \in {"completed", "failed"}
    /\ k.at = "closing" => k.result \in {"completed", "failed", "paused"}

Inv ==
    /\ TypeOK
    /\ \A t \in Turns : TurnInv(turn[t])
    /\ OneMessagePerCall(history)
    /\ StopReachesTheRun

-----------------------------------------------------------------------------
(* Conversations *)

\* The values every turn starts from are of their types.
LEMMA NoneSaid ==
    /\ <<>> \in Seq(BOOLEAN) /\ <<>> \in Seq(Message)
    /\ 0 \in 0..MaxIterations /\ 0 \in 0..MaxCalls
BY LoopAssumption

\* A new turn is a turn with empty conversations.
LEMMA NewTurnType ==
    /\ NewTurn \in Turn /\ NewTurn.told = <<>> /\ ~NewTurn.resuming
    /\ NewTurn.messages = <<>> /\ NewTurn.unfinished = <<>>
BY NoneSaid DEF NewTurn, Turn

\* What a person, the model or a decision says is no round.
LEMMA SaidType ==
    ASSUME NEW role \in {"user", "assistant", "decision"}, NEW t \in Turns
    PROVE  Said(role, t) \in Message /\ Said(role, t).role # "round"
BY LoopAssumption DEF Said, Message

\* A conversation stays answered when a full round, or no round, is added.
LEMMA AppendAnswered ==
    ASSUME NEW ms \in Seq(Message), NEW m \in Message, OneMessagePerCall(ms),
           m.role = "round" => Len(m.told) = m.asked
    PROVE  Append(ms, m) \in Seq(Message) /\ OneMessagePerCall(Append(ms, m))
<1>1. Append(ms, m) \in Seq(Message)
  OBVIOUS
<1>2. \A j \in DOMAIN Append(ms, m) :
         Append(ms, m)[j] = IF j = Len(ms) + 1 THEN m ELSE ms[j]
  OBVIOUS
<1>3. \A j \in DOMAIN Append(ms, m) : j # Len(ms) + 1 => j \in DOMAIN ms
  OBVIOUS
<1> QED
  BY <1>1, <1>2, <1>3 DEF OneMessagePerCall

\* A round that is pushed has one entry for each of its calls.
LEMMA RoundAnswered ==
    ASSUME NEW t \in Turns, turn[t] \in Turn, NEW told \in Seq(BOOLEAN),
           Len(told) = turn[t].asked
    PROVE  /\ RoundOf(t, told) \in Message
           /\ Len(RoundOf(t, told).told) = RoundOf(t, told).asked
           /\ RoundOf(t, told) = [role |-> "round", turn |-> t, at |-> turn[t].iteration,
                                  asked |-> turn[t].asked, told |-> told]
BY DEF RoundOf, Round, Message, Turn

-----------------------------------------------------------------------------
(* Every step keeps the invariant *)

\* One turn changes, and it is well typed and in order afterwards.
LEMMA OneTurn ==
    ASSUME Inv, NEW t \in Turns, NEW k \in Turn, TurnInv(k),
           turn' = [turn EXCEPT ![t] = k]
    PROVE  /\ turn' \in [Turns -> Turn]
           /\ \A u \in Turns : TurnInv(turn'[u])
           /\ \A u \in Turns : turn'[u] = IF u = t THEN k ELSE turn[u]
BY DEF Inv, TypeOK

\* The turn stays where it was with regard to stop().
LEMMA StaysRegistered ==
    ASSUME Inv, NEW t \in Turns, NEW k \in Turn, TurnInv(k),
           turn' = [turn EXCEPT ![t] = k],
           k.at \in Running <=> turn[t].at \in Running,
           UNCHANGED activeRuns,
           history' \in Seq(Message), OneMessagePerCall(history'),
           ran' \subseteq Calls,
           used' \in [stops : 0..MaxStops, pauses : 0..MaxPauses]
    PROVE  Inv'
<1>1. /\ turn' \in [Turns -> Turn]
      /\ \A u \in Turns : TurnInv(turn'[u])
      /\ \A u \in Turns : turn'[u] = IF u = t THEN k ELSE turn[u]
  BY OneTurn
<1>2. TypeOK'
  BY <1>1 DEF Inv, TypeOK
<1>3. StopReachesTheRun'
  BY <1>1 DEF Inv, StopReachesTheRun
<1>4. \A u \in Turns : TurnInv(turn[u])'
  BY <1>1 DEF TurnInv, Between
<1> QED
  BY <1>2, <1>3, <1>4 DEF Inv, OneMessagePerCall

\* The turn that is registered leaves its generator, whatever it ended with.
LEMMA LeavesKeeps ==
    ASSUME Inv, NEW t \in Turns, turn[t].at \in Running,
           NEW result \in {"completed", "failed", "paused"}, Leaves(t, result),
           result = "paused" => turn[t].at = "handing",
           UNCHANGED <<history, ran, used>>
    PROVE  Inv'
<1> DEFINE k == [turn[t] EXCEPT !.at = "closing", !.result = result,
                                !.asked = 0, !.told = <<>>]
<1>0. turn[t] \in Turn /\ TurnInv(turn[t])
  BY DEF Inv, TypeOK
<1>1. k \in Turn
  BY <1>0, LoopAssumption, NoneSaid DEF Turn
<1>2. TurnInv(k)
  BY <1>0 DEF TurnInv, Between, InRound, InIteration, Turn
<1>3. turn' = [turn EXCEPT ![t] = k] /\ activeRuns' = None
  BY DEF Leaves
<1>4. k.at = "closing"
  BY <1>0 DEF Turn
<1> HIDE DEF k
<1>5. /\ turn' \in [Turns -> Turn]
      /\ \A u \in Turns : TurnInv(turn'[u])
      /\ \A u \in Turns : turn'[u] = IF u = t THEN k ELSE turn[u]
  BY <1>1, <1>2, <1>3, OneTurn
<1>6. TypeOK'
  BY <1>3, <1>5 DEF Inv, TypeOK
<1>7. StopReachesTheRun'
  <2> SUFFICES ASSUME NEW u \in Turns PROVE turn'[u].at \notin Running
    BY <1>3, NoneAssumption DEF StopReachesTheRun
  <2>1. CASE u = t
    BY <1>4, <1>5, <2>1 DEF Running
  <2>2. CASE u # t
    BY <1>5, <2>2 DEF Inv, StopReachesTheRun
  <2> QED
    BY <2>1, <2>2
<1>8. \A u \in Turns : TurnInv(turn[u])'
  BY <1>5 DEF TurnInv, Between
<1> QED
  BY <1>6, <1>7, <1>8 DEF Inv, OneMessagePerCall

\* A turn starts, or is refused.
LEMMA StartKeeps == ASSUME Inv, NEW t \in Turns, Start(t) PROVE Inv'
<1>0. /\ turn[t] \in Turn /\ TurnInv(turn[t]) /\ turn[t].at \in {"new", "paused"}
      /\ UNCHANGED <<history, ran, used>>
  BY DEF Inv, TypeOK, Start, At
<1>1. CASE activeRuns # None
  <2> DEFINE k == [turn[t] EXCEPT !.at = "busy"]
  <2>1. k \in Turn /\ k.at = "busy"
    BY <1>0 DEF Turn, Ended
  <2>2. TurnInv(k)
    BY <1>0 DEF TurnInv, Between, InRound, InIteration, Turn
  <2>3. turn' = [turn EXCEPT ![t] = k] /\ activeRuns' = activeRuns
    BY <1>1 DEF Start, Goes, RefusedEntry
  <2>4. "busy" \notin Running /\ turn[t].at \notin Running
    BY <1>0 DEF Running
  <2> HIDE DEF k
  <2> QED
    BY <1>0, <2>1, <2>2, <2>3, <2>4, StaysRegistered DEF Inv, TypeOK, OneMessagePerCall
<1>2. CASE activeRuns = None
  <2> DEFINE k == [turn[t] EXCEPT !.at = "preparing"]
  <2>1. k \in Turn /\ k.at = "preparing"
    BY <1>0 DEF Turn, Running
  <2>2. TurnInv(k)
    BY <1>0 DEF TurnInv, Between, InRound, InIteration, Turn
  <2>3. turn' = [turn EXCEPT ![t] = k] /\ activeRuns' = t
    BY <1>2 DEF Start, Goes
  <2> HIDE DEF k
  <2>4. /\ turn' \in [Turns -> Turn]
        /\ \A u \in Turns : TurnInv(turn'[u])
        /\ \A u \in Turns : turn'[u] = IF u = t THEN k ELSE turn[u]
    BY <2>1, <2>2, <2>3, OneTurn
  <2>5. TypeOK'
    BY <1>0, <2>3, <2>4 DEF Inv, TypeOK
  <2>6. StopReachesTheRun'
    BY <1>2, <2>1, <2>3, <2>4, NoneAssumption DEF Inv, StopReachesTheRun, Running
  <2>7. \A u \in Turns : TurnInv(turn[u])'
    BY <2>4 DEF TurnInv, Between
  <2> QED
    BY <1>0, <2>5, <2>6, <2>7 DEF Inv, OneMessagePerCall
<1> QED
  BY <1>1, <1>2

\* The end of a generator and what it stores.
LEMMA ClosesKeeps == ASSUME Inv, NEW t \in Turns, Closes(t) PROVE Inv'
<1>0. /\ turn[t] \in Turn /\ TurnInv(turn[t]) /\ turn[t].at = "closing"
      /\ turn[t].result \in {"completed", "failed", "paused"}
      /\ UNCHANGED <<activeRuns, ran, used>>
  BY DEF Inv, TypeOK, Closes, At, TurnInv
<1>1. history' \in Seq(Message) /\ OneMessagePerCall(history')
  BY <1>0 DEF Closes, HistoryAfter, Inv, TypeOK, Turn, TurnInv
<1>2. turn[t].at \notin Running
  BY <1>0 DEF Running
<1>3. CASE turn[t].result = "paused"
  <2> DEFINE k == [turn[t] EXCEPT !.at = "paused", !.stopped = FALSE, !.keeps = FALSE,
                                  !.unfinished = <<>>, !.result = "none"]
  <2>1. k \in Turn /\ k.at \notin Running
    BY <1>0, NoneSaid DEF Turn, Running
  <2>2. TurnInv(k)
    BY <1>0, <1>3 DEF TurnInv, Between, InRound, InIteration, Turn, OneMessagePerCall
  <2>3. turn' = [turn EXCEPT ![t] = k]
    BY <1>3 DEF Closes
  <2> HIDE DEF k
  <2> QED
    BY <1>0, <1>1, <1>2, <2>1, <2>2, <2>3, StaysRegistered DEF Inv, TypeOK
<1>4. CASE turn[t].result # "paused"
  <2> DEFINE k == [NewTurn EXCEPT !.at = turn[t].result,
                                  !.modelCalls = turn[t].modelCalls]
  <2>0. /\ k \in Turn /\ k.at = turn[t].result /\ k.told = <<>>
        /\ k.messages = <<>> /\ k.unfinished = <<>>
        /\ k.modelCalls = turn[t].modelCalls
    BY <1>0, <1>4, NewTurnType DEF Turn, Ended
  <2>3. turn' = [turn EXCEPT ![t] = k]
    BY <1>4 DEF Closes
  <2> HIDE DEF k
  <2>1. k.at \notin Running
    BY <1>0, <1>4, <2>0 DEF Running
  <2>2. TurnInv(k)
    BY <1>0, <1>4, <2>0 DEF TurnInv, Between, InRound, InIteration, OneMessagePerCall
  <2> HIDE DEF k
  <2> QED
    BY <1>0, <1>1, <1>2, <2>0, <2>1, <2>2, <2>3, StaysRegistered DEF Inv, TypeOK
<1> QED
  BY <1>3, <1>4

\* Steps of a turn that stay in its generator.
LEMMA LoopKeeps ==
    ASSUME Inv, NEW t \in Turns,
           \/ Assemble(t) \/ CallModel(t) \/ HitsLimit(t) \/ Store(t) \/ AnnounceTool(t)
           \/ CallTool(t) \/ StopLands(t) \/ Answers(t) \/ AsksForTools(t)
           \/ ToolReturns(t) \/ ToolPends(t) \/ AbandonedToolRuns(t) \/ Fails(t)
    PROVE  Inv'
<1> DEFINE old == turn[t]
<1>0. /\ old \in Turn /\ TurnInv(old) /\ turn \in [Turns -> Turn]
      /\ history \in Seq(Message) /\ OneMessagePerCall(history)
      /\ ran \subseteq Calls /\ used \in [stops : 0..MaxStops, pauses : 0..MaxPauses]
  BY DEF Inv, TypeOK
<1>same. OneMessagePerCall(history) /\ UNCHANGED history => OneMessagePerCall(history')
  BY DEF OneMessagePerCall
<1>stays. ASSUME NEW k \in Turn, TurnInv(k), turn' = [turn EXCEPT ![t] = k],
                 old.at \in Running, k.at \in Running, UNCHANGED <<activeRuns, history>>,
                 ran' \subseteq Calls,
                 used' \in [stops : 0..MaxStops, pauses : 0..MaxPauses]
          PROVE  Inv'
  BY <1>0, <1>same, <1>stays, StaysRegistered
<1>ends. ASSUME NEW result \in {"completed", "failed"}, old.at \in Running,
                EndsWith(t, result), UNCHANGED <<activeRuns, history, used>>,
                ran' \subseteq Calls
         PROVE  Inv'
  <2> DEFINE k == [old EXCEPT !.at = "reporting", !.result = result,
                              !.asked = 0, !.told = <<>>]
  <2>1. k \in Turn /\ k.at \in Running
    BY <1>0, NoneSaid DEF Turn, Running
  <2>2. TurnInv(k)
    BY <1>0 DEF TurnInv, Between, InRound, InIteration, Turn
  <2>3. turn' = [turn EXCEPT ![t] = k]
    BY <1>ends DEF EndsWith
  <2> HIDE DEF k, old
  <2> QED
    BY <1>0, <1>ends, <1>stays, <2>1, <2>2, <2>3
<1>1. CASE Assemble(t)
  <2>1. CASE old.resuming
    <3> DEFINE k == [old EXCEPT !.at = "looping", !.resuming = FALSE,
                        !.messages = Append(old.messages, Said("decision", t)),
                        !.iteration = old.iteration]
    <3>1. /\ Append(old.messages, Said("decision", t)) \in Seq(Message)
          /\ OneMessagePerCall(Append(old.messages, Said("decision", t)))
      BY <1>0, AppendAnswered, SaidType DEF Turn, TurnInv
    <3>2. k \in Turn /\ k.at \in Running
      BY <1>0, <3>1 DEF Turn, Running
    <3>3. TurnInv(k)
      BY <1>0, <1>1, <3>1 DEF TurnInv, Between, InRound, InIteration, Turn, Assemble, At
    <3>4. turn' = [turn EXCEPT ![t] = k]
      BY <1>1, <2>1 DEF Assemble, ResumeIteration
    <3>5. old.at \in Running /\ UNCHANGED <<activeRuns, history, ran, used>>
      BY <1>1 DEF Assemble, At, Running
    <3> HIDE DEF k, old
    <3> QED
      BY <1>0, <1>stays, <3>2, <3>3, <3>4, <3>5
  <2>2. CASE ~old.resuming
    <3> DEFINE said == Append(history, Said("user", t))
               k == [old EXCEPT !.at = "looping", !.keeps = TRUE,
                                !.messages = said, !.unfinished = said]
    <3>1. said \in Seq(Message) /\ OneMessagePerCall(said)
      BY <1>0, AppendAnswered, SaidType
    <3>4. turn' = [turn EXCEPT ![t] = k]
      BY <1>1, <2>2 DEF Assemble
    <3> HIDE DEF said
    <3>2. k \in Turn /\ k.at \in Running
      BY <1>0, <3>1 DEF Turn, Running
    <3>3. TurnInv(k)
      BY <1>0, <1>1, <3>1 DEF TurnInv, Between, InRound, InIteration, Turn, Assemble, At
    <3>5. old.at \in Running /\ UNCHANGED <<activeRuns, history, ran, used>>
      BY <1>1 DEF Assemble, At, Running
    <3> HIDE DEF k, old
    <3> QED
      BY <1>0, <1>stays, <3>2, <3>3, <3>4, <3>5
  <2> QED
    BY <2>1, <2>2
<1>2. CASE CallModel(t)
  <2> DEFINE n == old.modelCalls + 1
             k == [old EXCEPT !.at = "calling", !.modelCalls = n]
  <2>0. n \in Nat
    BY <1>0 DEF Turn
  <2>1. k \in Turn /\ k.at \in Running
    <3> HIDE DEF n
    <3> QED
      BY <1>0, <2>0 DEF Turn, Running
  <2>2. TurnInv(k)
    BY <1>0, <1>2, LoopAssumption
       DEF TurnInv, Between, InRound, InIteration, Turn, CallModel, At
  <2>3. /\ turn' = [turn EXCEPT ![t] = k] /\ old.at \in Running
        /\ UNCHANGED <<activeRuns, history, ran, used>>
    BY <1>2 DEF CallModel, At, Running
  <2> HIDE DEF k, old
  <2> QED
    BY <1>0, <1>stays, <2>1, <2>2, <2>3
<1>3. CASE HitsLimit(t) \/ Answers(t)
  <2> DEFINE k == [old EXCEPT !.at = "storing"]
  <2>1. k \in Turn /\ k.at \in Running
    BY <1>0 DEF Turn, Running
  <2>2. TurnInv(k)
    BY <1>0, <1>3 DEF TurnInv, Between, InRound, InIteration, Turn, HitsLimit, Answers, At
  <2>3. /\ turn' = [turn EXCEPT ![t] = k] /\ old.at \in Running
        /\ UNCHANGED <<activeRuns, history, ran, used>>
    BY <1>3 DEF HitsLimit, Answers, At, Goes, Running
  <2> HIDE DEF k, old
  <2> QED
    BY <1>0, <1>stays, <2>1, <2>2, <2>3
<1>4. CASE Store(t)
  <2> DEFINE k == [old EXCEPT !.at = "reporting", !.result = "completed",
                              !.keeps = FALSE, !.unfinished = <<>>]
  <2>1. k \in Turn /\ k.at \in Running
    BY <1>0, NoneSaid DEF Turn, Running
  <2>2. TurnInv(k)
    BY <1>0, <1>4 DEF TurnInv, Between, InRound, InIteration, Turn, Store, At, OneMessagePerCall
  <2>3. history' \in Seq(Message) /\ OneMessagePerCall(history')
    BY <1>0, <1>4, AppendAnswered, SaidType DEF Store, Turn, TurnInv
  <2>4. /\ turn' = [turn EXCEPT ![t] = k] /\ old.at \in Running
        /\ UNCHANGED <<activeRuns, ran, used>>
    BY <1>4 DEF Store, At, Running
  <2> HIDE DEF k
  <2> QED
    BY <1>0, <2>1, <2>2, <2>3, <2>4, StaysRegistered
<1>5. CASE AsksForTools(t)
  <2>1. PICK n \in 1..MaxCalls : turn' = [turn EXCEPT ![t] =
              [@ EXCEPT !.at = "checking", !.asked = n, !.told = <<>>]]
    BY <1>5 DEF AsksForTools
  <2> DEFINE k == [old EXCEPT !.at = "checking", !.asked = n, !.told = <<>>]
  <2>0. n \in 0..MaxCalls /\ n \in Nat /\ 0 < n
    BY LoopAssumption
  <2>2. k \in Turn /\ k.at \in Running
    BY <1>0, <2>0, NoneSaid DEF Turn, Running
  <2>3. TurnInv(k)
    <3>1. /\ k.at = "checking" /\ k.told = <<>> /\ k.asked = n
          /\ k.messages = old.messages /\ k.unfinished = old.unfinished
          /\ k.iteration = old.iteration /\ k.modelCalls = old.modelCalls
      BY <1>0 DEF Turn
    <3>2. Len(<<>>) = 0 /\ \A j \in DOMAIN <<>> : <<>>[j]
      OBVIOUS
    <3>3. old.at = "calling"
      BY <1>5 DEF AsksForTools, At
    <3> HIDE DEF k
    <3> QED
      BY <1>0, <2>0, <3>1, <3>2, <3>3
         DEF TurnInv, Between, InRound, InIteration, OneMessagePerCall
  <2>4. /\ turn' = [turn EXCEPT ![t] = k] /\ old.at \in Running
        /\ UNCHANGED <<activeRuns, history, ran, used>>
    BY <1>5, <2>1 DEF AsksForTools, At, Running
  <2> HIDE DEF k, old
  <2> QED
    BY <1>0, <1>stays, <2>2, <2>3, <2>4
<1>6. CASE AnnounceTool(t) \/ CallTool(t)
  <2>1. PICK a \in {"announcing", "executing"} : Goes(t, a)
    BY <1>6 DEF AnnounceTool, CallTool
  <2> DEFINE k == [old EXCEPT !.at = a]
  <2>2. k \in Turn /\ k.at \in Running
    BY <1>0 DEF Turn, Running
  <2>3. TurnInv(k)
    BY <1>0, <1>6
       DEF TurnInv, Between, InRound, InIteration, Turn, AnnounceTool, CallTool, At
  <2>4. /\ turn' = [turn EXCEPT ![t] = k] /\ old.at \in Running
        /\ UNCHANGED <<activeRuns, history, ran, used>>
    BY <1>6, <2>1 DEF AnnounceTool, CallTool, At, Goes, Running
  <2> HIDE DEF k, old
  <2> QED
    BY <1>0, <1>stays, <2>2, <2>3, <2>4
<1>7. CASE StopLands(t) \/ Fails(t)
  BY <1>0, <1>7, <1>ends DEF StopLands, Fails, LooksAtSignal, At, Running
<1>8. ASSUME old.at = "executing"
      PROVE  NextCall(t) \in Calls /\ old.iteration + 1 \in 0..MaxIterations
  BY SMTT(20), <1>0, <1>8, LoopAssumption DEF NextCall, Calls, TurnInv, InRound, InIteration, Turn
<1>9. CASE AbandonedToolRuns(t)
  BY <1>0, <1>8, <1>9, <1>ends DEF AbandonedToolRuns, At, Running
<1>10. CASE ToolReturns(t)
  <2> DEFINE told == Append(old.told, TRUE)
  <2>0. /\ old.at = "executing" /\ old.at \in Running /\ ran' \subseteq Calls
        /\ UNCHANGED <<activeRuns, history, used>>
        /\ told \in Seq(BOOLEAN) /\ Len(told) = Len(old.told) + 1
        /\ Len(old.told) < old.asked /\ \A j \in DOMAIN told : told[j]
    BY SMTT(20), <1>0, <1>8, <1>10 DEF ToolReturns, At, Running, Turn, TurnInv, InRound
  <2>1. CASE Len(told) < old.asked
    <3> DEFINE k == [old EXCEPT !.at = "checking", !.told = told]
    <3>1. turn' = [turn EXCEPT ![t] = k]
      BY <1>10, <2>1 DEF ToolReturns
    <3> HIDE DEF told
    <3>2. k \in Turn /\ k.at \in Running
      BY <1>0, <2>0 DEF Turn, Running
    <3>3. TurnInv(k)
      BY <1>0, <2>0, <2>1 DEF TurnInv, Between, InRound, InIteration, Turn
    <3> HIDE DEF k, old
    <3> QED
      BY <1>0, <1>stays, <2>0, <3>1, <3>2, <3>3
  <2>2. CASE ~(Len(told) < old.asked)
    <3> DEFINE said == Append(old.messages, RoundOf(t, told))
               k == [old EXCEPT !.at = "looping", !.asked = 0, !.told = <<>>,
                                !.messages = said, !.iteration = old.iteration + 1]
    <3>1. Len(told) = old.asked
      BY <1>0, <2>0, <2>2 DEF Turn
    <3>2. said \in Seq(Message) /\ OneMessagePerCall(said)
      <4>1. RoundOf(t, told) \in Message
            /\ Len(RoundOf(t, told).told) = RoundOf(t, told).asked
        BY <1>0, <2>0, <3>1, RoundAnswered
      <4> QED
        BY <1>0, <4>1, AppendAnswered DEF Turn, TurnInv
    <3>3. turn' = [turn EXCEPT ![t] = k]
      BY <1>10, <2>2 DEF ToolReturns
    <3> HIDE DEF said, told
    <3>4. k \in Turn /\ k.at \in Running
      BY <1>0, <1>8, <2>0, <3>2, NoneSaid DEF Turn, Running
    <3>5. TurnInv(k)
      BY <1>0, <2>0, <3>2 DEF TurnInv, Between, InRound, InIteration, Turn
    <3> HIDE DEF k, old
    <3> QED
      BY <1>0, <1>stays, <2>0, <3>3, <3>4, <3>5
  <2> QED
    BY <2>1, <2>2
<1>11. CASE ToolPends(t)
  <2> DEFINE told == ToldAtPause(t)
             said == Append(old.messages, RoundOf(t, told))
             k == [old EXCEPT !.at = "handing", !.asked = 0, !.told = <<>>,
                              !.messages = said, !.iteration = old.iteration + 1]
  <2>0. /\ old.at = "executing" /\ old.at \in Running /\ ran' \subseteq Calls
        /\ UNCHANGED <<activeRuns, history>>
        /\ used' \in [stops : 0..MaxStops, pauses : 0..MaxPauses]
        /\ turn' = [turn EXCEPT ![t] = k]
    BY <1>0, <1>11, BoundAssumption DEF ToolPends, At, Running
  <2>1. told \in Seq(BOOLEAN) /\ Len(told) = old.asked
    <3>1. old.asked \in Nat /\ old.told \in Seq(BOOLEAN)
      BY <1>0, LoopAssumption DEF Turn
    <3>2. told \in [1..old.asked -> BOOLEAN]
      <4> SUFFICES ASSUME NEW i \in 1..old.asked
                   PROVE  (IF i <= Len(old.told) THEN old.told[i] ELSE FALSE) \in BOOLEAN
        BY DEF ToldAtPause
      <4>1. i <= Len(old.told) => old.told[i] \in BOOLEAN
        BY <3>1
      <4> QED
        BY <4>1
    <3> HIDE DEF told
    <3> QED
      BY <3>1, <3>2
  <2>2. said \in Seq(Message) /\ OneMessagePerCall(said)
    <3>1. RoundOf(t, told) \in Message
          /\ Len(RoundOf(t, told).told) = RoundOf(t, told).asked
      BY <1>0, <2>1, RoundAnswered
    <3> QED
      BY <1>0, <3>1, AppendAnswered DEF Turn, TurnInv
  <2> HIDE DEF said, told
  <2>3. k \in Turn /\ k.at \in Running
    BY <1>0, <1>8, <2>0, <2>2, NoneSaid DEF Turn, Running
  <2>4. TurnInv(k)
    BY <1>0, <2>0, <2>2 DEF TurnInv, Between, InRound, InIteration, Turn
  <2> HIDE DEF k, old
  <2> QED
    BY <1>0, <1>stays, <2>0, <2>3, <2>4
<1> QED
  BY <1>1, <1>2, <1>3, <1>4, <1>5, <1>6, <1>7, <1>9, <1>10, <1>11

\* The outside decides on a paused turn, or stops the one that is registered.
LEMMA OutsideKeeps == ASSUME Inv, Stop \/ \E t \in Turns : Decide(t) PROVE Inv'
<1>1. ASSUME NEW t \in Turns, Decide(t) PROVE Inv'
  <2> DEFINE k == [turn[t] EXCEPT !.resuming = TRUE]
  <2>0. turn[t] \in Turn /\ TurnInv(turn[t])
    BY DEF Inv, TypeOK
  <2>1. k \in Turn /\ k.at = turn[t].at /\ k.at = "paused"
    BY <1>1, <2>0 DEF Turn, Decide, At
  <2>2. TurnInv(k)
    BY <2>0, <2>1 DEF TurnInv, Between, InRound, InIteration, Turn
  <2>3. turn' = [turn EXCEPT ![t] = k] /\ UNCHANGED <<activeRuns, history, ran, used>>
    BY <1>1 DEF Decide
  <2> HIDE DEF k
  <2> QED
    BY <2>1, <2>2, <2>3, StaysRegistered DEF Inv, TypeOK, OneMessagePerCall
<1>2. CASE Stop /\ activeRuns # None
  <2> DEFINE t == activeRuns
             k == [turn[t] EXCEPT !.stopped = TRUE]
  <2>0. t \in Turns /\ turn[t] \in Turn /\ TurnInv(turn[t])
    BY <1>2 DEF Inv, TypeOK
  <2>1. k \in Turn /\ k.at = turn[t].at
    BY <2>0 DEF Turn
  <2>2. TurnInv(k)
    BY <2>0, <2>1 DEF TurnInv, Between, InRound, InIteration, Turn
  <2>3. turn' = [turn EXCEPT ![t] = k] /\ UNCHANGED <<activeRuns, history, ran>>
    BY <1>2 DEF Stop
  <2>4. used' \in [stops : 0..MaxStops, pauses : 0..MaxPauses]
    BY <1>2, BoundAssumption DEF Stop, Inv, TypeOK
  <2> HIDE DEF k, t
  <2> QED
    BY <2>0, <2>1, <2>2, <2>3, <2>4, StaysRegistered DEF Inv, TypeOK, OneMessagePerCall
<1>3. CASE Stop /\ activeRuns = None
  <2>1. UNCHANGED <<turn, activeRuns, history, ran>>
    BY <1>3 DEF Stop
  <2>2. used' \in [stops : 0..MaxStops, pauses : 0..MaxPauses]
    BY <1>3, BoundAssumption DEF Stop, Inv, TypeOK
  <2> QED
    BY <2>1, <2>2 DEF Inv, TypeOK, OneMessagePerCall, StopReachesTheRun, TurnInv, Between
<1> QED
  BY <1>1, <1>2, <1>3

\* Every step keeps the invariant.
LEMMA NextInv == Inv /\ [Next]_vars => Inv'
<1> SUFFICES ASSUME Inv, [Next]_vars PROVE Inv'
  OBVIOUS
<1>1. ASSUME NEW t \in Turns, Finally(t) \/ ConsumerLeaves(t) \/ Pauses(t) PROVE Inv'
  <2>1. CASE Finally(t)
    <3>1. turn[t].result \in {"completed", "failed"} /\ turn[t].at = "reporting"
      BY <2>1 DEF Inv, TurnInv, Finally, At
    <3> QED
      BY <2>1, <3>1, LeavesKeeps DEF Finally, Running
  <2>2. CASE ConsumerLeaves(t)
    BY <2>2, LeavesKeeps DEF ConsumerLeaves, Running
  <2>3. CASE Pauses(t)
    BY <2>3, LeavesKeeps DEF Pauses, At, Running
  <2> QED
    BY <1>1, <2>1, <2>2, <2>3
<1>2. CASE UNCHANGED vars
  BY <1>2 DEF vars, Inv, TypeOK, OneMessagePerCall, StopReachesTheRun, TurnInv, Between
<1> QED
  BY <1>1, <1>2, StartKeeps, ClosesKeeps, LoopKeeps, OutsideKeeps
     DEF Next, OwnSteps, ModelAndTools

\* The initial states satisfy the invariant.
LEMMA InitInv == Init => Inv
<1> SUFFICES ASSUME Init PROVE Inv
  OBVIOUS
<1>1. NewTurn \in Turn /\ NewTurn.at = "new" /\ TurnInv(NewTurn)
  BY NewTurnType, LoopAssumption
     DEF NewTurn, TurnInv, Between, InRound, InIteration, OneMessagePerCall
<1>2. \A t \in Turns : turn[t] = NewTurn
  BY DEF Init
<1>3. turn \in [Turns -> Turn]
  BY <1>1 DEF Init
<1>4. TypeOK
  BY <1>3, NoneSaid, BoundAssumption DEF Init, TypeOK
<1>5. StopReachesTheRun
  BY <1>1, <1>2, NoneAssumption DEF Init, StopReachesTheRun, Running
<1>6. OneMessagePerCall(history)
  BY DEF Init, OneMessagePerCall
<1> QED
  BY <1>1, <1>2, <1>4, <1>5, <1>6 DEF Inv

\* It holds in every state of every behaviour.
LEMMA SpecInv == Spec => []Inv
BY InitInv, NextInv, PTL DEF Spec

-----------------------------------------------------------------------------
(* What a turn is told of the calls that ran *)

RanBy(t) == {c \in ran : c[1] = t}

TellsOf(t, m, c) ==
    /\ m.role = "round" /\ m.turn = t /\ m.at = c[2]
    /\ c[3] \in DOMAIN m.told
    /\ m.told[c[3]]

ToldIn(t, messages) ==
    {c \in Calls : c[1] = t /\ \E j \in DOMAIN messages : TellsOf(t, messages[j], c)}

UnderWay(t, k) == {c \in Calls : c[1] = t /\ c[2] = k.iteration /\ c[3] <= Len(k.told)}

NoRoundOf(t, messages) ==
    \A j \in DOMAIN messages : ~(messages[j].role = "round" /\ messages[j].turn = t)

\* The turn has not begun; it may still ask a model to go on.
Fresh(k) == k.at = "new" \/ (k.at = "preparing" /\ ~k.resuming)

GoesOn(k) ==
    \/ k.at \in InIteration \cup {"looping", "handing", "paused"}
    \/ k.at = "preparing" /\ k.resuming
    \/ k.at = "closing" /\ k.result = "paused"

RanInv ==
    \A t \in Turns : GoesOn(turn[t]) =>
        RanBy(t) = ToldIn(t, turn[t].messages) \cup UnderWay(t, turn[t])

FreshInv ==
    \A t \in Turns : Fresh(turn[t]) =>
        /\ RanBy(t) = {}
        /\ NoRoundOf(t, history)
        /\ \A u \in Turns : /\ NoRoundOf(t, turn[u].messages)
                            /\ NoRoundOf(t, turn[u].unfinished)

\* What a longer conversation tells of.
LEMMA ToldAppend ==
    ASSUME NEW t, NEW ms \in Seq(Message), NEW m
    PROVE  /\ ToldIn(t, Append(ms, m)) =
                 ToldIn(t, ms) \cup {c \in Calls : c[1] = t /\ TellsOf(t, m, c)}
           /\ NoRoundOf(t, ms) /\ ~(m.role = "round" /\ m.turn = t)
                 => NoRoundOf(t, Append(ms, m))
           /\ m.role # "round" => ToldIn(t, Append(ms, m)) = ToldIn(t, ms)
<1>1. /\ DOMAIN Append(ms, m) = DOMAIN ms \cup {Len(ms) + 1}
      /\ \A j \in DOMAIN ms : Append(ms, m)[j] = ms[j]
      /\ Append(ms, m)[Len(ms) + 1] = m
  OBVIOUS
<1>2. \A c : (\E j \in DOMAIN Append(ms, m) : TellsOf(t, Append(ms, m)[j], c))
               <=> TellsOf(t, m, c) \/ \E j \in DOMAIN ms : TellsOf(t, ms[j], c)
  BY <1>1
<1>3. ToldIn(t, Append(ms, m)) =
         ToldIn(t, ms) \cup {c \in Calls : c[1] = t /\ TellsOf(t, m, c)}
  BY <1>2 DEF ToldIn
<1>4. NoRoundOf(t, ms) /\ ~(m.role = "round" /\ m.turn = t)
         => NoRoundOf(t, Append(ms, m))
  BY <1>1 DEF NoRoundOf
<1>5. m.role # "round" => \A c : ~TellsOf(t, m, c)
  BY DEF TellsOf
<1> QED
  BY <1>3, <1>4, <1>5

\* A conversation without a round of the turn tells of none of its calls.
LEMMA NothingTold ==
    ASSUME NEW t, NEW ms, NoRoundOf(t, ms) PROVE ToldIn(t, ms) = {}
BY DEF NoRoundOf, ToldIn, TellsOf

\* One turn changes: what has to hold of it and of the history afterwards.
LEMMA KnowsKeeps ==
    ASSUME Inv, RanInv, FreshInv, NEW t \in Turns, NEW k \in Turn,
           turn' = [turn EXCEPT ![t] = k],
           \A u \in Turns \ {t} : RanBy(u)' = RanBy(u),
           Fresh(k) => Fresh(turn[t]) /\ RanBy(t)' = RanBy(t),
           \A u \in Turns :
              /\ u # t \/ Fresh(k)
              /\ NoRoundOf(u, history)
              /\ NoRoundOf(u, turn[t].messages) /\ NoRoundOf(u, turn[t].unfinished)
              => /\ NoRoundOf(u, history')
                 /\ NoRoundOf(u, k.messages) /\ NoRoundOf(u, k.unfinished),
           GoesOn(k) => RanBy(t)' = ToldIn(t, k.messages) \cup UnderWay(t, k)
    PROVE  RanInv' /\ FreshInv'
<1>1. \A u \in Turns : turn'[u] = IF u = t THEN k ELSE turn[u]
  BY DEF Inv, TypeOK
<1>2. \A u \in Turns : GoesOn(turn'[u]) =>
         RanBy(u)' = ToldIn(u, turn'[u].messages) \cup UnderWay(u, turn'[u])
  BY <1>1 DEF RanInv
<1>3. ASSUME NEW u \in Turns, Fresh(turn'[u])
      PROVE  /\ RanBy(u)' = {} /\ NoRoundOf(u, history')
             /\ \A w \in Turns : /\ NoRoundOf(u, turn'[w].messages)
                                 /\ NoRoundOf(u, turn'[w].unfinished)
  <2>1. Fresh(turn[u]) /\ RanBy(u)' = RanBy(u) /\ (u # t \/ Fresh(k))
    BY <1>1, <1>3
  <2>2. /\ RanBy(u) = {} /\ NoRoundOf(u, history)
        /\ \A w \in Turns : /\ NoRoundOf(u, turn[w].messages)
                            /\ NoRoundOf(u, turn[w].unfinished)
    BY <2>1 DEF FreshInv
  <2>3. /\ NoRoundOf(u, history')
        /\ NoRoundOf(u, k.messages) /\ NoRoundOf(u, k.unfinished)
    BY <2>1, <2>2
  <2> QED
    BY <1>1, <2>1, <2>2, <2>3
<1>4. RanInv'
  BY <1>2 DEF RanInv, GoesOn, ToldIn, UnderWay
<1>5. FreshInv'
  BY <1>3 DEF FreshInv, Fresh, NoRoundOf
<1> QED
  BY <1>4, <1>5

\* A turn moves, and neither its conversation nor its round changes.
LEMMA QuietStep ==
    ASSUME Inv, RanInv, FreshInv, NEW t \in Turns, NEW k \in Turn,
           turn' = [turn EXCEPT ![t] = k], ran' = ran,
           k.messages \in {turn[t].messages, <<>>},
           k.unfinished \in {turn[t].unfinished, <<>>},
           history' \in {history, turn[t].unfinished},
           Fresh(k) => Fresh(turn[t]),
           GoesOn(k) => /\ GoesOn(turn[t]) /\ k.messages = turn[t].messages
                        /\ k.iteration = turn[t].iteration /\ k.told = turn[t].told
    PROVE  RanInv' /\ FreshInv'
<1>1. \A u \in Turns : RanBy(u)' = RanBy(u)
  BY DEF RanBy
<1>2. \A u \in Turns : NoRoundOf(u, <<>>)
  BY DEF NoRoundOf
<1>3. \A u \in Turns :
         /\ NoRoundOf(u, history)
         /\ NoRoundOf(u, turn[t].messages) /\ NoRoundOf(u, turn[t].unfinished)
         => /\ NoRoundOf(u, history')
            /\ NoRoundOf(u, k.messages) /\ NoRoundOf(u, k.unfinished)
  BY <1>2
<1>4. GoesOn(k) => RanBy(t)' = ToldIn(t, k.messages) \cup UnderWay(t, k)
  BY <1>1 DEF RanInv, UnderWay
<1> QED
  BY <1>1, <1>3, <1>4, KnowsKeeps

\* The steps that leave a turn's conversation and round as they are.
LEMMA QuietSteps ==
    ASSUME Inv, RanInv, FreshInv, NEW t \in Turns,
           \/ Start(t) \/ CallModel(t) \/ HitsLimit(t) \/ Answers(t) \/ AsksForTools(t)
           \/ AnnounceTool(t) \/ CallTool(t) \/ StopLands(t) \/ Fails(t)
           \/ Finally(t) \/ ConsumerLeaves(t) \/ Pauses(t) \/ Closes(t) \/ Decide(t)
    PROVE  RanInv' /\ FreshInv'
<1> DEFINE old == turn[t]
<1>0. old \in Turn /\ TurnInv(old)
  BY DEF Inv, TypeOK
<1>quiet. ASSUME NEW k \in Turn, turn' = [turn EXCEPT ![t] = k],
                 UNCHANGED <<history, ran>>,
                 k.messages = old.messages, k.unfinished = old.unfinished,
                 k.iteration = old.iteration,
                 Fresh(k) => Fresh(old),
                 GoesOn(k) => GoesOn(old) /\ k.told = old.told
          PROVE  RanInv' /\ FreshInv'
  BY <1>quiet, QuietStep
<1>moves. ASSUME NEW a \in {"preparing", "calling", "storing", "announcing",
                            "executing", "busy"},
                 turn' = [turn EXCEPT ![t] = [old EXCEPT !.at = a]],
                 UNCHANGED <<history, ran>>,
                 a = "preparing" => old.at \in {"new", "paused"}
                                    /\ (old.at = "paused" => old.resuming),
                 a \in {"calling", "announcing", "executing"} =>
                    old.at \in {"looping", "checking", "announcing"}
          PROVE  RanInv' /\ FreshInv'
  <2> DEFINE k == [old EXCEPT !.at = a]
  <2>1. /\ k \in Turn /\ k.at = a /\ k.messages = old.messages
        /\ k.unfinished = old.unfinished /\ k.iteration = old.iteration
        /\ k.told = old.told /\ k.resuming = old.resuming
    BY <1>0 DEF Turn, Running, Ended
  <2>2. Fresh(k) => Fresh(old)
    BY <1>moves, <2>1 DEF Fresh
  <2>3. GoesOn(k) => GoesOn(old)
    BY <1>0, <1>moves, <2>1 DEF GoesOn, InIteration, InRound, TurnInv
  <2>4. turn' = [turn EXCEPT ![t] = k]
    BY <1>moves
  <2> HIDE DEF k, old
  <2> QED
    BY <1>moves, <1>quiet, <2>1, <2>2, <2>3, <2>4
<1>ends. ASSUME NEW a \in {"reporting", "closing"},
                NEW result \in {"completed", "failed", "paused"},
                turn' = [turn EXCEPT ![t] =
                   [old EXCEPT !.at = a, !.result = result, !.asked = 0, !.told = <<>>]],
                UNCHANGED <<history, ran>>,
                result = "paused" => old.at = "handing"
         PROVE  RanInv' /\ FreshInv'
  <2> DEFINE k == [old EXCEPT !.at = a, !.result = result, !.asked = 0, !.told = <<>>]
  <2>1. /\ k \in Turn /\ k.at = a /\ k.messages = old.messages
        /\ k.unfinished = old.unfinished /\ k.iteration = old.iteration
        /\ k.told = <<>> /\ k.result = result
    BY <1>0, NoneSaid DEF Turn, Running
  <2>2. ~Fresh(k)
    BY <2>1 DEF Fresh
  <2>3. GoesOn(k) => GoesOn(old) /\ old.told = <<>>
    BY <1>0, <1>ends, <2>1 DEF GoesOn, InIteration, InRound, TurnInv
  <2>4. turn' = [turn EXCEPT ![t] = k]
    BY <1>ends
  <2> HIDE DEF k, old
  <2> QED
    BY <1>ends, <1>quiet, <2>1, <2>2, <2>3, <2>4
<1>1. CASE Start(t)
  BY <1>1, <1>moves DEF Start, Goes, At
<1>2. CASE HitsLimit(t) \/ Answers(t) \/ AnnounceTool(t) \/ CallTool(t)
  BY <1>2, <1>moves DEF HitsLimit, Answers, AnnounceTool, CallTool, Goes, At
<1>3. CASE CallModel(t)
  <2> DEFINE n == old.modelCalls + 1
             k == [old EXCEPT !.at = "calling", !.modelCalls = n]
  <2>0. n \in Nat /\ old.at = "looping" /\ UNCHANGED <<history, ran>>
        /\ turn' = [turn EXCEPT ![t] = k]
    BY <1>0, <1>3 DEF Turn, CallModel, At
  <2> HIDE DEF n
  <2>1. /\ k \in Turn /\ k.at = "calling" /\ k.messages = old.messages
        /\ k.unfinished = old.unfinished /\ k.iteration = old.iteration
        /\ k.told = old.told
    BY <1>0, <2>0 DEF Turn, Running
  <2>2. ~Fresh(k) /\ GoesOn(old)
    BY <2>0, <2>1 DEF Fresh, GoesOn
  <2> HIDE DEF k, old
  <2> QED
    BY <1>quiet, <2>0, <2>1, <2>2
<1>4. CASE AsksForTools(t)
  <2>1. PICK n \in 1..MaxCalls : turn' = [turn EXCEPT ![t] =
              [@ EXCEPT !.at = "checking", !.asked = n, !.told = <<>>]]
    BY <1>4 DEF AsksForTools
  <2> DEFINE k == [old EXCEPT !.at = "checking", !.asked = n, !.told = <<>>]
  <2>a. n \in 0..MaxCalls
    BY LoopAssumption
  <2>b. /\ old.at = "calling"
        /\ turn' = [turn EXCEPT ![t] = k] /\ UNCHANGED <<history, ran>>
    BY <1>4, <2>1 DEF AsksForTools, At
  <2>0. old.told = <<>>
    BY <1>0, <2>b DEF TurnInv, InRound
  <2>2. /\ k \in Turn /\ k.at = "checking" /\ k.messages = old.messages
        /\ k.unfinished = old.unfinished /\ k.iteration = old.iteration
        /\ k.told = <<>>
    BY <1>0, <2>a, NoneSaid DEF Turn, Running
  <2>3. ~Fresh(k) /\ GoesOn(old)
    BY <2>b, <2>2 DEF Fresh, GoesOn, InIteration
  <2> HIDE DEF k, old
  <2> QED
    BY <1>quiet, <2>0, <2>b, <2>2, <2>3
<1>5. CASE StopLands(t) \/ Fails(t)
  BY <1>5, <1>ends DEF StopLands, Fails, EndsWith
<1>6. CASE Finally(t)
  <2>1. old.result \in {"completed", "failed"}
    BY <1>0, <1>6 DEF Finally, At, TurnInv
  <2> QED
    BY <1>6, <1>ends, <2>1 DEF Finally, Leaves
<1>7. CASE ConsumerLeaves(t) \/ Pauses(t)
  BY <1>7, <1>ends DEF ConsumerLeaves, Pauses, Leaves, At
<1>8. CASE Closes(t)
  <2>0. /\ history' \in {history, old.unfinished} /\ ran' = ran
        /\ old.at = "closing" /\ old.told = <<>>
        /\ old.result \in {"completed", "failed", "paused"}
    BY <1>0, <1>8 DEF Closes, HistoryAfter, At, TurnInv, InRound
  <2>1. CASE old.result = "paused"
    <3> DEFINE k == [old EXCEPT !.at = "paused", !.stopped = FALSE, !.keeps = FALSE,
                                !.unfinished = <<>>, !.result = "none"]
    <3>1. /\ k \in Turn /\ k.at = "paused" /\ k.messages = old.messages
          /\ k.unfinished = <<>> /\ k.iteration = old.iteration /\ k.told = old.told
      BY <1>0, NoneSaid DEF Turn
    <3>2. ~Fresh(k) /\ GoesOn(old)
      BY <2>0, <2>1, <3>1 DEF Fresh, GoesOn
    <3>3. turn' = [turn EXCEPT ![t] = k]
      BY <1>8, <2>1 DEF Closes
    <3> HIDE DEF k, old
    <3> QED
      BY <2>0, <3>1, <3>2, <3>3, QuietStep DEF old
  <2>2. CASE old.result # "paused"
    <3> DEFINE k == [NewTurn EXCEPT !.at = old.result, !.modelCalls = old.modelCalls]
    <3>1. /\ k \in Turn /\ k.at \in {"completed", "failed"}
          /\ k.messages = <<>> /\ k.unfinished = <<>>
      BY <1>0, <2>0, <2>2, NewTurnType DEF Turn, Ended
    <3>2. ~Fresh(k) /\ ~GoesOn(k)
      BY <3>1 DEF Fresh, GoesOn, InIteration, InRound
    <3>3. turn' = [turn EXCEPT ![t] = k]
      BY <1>8, <2>2 DEF Closes
    <3> HIDE DEF k, old
    <3> QED
      BY <2>0, <3>1, <3>2, <3>3, QuietStep DEF old
  <2> QED
    BY <2>1, <2>2
<1>9. CASE Decide(t)
  <2> DEFINE k == [old EXCEPT !.resuming = TRUE]
  <2>1. /\ k \in Turn /\ k.at = "paused" /\ old.at = "paused"
        /\ k.messages = old.messages /\ k.unfinished = old.unfinished
        /\ k.iteration = old.iteration /\ k.told = old.told
    BY <1>0, <1>9 DEF Turn, Decide, At
  <2>2. ~Fresh(k) /\ GoesOn(old)
    BY <2>1 DEF Fresh, GoesOn
  <2>3. turn' = [turn EXCEPT ![t] = k] /\ UNCHANGED <<history, ran>>
    BY <1>9 DEF Decide
  <2> HIDE DEF k, old
  <2> QED
    BY <1>quiet, <2>1, <2>2, <2>3
<1> QED
  BY <1>1, <1>2, <1>3, <1>4, <1>5, <1>6, <1>7, <1>8, <1>9

\* What a pushed round tells of is what ran of it.
LEMMA RoundTells ==
    ASSUME NEW t \in Turns, turn[t] \in Turn, NEW told \in Seq(BOOLEAN)
    PROVE  \A c : c[1] = t =>
              (TellsOf(t, RoundOf(t, told), c) <=>
                  c[2] = turn[t].iteration /\ c[3] \in 1..Len(told) /\ told[c[3]])
BY DEF RoundOf, Round, TellsOf

\* The turn takes up the history, or the conversation of its checkpoint.
LEMMA AssembleKnows ==
    ASSUME Inv, RanInv, FreshInv, NEW t \in Turns, Assemble(t)
    PROVE  RanInv' /\ FreshInv'
<1> DEFINE old == turn[t]
<1>0. /\ old \in Turn /\ TurnInv(old) /\ old.at = "preparing" /\ old.told = <<>>
      /\ history \in Seq(Message) /\ UNCHANGED <<history, ran>>
  BY DEF Inv, TypeOK, Assemble, At, TurnInv, InRound
<1>1. \A u \in Turns : RanBy(u)' = RanBy(u)
  BY <1>0 DEF RanBy
<1>2. CASE old.resuming
  <2> DEFINE said == Append(old.messages, Said("decision", t))
             k == [old EXCEPT !.at = "looping", !.resuming = FALSE,
                              !.messages = said, !.iteration = old.iteration]
  <2>1. turn' = [turn EXCEPT ![t] = k]
    BY <1>2 DEF Assemble, ResumeIteration
  <2>2. /\ said \in Seq(Message) /\ ToldIn(t, said) = ToldIn(t, old.messages)
        /\ \A u \in Turns : NoRoundOf(u, old.messages) => NoRoundOf(u, said)
    BY <1>0, SaidType, ToldAppend DEF Turn
  <2> HIDE DEF said
  <2>3. /\ k \in Turn /\ k.at = "looping" /\ k.messages = said
        /\ k.unfinished = old.unfinished /\ k.iteration = old.iteration
        /\ k.told = old.told
    BY <1>0, <2>2 DEF Turn, Running
  <2>4. ~Fresh(k) /\ GoesOn(old)
    BY <1>0, <1>2, <2>3 DEF Fresh, GoesOn
  <2>5. RanBy(t)' = ToldIn(t, k.messages) \cup UnderWay(t, k)
    BY <1>1, <2>2, <2>3, <2>4 DEF RanInv, UnderWay
  <2> HIDE DEF k, old
  <2> QED
    BY <1>0, <1>1, <2>1, <2>2, <2>3, <2>4, <2>5, KnowsKeeps DEF old
<1>3. CASE ~old.resuming
  <2> DEFINE said == Append(history, Said("user", t))
             k == [old EXCEPT !.at = "looping", !.keeps = TRUE,
                              !.messages = said, !.unfinished = said]
  <2>1. turn' = [turn EXCEPT ![t] = k]
    BY <1>3 DEF Assemble
  <2>2. /\ said \in Seq(Message) /\ ToldIn(t, said) = ToldIn(t, history)
        /\ \A u \in Turns : NoRoundOf(u, history) => NoRoundOf(u, said)
    BY <1>0, SaidType, ToldAppend
  <2> HIDE DEF said
  <2>3. /\ k \in Turn /\ k.at = "looping" /\ k.messages = said /\ k.unfinished = said
        /\ k.told = <<>>
    BY <1>0, <2>2 DEF Turn, Running
  <2>4. ~Fresh(k) /\ Fresh(old)
    BY <1>0, <1>3, <2>3 DEF Fresh
  <2>5. RanBy(t) = {} /\ NoRoundOf(t, history)
    BY <2>4 DEF FreshInv
  <2>6. UnderWay(t, k) = {}
    BY <2>3 DEF UnderWay, Calls
  <2>7. RanBy(t)' = ToldIn(t, k.messages) \cup UnderWay(t, k)
    BY <1>1, <2>2, <2>3, <2>5, <2>6, NothingTold
  <2>8. \A u \in Turns : NoRoundOf(u, history) =>
           /\ NoRoundOf(u, history')
           /\ NoRoundOf(u, k.messages) /\ NoRoundOf(u, k.unfinished)
    BY <1>0, <2>2, <2>3
  <2> HIDE DEF k, old
  <2> QED
    BY <1>0, <1>1, <2>1, <2>2, <2>3, <2>4, <2>7, <2>8, KnowsKeeps DEF old
<1> QED
  BY <1>2, <1>3

\* The finished conversation becomes the history.
LEMMA StoreKnows ==
    ASSUME Inv, RanInv, FreshInv, NEW t \in Turns, Store(t)
    PROVE  RanInv' /\ FreshInv'
<1> DEFINE old == turn[t]
           k == [old EXCEPT !.at = "reporting", !.result = "completed",
                            !.keeps = FALSE, !.unfinished = <<>>]
<1>0. /\ old \in Turn /\ ran' = ran /\ turn' = [turn EXCEPT ![t] = k]
      /\ history' = Append(old.messages, Said("assistant", t))
  BY DEF Inv, TypeOK, Store
<1>1. \A u \in Turns : RanBy(u)' = RanBy(u)
  BY <1>0 DEF RanBy
<1>2. /\ k \in Turn /\ k.at = "reporting" /\ k.messages = old.messages
      /\ k.unfinished = <<>>
  BY <1>0, NoneSaid DEF Turn, Running
<1>3. \A u \in Turns : NoRoundOf(u, old.messages) => NoRoundOf(u, history')
  BY <1>0, SaidType, ToldAppend DEF Turn
<1>4. \A u \in Turns : NoRoundOf(u, <<>>)
  BY DEF NoRoundOf
<1>5. ~Fresh(k) /\ ~GoesOn(k)
  BY <1>2 DEF Fresh, GoesOn, InIteration, InRound
<1> HIDE DEF k
<1>6. \A u \in Turns :
         /\ NoRoundOf(u, turn[t].messages) =>
               NoRoundOf(u, history') /\ NoRoundOf(u, k.messages)
         /\ NoRoundOf(u, k.unfinished)
  BY <1>2, <1>3, <1>4
<1>7. turn' = [turn EXCEPT ![t] = k] /\ k \in Turn
  BY <1>0, <1>2
<1> HIDE DEF old
<1> QED
  BY <1>1, <1>5, <1>6, <1>7, KnowsKeeps

\* A tool has run: the call joins those of the round, or the round is pushed.
LEMMA ToolKnows ==
    ASSUME Inv, RanInv, FreshInv, NEW t \in Turns, ToolReturns(t)
    PROVE  RanInv' /\ FreshInv'
<1> DEFINE old == turn[t]
           told == Append(old.told, TRUE)
           next == NextCall(t)
<1>0. /\ old \in Turn /\ TurnInv(old) /\ old.at = "executing"
      /\ UNCHANGED history /\ ran' = ran \cup {next} /\ ran \subseteq Calls
  BY DEF Inv, TypeOK, ToolReturns, At
<1>a. /\ Len(old.told) < old.asked /\ old.asked \in 0..MaxCalls
      /\ old.iteration \in 0..MaxIterations /\ Len(old.told) \in Nat
  BY <1>0 DEF TurnInv, InRound, Turn
<1>1. /\ next = <<t, old.iteration, Len(old.told) + 1>> /\ next \in Calls
      /\ Len(old.told) < old.asked /\ old.asked \in Nat /\ Len(old.told) \in Nat
  <2> HIDE DEF old, told
  <2>1. Len(old.told) + 1 \in 1..MaxCalls /\ old.asked \in Nat
    BY <1>a, LoopAssumption
  <2>2. next = <<t, old.iteration, Len(old.told) + 1>>
    BY DEF NextCall, old
  <2> QED
    BY <1>a, <2>1, <2>2 DEF Calls
<1>2. /\ told \in Seq(BOOLEAN) /\ Len(told) = Len(old.told) + 1
      /\ \A j \in 1..Len(told) : told[j]
  <2>1. /\ told \in Seq(BOOLEAN) /\ Len(told) = Len(old.told) + 1
        /\ \A j \in DOMAIN told : told[j]
    BY <1>0 DEF Turn, TurnInv, InRound
  <2>2. DOMAIN told = 1..Len(told)
    BY <2>1
  <2> HIDE DEF told, old
  <2> QED
    BY <2>1, <2>2
<1>3. /\ \A u \in Turns \ {t} : RanBy(u)' = RanBy(u)
      /\ RanBy(t)' = RanBy(t) \cup {next}
  BY <1>0, <1>1 DEF RanBy
<1>4. GoesOn(old)
  BY <1>0 DEF GoesOn, InIteration, InRound
<1>5. RanBy(t) = ToldIn(t, old.messages) \cup UnderWay(t, old)
  BY <1>4 DEF RanInv
<1>6. UnderWay(t, old) \cup {next} =
         {c \in Calls : c[1] = t /\ c[2] = old.iteration /\ c[3] <= Len(told)}
  <2>1. \A c \in Calls : c = <<c[1], c[2], c[3]>> /\ c[3] \in Nat
    BY LoopAssumption DEF Calls
  <2>2. Len(old.told) \in Nat
    BY <1>0 DEF Turn
  <2> HIDE DEF told, old, next
  <2>3. \A c \in Calls : c = next <=>
           c[1] = t /\ c[2] = old.iteration /\ c[3] = Len(old.told) + 1
    BY <1>1, <2>1
  <2>4. \A c \in Calls : c[3] <= Len(told) <=>
           c[3] <= Len(old.told) \/ c[3] = Len(old.told) + 1
    BY <1>2, <2>1, <2>2
  <2> QED
    BY <1>1, <2>3, <2>4 DEF UnderWay
<1>7. CASE Len(told) < old.asked
  <2> DEFINE k == [old EXCEPT !.at = "checking", !.told = told]
  <2>1. turn' = [turn EXCEPT ![t] = k]
    BY <1>7 DEF ToolReturns
  <2> HIDE DEF told
  <2>2. /\ k \in Turn /\ k.at = "checking" /\ k.messages = old.messages
        /\ k.unfinished = old.unfinished /\ k.iteration = old.iteration
        /\ k.told = told
    BY <1>0, <1>2 DEF Turn, Running
  <2>3. ~Fresh(k)
    BY <2>2 DEF Fresh
  <2>4. UnderWay(t, k) = UnderWay(t, old) \cup {next}
    BY <1>6, <2>2 DEF UnderWay
  <2>5. RanBy(t)' = ToldIn(t, k.messages) \cup UnderWay(t, k)
    BY <1>3, <1>5, <2>2, <2>4
  <2> HIDE DEF k, old, next
  <2> QED
    BY <1>0, <1>3, <2>1, <2>2, <2>3, <2>5, KnowsKeeps DEF old
<1>8. CASE ~(Len(told) < old.asked)
  <2> DEFINE m == RoundOf(t, told)
             said == Append(old.messages, m)
             k == [old EXCEPT !.at = "looping", !.asked = 0, !.told = <<>>,
                              !.messages = said, !.iteration = old.iteration + 1]
  <2>1. turn' = [turn EXCEPT ![t] = k]
    BY <1>8 DEF ToolReturns
  <2>2. Len(told) = old.asked
    <3> HIDE DEF told, old
    <3> QED
      BY <1>1, <1>2, <1>8
  <2>3. m \in Message /\ m.turn = t
    <3> HIDE DEF told
    <3> QED
      BY <1>0, <1>2, <2>2, RoundAnswered
  <2>4. \A c \in Calls : c[1] = t =>
           (TellsOf(t, m, c) <=> c[2] = old.iteration /\ c[3] <= Len(told))
    <3>1. \A c \in Calls : c[3] \in Nat /\ 1 <= c[3]
      BY LoopAssumption DEF Calls
    <3>2. Len(told) \in Nat
      BY <1>2
    <3>3. \A c : c[1] = t => (TellsOf(t, m, c) <=>
                  c[2] = old.iteration /\ c[3] \in 1..Len(told) /\ told[c[3]])
      BY <1>0, <1>2, RoundTells
    <3> HIDE DEF told, m, old
    <3> QED
      BY <1>2, <3>1, <3>2, <3>3
  <2> HIDE DEF told, m
  <2>5. /\ said \in Seq(Message)
        /\ ToldIn(t, said) = ToldIn(t, old.messages)
                               \cup {c \in Calls : c[1] = t /\ TellsOf(t, m, c)}
        /\ \A u \in Turns : u # t /\ NoRoundOf(u, old.messages) => NoRoundOf(u, said)
    BY <1>0, <2>3, ToldAppend DEF Turn
  <2>6. RanBy(t)' = ToldIn(t, said)
    BY <1>3, <1>5, <1>6, <2>4, <2>5
  <2> HIDE DEF said
  <2>7. /\ k \in Turn /\ k.at = "looping" /\ k.messages = said /\ k.told = <<>>
        /\ k.unfinished = old.unfinished
    <3>1. old.iteration + 1 \in 0..MaxIterations
      BY <1>0, LoopAssumption DEF TurnInv, InIteration, InRound, Turn
    <3> QED
      BY <1>0, <2>5, <3>1, NoneSaid DEF Turn, Running
  <2>8. UnderWay(t, k) = {} /\ ~Fresh(k)
    BY <2>7 DEF UnderWay, Calls, Fresh
  <2> HIDE DEF k, old, next
  <2> QED
    BY <1>0, <1>3, <2>1, <2>5, <2>6, <2>7, <2>8, KnowsKeeps DEF old
<1> QED
  BY <1>7, <1>8

\* The round ends with a call that waits for approval.
LEMMA PendsKnows ==
    ASSUME Inv, RanInv, FreshInv, NEW t \in Turns, ToolPends(t)
    PROVE  RanInv' /\ FreshInv'
<1> DEFINE old == turn[t]
           told == ToldAtPause(t)
           m == RoundOf(t, told)
           said == Append(old.messages, m)
           k == [old EXCEPT !.at = "handing", !.asked = 0, !.told = <<>>,
                            !.messages = said, !.iteration = old.iteration + 1]
<1>0. /\ old \in Turn /\ TurnInv(old) /\ old.at = "executing"
      /\ UNCHANGED <<history, ran>> /\ turn' = [turn EXCEPT ![t] = k]
  BY DEF Inv, TypeOK, ToolPends, At
<1>1. /\ old.asked \in Nat /\ old.told \in Seq(BOOLEAN) /\ Len(old.told) < old.asked
      /\ \A j \in 1..Len(old.told) : old.told[j]
      /\ old.iteration + 1 \in 0..MaxIterations
  BY <1>0, LoopAssumption DEF TurnInv, InRound, InIteration, Turn
<1>2. told \in Seq(BOOLEAN) /\ Len(told) = old.asked
  <2>1. told \in [1..old.asked -> BOOLEAN]
    <3> SUFFICES ASSUME NEW i \in 1..old.asked
                 PROVE  (IF i <= Len(old.told) THEN old.told[i] ELSE FALSE) \in BOOLEAN
      BY DEF ToldAtPause
    <3>1. i <= Len(old.told) => old.told[i] \in BOOLEAN
      BY <1>1
    <3> QED
      BY <3>1
  <2> HIDE DEF told
  <2> QED
    BY <1>1, <2>1
<1>3. \A i \in 1..old.asked : told[i] <=> i <= Len(old.told)
  BY <1>1 DEF ToldAtPause
<1>4. m \in Message /\ m.turn = t
  BY <1>0, <1>2, RoundAnswered
<1>5. \A c \in Calls : c[1] = t =>
         (TellsOf(t, m, c) <=> c[2] = old.iteration /\ c[3] <= Len(old.told))
  <2>1. \A c \in Calls : c[3] \in Nat /\ 1 <= c[3]
    BY LoopAssumption DEF Calls
  <2>2. \A c : c[1] = t => (TellsOf(t, m, c) <=>
                c[2] = old.iteration /\ c[3] \in 1..Len(told) /\ told[c[3]])
    BY <1>0, <1>2, RoundTells
  <2>3. Len(old.told) \in Nat
    BY <1>1
  <2> HIDE DEF told, m, old
  <2> QED
    BY <1>1, <1>2, <1>3, <2>1, <2>2, <2>3
<1> HIDE DEF told, m
<1>6. /\ said \in Seq(Message)
      /\ ToldIn(t, said) = ToldIn(t, old.messages)
                             \cup {c \in Calls : c[1] = t /\ TellsOf(t, m, c)}
      /\ \A u \in Turns : u # t /\ NoRoundOf(u, old.messages) => NoRoundOf(u, said)
  BY <1>0, <1>4, ToldAppend DEF Turn
<1>7. GoesOn(old)
  BY <1>0 DEF GoesOn, InIteration, InRound
<1>8. /\ \A u \in Turns : RanBy(u)' = RanBy(u)
      /\ RanBy(t) = ToldIn(t, said)
  <2>1. RanBy(t) = ToldIn(t, old.messages) \cup UnderWay(t, old)
    BY <1>7 DEF RanInv
  <2>2. UnderWay(t, old) = {c \in Calls : c[1] = t /\ TellsOf(t, m, c)}
    BY <1>5 DEF UnderWay
  <2> QED
    BY <1>0, <1>6, <2>1, <2>2 DEF RanBy
<1> HIDE DEF said
<1>9. /\ k \in Turn /\ k.at = "handing" /\ k.messages = said /\ k.told = <<>>
      /\ k.unfinished = old.unfinished
  BY <1>0, <1>1, <1>6, NoneSaid DEF Turn, Running
<1>10. UnderWay(t, k) = {} /\ ~Fresh(k)
  BY <1>9 DEF UnderWay, Calls, Fresh
<1> HIDE DEF k, old
<1> QED
  BY ZenonT(60), <1>0, <1>6, <1>8, <1>9, <1>10, KnowsKeeps DEF old

\* The call of a stopped turn that runs on: no model will be asked to go on.
LEMMA AbandonedKnows ==
    ASSUME Inv, RanInv, FreshInv, NEW t \in Turns, AbandonedToolRuns(t)
    PROVE  RanInv' /\ FreshInv'
<1> DEFINE old == turn[t]
           k == [old EXCEPT !.at = "reporting", !.result = "failed",
                            !.asked = 0, !.told = <<>>]
<1>0. /\ old \in Turn /\ ran' = ran \cup {NextCall(t)} /\ UNCHANGED history
      /\ turn' = [turn EXCEPT ![t] = k]
  BY DEF Inv, TypeOK, AbandonedToolRuns, EndsWith
<1>1. \A u \in Turns \ {t} : RanBy(u)' = RanBy(u)
  BY <1>0 DEF RanBy, NextCall
<1>2. /\ k \in Turn /\ k.at = "reporting" /\ k.messages = old.messages
      /\ k.unfinished = old.unfinished
  BY <1>0, NoneSaid DEF Turn, Running
<1>3. ~Fresh(k) /\ ~GoesOn(k)
  BY <1>2 DEF Fresh, GoesOn, InIteration, InRound
<1> HIDE DEF k, old
<1> QED
  BY <1>0, <1>1, <1>2, <1>3, KnowsKeeps DEF old

\* Every step keeps what a model is told and what ran in accord.
LEMMA KnowsNext == Inv /\ RanInv /\ FreshInv /\ [Next]_vars => RanInv' /\ FreshInv'
<1> SUFFICES ASSUME Inv, RanInv, FreshInv, [Next]_vars PROVE RanInv' /\ FreshInv'
  OBVIOUS
<1>1. CASE Stop
  <2>1. CASE activeRuns = None
    BY <1>1, <2>1 DEF Stop, RanInv, FreshInv, RanBy, ToldIn, UnderWay, GoesOn, Fresh,
                      NoRoundOf
  <2>2. CASE activeRuns # None
    <3> DEFINE t == activeRuns
               k == [turn[t] EXCEPT !.stopped = TRUE]
    <3>1. /\ t \in Turns /\ turn[t] \in Turn /\ turn' = [turn EXCEPT ![t] = k]
          /\ UNCHANGED <<history, ran>>
      BY <1>1, <2>2 DEF Stop, Inv, TypeOK
    <3>2. /\ k \in Turn /\ k.at = turn[t].at /\ k.messages = turn[t].messages
          /\ k.unfinished = turn[t].unfinished /\ k.iteration = turn[t].iteration
          /\ k.told = turn[t].told /\ k.resuming = turn[t].resuming
          /\ k.result = turn[t].result
      BY <3>1 DEF Turn
    <3>3. (Fresh(k) => Fresh(turn[t])) /\ (GoesOn(k) => GoesOn(turn[t]))
      BY <3>2 DEF Fresh, GoesOn
    <3> HIDE DEF k, t
    <3> QED
      BY <3>1, <3>2, <3>3, QuietStep
  <2> QED
    BY <2>1, <2>2
<1>2. CASE UNCHANGED vars
  BY <1>2 DEF vars, RanInv, FreshInv, RanBy, ToldIn, UnderWay, GoesOn, Fresh, NoRoundOf
<1> QED
  BY <1>1, <1>2, QuietSteps, AssembleKnows, StoreKnows, ToolKnows, PendsKnows,
     AbandonedKnows DEF Next, OwnSteps, ModelAndTools

\* They are in accord at the beginning.
LEMMA KnowsInit == Init => RanInv /\ FreshInv
<1> SUFFICES ASSUME Init PROVE RanInv /\ FreshInv
  OBVIOUS
<1>1. \A t \in Turns : /\ turn[t].at = "new" /\ turn[t].messages = <<>>
                       /\ turn[t].unfinished = <<>>
  BY DEF Init, NewTurn
<1>2. \A t \in Turns : ~GoesOn(turn[t])
  BY <1>1 DEF GoesOn, InIteration, InRound
<1>3. \A t \in Turns : RanBy(t) = {} /\ NoRoundOf(t, history) /\ NoRoundOf(t, <<>>)
  BY DEF Init, RanBy, NoRoundOf
<1> QED
  BY <1>1, <1>2, <1>3 DEF RanInv, FreshInv

-----------------------------------------------------------------------------
(* What queued turns leave in the history *)

\* The turn is not in its generator.
Out(k) == k.at \notin Running \cup {"closing"}

\* Both what the turn would store and what it would leave unfinished start with
\* this history.
Extends(h, k) == IsPrefixOf(h, k.messages) /\ IsPrefixOf(h, k.unfinished)

\* One turn is under way at most, and what it has to keep extends the history.
KeptInv ==
    /\ \A t, u \in Turns : t # u => Out(turn[t]) \/ Out(turn[u])
    /\ \A t \in Turns : turn[t].keeps => ~Out(turn[t]) /\ Extends(history, turn[t])

\* A sequence is a prefix of itself with something added.
LEMMA PrefixAppend ==
    ASSUME NEW h \in Seq(Message), NEW k \in Seq(Message), NEW m \in Message
    PROVE  /\ IsPrefixOf(h, h)
           /\ IsPrefixOf(h, Append(h, m))
           /\ IsPrefixOf(h, k) => IsPrefixOf(h, Append(k, m))
<1>1. SubSeq(h, 1, Len(h)) = h
  BY SubSeqFull
<1>2. ASSUME NEW s \in Seq(Message), IsPrefixOf(h, s) PROVE IsPrefixOf(h, Append(s, m))
  <2>1. /\ Len(h) \in Nat /\ Len(s) \in Nat /\ Len(h) <= Len(s)
        /\ Append(s, m) \in Seq(Message) /\ Len(Append(s, m)) = Len(s) + 1
        /\ \A i \in 1..Len(s) : Append(s, m)[i] = s[i]
    BY <1>2 DEF IsPrefixOf
  <2> DEFINE a == SubSeq(Append(s, m), 1, Len(h))
             b == SubSeq(s, 1, Len(h))
  <2>2. /\ a \in Seq(Message) /\ Len(a) = Len(h)
        /\ \A i \in 1..Len(h) : a[i] = Append(s, m)[i]
    <3>1. \A i \in 1..Len(h) : Append(s, m)[i] \in Message
      BY <2>1
    <3> QED BY <2>1, <3>1, SubSeqProperties
  <2>3. /\ b \in Seq(Message) /\ Len(b) = Len(h)
        /\ \A i \in 1..Len(h) : b[i] = s[i]
    <3>1. \A i \in 1..Len(h) : s[i] \in Message
      BY <2>1
    <3> QED BY <2>1, <3>1, SubSeqProperties
  <2>4. b = h
    BY <1>2 DEF IsPrefixOf
  <2> HIDE DEF a, b
  <2>5. \A i \in 1..Len(h) : a[i] = b[i]
    BY <2>1, <2>2, <2>3
  <2>6. a = b
    BY <2>2, <2>3, <2>5
  <2> QED BY <2>1, <2>4, <2>6 DEF IsPrefixOf, a
<1>3. IsPrefixOf(h, h)
  BY <1>1 DEF IsPrefixOf
<1> QED BY <1>2, <1>3

\* One turn changes; the history changes only from within its generator.
LEMMA OneKeeps ==
    ASSUME Inv, KeptInv, NEW t \in Turns, NEW k,
           turn' = [turn EXCEPT ![t] = k],
           Out(turn[t]) => Out(k),
           Out(turn[t]) => history' = history,
           k.keeps => ~Out(k) /\ Extends(history', k)
    PROVE  KeptInv'
<1>1. \A u \in Turns : turn'[u] = IF u = t THEN k ELSE turn[u]
  BY DEF Inv, TypeOK
<1>2. ASSUME NEW u \in Turns, NEW w \in Turns, u # w
      PROVE  Out(turn'[u]) \/ Out(turn'[w])
  BY <1>1, <1>2 DEF KeptInv
<1>3. ASSUME NEW u \in Turns, turn'[u].keeps
      PROVE  ~Out(turn'[u]) /\ Extends(history', turn'[u])
  <2>1. CASE u = t
    BY <1>1, <1>3, <2>1
  <2>2. CASE u # t
    <3>1. turn'[u] = turn[u] /\ ~Out(turn[u]) /\ Extends(history, turn[u])
      BY <1>1, <1>3, <2>2 DEF KeptInv
    <3>2. history' = history
      BY <2>2, <3>1 DEF KeptInv
    <3> QED BY <3>1, <3>2
  <2> QED BY <2>1, <2>2
<1> QED BY <1>2, <1>3 DEF KeptInv, Out, Extends, IsPrefixOf

\* Steps that leave a turn its conversation, but for a round that is pushed.
LEMMA LoopKept ==
    ASSUME Inv, KeptInv, NEW t \in Turns,
           \/ CallModel(t) \/ HitsLimit(t) \/ AnnounceTool(t) \/ CallTool(t)
           \/ StopLands(t) \/ Fails(t) \/ Finally(t) \/ ConsumerLeaves(t) \/ Pauses(t)
           \/ Answers(t) \/ AsksForTools(t) \/ ToolReturns(t) \/ ToolPends(t)
           \/ AbandonedToolRuns(t)
    PROVE  KeptInv' /\ history' = history
<1> DEFINE old == turn[t]
<1>0. /\ old \in Turn /\ TurnInv(old) /\ turn \in [Turns -> Turn]
      /\ history \in Seq(Message)
  BY DEF Inv, TypeOK
<1>k. ASSUME NEW k, turn' = [turn EXCEPT ![t] = k], UNCHANGED history,
             k.at \in Running \cup {"closing"}, old.at \in Running,
             k.keeps = old.keeps, k.unfinished = old.unfinished,
             \/ k.messages = old.messages
             \/ \E m \in Message : k.messages = Append(old.messages, m)
      PROVE  KeptInv'
  <2>1. ~Out(k) /\ ~Out(old)
    BY <1>k DEF Out
  <2>2. ASSUME old.keeps PROVE Extends(history, k)
    <3>1. Extends(history, old)
      BY <2>2 DEF KeptInv
    <3>2. IsPrefixOf(history, k.messages)
      <4>1. /\ IsPrefixOf(history, old.messages)
            /\ history \in Seq(Message) /\ old.messages \in Seq(Message)
        BY <1>0, <3>1 DEF Extends, Turn
      <4>2. CASE k.messages = old.messages
        BY <4>1, <4>2
      <4>3. CASE \E m \in Message : k.messages = Append(old.messages, m)
        <5>1. PICK m \in Message : k.messages = Append(old.messages, m)
          BY <4>3
        <5> QED BY <4>1, <5>1, PrefixAppend
      <4> QED BY <1>k, <4>2, <4>3
    <3> QED BY <1>k, <3>1, <3>2 DEF Extends
  <2> HIDE DEF old
  <2>3. k.keeps => ~Out(k) /\ Extends(history', k)
    BY <1>k, <2>1, <2>2
  <2> QED BY <1>k, <2>1, <2>3, OneKeeps DEF old
<1>1. CASE HitsLimit(t) \/ Answers(t) \/ AnnounceTool(t) \/ CallTool(t)
  <2>1. PICK a \in {"storing", "announcing", "executing"} :
           turn' = [turn EXCEPT ![t] = [old EXCEPT !.at = a]]
    BY <1>1 DEF HitsLimit, Answers, AnnounceTool, CallTool, Goes
  <2>2. UNCHANGED history /\ old.at \in Running
    BY <1>1 DEF HitsLimit, Answers, AnnounceTool, CallTool, At, Running
  <2> DEFINE k == [old EXCEPT !.at = a]
  <2>3. /\ k.at = a /\ k.keeps = old.keeps /\ k.unfinished = old.unfinished
        /\ k.messages = old.messages
    BY <1>0 DEF Turn
  <2>4. a \in Running
    BY DEF Running
  <2> HIDE DEF k, old
  <2> QED BY <1>k, <2>1, <2>2, <2>3, <2>4 DEF k
<1>2. CASE CallModel(t)
  <2> DEFINE k == [old EXCEPT !.at = "calling", !.modelCalls = old.modelCalls + 1]
  <2>1. turn' = [turn EXCEPT ![t] = k] /\ UNCHANGED history /\ old.at \in Running
    BY <1>2 DEF CallModel, At, Running
  <2>2. /\ k.at = "calling" /\ k.keeps = old.keeps /\ k.unfinished = old.unfinished
        /\ k.messages = old.messages
    BY <1>0 DEF Turn
  <2> HIDE DEF k, old
  <2> QED BY <1>k, <2>1, <2>2 DEF Running
<1>3. CASE AsksForTools(t)
  <2>1. PICK n \in 1..MaxCalls : turn' = [turn EXCEPT ![t] =
              [@ EXCEPT !.at = "checking", !.asked = n, !.told = <<>>]]
    BY <1>3 DEF AsksForTools
  <2> DEFINE k == [old EXCEPT !.at = "checking", !.asked = n, !.told = <<>>]
  <2>2. turn' = [turn EXCEPT ![t] = k] /\ UNCHANGED history /\ old.at \in Running
    BY <1>3, <2>1 DEF AsksForTools, At, Running
  <2>3. /\ k.at = "checking" /\ k.keeps = old.keeps /\ k.unfinished = old.unfinished
        /\ k.messages = old.messages
    BY <1>0 DEF Turn
  <2> HIDE DEF k, old
  <2> QED BY <1>k, <2>2, <2>3 DEF Running
<1>4. CASE \/ StopLands(t) \/ Fails(t) \/ Finally(t) \/ ConsumerLeaves(t) \/ Pauses(t)
           \/ AbandonedToolRuns(t)
  <2>1. PICK a \in {"reporting", "closing"},
             result \in {"none", "completed", "failed", "paused"} :
           turn' = [turn EXCEPT ![t] =
              [old EXCEPT !.at = a, !.result = result, !.asked = 0, !.told = <<>>]]
    <3>1. old.result \in {"none", "completed", "failed", "paused"}
      BY <1>0 DEF Turn
    <3> QED
      BY <1>4, <3>1 DEF StopLands, Fails, Finally, ConsumerLeaves, Pauses,
                       AbandonedToolRuns, EndsWith, Leaves
  <2>2. UNCHANGED history /\ old.at \in Running
    BY <1>4 DEF StopLands, Fails, Finally, ConsumerLeaves, Pauses, AbandonedToolRuns,
                At, Running, LooksAtSignal
  <2> DEFINE k == [old EXCEPT !.at = a, !.result = result, !.asked = 0, !.told = <<>>]
  <2>3. /\ k.at = a /\ k.keeps = old.keeps /\ k.unfinished = old.unfinished
        /\ k.messages = old.messages
    BY <1>0 DEF Turn
  <2>4. a \in Running \cup {"closing"}
    BY DEF Running
  <2> HIDE DEF k, old
  <2> QED BY <1>k, <2>1, <2>2, <2>3, <2>4 DEF k
<1>5. CASE ToolReturns(t)
  <2> DEFINE told == Append(old.told, TRUE)
             more == [old EXCEPT !.at = "checking", !.told = told]
             pushed == [old EXCEPT !.at = "looping", !.asked = 0, !.told = <<>>,
                                   !.messages = Append(old.messages, RoundOf(t, told)),
                                   !.iteration = old.iteration + 1]
  <2>0. /\ old.at = "executing" /\ UNCHANGED history /\ told \in Seq(BOOLEAN)
        /\ Len(told) = Len(old.told) + 1 /\ Len(old.told) < old.asked
        /\ old.asked \in Nat /\ Len(old.told) \in Nat
    BY <1>0, <1>5 DEF ToolReturns, At, Turn, TurnInv, InRound
  <2>1. CASE Len(told) < old.asked
    <3>1. turn' = [turn EXCEPT ![t] = more]
      BY <1>5, <2>1 DEF ToolReturns
    <3> HIDE DEF told
    <3>2. /\ more.at = "checking" /\ more.keeps = old.keeps
          /\ more.unfinished = old.unfinished /\ more.messages = old.messages
      BY <1>0 DEF Turn
    <3> HIDE DEF more, old
    <3> QED BY <1>k, <2>0, <3>1, <3>2 DEF Running
  <2>2. CASE ~(Len(told) < old.asked)
    <3>1. turn' = [turn EXCEPT ![t] = pushed]
      BY <1>5, <2>2 DEF ToolReturns
    <3>2. Len(told) = old.asked
      <4> HIDE DEF told, old
      <4> QED BY <2>0, <2>2
    <3> HIDE DEF told
    <3>3. RoundOf(t, told) \in Message
      BY <1>0, <2>0, <3>2, RoundAnswered
    <3>4. /\ pushed.at = "looping" /\ pushed.keeps = old.keeps
          /\ pushed.unfinished = old.unfinished
          /\ pushed.messages = Append(old.messages, RoundOf(t, told))
      BY <1>0 DEF Turn
    <3> HIDE DEF pushed, old
    <3> QED BY <1>k, <2>0, <3>1, <3>3, <3>4 DEF Running
  <2> QED BY <2>1, <2>2
<1>6. CASE ToolPends(t)
  <2> DEFINE told == ToldAtPause(t)
             k == [old EXCEPT !.at = "handing", !.asked = 0, !.told = <<>>,
                              !.messages = Append(old.messages, RoundOf(t, told)),
                              !.iteration = old.iteration + 1]
  <2>1. /\ old.at = "executing" /\ UNCHANGED history
        /\ turn' = [turn EXCEPT ![t] = k]
    BY <1>6 DEF ToolPends, At
  <2>2. RoundOf(t, told) \in Message
    <3>1. old.asked \in Nat /\ old.told \in Seq(BOOLEAN)
      BY <1>0 DEF Turn
    <3>2. told \in [1..old.asked -> BOOLEAN]
      <4> SUFFICES ASSUME NEW i \in 1..old.asked
                   PROVE  (IF i <= Len(old.told) THEN old.told[i] ELSE FALSE) \in BOOLEAN
        BY DEF ToldAtPause
      <4>1. i <= Len(old.told) => old.told[i] \in BOOLEAN
        BY <3>1
      <4> QED BY <4>1
    <3> HIDE DEF told
    <3>3. told \in Seq(BOOLEAN) /\ Len(told) = old.asked
      BY <3>1, <3>2
    <3> QED BY <1>0, <3>3, RoundAnswered
  <2> HIDE DEF told
  <2>3. /\ k.at = "handing" /\ k.keeps = old.keeps /\ k.unfinished = old.unfinished
        /\ k.messages = Append(old.messages, RoundOf(t, told))
    BY <1>0 DEF Turn
  <2> HIDE DEF k, old
  <2> QED BY <1>k, <2>1, <2>2, <2>3 DEF Running
<1> QED
  BY <1>1, <1>2, <1>3, <1>4, <1>5, <1>6
     DEF HitsLimit, Answers, AnnounceTool, CallTool, CallModel, AsksForTools, StopLands,
         Fails, Finally, ConsumerLeaves, Pauses, AbandonedToolRuns, ToolReturns, ToolPends

\* A turn starts, takes up the history or its checkpoint, and stores.
LEMMA StartKept == ASSUME Queued, Inv, KeptInv, NEW t \in Turns, Start(t) PROVE KeptInv'
<1> DEFINE old == turn[t]
<1>0. /\ old \in Turn /\ old.at \in {"new", "paused"} /\ UNCHANGED history
      /\ turn \in [Turns -> Turn]
      /\ \A u \in Turns : u # t => Out(turn[u])
  BY DEF Inv, TypeOK, Start, At, OthersAreOut, Out
<1>1. PICK a \in {"busy", "preparing"} : turn' = [turn EXCEPT ![t] = [old EXCEPT !.at = a]]
  BY DEF Start, Goes
<1> DEFINE k == [old EXCEPT !.at = a]
<1>2. ~old.keeps
  BY <1>0 DEF KeptInv, Out, Running
<1>3. k.keeps = old.keeps
  BY <1>0 DEF Turn
<1>4. \A u \in Turns : turn'[u] = IF u = t THEN k ELSE turn[u]
  BY <1>0, <1>1
<1> HIDE DEF k, old
<1>5. \A u \in Turns : ~turn'[u].keeps
  BY <1>0, <1>2, <1>3, <1>4 DEF KeptInv
<1>6. \A u, w \in Turns : u # w => Out(turn'[u]) \/ Out(turn'[w])
  BY <1>0, <1>4
<1> QED BY <1>5, <1>6 DEF KeptInv, Out

\* Assembling the context keeps KeptInv and writes no history.
LEMMA AssembleKept ==
    ASSUME Inv, KeptInv, NEW t \in Turns, Assemble(t) PROVE KeptInv' /\ history' = history
<1> DEFINE old == turn[t]
<1>0. /\ old \in Turn /\ old.at = "preparing" /\ UNCHANGED history
      /\ history \in Seq(Message) /\ old.messages \in Seq(Message)
  BY DEF Inv, TypeOK, Assemble, At, Turn
<1>1. ~Out(old)
  BY <1>0 DEF Out, Running
<1>2. CASE old.resuming
  <2> DEFINE said == Append(old.messages, Said("decision", t))
             k == [old EXCEPT !.at = "looping", !.resuming = FALSE,
                              !.messages = said, !.iteration = old.iteration]
  <2>1. turn' = [turn EXCEPT ![t] = k]
    BY <1>2 DEF Assemble, ResumeIteration
  <2>2. old.keeps => Extends(history, old)
    BY DEF KeptInv
  <2>3. old.keeps => IsPrefixOf(history, said)
    BY <1>0, <2>2, SaidType, PrefixAppend DEF Extends
  <2> HIDE DEF said
  <2>4. /\ k.at = "looping" /\ k.keeps = old.keeps /\ k.messages = said
        /\ k.unfinished = old.unfinished
    BY <1>0 DEF Turn
  <2>5. ~Out(k)
    BY <2>4 DEF Out, Running
  <2>6. k.keeps => Extends(history, k)
    BY <2>2, <2>3, <2>4 DEF Extends
  <2> HIDE DEF k, old
  <2> QED BY <1>0, <1>1, <2>1, <2>5, <2>6, OneKeeps DEF old
<1>3. CASE ~old.resuming
  <2> DEFINE said == Append(history, Said("user", t))
             k == [old EXCEPT !.at = "looping", !.keeps = TRUE,
                              !.messages = said, !.unfinished = said]
  <2>1. turn' = [turn EXCEPT ![t] = k]
    BY <1>3 DEF Assemble
  <2>2. IsPrefixOf(history, said)
    BY <1>0, SaidType, PrefixAppend
  <2> HIDE DEF said
  <2>3. k.at = "looping" /\ k.messages = said /\ k.unfinished = said
    BY <1>0 DEF Turn
  <2>4. ~Out(k) /\ Extends(history, k)
    BY <2>2, <2>3 DEF Out, Running, Extends
  <2> HIDE DEF k, old
  <2> QED BY <1>0, <1>1, <2>1, <2>4, OneKeeps DEF old
<1> QED BY <1>0, <1>2, <1>3

\* A turn that stores its history extends the one it found.
LEMMA StoreKept ==
    ASSUME Inv, KeptInv, NEW t \in Turns, Store(t)
    PROVE  KeptInv' /\ (turn[t].keeps => IsPrefixOf(history, history'))
<1> DEFINE old == turn[t]
           k == [old EXCEPT !.at = "reporting", !.result = "completed",
                            !.keeps = FALSE, !.unfinished = <<>>]
<1>0. /\ old \in Turn /\ old.at = "storing" /\ turn' = [turn EXCEPT ![t] = k]
      /\ history' = Append(old.messages, Said("assistant", t))
      /\ history \in Seq(Message) /\ old.messages \in Seq(Message)
  BY DEF Inv, TypeOK, Store, At, Turn
<1>1. ~Out(old) /\ ~k.keeps
  BY <1>0 DEF Out, Running, Turn
<1>2. ASSUME old.keeps PROVE IsPrefixOf(history, history')
  BY <1>0, <1>2, SaidType, PrefixAppend DEF KeptInv, Extends
<1> HIDE DEF k
<1>3. KeptInv'
  BY <1>0, <1>1, OneKeeps
<1> QED BY <1>2, <1>3

\* So does one that closes without having completed.
LEMMA ClosesKept ==
    ASSUME Inv, KeptInv, NEW t \in Turns, Closes(t)
    PROVE  KeptInv' /\ (turn[t].keeps => IsPrefixOf(history, history'))
<1> DEFINE old == turn[t]
           again == [old EXCEPT !.at = "paused", !.stopped = FALSE, !.keeps = FALSE,
                                !.unfinished = <<>>, !.result = "none"]
           ended == [NewTurn EXCEPT !.at = old.result, !.modelCalls = old.modelCalls]
<1>0. /\ old \in Turn /\ old.at = "closing" /\ history \in Seq(Message)
      /\ history' = history \/ (old.keeps /\ history' = old.unfinished)
  BY DEF Inv, TypeOK, Closes, At, HistoryAfter
<1>1. ~Out(old)
  BY <1>0 DEF Out
<1>2. PICK k \in {again, ended} : turn' = [turn EXCEPT ![t] = k]
  BY DEF Closes
<1>3. ~again.keeps /\ ~ended.keeps
  BY <1>0 DEF Turn, NewTurn
<1> HIDE DEF again, ended
<1>4. KeptInv'
  BY <1>1, <1>2, <1>3, OneKeeps
<1>5. ASSUME old.keeps PROVE IsPrefixOf(history, history')
  <2>1. IsPrefixOf(history, old.unfinished)
    BY <1>5 DEF KeptInv, Extends
  <2>2. \E m \in Message : TRUE
    BY SaidType
  <2> QED BY <1>0, <2>1, <2>2, PrefixAppend
<1> QED BY <1>4, <1>5

\* Every step keeps KeptInv, and one that stores drops nothing.
LEMMA NextKept ==
    Queued /\ Inv /\ KeptInv /\ [Next]_vars =>
        /\ KeptInv'
        /\ (\E t \in Turns : turn[t].keeps /\ turn'[t].at # turn[t].at)
              => IsPrefixOf(history, history')
<1> SUFFICES ASSUME Queued, Inv, KeptInv, [Next]_vars
             PROVE  /\ KeptInv'
                    /\ \A t \in Turns : turn[t].keeps /\ turn'[t].at # turn[t].at
                          => IsPrefixOf(history, history')
  OBVIOUS
<1>t. turn \in [Turns -> Turn] /\ history \in Seq(Message)
  BY DEF Inv, TypeOK
<1>same. ASSUME history' = history, Turns # {} PROVE IsPrefixOf(history, history')
  <2>1. \E m \in Message : TRUE
    BY <1>same, SaidType
  <2> QED BY <1>same, <1>t, <2>1, PrefixAppend
<1>1. ASSUME NEW t \in Turns, Store(t) \/ Closes(t)
      PROVE  /\ KeptInv'
             /\ \A u \in Turns : turn[u].keeps /\ turn'[u].at # turn[u].at
                   => IsPrefixOf(history, history')
  <2>1. KeptInv' /\ (turn[t].keeps => IsPrefixOf(history, history'))
    BY <1>1, StoreKept, ClosesKept
  <2>2. \A u \in Turns : u # t => turn'[u] = turn[u]
    BY <1>1, <1>t DEF Store, Closes
  <2> QED BY <2>1, <2>2
<1>2. ASSUME NEW t \in Turns, Decide(t) PROVE KeptInv' /\ history' = history
  <2> DEFINE k == [turn[t] EXCEPT !.resuming = TRUE]
  <2>1. /\ turn' = [turn EXCEPT ![t] = k] /\ history' = history
        /\ turn[t].at = "paused" /\ k.at = "paused" /\ k.keeps = turn[t].keeps
    BY <1>2, <1>t DEF Decide, At, Turn
  <2>2. Out(turn[t]) /\ Out(k)
    BY <2>1 DEF Out, Running
  <2>3. ~k.keeps
    BY <2>1, <2>2 DEF KeptInv
  <2> HIDE DEF k
  <2> QED BY <2>1, <2>2, <2>3, OneKeeps
<1>3. ASSUME Stop PROVE KeptInv'
  <2>1. CASE activeRuns = None
    BY <1>3, <2>1 DEF Stop, KeptInv, Out, Extends, IsPrefixOf
  <2>2. CASE activeRuns # None
    <3> DEFINE t == activeRuns
               k == [turn[t] EXCEPT !.stopped = TRUE]
    <3>1. t \in Turns /\ turn' = [turn EXCEPT ![t] = k] /\ history' = history
      BY <1>3, <2>2 DEF Stop, Inv, TypeOK
    <3>2. /\ k.at = turn[t].at /\ k.keeps = turn[t].keeps
          /\ k.messages = turn[t].messages /\ k.unfinished = turn[t].unfinished
      BY <1>t, <3>1 DEF Turn
    <3>3. /\ Out(k) <=> Out(turn[t])
          /\ k.keeps => ~Out(k) /\ Extends(history, k)
      BY <3>1, <3>2 DEF KeptInv, Out, Extends
    <3> HIDE DEF k, t
    <3> QED BY <3>1, <3>3, OneKeeps
  <2> QED BY <2>1, <2>2
<1>4. ASSUME UNCHANGED vars PROVE KeptInv'
  BY <1>4 DEF vars, KeptInv, Out, Extends, IsPrefixOf
<1>5. CASE \E t \in Turns : Store(t) \/ Closes(t)
  BY <1>1, <1>5
<1>6. CASE ~\E t \in Turns : Store(t) \/ Closes(t)
  <2>1. KeptInv' /\ history' = history
    <3>1. ASSUME NEW t \in Turns, Start(t) PROVE KeptInv' /\ history' = history
      BY <3>1, StartKept DEF Start
    <3>2. CASE Stop \/ UNCHANGED vars
      BY <1>3, <1>4, <3>2 DEF Stop, vars
    <3> QED
      BY <1>2, <1>6, <3>1, <3>2, AssembleKept, LoopKept DEF Next, OwnSteps, ModelAndTools
  <2> QED BY <1>same, <2>1
<1> QED BY <1>5, <1>6

-----------------------------------------------------------------------------
(* Theorems *)

\* Turns, conversations, the registered controller and the calls that ran keep
\* their types through pauses, stops and consumers that leave.
THEOREM TypeCorrect == Spec => []TypeOK
BY SpecInv, PTL DEF Inv

\* Whatever is kept or sent to a model has one message for each tool call, be
\* the round cut short by a pause, a stop or an error (executeToolRound).
THEOREM EveryCallAnswered == Spec => []CallsAreAnswered
<1>1. Inv => CallsAreAnswered
  BY DEF Inv, TurnInv, CallsAreAnswered
<1> QED
  BY <1>1, SpecInv, PTL

\* A turn calls the model maxToolIterations times at most, however often it
\* pauses and is resumed (runtime.ts, the loop and the checkpoint's iteration).
THEOREM BudgetNeverExceeded == Spec => []BudgetKept
<1>1. Inv => BudgetKept
  BY DEF Inv, TurnInv, BudgetKept
<1> QED
  BY <1>1, SpecInv, PTL

\* stop() finds the turn that runs: the controller registered for the session
\* is that of the only turn within its generator, and there is none otherwise.
THEOREM StopFindsTheRun == Spec => []StopReachesTheRun
BY SpecInv, PTL DEF Inv

\* Whenever a model is asked to go on, the conversation it gets tells of every
\* tool call of the turn that ran and of no other, across any number of pauses
\* (executeToolRound, run-checkpoint.ts).
THEOREM ModelIsTold == Spec => []ModelKnowsWhatRan
<1>1. Inv /\ RanInv => ModelKnowsWhatRan
  <2> SUFFICES ASSUME Inv, RanInv, NEW t \in Turns, turn[t].at = "calling"
               PROVE  ToldAsRun(t) = RanBy(t)
    BY DEF ModelKnowsWhatRan, At, RanBy
  <2>1. turn[t].told = <<>> /\ GoesOn(turn[t])
    BY DEF Inv, TurnInv, InRound, GoesOn, InIteration
  <2>2. UnderWay(t, turn[t]) = {}
    BY <2>1 DEF UnderWay, Calls
  <2>3. ToldIn(t, turn[t].messages) = ToldAsRun(t)
    BY DEF ToldIn, ToldAsRun, TellsOf
  <2> QED
    BY <2>1, <2>2, <2>3 DEF RanInv
<1>2. RanInv /\ FreshInv /\ Inv /\ [Next]_vars => RanInv' /\ FreshInv'
  BY KnowsNext
<1> QED
  BY <1>1, <1>2, KnowsInit, InitInv, NextInv, PTL DEF Spec

\* A turn takes nothing from the history it found, however it ends -- done,
\* failed, stopped, paused, or left by its consumer -- when the turns of the
\* session are started one after the other, as the turn queue does (audit G-01,
\* unfinishedTurnHistory in runtime.ts).  Started in between, one can lose
\* what another leaves unfinished (HistoryAfterRelease).
THEOREM QueuedTurnsKeepHistory == Queued => (Spec => HistoryIsKept)
<1> SUFFICES ASSUME Queued PROVE Spec => HistoryIsKept
  OBVIOUS
<1>1. Init => KeptInv
  BY DEF Init, KeptInv, NewTurn, Out, Running
<1>2. Inv /\ KeptInv /\ [Next]_vars => KeptInv'
  BY NextKept
<1>3. Inv /\ KeptInv /\ [Next]_vars =>
        [(\E t \in Turns : turn[t].keeps /\ turn'[t].at # turn[t].at)
             => IsPrefixOf(history, history')]_vars
  BY NextKept
<1> QED
  BY <1>1, <1>2, <1>3, SpecInv, PTL DEF Spec, HistoryIsKept

=============================================================================
