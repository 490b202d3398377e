-------------------------- MODULE TurnQueueProofs --------------------------
(***************************************************************************)
(* Proofs about TurnQueue for every set of requests and sessions and every *)
(* number of slots.  Two inductive invariants carry them.  ChainInv orders *)
(* the promises of one session by arrival: the map holds the youngest, and *)
(* a request is chained behind the one that arrived just before it, or     *)
(* behind nothing when all of those have ended.  SlotInv ties the          *)
(* semaphore's count to the turns that run.                                *)
(***************************************************************************)
EXTENDS TurnQueue, FiniteSetTheorems, SequenceTheorems, TLAPS

SameSession(r, q) == SessionOf[r] = SessionOf[q]

TicketsInv ==
    \A r \in Requests :
        /\ stage[r] = "unsent" <=> ticket[r] = 0
        /\ ticket[r] <= arrivals[SessionOf[r]]
        /\ \A q \in Requests :
              SameSession(r, q) /\ ticket[r] = ticket[q] /\ ticket[r] > 0 => r = q

TailsInv ==
    \A s \in Sessions : isBusy(s) =>
        /\ SessionOf[tails[s]] = s
        /\ ticket[tails[s]] = arrivals[s]
        /\ ticket[tails[s]] > 0

PreviousInv ==
    \A r \in Requests : ticket[r] > 0 =>
        /\ previous[r] # NoRequest =>
              /\ SameSession(r, previous[r])
              /\ ticket[previous[r]] > 0
              /\ ticket[r] = ticket[previous[r]] + 1
        /\ previous[r] = NoRequest =>
              \A q \in Requests :
                 SameSession(r, q) /\ ticket[q] > 0 /\ ticket[q] < ticket[r]
                 => stage[q] \in Settled

ChainInv ==
    /\ TypeOK
    /\ TicketsInv
    /\ TailsInv
    /\ PreviousInv
    /\ NotBusyMeansFinished
    /\ ArrivalOrder

SlotInv ==
    /\ SlotsRespected
    /\ NoSlotIdlesWhileTurnWaits
    /\ \A i \in 1..Len(waiters) : stage[waiters[i]] = "waiting"
    /\ \A i, j \in 1..Len(waiters) : waiters[i] = waiters[j] => i = j

-----------------------------------------------------------------------------
\* The state stays of the declared types; the one place where it could fail is
\* the semaphore's count going below zero, which needs SlotInv.
LEMMA InitChain == Init => ChainInv
<1> SUFFICES ASSUME Init PROVE ChainInv
  OBVIOUS
<1>1. TypeOK
  BY EmptySeq DEF Init, TypeOK, Stages
<1> QED
  BY <1>1, SessionAssumption
  DEF Init, ChainInv, TicketsInv, TailsInv, PreviousInv, NotBusyMeansFinished,
      ArrivalOrder, isBusy, Settled, SameSession

\* At the beginning every slot is free.
LEMMA InitSlots == Init => SlotInv
<1> SUFFICES ASSUME Init PROVE SlotInv
  OBVIOUS
<1>1. Running = {}
  BY DEF Init, Running
<1>2. Cardinality(Running) = 0
  BY <1>1, FS_EmptySet
<1> QED
  BY <1>2, LimitAssumption
  DEF Init, SlotInv, SlotsRespected, NoSlotIdlesWhileTurnWaits

-----------------------------------------------------------------------------
\* Putting a request on the queue: it arrives last in its session, and if the
\* map had no entry every earlier turn of the session has ended.
LEMMA ChainStep ==
    ASSUME ChainInv, NEW r \in Requests, Chain(r)
    PROVE  TicketsInv' /\ TailsInv' /\ PreviousInv' /\ NotBusyMeansFinished'
           /\ ArrivalOrder'
<1> DEFINE s == SessionOf[r]
<1>0. s \in Sessions /\ NoRequest \notin Requests
  BY SessionAssumption, RequestsAssumption
<1>1. /\ stage[r] = "unsent"
      /\ stage' = [stage EXCEPT ![r] = "chained"]
      /\ previous' = [previous EXCEPT ![r] = tails[s]]
      /\ tails' = [tails EXCEPT ![s] = r]
      /\ arrivals' = [arrivals EXCEPT ![s] = @ + 1]
      /\ ticket' = [ticket EXCEPT ![r] = arrivals[s] + 1]
  BY DEF Chain
<1>2. TicketsInv'
  BY <1>0, <1>1, SessionAssumption
  DEF ChainInv, TicketsInv, TypeOK, Stages, SameSession
<1>3. TailsInv'
  BY <1>0, <1>1, SessionAssumption
  DEF ChainInv, TailsInv, TypeOK, Stages, isBusy, TicketsInv
<1>4. PreviousInv'
  <2> SUFFICES ASSUME NEW p \in Requests, ticket'[p] > 0
               PROVE  /\ previous'[p] # NoRequest =>
                            /\ SameSession(p, previous'[p])
                            /\ ticket'[previous'[p]] > 0
                            /\ ticket'[p] = ticket'[previous'[p]] + 1
                      /\ previous'[p] = NoRequest =>
                            \A q \in Requests :
                               /\ SameSession(p, q)
                               /\ ticket'[q] > 0 /\ ticket'[q] < ticket'[p]
                               => stage'[q] \in Settled
    BY DEF PreviousInv, SameSession
  <2>1. CASE p = r
    BY <2>1, <1>0, <1>1, SessionAssumption
    DEF ChainInv, TypeOK, TailsInv, TicketsInv, isBusy, SameSession,
        NotBusyMeansFinished, Settled, Stages
  <2>2. CASE p # r
    BY <2>2, <1>0, <1>1, SessionAssumption
    DEF ChainInv, TypeOK, PreviousInv, TicketsInv, SameSession, Settled, Stages
  <2> QED BY <2>1, <2>2
<1>5. NotBusyMeansFinished'
  BY <1>0, <1>1, SessionAssumption
  DEF ChainInv, TypeOK, Stages, isBusy, NotBusyMeansFinished
<1>6. ArrivalOrder'
  BY <1>0, <1>1, SessionAssumption
  DEF ChainInv, TypeOK, Stages, ArrivalOrder, TicketsInv, Settled
<1> QED BY <1>2, <1>3, <1>4, <1>5, <1>6

\* A step of the event loop that chains nothing keeps the order of a session
\* when it un-settles no turn and lets a turn go on only behind a settled one.
LEMMA ProgressKeepsChain ==
    ASSUME ChainInv, TypeOK',
           UNCHANGED <<queueVars, historyVars>>,
           \A r \in Requests : stage[r] \in Settled => stage'[r] \in Settled,
           \A r \in Requests : stage'[r] = "unsent" <=> stage[r] = "unsent",
           \A r \in Requests :
              stage'[r] \notin {"unsent", "chained"} =>
                 \/ stage[r] \notin {"unsent", "chained"}
                 \/ PreviousSettled(r)
    PROVE  ChainInv'
<1>1. TicketsInv' /\ TailsInv'
  BY DEF ChainInv, TicketsInv, TailsInv, queueVars, historyVars, isBusy, SameSession
<1>2. PreviousInv'
  BY DEF ChainInv, PreviousInv, queueVars, historyVars, SameSession
<1>3. NotBusyMeansFinished'
  BY DEF ChainInv, NotBusyMeansFinished, queueVars, historyVars, isBusy
<1>4. ArrivalOrder'
  <2> SUFFICES ASSUME NEW r \in Requests, NEW q \in Requests,
                      SessionOf[q] = SessionOf[r],
                      0 < ticket[q], ticket[q] < ticket[r],
                      stage'[r] \notin {"unsent", "chained"}
               PROVE  stage'[q] \in Settled
    BY DEF ArrivalOrder, historyVars
  <2>1. CASE stage[r] \notin {"unsent", "chained"}
    BY <2>1 DEF ChainInv, ArrivalOrder
  <2>2. CASE PreviousSettled(r) /\ previous[r] = NoRequest
    <3>1. ticket[r] > 0
      BY DEF ChainInv, TypeOK
    <3>2. stage[q] \in Settled
      BY <2>2, <3>1 DEF ChainInv, PreviousInv, SameSession
    <3> QED BY <3>2
  <2>3. CASE PreviousSettled(r) /\ previous[r] # NoRequest
    <3> DEFINE p == previous[r]
    <3>1. /\ p \in Requests
          /\ SessionOf[p] = SessionOf[r]
          /\ ticket[p] > 0
          /\ ticket[r] = ticket[p] + 1
          /\ stage[p] \in Settled
      BY <2>3 DEF ChainInv, PreviousInv, TypeOK, SameSession, PreviousSettled
    <3>2. CASE ticket[q] = ticket[p]
      BY <3>1, <3>2 DEF ChainInv, TicketsInv, SameSession
    <3>3. CASE ticket[q] # ticket[p]
      <4>1. ticket[q] < ticket[p]
        BY <3>1, <3>3 DEF ChainInv, TypeOK
      <4> QED
        BY <3>1, <4>1 DEF ChainInv, ArrivalOrder, Settled
    <3> QED BY <3>2, <3>3
  <2> QED BY <2>1, <2>2, <2>3
<1> QED BY <1>1, <1>2, <1>3, <1>4 DEF ChainInv

-----------------------------------------------------------------------------
\* Starting a turn: a free slot is counted, otherwise the task joins the queue.
LEMMA AcquireStep ==
    ASSUME ChainInv, SlotInv, NEW r \in Requests, Acquire(r)
    PROVE  ChainInv' /\ SlotInv'
<1>1. CASE SlotFree
  <2>1. /\ active' = active + 1
        /\ stage' = [stage EXCEPT ![r] = "running"]
        /\ UNCHANGED waiters
        /\ stage[r] = "chained" /\ PreviousSettled(r)
        /\ UNCHANGED <<queueVars, publisher, needs, historyVars>>
    BY <1>1 DEF Acquire
  <2>2. TypeOK'
    BY <2>1 DEF ChainInv, TypeOK, Stages, queueVars, historyVars
  <2>3. ChainInv'
    BY <2>1, <2>2, ProgressKeepsChain DEF ChainInv, TypeOK, Settled
  <2>4. Running' = Running \cup {r} /\ r \notin Running
    BY <2>1 DEF Running, ChainInv, TypeOK
  <2>5. IsFiniteSet(Running)
    BY RequestsAssumption, FS_Subset DEF Running
  <2>6. Cardinality(Running') = Cardinality(Running) + 1
    BY <2>4, <2>5, FS_AddElement
  <2>7. waiters = <<>>
    BY <1>1, LimitAssumption
    DEF SlotInv, NoSlotIdlesWhileTurnWaits, SlotFree, ChainInv, TypeOK
  <2>8. SlotInv'
    BY <1>1, <2>1, <2>6, <2>7, LimitAssumption
    DEF SlotInv, SlotsRespected, NoSlotIdlesWhileTurnWaits, SlotFree, ChainInv,
        TypeOK
  <2> QED BY <2>3, <2>8
<1>2. CASE ~SlotFree
  <2>1. /\ waiters' = Append(waiters, r)
        /\ stage' = [stage EXCEPT ![r] = "waiting"]
        /\ UNCHANGED active
        /\ stage[r] = "chained" /\ PreviousSettled(r)
        /\ UNCHANGED <<queueVars, publisher, needs, historyVars>>
    BY <1>2 DEF Acquire
  <2>2. /\ waiters' \in Seq(Requests)
        /\ Len(waiters') = Len(waiters) + 1
        /\ \A i \in 1..Len(waiters) : waiters'[i] = waiters[i]
        /\ waiters'[Len(waiters) + 1] = r
    BY <2>1, AppendProperties DEF ChainInv, TypeOK
  <2>3. TypeOK'
    BY <2>1, <2>2 DEF ChainInv, TypeOK, Stages, queueVars, historyVars
  <2>4. ChainInv'
    BY <2>1, <2>3, ProgressKeepsChain DEF ChainInv, TypeOK, Settled
  <2>5. Running' = Running
    BY <2>1 DEF Running, ChainInv, TypeOK
  <2>6. active = Limit
    BY <1>2, LimitAssumption
    DEF SlotInv, SlotsRespected, SlotFree, ChainInv, TypeOK
  <2>7. SlotsRespected' /\ NoSlotIdlesWhileTurnWaits'
    BY <2>1, <2>5, <2>6 DEF SlotInv, SlotsRespected, NoSlotIdlesWhileTurnWaits
  <2>8. \A i \in 1..Len(waiters') :
           waiters'[i] = r \/ (i \in 1..Len(waiters) /\ waiters'[i] = waiters[i])
    BY <2>2, LenProperties DEF ChainInv, TypeOK
  <2>9. \A i \in 1..Len(waiters) : waiters[i] # r
    BY <2>1 DEF SlotInv
  <2>10. \A i \in 1..Len(waiters') : stage'[waiters'[i]] = "waiting"
    BY <2>1, <2>8, <2>9, ElementOfSeq DEF SlotInv, ChainInv, TypeOK
  <2>11. \A i, j \in 1..Len(waiters') : waiters'[i] = waiters'[j] => i = j
    <3> SUFFICES ASSUME NEW i \in 1..Len(waiters'), NEW j \in 1..Len(waiters'),
                        waiters'[i] = waiters'[j]
                 PROVE  i = j
      OBVIOUS
    <3>1. CASE i \in 1..Len(waiters) /\ j \in 1..Len(waiters)
      <4>1. waiters[i] = waiters[j]
        BY <3>1, <2>2
      <4> QED
        BY <3>1, <4>1 DEF SlotInv
    <3>2. CASE ~(i \in 1..Len(waiters) /\ j \in 1..Len(waiters))
      <4>1. Len(waiters) \in Nat
        BY LenProperties DEF ChainInv, TypeOK
      <4> QED
        BY <3>2, <4>1, <2>2, <2>8, <2>9
    <3> QED BY <3>1, <3>2
  <2> QED BY <2>4, <2>7, <2>10, <2>11 DEF SlotInv
<1> QED BY <1>1, <1>2

\* Ending a turn: its slot goes to the first waiter, or becomes free.
LEMMA FinishStep ==
    ASSUME ChainInv, SlotInv, NEW r \in Requests, NEW outcome \in Settled,
           Finish(r, outcome)
    PROVE  ChainInv' /\ SlotInv'
<1>0. /\ stage[r] = "running"
      /\ UNCHANGED <<queueVars, publisher, needs, historyVars>>
  BY DEF Finish
<1>1. r \in Running /\ IsFiniteSet(Running)
  BY <1>0, RequestsAssumption, FS_Subset DEF Running
<1>2. active > 0 /\ active - 1 \in Nat
  BY <1>1, FS_EmptySet DEF SlotInv, SlotsRespected, ChainInv, TypeOK
<1>3. CASE waiters = <<>>
  <2>1. /\ active' = active - 1
        /\ stage' = [stage EXCEPT ![r] = outcome]
        /\ UNCHANGED waiters
    BY <1>3 DEF Finish, Release
  <2>2. TypeOK'
    BY <1>0, <1>2, <2>1 DEF ChainInv, TypeOK, Stages, Settled, queueVars, historyVars
  <2>3. ChainInv'
    BY <1>0, <2>1, <2>2, ProgressKeepsChain DEF ChainInv, TypeOK, Settled
  <2>4. Running' = Running \ {r}
    BY <1>0, <2>1 DEF Running, ChainInv, TypeOK, Settled
  <2>5. Cardinality(Running') = Cardinality(Running) - 1
    BY <1>1, <2>4, FS_RemoveElement
  <2>6. SlotInv'
    BY <1>2, <1>3, <2>1, <2>5, LimitAssumption
    DEF SlotInv, SlotsRespected, NoSlotIdlesWhileTurnWaits, ChainInv, TypeOK
  <2> QED BY <2>3, <2>6
<1>4. CASE waiters # <<>>
  <2> DEFINE h == Head(waiters)
  <2>1. /\ waiters' = Tail(waiters)
        /\ stage' = [stage EXCEPT ![r] = outcome, ![h] = "running"]
        /\ UNCHANGED active
    BY <1>4 DEF Finish, Release
  <2>2. /\ Len(waiters) \in Nat /\ Len(waiters) > 0
        /\ h = waiters[1]
        /\ h \in Requests
        /\ waiters' \in Seq(Requests)
        /\ Len(waiters') = Len(waiters) - 1
        /\ \A i \in 1..Len(waiters') : waiters'[i] = waiters[i + 1]
    BY <1>4, <2>1, HeadTailProperties, LenProperties, EmptySeq DEF ChainInv, TypeOK
  <2>3. stage[h] = "waiting" /\ h # r
    BY <1>0, <2>2 DEF SlotInv
  <2>4. TypeOK'
    BY <1>0, <2>1, <2>2 DEF ChainInv, TypeOK, Stages, Settled, queueVars, historyVars
  <2>5. ChainInv'
    BY <1>0, <2>1, <2>2, <2>3, <2>4, ProgressKeepsChain
    DEF ChainInv, TypeOK, Settled
  <2>6. Running' = (Running \ {r}) \cup {h} /\ h \notin Running \ {r}
    BY <1>0, <2>1, <2>2, <2>3 DEF Running, ChainInv, TypeOK, Settled
  <2>7. Cardinality(Running') = Cardinality(Running)
    <3>1. /\ IsFiniteSet(Running \ {r})
          /\ Cardinality(Running \ {r}) = Cardinality(Running) - 1
      BY <1>1, FS_RemoveElement
    <3>2. Cardinality(Running') = Cardinality(Running \ {r}) + 1
      BY <3>1, <2>6, FS_AddElement
    <3>3. Cardinality(Running) \in Nat
      BY <1>1, FS_CardinalityType
    <3> QED BY <3>1, <3>2, <3>3
  <2>8. SlotsRespected' /\ NoSlotIdlesWhileTurnWaits'
    BY <1>4, <2>1, <2>7 DEF SlotInv, SlotsRespected, NoSlotIdlesWhileTurnWaits
  <2>9. \A i \in 1..Len(waiters') : stage'[waiters'[i]] = "waiting"
    <3> SUFFICES ASSUME NEW i \in 1..Len(waiters')
                 PROVE  stage'[waiters'[i]] = "waiting"
      OBVIOUS
    <3>1. i + 1 \in 1..Len(waiters) /\ 1 \in 1..Len(waiters) /\ i + 1 # 1
      BY <2>2
    <3>2. stage[waiters[i + 1]] = "waiting" /\ waiters[i + 1] # h
      BY <3>1, <2>2 DEF SlotInv
    <3>3. waiters[i + 1] \in Requests
      BY <3>1, ElementOfSeq DEF ChainInv, TypeOK
    <3> QED
      BY <1>0, <2>1, <2>2, <3>2, <3>3 DEF ChainInv, TypeOK
  <2>10. \A i, j \in 1..Len(waiters') : waiters'[i] = waiters'[j] => i = j
    <3> SUFFICES ASSUME NEW i \in 1..Len(waiters'), NEW j \in 1..Len(waiters'),
                        waiters'[i] = waiters'[j]
                 PROVE  i = j
      OBVIOUS
    <3>1. /\ i + 1 \in 1..Len(waiters) /\ j + 1 \in 1..Len(waiters)
          /\ waiters[i + 1] = waiters[j + 1]
      BY <2>2
    <3>2. i + 1 = j + 1
      BY <3>1 DEF SlotInv
    <3> QED BY <3>2
  <2> QED BY <2>5, <2>8, <2>9, <2>10 DEF SlotInv
<1> QED BY <1>3, <1>4

\* The remaining steps touch neither a turn's stage nor the slots.
LEMMA QuietStep ==
    ASSUME ChainInv, SlotInv, NEW r \in Requests,
           DropTail(r) \/ PublisherReturns(r) \/ UNCHANGED vars
    PROVE  ChainInv' /\ SlotInv'
<1>1. UNCHANGED <<previous, stage, slotVars, historyVars>>
  BY DEF DropTail, PublisherReturns, vars, queueVars, slotVars, historyVars
<1>2. SlotInv'
  BY <1>1
  DEF SlotInv, SlotsRespected, NoSlotIdlesWhileTurnWaits, Running, slotVars
<1>3. TypeOK'
  BY SessionAssumption
  DEF DropTail, PublisherReturns, vars, ChainInv, TypeOK, queueVars, slotVars,
      historyVars
<1>4. CASE DropTail(r)
  <2>1. /\ tails[SessionOf[r]] = r
        /\ stage[r] \in Settled
        /\ tails' = [tails EXCEPT ![SessionOf[r]] = NoRequest]
    BY <1>4 DEF DropTail, IsTail
  <2>2. \A q \in Requests : SameSession(r, q) => stage[q] \in Settled \cup {"unsent"}
    <3> SUFFICES ASSUME NEW q \in Requests, SessionOf[r] = SessionOf[q],
                        stage[q] # "unsent", q # r
                 PROVE  stage[q] \in Settled
      BY <2>1 DEF SameSession
    <3>1. ticket[r] = arrivals[SessionOf[r]]
      BY <2>1, SessionAssumption, RequestsAssumption
      DEF ChainInv, TailsInv, isBusy, TypeOK
    <3>2. ticket[q] > 0 /\ ticket[q] <= ticket[r] /\ ticket[q] # ticket[r]
      BY <3>1 DEF ChainInv, TicketsInv, SameSession, TypeOK
    <3>3. ticket[q] < ticket[r]
      BY <3>2 DEF ChainInv, TypeOK
    <3> QED
      BY <2>1, <3>2, <3>3 DEF ChainInv, ArrivalOrder, Settled
  <2>3. NotBusyMeansFinished'
    BY <1>1, <2>1, <2>2, SessionAssumption
    DEF NotBusyMeansFinished, isBusy, ChainInv, TypeOK, SameSession
  <2>4. TicketsInv' /\ PreviousInv' /\ ArrivalOrder'
    BY <1>1 DEF ChainInv, TicketsInv, PreviousInv, ArrivalOrder, historyVars, SameSession
  <2>5. TailsInv'
    BY <1>1, <2>1, SessionAssumption
    DEF ChainInv, TailsInv, isBusy, historyVars, TypeOK
  <2> QED BY <1>2, <1>3, <2>3, <2>4, <2>5 DEF ChainInv
<1>5. CASE UNCHANGED tails
  <2>1. UNCHANGED <<queueVars, historyVars>> /\ stage' = stage
    BY <1>1, <1>5 DEF queueVars
  <2> QED BY <2>1, <1>2, <1>3, ProgressKeepsChain
<1>6. DropTail(r) \/ UNCHANGED tails
  BY DEF PublisherReturns, queueVars, vars
<1> QED
  BY <1>2, <1>4, <1>5, <1>6

\* Chaining a request keeps the types.
LEMMA ChainTypeOK ==
    ASSUME ChainInv, NEW r \in Requests, Chain(r),
           needs' \in [Requests -> Requests \cup {NoRequest}]
    PROVE  TypeOK'
<1> DEFINE s == SessionOf[r]
<1>1. s \in Sessions /\ TypeOK
  BY SessionAssumption DEF ChainInv
<1>2. /\ stage' = [stage EXCEPT ![r] = "chained"]
      /\ previous' = [previous EXCEPT ![r] = tails[s]]
      /\ tails' = [tails EXCEPT ![s] = r]
      /\ publisher' = [publisher EXCEPT ![r] = PublisherAfter(s)]
      /\ arrivals' = [arrivals EXCEPT ![s] = @ + 1]
      /\ ticket' = [ticket EXCEPT ![r] = arrivals[s] + 1]
      /\ UNCHANGED slotVars
  BY DEF Chain
<1>3. PublisherAfter(s) \in {"idle", "blocked", "returned"}
  BY DEF PublisherAfter
<1>4. stage' \in [Requests -> Stages] /\ previous' \in [Requests -> Requests \cup {NoRequest}]
  BY <1>1, <1>2 DEF TypeOK, Stages
<1>5. publisher' \in [Requests -> {"idle", "blocked", "returned"}]
  BY <1>1, <1>2, <1>3 DEF TypeOK
<1>6. tails' \in [Sessions -> Requests \cup {NoRequest}]
  BY <1>1, <1>2 DEF TypeOK
<1>7. arrivals' \in [Sessions -> Nat] /\ ticket' \in [Requests -> Nat]
  BY <1>1, <1>2 DEF TypeOK
<1> QED
  BY <1>1, <1>2, <1>4, <1>5, <1>6, <1>7 DEF TypeOK, slotVars

\* Chaining a request keeps both invariants.
LEMMA PublishStep ==
    ASSUME ChainInv, SlotInv, NEW r \in Requests, Chain(r),
           needs' \in [Requests -> Requests \cup {NoRequest}]
    PROVE  ChainInv' /\ SlotInv'
<1>1. ChainInv'
  BY ChainStep, ChainTypeOK DEF ChainInv
<1>2. stage[r] = "unsent" /\ stage' = [stage EXCEPT ![r] = "chained"] /\ UNCHANGED slotVars
  BY DEF Chain
<1>3. Running' = Running
  BY <1>2 DEF Running, ChainInv, TypeOK
<1>4. \A i \in 1..Len(waiters) : stage'[waiters[i]] = "waiting"
  <2> SUFFICES ASSUME NEW i \in 1..Len(waiters)
               PROVE  stage'[waiters[i]] = "waiting"
    OBVIOUS
  <2>1. waiters[i] \in Requests
    BY ElementOfSeq DEF ChainInv, TypeOK
  <2>2. stage[waiters[i]] = "waiting"
    BY DEF SlotInv
  <2> QED BY <1>2, <2>1, <2>2 DEF ChainInv, TypeOK
<1>5. SlotInv'
  BY <1>2, <1>3, <1>4
  DEF SlotInv, SlotsRespected, NoSlotIdlesWhileTurnWaits, slotVars
<1> QED BY <1>1, <1>5

\* Every step keeps them.
LEMMA NextStep == ChainInv /\ SlotInv /\ [Next]_vars => ChainInv' /\ SlotInv'
<1> SUFFICES ASSUME ChainInv, SlotInv, [Next]_vars
             PROVE  ChainInv' /\ SlotInv'
  OBVIOUS
<1>1. ASSUME NEW r \in Requests, Publish(r)
      PROVE  ChainInv' /\ SlotInv'
  BY <1>1, PublishStep DEF Publish, ChainInv, TypeOK
<1>2. ASSUME NEW r \in Requests, NEW p \in Requests, PublishDuringTurn(r, p)
      PROVE  ChainInv' /\ SlotInv'
  BY <1>2, PublishStep DEF PublishDuringTurn, ChainInv, TypeOK
<1>3. ASSUME NEW r \in Requests, Step(r)
      PROVE  ChainInv' /\ SlotInv'
  BY <1>3, AcquireStep, FinishStep, QuietStep DEF Step
<1>4. CASE UNCHANGED vars
  <2>1. CASE Requests # {}
    BY <1>4, <2>1, QuietStep
  <2>2. TypeOK'
    BY <1>4 DEF vars, ChainInv, TypeOK
  <2>3. ChainInv'
    BY <1>4, <2>2, ProgressKeepsChain
    DEF vars, ChainInv, queueVars, historyVars
  <2>4. SlotInv'
    BY <1>4
    DEF vars, SlotInv, SlotsRespected, NoSlotIdlesWhileTurnWaits, Running
  <2> QED BY <2>3, <2>4
<1> QED
  BY <1>1, <1>2, <1>3, <1>4 DEF Next, Idle

-----------------------------------------------------------------------------
\* ChainInv and SlotInv hold in every reachable state (the strengthening that
\* the theorems below rest on).
LEMMA Invariants == Spec => [](ChainInv /\ SlotInv)
BY InitChain, InitSlots, NextStep, PTL DEF Spec

\* Every variable keeps its type; in particular Semaphore.active never goes
\* below zero.
THEOREM TypeCorrect == Spec => []TypeOK
BY Invariants, PTL DEF ChainInv

\* Two turns of one session never run at the same time (KeyedSerialQueue.run).
THEOREM TurnsNeverOverlap == Spec => []OneTurnPerSession
<1>1. ChainInv => OneTurnPerSession
  <2> SUFFICES ASSUME ChainInv, NEW r \in Running, NEW q \in Running,
                      SessionOf[r] = SessionOf[q], r # q
               PROVE  FALSE
    BY DEF OneTurnPerSession
  <2>1. /\ r \in Requests /\ q \in Requests
        /\ stage[r] = "running" /\ stage[q] = "running"
    BY DEF Running
  <2>2. ticket[r] > 0 /\ ticket[q] > 0 /\ ticket[r] # ticket[q]
    BY <2>1 DEF ChainInv, TicketsInv, TypeOK, SameSession
  <2>3. ticket[r] < ticket[q] \/ ticket[q] < ticket[r]
    BY <2>1, <2>2 DEF ChainInv, TypeOK
  <2> QED
    BY <2>1, <2>2, <2>3 DEF ChainInv, ArrivalOrder, Settled
<1> QED BY <1>1, Invariants, PTL

\* The semaphore counts exactly the running turns and never exceeds its limit.
THEOREM SlotsNeverExceeded == Spec => []SlotsRespected
BY Invariants, PTL DEF SlotInv

\* Nobody waits for a slot while one is free: release hands it on (Semaphore).
THEOREM NoSlotIsWasted == Spec => []NoSlotIdlesWhileTurnWaits
BY Invariants, PTL DEF SlotInv

\* A session the map does not know has no turn left (KeyedSerialQueue.isBusy).
THEOREM IsBusyIsExact == Spec => []NotBusyMeansFinished
BY Invariants, PTL DEF ChainInv

\* A turn begins only after every earlier turn of its session has ended.
THEOREM TurnsRunInArrivalOrder == Spec => []ArrivalOrder
BY Invariants, PTL DEF ChainInv

-----------------------------------------------------------------------------
\* Every turn that ends leaves its session in an order the scheduler allows.
LEMMA EarlierDone ==
    ASSUME ChainInv, NEW r \in Requests, stage[r] = "chained" => PreviousSettled(r),
           stage[r] # "unsent"
    PROVE  \A q \in Scheduler!Earlier(r) : AbstractStage[q] = "done"
<1> SUFFICES ASSUME NEW q \in Requests, SessionOf[q] = SessionOf[r],
                    0 < ticket[q], ticket[q] < ticket[r]
             PROVE  AbstractStage[q] = "done"
  BY DEF Scheduler!Earlier, ChainInv, TypeOK
<1>1. stage[q] \in Settled
  <2>1. CASE stage[r] # "chained"
    BY <2>1 DEF ChainInv, ArrivalOrder
  <2>2. CASE stage[r] = "chained" /\ previous[r] = NoRequest
    <3>1. ticket[r] > 0
      BY DEF ChainInv, TypeOK
    <3> QED
      BY <2>2, <3>1 DEF ChainInv, PreviousInv, SameSession
  <2>3. CASE stage[r] = "chained" /\ previous[r] # NoRequest
    <3> DEFINE p == previous[r]
    <3>1. /\ p \in Requests
          /\ SessionOf[p] = SessionOf[r]
          /\ ticket[r] = ticket[p] + 1
          /\ ticket[p] > 0
          /\ stage[p] \in Settled
      BY <2>3 DEF ChainInv, PreviousInv, TicketsInv, TypeOK, SameSession, PreviousSettled
    <3>2. CASE ticket[q] = ticket[p]
      BY <3>1, <3>2 DEF ChainInv, TicketsInv, SameSession
    <3>3. CASE ticket[q] # ticket[p]
      <4>1. ticket[q] < ticket[p]
        BY <3>1, <3>3 DEF ChainInv, TypeOK
      <4> QED
        BY <3>1, <4>1 DEF ChainInv, ArrivalOrder, Settled
    <3> QED BY <3>2, <3>3
  <2> QED BY <2>1, <2>2, <2>3
<1> QED BY <1>1 DEF AbstractStage, Settled

\* The scheduler and the queue mean the same by a running turn.
LEMMA SameRunning == ASSUME TypeOK PROVE Scheduler!Running = Running
BY DEF Scheduler!Running, Running, AbstractStage, TypeOK, Stages, Settled

\* Every step of the queue is a step of the scheduler or leaves it unchanged.
LEMMA StepImplements ==
    ChainInv /\ ChainInv' /\ SlotInv /\ [Next]_vars => [Scheduler!Next]_(Scheduler!vars)
<1> SUFFICES ASSUME ChainInv, ChainInv', SlotInv, [Next]_vars
             PROVE  [Scheduler!Next]_(Scheduler!vars)
  OBVIOUS
<1>1. ASSUME NEW r \in Requests, Chain(r)
      PROVE  Scheduler!Arrive(r)
  <2>1. AbstractStage' = [AbstractStage EXCEPT ![r] = "queued"]
    BY <1>1 DEF Chain, AbstractStage, ChainInv, TypeOK, Stages, Settled
  <2>2. AbstractStage[r] = "unsent"
    BY <1>1 DEF Chain, AbstractStage, Settled
  <2> QED BY <1>1, <2>1, <2>2 DEF Chain, Scheduler!Arrive
<1>2. ASSUME NEW r \in Requests, Acquire(r)
      PROVE  Scheduler!Begin(r) \/ UNCHANGED Scheduler!vars
  <2>1. /\ stage[r] = "chained" /\ PreviousSettled(r)
        /\ AbstractStage[r] = "queued"
        /\ UNCHANGED <<ticket, arrivals>>
    BY <1>2 DEF Acquire, AbstractStage, Settled, historyVars
  <2>2. CASE SlotFree
    <3>1. stage' = [stage EXCEPT ![r] = "running"]
      BY <1>2, <2>2 DEF Acquire
    <3>2. AbstractStage' = [AbstractStage EXCEPT ![r] = "running"]
      BY <3>1 DEF AbstractStage, ChainInv, TypeOK, Stages, Settled
    <3>3. Scheduler!Cardinality(Scheduler!Running) < Limit
      <4>1. Cardinality(Scheduler!Running) < Limit
        BY <2>2, SameRunning DEF SlotFree, SlotInv, SlotsRespected, ChainInv
      <4> QED BY <4>1 DEF Cardinality, Scheduler!Cardinality
    <3>4. \A q \in Scheduler!Earlier(r) : AbstractStage[q] = "done"
      BY <2>1, EarlierDone
    <3> QED BY <2>1, <3>2, <3>3, <3>4 DEF Scheduler!Begin
  <2>3. CASE ~SlotFree
    <3>1. stage' = [stage EXCEPT ![r] = "waiting"]
      BY <1>2, <2>3 DEF Acquire
    <3>2. AbstractStage' = AbstractStage
      BY <2>1, <3>1 DEF AbstractStage, ChainInv, TypeOK, Stages, Settled
    <3> QED BY <2>1, <3>2 DEF Scheduler!vars
  <2> QED BY <2>2, <2>3
<1>3. ASSUME NEW r \in Requests, NEW outcome \in Settled, Finish(r, outcome)
      PROVE  Scheduler!Next
  <2>1. /\ stage[r] = "running" /\ AbstractStage[r] = "running"
        /\ UNCHANGED <<ticket, arrivals>>
    BY <1>3 DEF Finish, AbstractStage, Settled, historyVars
  <2>2. CASE waiters = <<>>
    <3>1. stage' = [stage EXCEPT ![r] = outcome]
      BY <1>3, <2>2 DEF Finish, Release
    <3>2. AbstractStage' = [AbstractStage EXCEPT ![r] = "done"]
      BY <3>1 DEF AbstractStage, ChainInv, TypeOK, Stages, Settled
    <3> QED BY <2>1, <3>2 DEF Scheduler!End, Scheduler!Next
  <2>3. CASE waiters # <<>>
    <3> DEFINE h == Head(waiters)
    <3>1. h \in Requests /\ h = waiters[1] /\ 1 \in 1..Len(waiters)
      BY <2>3, HeadTailProperties, LenProperties, EmptySeq DEF ChainInv, TypeOK
    <3>2. stage[h] = "waiting" /\ AbstractStage[h] = "queued"
      BY <3>1 DEF SlotInv, AbstractStage, Settled
    <3>3. stage' = [stage EXCEPT ![r] = outcome, ![h] = "running"]
      BY <1>3, <2>3 DEF Finish, Release
    <3>4. AbstractStage' = [AbstractStage EXCEPT ![r] = "done", ![h] = "running"]
      BY <2>1, <3>1, <3>2, <3>3 DEF AbstractStage, ChainInv, TypeOK, Stages, Settled
    <3>5. \A q \in Scheduler!Earlier(h) : AbstractStage[q] = "done"
      BY <3>1, <3>2, EarlierDone
    <3>6. Scheduler!HandOver(r, h)
      BY <2>1, <3>2, <3>4, <3>5 DEF Scheduler!HandOver
    <3> QED BY <3>1, <3>6 DEF Scheduler!Next
  <2> QED BY <2>2, <2>3
<1>4. ASSUME UNCHANGED <<stage, historyVars>>
      PROVE  UNCHANGED Scheduler!vars
  BY <1>4 DEF Scheduler!vars, AbstractStage, historyVars
<1>5. ASSUME NEW r \in Requests, Step(r)
      PROVE  Scheduler!Next \/ UNCHANGED Scheduler!vars
  <2>1. CASE Acquire(r)
    BY <1>2, <2>1 DEF Scheduler!Next
  <2>2. CASE \E outcome \in Settled : Finish(r, outcome)
    BY <1>3, <2>2
  <2>3. CASE DropTail(r) \/ PublisherReturns(r)
    BY <1>4, <2>3 DEF DropTail, PublisherReturns
  <2> QED BY <1>5, <2>1, <2>2, <2>3 DEF Step
<1>6. CASE \E r \in Requests : Chain(r)
  BY <1>1, <1>6 DEF Scheduler!Next
<1>7. CASE UNCHANGED vars
  BY <1>4, <1>7 DEF vars, historyVars
<1> QED
  BY <1>5, <1>6, <1>7 DEF Next, Idle, Publish, PublishDuringTurn

\* runSerialized, the promise chains and the semaphore together implement the
\* scheduler: one turn per session, in arrival order, at most Limit at once.
THEOREM QueueImplementsScheduler == Spec => ImplementsScheduler
<1>1. Init => Scheduler!Init
  BY DEF Init, Scheduler!Init, AbstractStage, Settled
<1> QED
  BY <1>1, Invariants, StepImplements, PTL DEF Spec, ImplementsScheduler, Scheduler!Spec
=============================================================================
