----------------------------- MODULE TurnQueue -----------------------------
(***************************************************************************)
(* How the gateway worker orders agent turns: the KeyedSerialQueue that    *)
(* chains the turns of one session, the Semaphore that bounds the turns    *)
(* that run at once, and runSerialized, which puts a request on the queue  *)
(* and decides whether its publisher waits for it                          *)
(* (packages/core/src/concurrency.ts, packages/platform/src/               *)
(* gateway-worker.ts).  A promise is the request that settles it; a step   *)
(* is what one task or microtask of the event loop does.                   *)
(***************************************************************************)
EXTENDS Naturals, Sequences, FiniteSets

CONSTANTS
    Requests,   \* the run requests that may be published
    Sessions,   \* the sessions they belong to
    SessionOf,  \* the session of each request
    Limit,      \* ANVIO_MAX_CONCURRENT_RUNS: slots of the semaphore
    NoRequest   \* no promise: the map has no entry, Promise.resolve()

ASSUME RequestsAssumption == IsFiniteSet(Requests) /\ NoRequest \notin Requests
ASSUME SessionAssumption == SessionOf \in [Requests -> Sessions]
\* The constructor throws on any other limit.
ASSUME LimitAssumption == Limit \in Nat /\ Limit >= 1

VARIABLES
    tails,      \* KeyedSerialQueue.tails: the last promise chained, per session
    previous,   \* the promise a request's task is chained behind
    stage,      \* how far a request's task has come
    active,     \* Semaphore.active
    waiters,    \* Semaphore.waiters
    publisher,  \* what the publisher of a request is doing
    needs,      \* the publisher a running turn waits for, if any
    ticket,     \* history: arrival number of a request within its session
    arrivals    \* history: requests that arrived, per session

queueVars == <<tails, previous>>
slotVars == <<active, waiters>>
historyVars == <<ticket, arrivals>>
vars == <<tails, previous, stage, active, waiters, publisher, needs, ticket,
          arrivals>>

Stages == {"unsent", "chained", "waiting", "running", "ok", "failed"}
Settled == {"ok", "failed"}

TypeOK ==
    /\ tails \in [Sessions -> Requests \cup {NoRequest}]
    /\ previous \in [Requests -> Requests \cup {NoRequest}]
    /\ stage \in [Requests -> Stages]
    /\ active \in Nat
    /\ waiters \in Seq(Requests)
    /\ publisher \in [Requests -> {"idle", "blocked", "returned"}]
    /\ needs \in [Requests -> Requests \cup {NoRequest}]
    /\ ticket \in [Requests -> Nat]
    /\ arrivals \in [Sessions -> Nat]

Running == {r \in Requests : stage[r] = "running"}

-----------------------------------------------------------------------------
Init ==
    /\ tails = [s \in Sessions |-> NoRequest]
    /\ previous = [r \in Requests |-> NoRequest]
    /\ stage = [r \in Requests |-> "unsent"]
    /\ active = 0
    /\ waiters = <<>>
    /\ publisher = [r \in Requests |-> "idle"]
    /\ needs = [r \in Requests |-> NoRequest]
    /\ ticket = [r \in Requests |-> 0]
    /\ arrivals = [s \in Sessions |-> 0]

isBusy(s) == tails[s] # NoRequest

\* Mutant: the publisher always awaits its job.
PublisherAlwaysWaits(s) == "blocked"

\* runSerialized does not wait behind another turn of the session.
PublisherAfter(s) == IF isBusy(s) THEN "returned" ELSE "blocked"

\* KeyedSerialQueue.run: the task waits for the promise in the map, and its
\* own promise takes that place.
Chain(r) ==
    LET s == SessionOf[r] IN
    /\ stage[r] = "unsent"
    /\ stage' = [stage EXCEPT ![r] = "chained"]
    /\ previous' = [previous EXCEPT ![r] = tails[s]]
    /\ tails' = [tails EXCEPT ![s] = r]
    /\ publisher' = [publisher EXCEPT ![r] = PublisherAfter(s)]
    /\ arrivals' = [arrivals EXCEPT ![s] = @ + 1]
    /\ ticket' = [ticket EXCEPT ![r] = arrivals[s] + 1]
    /\ UNCHANGED slotVars

\* AGENT_RUN_REQUESTED reaches the worker.
Publish(r) == Chain(r) /\ UNCHANGED needs

\* The same while turn p of the session runs and can only go on once this
\* publisher is free again: the channel loop that delivers this message also
\* has to deliver the approval p is blocked on.
PublishDuringTurn(r, p) ==
    /\ stage[p] = "running"
    /\ SessionOf[p] = SessionOf[r]
    /\ needs[p] = NoRequest
    /\ needs' = [needs EXCEPT ![p] = r]
    /\ Chain(r)

\* Mutants: the task does not wait; a failed turn breaks the chain; a task
\* waits for the turn ahead to begin only.
PreviousIgnored(r) == TRUE
PreviousSucceeded(r) == previous[r] # NoRequest => stage[previous[r]] = "ok"
PreviousBegun(r) ==
    previous[r] # NoRequest => stage[previous[r]] \in Settled \cup {"running"}

\* previous.then(task) fires whether the previous turn succeeded or not.
PreviousSettled(r) == previous[r] # NoRequest => stage[previous[r]] \in Settled

\* Mutant: off by one.
SlotFreeOffByOne == active <= Limit

SlotFree == active < Limit

\* Semaphore.acquire, called by the task once its turn in the session has come.
Acquire(r) ==
    /\ stage[r] = "chained"
    /\ PreviousSettled(r)
    /\ \/ /\ SlotFree
          /\ active' = active + 1
          /\ stage' = [stage EXCEPT ![r] = "running"]
          /\ UNCHANGED waiters
       \/ /\ ~SlotFree
          /\ waiters' = Append(waiters, r)
          /\ stage' = [stage EXCEPT ![r] = "waiting"]
          /\ UNCHANGED active
    /\ UNCHANGED <<queueVars, publisher, needs, historyVars>>

PublisherFree(p) == needs[p] # NoRequest => publisher[needs[p]] = "returned"

\* Mutants: the waiter does not count itself in; no waiter is woken.
ReleaseUncounted(r, outcome) ==
    /\ active' = active - 1
    /\ IF waiters = <<>>
       THEN UNCHANGED waiters /\ stage' = [stage EXCEPT ![r] = outcome]
       ELSE /\ waiters' = Tail(waiters)
            /\ stage' = [stage EXCEPT ![r] = outcome,
                                      ![Head(waiters)] = "running"]
ReleaseWakesNobody(r, outcome) ==
    /\ active' = active - 1
    /\ stage' = [stage EXCEPT ![r] = outcome]
    /\ UNCHANGED waiters

\* Semaphore.release hands the slot of the turn that ends to the first waiter.
Release(r, outcome) ==
    \/ /\ waiters = <<>>
       /\ active' = active - 1
       /\ stage' = [stage EXCEPT ![r] = outcome]
       /\ UNCHANGED waiters
    \/ /\ waiters # <<>>
       /\ waiters' = Tail(waiters)
       /\ stage' = [stage EXCEPT ![r] = outcome, ![Head(waiters)] = "running"]
       /\ UNCHANGED active

\* The turn ends, normally or with an exception.
Finish(r, outcome) ==
    /\ stage[r] = "running"
    /\ PublisherFree(r)
    /\ Release(r, outcome)
    /\ UNCHANGED <<queueVars, publisher, needs, historyVars>>

\* Mutant: the entry is dropped whoever put it there.
AnyTail(r) == isBusy(SessionOf[r])

IsTail(r) == tails[SessionOf[r]] = r

\* The tail's own callback: drop the map's entry if it is still this promise.
DropTail(r) ==
    /\ stage[r] \in Settled
    /\ IsTail(r)
    /\ tails' = [tails EXCEPT ![SessionOf[r]] = NoRequest]
    /\ UNCHANGED <<previous, stage, slotVars, publisher, needs, historyVars>>

\* "await job" in runSerialized.
PublisherReturns(r) ==
    /\ publisher[r] = "blocked"
    /\ stage[r] \in Settled
    /\ publisher' = [publisher EXCEPT ![r] = "returned"]
    /\ UNCHANGED <<queueVars, stage, slotVars, needs, historyVars>>

\* Every request was served and nothing is left to do.
Idle ==
    /\ \A r \in Requests : stage[r] \in Settled /\ publisher[r] = "returned"
    /\ \A s \in Sessions : ~isBusy(s)
    /\ UNCHANGED vars

Step(r) ==
    \/ Acquire(r)
    \/ \E outcome \in Settled : Finish(r, outcome)
    \/ DropTail(r)
    \/ PublisherReturns(r)

Next ==
    \/ \E r \in Requests : Publish(r) \/ Step(r)
    \/ \E r, p \in Requests : PublishDuringTurn(r, p)
    \/ Idle

\* Microtasks always run, and a turn that waits for nobody ends: the model
\* stream has an idle timeout and tools have their own.  Nobody has to publish.
Fairness == \A r \in Requests : WF_vars(Step(r))

Spec == Init /\ [][Next]_vars
FairSpec == Spec /\ Fairness

-----------------------------------------------------------------------------
(* Properties                                                              *)

\* Two turns of one session never overlap; each reads the history and writes
\* it back whole, so an overlap loses a turn (KeyedSerialQueue.run).
OneTurnPerSession ==
    \A r, q \in Running : SessionOf[r] = SessionOf[q] => r = q

\* The semaphore's count is the number of turns that hold a slot, and there
\* are never more than Limit (Semaphore.acquire and release).
SlotsRespected == active = Cardinality(Running) /\ active <= Limit

\* A turn queues for a slot only while every slot is taken (release hands a
\* slot to a waiter in the same step).
NoSlotIdlesWhileTurnWaits == waiters # <<>> => active = Limit

\* Once the map has no entry for a session, every turn that was queued for it
\* has ended: a publisher told "not busy" really is first (isBusy).
NotBusyMeansFinished ==
    \A r \in Requests :
        ~isBusy(SessionOf[r]) => stage[r] \in Settled \cup {"unsent"}

\* A turn begins only after all that arrived before it in its session ended,
\* however they ended.
ArrivalOrder ==
    \A r, q \in Requests :
        /\ SessionOf[q] = SessionOf[r]
        /\ 0 < ticket[q] /\ ticket[q] < ticket[r]
        /\ stage[r] \notin {"unsent", "chained"}
        => stage[q] \in Settled

\* Every request that was published gets its turn and the turn ends, also
\* behind turns that failed and turns that wait for a later publisher.
EveryRequestServed ==
    \A r \in Requests : stage[r] = "chained" ~> stage[r] \in Settled

\* No publisher waits for ever: it is never parked behind the very turn that
\* waits for it (the comment in runSerialized).
PublishersReturn ==
    \A r \in Requests : publisher[r] = "blocked" ~> publisher[r] = "returned"

AbstractStage ==
    [r \in Requests |->
        CASE stage[r] \in {"chained", "waiting"} -> "queued"
          [] stage[r] \in Settled -> "done"
          [] OTHER -> stage[r]]

Scheduler == INSTANCE TurnScheduler WITH stage <- AbstractStage

\* The queue and the semaphore together implement the scheduler.
ImplementsScheduler == Scheduler!Spec
=============================================================================
