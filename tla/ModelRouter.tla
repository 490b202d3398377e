---------------------------- MODULE ModelRouter ----------------------------
(***************************************************************************)
(* Routed model calls that share one ProviderCircuitBreaker                *)
(* (packages/models/src/circuit-breaker.ts, fallback-chain.ts,             *)
(* model-router.ts).  Callers run concurrently; each walks the targets of  *)
(* its route, and what a provider answers is recorded in the provider's    *)
(* circuit.  A step is what runs between two awaits of one call.  A slot   *)
(* the breaker has not made yet is a closed circuit without failures.      *)
(***************************************************************************)
EXTENDS Integers, Sequences, FiniteSets

CONSTANTS
    Providers,      \* the model providers
    FetchProviders, \* those whose adapter uses fetch; the others use an SDK
    Callers,        \* concurrent users of the router
    Routes,         \* primary and fallbacks of the routes, as sequences
    Threshold,      \* failureThreshold
    Cooldown,       \* cooldownMs
    MaxTime         \* bound: the clock stops here

ASSUME ProvidersAssumption == FetchProviders \subseteq Providers
ASSUME RoutesAssumption == Routes \subseteq Seq(Providers) \ {<<>>}
ASSUME BreakerAssumption ==
    /\ Threshold \in Nat \ {0}
    /\ Cooldown \in Nat \ {0}
    /\ MaxTime \in Nat \ {0}

VARIABLES
    circuits,   \* ProviderCircuitBreaker.slots
    call,       \* the call each caller has in flight
    now,        \* the clock
    failedAt,   \* history: a provider's last failure since it last succeeded
    probedAt    \* history: its last probe since then; 0 when there is none

vars == <<circuits, call, now, failedAt, probedAt>>

Times == 0..MaxTime

Slot == [state : {"closed", "open", "half-open"}, failures : Nat,
         openedAt : Times, probeAt : Times]

\* A call waits for the target at index, relays that target's stream, or is
\* over.  since: when a probe was let through; heard: providers whose content reached the caller; failed: some
\* earlier target of the chain failed; told: the caller got the failover chunk.
Call == [at : {"none", "waiting", "relaying"}, kind : {"chat", "stream"},
         route : Routes \cup {<<>>}, index : Nat, since : Times, probing : BOOLEAN,
         gone : BOOLEAN, failed : BOOLEAN, told : BOOLEAN,
         heard : SUBSET Providers]

TypeOK ==
    /\ circuits \in [Providers -> Slot]
    /\ call \in [Callers -> Call]
    /\ now \in Times \ {0}
    /\ failedAt \in [Providers -> Times]
    /\ probedAt \in [Providers -> Times]
    /\ \A c \in Callers : call[c].at # "none" =>
                              call[c].index \in DOMAIN call[c].route

Target(k) == k.route[k.index]
Waiting(c) == call[c].at = "waiting"

-----------------------------------------------------------------------------
Closed == [state |-> "closed", failures |-> 0, openedAt |-> 0, probeAt |-> 0]

\* Mutant: the failures before the success go on counting.
StillCounted(slot) == [slot EXCEPT !.state = "closed", !.openedAt = 0, !.probeAt = 0]

\* What recordSuccess makes of a circuit.
Recovered(slot) == Closed

\* Mutant: everyone gets through while half-open.
AnyoneProbes(slot) ==
    \/ slot.state # "open"
    \/ now - slot.openedAt >= Cooldown

\* Mutant: a probe whose outcome was not recorded is waited for for ever.
ProbeNeverExpires(slot) ==
    \/ slot.state = "closed"
    \/ slot.state = "open" /\ now - slot.openedAt >= Cooldown
    \/ slot.state = "half-open" /\ slot.probeAt = 0

canAttempt(slot) ==
    \/ slot.state = "closed"
    \/ slot.state = "open" /\ now - slot.openedAt >= Cooldown
    \/ /\ slot.state = "half-open"
       /\ slot.probeAt = 0 \/ now - slot.probeAt >= Cooldown

\* What canAttempt leaves behind when it answers true.
Admitted(slot) ==
    IF slot.state = "closed" THEN slot
    ELSE [slot EXCEPT !.state = "half-open", !.probeAt = now]

\* Late failures of calls that were let through before are counted as well.
CountFailure(slot) == slot.failures + 1

\* Mutant: a failed probe opens the circuit with its old opening time.
ReopenedAsBefore(slot) ==
    IF slot.state = "half-open"
    THEN [slot EXCEPT !.state = "open", !.probeAt = 0]
    ELSE LET n == CountFailure(slot)
         IN  IF n >= Threshold
             THEN [slot EXCEPT !.failures = n, !.state = "open", !.openedAt = now]
             ELSE [slot EXCEPT !.failures = n]

recordFailure(slot) ==
    IF slot.state = "half-open"
    THEN [slot EXCEPT !.state = "open", !.openedAt = now, !.probeAt = 0]
    ELSE LET n == CountFailure(slot)
         IN  IF n >= Threshold
             THEN [slot EXCEPT !.failures = n, !.state = "open", !.openedAt = now]
             ELSE [slot EXCEPT !.failures = n]

-----------------------------------------------------------------------------
(* walkFallbackChain.  canAttempt changes nothing when it answers false, so *)
(* the targets skipped on the way leave no trace.                           *)

Admitting(slots, route, first) ==
    {j \in first..Len(route) : canAttempt(slots[route[j]])}

NoCall == [at |-> "none", kind |-> "chat", route |-> <<>>, index |-> 0,
           since |-> 0, probing |-> FALSE, gone |-> FALSE, failed |-> FALSE,
           told |-> FALSE, heard |-> {}]

\* The call is over: answered, or failed with whatever error.
Over(c) == call' = [call EXCEPT ![c] = NoCall]

\* The walk goes on at target `first` with these circuits; the call fails
\* when every target that is left is skipped, or when none is left.
Walk(c, k, first, slots) ==
    LET open == Admitting(slots, k.route, first)
    IN  \/ /\ open = {}
           /\ circuits' = slots
           /\ Over(c)
           /\ UNCHANGED probedAt
        \/ \E next \in open :
              LET p == k.route[next]
                  probing == slots[p].state # "closed"
              IN  /\ \A i \in open : next <= i
                  /\ circuits' = [slots EXCEPT ![p] = Admitted(@)]
                  /\ call' = [call EXCEPT ![c] =
                       [k EXCEPT !.at = "waiting", !.index = next,
                                 !.probing = probing,
                                 !.since = IF probing THEN now ELSE 0]]
                  /\ probedAt' = IF probing
                                 THEN [probedAt EXCEPT ![p] = now]
                                 ELSE probedAt

NewCall(kind, route) == [NoCall EXCEPT !.kind = kind, !.route = route]

Start(c) ==
    /\ call[c].at = "none"
    /\ \E kind \in {"chat", "stream"}, route \in Routes :
           Walk(c, NewCall(kind, route), 1, circuits)
    /\ UNCHANGED <<now, failedAt>>

\* recordSuccess
Succeeded(c) ==
    LET p == Target(call[c])
    IN  /\ circuits' = [circuits EXCEPT ![p] = Recovered(@)]
        /\ failedAt' = [failedAt EXCEPT ![p] = 0]
        /\ probedAt' = [probedAt EXCEPT ![p] = 0]
        /\ UNCHANGED now

\* The response of a chat arrives whole.
ChatAnswers(c) ==
    /\ Waiting(c) /\ call[c].kind = "chat"
    /\ Succeeded(c)
    /\ Over(c)

\* primeStream has content: the failover chunk goes out first, if some target
\* failed before this one.  An answer that crosses the abort of its caller is
\* taken to come just before it.
StreamAnswers(c) ==
    /\ Waiting(c) /\ call[c].kind = "stream" /\ ~call[c].gone
    /\ Succeeded(c)
    /\ call' = [call EXCEPT ![c].at = "relaying",
                            ![c].told = call[c].failed]

\* primeStream returns an error chunk that is not retryable like an answer.
StreamRefused(c) ==
    /\ Waiting(c) /\ call[c].kind = "stream"
    /\ call[c].gone => Target(call[c]) \notin FetchProviders
    /\ Succeeded(c)
    /\ Over(c)

\* Nothing is recorded of an error that is thrown and not retryable: a chat
\* that was refused, a target that resolveProvider cannot resolve.
ThrowsTerminally(c) ==
    /\ Waiting(c)
    /\ Over(c)
    /\ UNCHANGED <<circuits, now, failedAt, probedAt>>

NextTarget(k) == k.index + 1

\* An error worth another target.  After the caller is gone that is how the
\* adapters that use fetch report the abort: the rejection is the signal's
\* reason, which toProviderError takes for a connection error.
FailsRetryably(c) ==
    /\ Waiting(c)
    /\ call[c].gone => Target(call[c]) \in FetchProviders
    /\ LET p == Target(call[c])
       IN  /\ failedAt' = [failedAt EXCEPT ![p] = now]
           /\ Walk(c, [call[c] EXCEPT !.failed = TRUE], NextTarget(call[c]),
                   [circuits EXCEPT ![p] = recordFailure(@)])
    /\ UNCHANGED now

\* drain: more content of the provider that was chosen.
Relay(c) ==
    /\ call[c].at = "relaying"
    /\ call' = [call EXCEPT ![c].heard = @ \cup {Target(call[c])}]
    /\ UNCHANGED <<circuits, now, failedAt, probedAt>>

\* Mutant: a stream that breaks off goes to the next target.
BreaksOffAndGoesOn(c) ==
    /\ call[c].at = "relaying"
    /\ Walk(c, call[c], NextTarget(call[c]), circuits)
    /\ UNCHANGED <<now, failedAt>>

\* The stream ends or breaks off; an error chunk is passed on as it is.
RelayEnds(c) ==
    /\ call[c].at = "relaying"
    /\ Over(c)
    /\ UNCHANGED <<circuits, now, failedAt, probedAt>>

\* The turn is stopped or its idle timer fires: guardStream leaves the
\* stream, and a walk under way goes on without a reader.
CallerLeaves(c) ==
    /\ call[c].kind = "stream" /\ ~call[c].gone
    /\ \/ Waiting(c) /\ call' = [call EXCEPT ![c].gone = TRUE]
       \/ call[c].at = "relaying" /\ Over(c)
    /\ UNCHANGED <<circuits, now, failedAt, probedAt>>

Tick ==
    /\ now < MaxTime
    /\ now' = now + 1
    /\ UNCHANGED <<circuits, call, failedAt, probedAt>>

-----------------------------------------------------------------------------
Init ==
    /\ circuits = [p \in Providers |-> Closed]
    /\ call = [c \in Callers |-> NoCall]
    /\ now = 1
    /\ failedAt = [p \in Providers |-> 0]
    /\ probedAt = [p \in Providers |-> 0]

Answers(c) ==
    \/ ChatAnswers(c)
    \/ StreamAnswers(c)
    \/ StreamRefused(c)
    \/ ThrowsTerminally(c)
    \/ FailsRetryably(c)
    \/ RelayEnds(c)

Next ==
    \/ \E c \in Callers : Start(c) \/ Answers(c) \/ Relay(c) \/ CallerLeaves(c)
    \/ Tick

Spec == Init /\ [][Next]_vars

-----------------------------------------------------------------------------
(* Properties *)

\* "One probe at a time" (audit CQ-022): the calls that probe one provider were
\* let through a whole cooldown apart, however calls end or are abandoned.
ProbesSpaced ==
    \A c, d \in Callers :
        /\ c # d
        /\ Waiting(c) /\ call[c].probing
        /\ Waiting(d) /\ call[d].probing
        /\ Target(call[c]) = Target(call[d])
        => \/ call[c].since - call[d].since >= Cooldown
           \/ call[d].since - call[c].since >= Cooldown

\* "Consecutive failures required to open the circuit": a provider is shut off
\* only by Threshold failures in a row, and one that has answered since has all
\* of them again, whatever late failures were recorded while it was shut off.
OpensAtThreshold ==
    \A p \in Providers :
        (circuits[p].state = "closed") <=> (circuits[p].failures < Threshold)

\* c's call reaches a target in this step.
Contacts(c) ==
    /\ Waiting(c)'
    /\ Waiting(c) => call[c].index # call'[c].index

\* A provider whose circuit is not closed is left alone for a whole cooldown
\* after each recorded failure, the late ones of calls that started before
\* the circuit opened included.
OpenProviderRests ==
    [][\A c \in Callers :
           /\ Contacts(c)
           /\ circuits'[Target(call'[c])].state # "closed"
           => now - failedAt'[Target(call'[c])] >= Cooldown]_vars

\* No circuit gets stuck: a provider that neither failed nor was probed for a
\* cooldown is let through again, also when a probe never reported.
NoProviderForgotten ==
    \A p \in Providers :
        /\ now - failedAt[p] >= Cooldown
        /\ now - probedAt[p] >= Cooldown
        => canAttempt(circuits[p])

\* The caller of a stream hears one provider only (it cannot retract what is
\* on the user's screen), and is told first when another had failed.
OneVoice ==
    \A c \in Callers :
        /\ Cardinality(call[c].heard) <= 1
        /\ call[c].heard # {} /\ call[c].failed => call[c].told

\* provider-error.ts: "A user-initiated stop is not a provider fault and must
\* never fail over."
StopNeverFailsOver ==
    [][\A c \in Callers :
           call[c].gone /\ Waiting(c)' => call'[c].index = call[c].index]_vars

=============================================================================
