------------------------- MODULE ModelRouterProofs -------------------------
(***************************************************************************)
(* Proofs about ModelRouter for every set of providers, callers and routes,*)
(* every threshold and cooldown.  CircuitInv ties a circuit to what really *)
(* happened to its provider: it is closed while the failures counted are   *)
(* below the threshold, an open one counts its cooldown from the last      *)
(* failure, a half-open one from the last probe.  ProbeInv says that no    *)
(* probe in flight is younger than what the circuit counts from, which is  *)
(* what keeps the next probe a cooldown away from it.                      *)
(***************************************************************************)
EXTENDS ModelRouter, FiniteSetTheorems, TLAPS

\* s: the circuit; f, p: its provider's last failure and probe; t: the time.
CircuitOK(s, f, p, t) ==
    /\ f <= t
    /\ p <= t
    /\ s.state = "closed" <=> s.failures < Threshold
    /\ s.state = "open" => s.openedAt = f /\ p <= f
    /\ s.state = "half-open" =>
          s.probeAt = p /\ p # 0 /\ p - f >= Cooldown

CircuitInv ==
    \A p \in Providers : CircuitOK(circuits[p], failedAt[p], probedAt[p], now)

\* The time a circuit counts its cooldown from; a closed one counts none yet.
Mark(s, t) == IF s.state = "open" THEN s.openedAt
              ELSE IF s.state = "half-open" THEN s.probeAt ELSE t

IsProbe(c) == Waiting(c) /\ call[c].probing

ProbeInv ==
    \A c \in Callers : IsProbe(c) =>
        call[c].since <= Mark(circuits[Target(call[c])], now)

VoiceInv ==
    \A c \in Callers :
        /\ call[c].at # "relaying" => call[c].heard = {}
        /\ call[c].at = "relaying" =>
              /\ call[c].heard \subseteq {Target(call[c])}
              /\ call[c].told = call[c].failed

Inv == TypeOK /\ CircuitInv /\ ProbeInv /\ ProbesSpaced /\ VoiceInv

-----------------------------------------------------------------------------
(* The breaker's operations on one circuit *)

\* A recorded failure starts the cooldown anew, in whatever state it finds the
\* circuit.
LEMMA FailureRecorded ==
    ASSUME NEW s \in Slot, NEW f \in Times, NEW p \in Times,
           now \in Times, CircuitOK(s, f, p, now)
    PROVE  /\ recordFailure(s) \in Slot
           /\ CircuitOK(recordFailure(s), now, p, now)
           /\ Mark(recordFailure(s), now) = now
<1> DEFINE r == recordFailure(s)
<1>1. /\ s.failures \in Nat /\ Threshold \in Nat /\ s.openedAt \in Times
      /\ s.probeAt \in Times /\ s.state \in {"closed", "open", "half-open"}
  BY BreakerAssumption DEF Slot
<1>2. p <= now /\ now <= now /\ 0 \in Times
  BY BreakerAssumption DEF CircuitOK, Times
<1>3. CASE s.state = "half-open"
  <2>1. r = [s EXCEPT !.state = "open", !.openedAt = now, !.probeAt = 0]
    BY <1>3 DEF recordFailure
  <2>2. /\ r \in Slot /\ r.state = "open" /\ r.openedAt = now
        /\ r.failures = s.failures
    BY <1>1, <1>2, <2>1 DEF Slot
  <2>3. ~(s.failures < Threshold)
    BY <1>3 DEF CircuitOK
  <2> HIDE DEF r
  <2> QED
    BY <1>2, <2>2, <2>3 DEF CircuitOK, Mark, r
<1>4. CASE s.state # "half-open"
  <2> DEFINE n == CountFailure(s)
  <2>1. n \in Nat /\ (s.state = "open" => n >= Threshold)
    BY <1>1 DEF CountFailure, CircuitOK
  <2>2. CASE n >= Threshold
    <3>1. r = [s EXCEPT !.failures = n, !.state = "open", !.openedAt = now]
      BY <1>4, <2>2 DEF recordFailure
    <3>2. ~(n < Threshold)
      BY <1>1, <2>1, <2>2
    <3> HIDE DEF n
    <3>3. /\ r \in Slot /\ r.state = "open" /\ r.openedAt = now
          /\ r.failures = n
      BY <1>1, <2>1, <3>1 DEF Slot
    <3> HIDE DEF r
    <3> QED
      BY <1>2, <3>2, <3>3 DEF CircuitOK, Mark, r
  <2>3. CASE ~(n >= Threshold)
    <3>1. r = [s EXCEPT !.failures = n]
      BY <1>4, <2>3 DEF recordFailure
    <3>2. s.state = "closed" /\ n < Threshold
      BY <1>1, <1>4, <2>1, <2>3
    <3> HIDE DEF n
    <3>3. r \in Slot /\ r.state = "closed" /\ r.failures = n
      BY <1>1, <2>1, <3>1, <3>2 DEF Slot
    <3> HIDE DEF r
    <3> QED
      BY <1>2, <3>2, <3>3 DEF CircuitOK, Mark, r
  <2> QED
    BY <2>2, <2>3
<1> QED
  BY <1>3, <1>4

\* A circuit that is not closed lets a call through only a cooldown after the
\* last failure and the last probe, and counts from that call on.
LEMMA AdmissionGranted ==
    ASSUME NEW s \in Slot, NEW f \in Times, NEW p \in Times,
           now \in Times \ {0}, CircuitOK(s, f, p, now), canAttempt(s)
    PROVE  /\ Admitted(s) \in Slot
           /\ CircuitOK(Admitted(s), f, IF s.state # "closed" THEN now ELSE p, now)
           /\ Mark(Admitted(s), now) = now
           /\ s.state = "closed" => Admitted(s).state = "closed"
           /\ s.state # "closed" => now - f >= Cooldown
           /\ s.state # "closed" => now - Mark(s, now) >= Cooldown
<1> DEFINE a == Admitted(s)
<1>1. /\ s.failures \in Nat /\ Threshold \in Nat /\ s.openedAt \in Times
      /\ s.probeAt \in Times /\ s.state \in {"closed", "open", "half-open"}
  BY BreakerAssumption DEF Slot
<1>2. f \in Int /\ p \in Int /\ now \in Int /\ f <= now /\ p <= now /\ now # 0
      /\ now >= 0 /\ Cooldown \in Int /\ Cooldown > 0
  BY BreakerAssumption DEF CircuitOK, Times
<1>3. CASE s.state = "closed"
  <2>1. a = s
    BY <1>3 DEF Admitted
  <2> HIDE DEF a
  <2> QED
    BY <1>2, <1>3, <2>1 DEF CircuitOK, Mark, a
<1>4. CASE s.state # "closed"
  <2>1. a = [s EXCEPT !.state = "half-open", !.probeAt = now]
    BY <1>4 DEF Admitted
  <2>2. /\ a \in Slot /\ a.state = "half-open" /\ a.probeAt = now
        /\ a.failures = s.failures
    BY <1>1, <2>1 DEF Slot
  <2>3. ~(s.failures < Threshold)
    BY <1>1, <1>4 DEF CircuitOK
  <2>4. now - f >= Cooldown /\ now - Mark(s, now) >= Cooldown
    <3>1. CASE s.state = "open"
      BY <1>2, <3>1 DEF canAttempt, CircuitOK, Mark
    <3>2. CASE s.state = "half-open"
      BY <1>2, <3>2 DEF canAttempt, CircuitOK, Mark
    <3> QED
      BY <1>1, <1>4, <3>1, <3>2
  <2> HIDE DEF a
  <2> QED
    BY <1>2, <1>4, <2>2, <2>3, <2>4 DEF CircuitOK, Mark, a
<1> QED
  BY <1>3, <1>4

\* A cooldown is counted from a moment that has come.
LEMMA MarkBounded ==
    ASSUME NEW s \in Slot, NEW f \in Times, NEW p \in Times,
           now \in Times, CircuitOK(s, f, p, now)
    PROVE  Mark(s, now) \in Times /\ Mark(s, now) <= now
BY BreakerAssumption DEF Times, Slot, CircuitOK, Mark

-----------------------------------------------------------------------------
(* One walk down a route *)

\* The targets of a route are providers.
LEMMA RouteTargets ==
    ASSUME NEW r \in Routes
    PROVE  /\ r \in Seq(Providers)
           /\ \A i \in 1..Len(r) : r[i] \in Providers
           /\ DOMAIN r = 1..Len(r)
BY RoutesAssumption

\* A call waits for a provider of its route.
LEMMA TargetTyped ==
    ASSUME TypeOK, NEW c \in Callers, call[c].at # "none"
    PROVE  /\ call[c] \in Call
           /\ call[c].route \in Routes
           /\ call[c].index \in 1..Len(call[c].route)
           /\ Target(call[c]) \in Providers
<1>1. call[c] \in Call /\ call[c].index \in DOMAIN call[c].route
  BY DEF TypeOK
<1>2. call[c].route \in Routes
  BY <1>1 DEF Call
<1> QED
  BY <1>1, <1>2, RouteTargets DEF Target

\* The whole invariant survives a walk that starts from sound circuits, and a
\* target it reaches behind a circuit that is not closed has rested.
LEMMA WalkKeeps ==
    ASSUME TypeOK, ProbesSpaced, VoiceInv,
           NEW c \in Callers, NEW k \in Call, k.route \in Routes, k.heard = {},
           NEW first \in Nat \ {0},
           NEW slots \in [Providers -> Slot],
           failedAt' \in [Providers -> Times],
           \A p \in Providers : CircuitOK(slots[p], failedAt'[p], probedAt[p], now),
           \A d \in Callers : d # c /\ IsProbe(d) =>
               call[d].since <= Mark(slots[Target(call[d])], now),
           now' = now,
           Walk(c, k, first, slots)
    PROVE  /\ Inv'
           /\ Contacts(c) /\ circuits'[Target(call'[c])].state # "closed"
              => now - failedAt'[Target(call'[c])] >= Cooldown
           /\ \A d \in Callers : d # c => call'[d] = call[d]
<1> DEFINE open == Admitting(slots, k.route, first)
<1>1. CASE /\ open = {}
           /\ circuits' = slots
           /\ Over(c)
           /\ UNCHANGED probedAt
  <2>1. call' = [call EXCEPT ![c] = NoCall]
    BY <1>1 DEF Over
  <2>2. call'[c] = NoCall /\ \A d \in Callers : d # c => call'[d] = call[d]
    BY <2>1 DEF TypeOK
  <2>3. ~Waiting(c)' /\ call'[c].at = "none" /\ call'[c].heard = {}
    BY <2>2 DEF Waiting, NoCall
  <2>4. TypeOK'
    <3>1. NoCall \in Call
      BY BreakerAssumption DEF NoCall, Call, Times
    <3> QED
      BY <1>1, <2>1, <2>2, <2>3, <3>1 DEF TypeOK
  <2>5. CircuitInv'
    BY <1>1 DEF CircuitInv, CircuitOK
  <2>6. ProbeInv'
    BY <1>1, <2>2, <2>3 DEF ProbeInv, IsProbe, Waiting, Mark
  <2>7. ProbesSpaced'
    BY <2>2, <2>3 DEF ProbesSpaced, Waiting
  <2>8. VoiceInv'
    BY <2>2, <2>3 DEF VoiceInv
  <2> QED
    BY <2>2, <2>3, <2>4, <2>5, <2>6, <2>7, <2>8 DEF Inv, Contacts
<1>2. ASSUME NEW next \in open,
             circuits' = [slots EXCEPT ![k.route[next]] = Admitted(@)],
             call' = [call EXCEPT ![c] =
                [k EXCEPT !.at = "waiting", !.index = next,
                          !.probing = slots[k.route[next]].state # "closed",
                          !.since = IF slots[k.route[next]].state # "closed"
                                    THEN now ELSE 0]],
             probedAt' = IF slots[k.route[next]].state # "closed"
                         THEN [probedAt EXCEPT ![k.route[next]] = now]
                         ELSE probedAt
      PROVE  /\ Inv'
             /\ Contacts(c) /\ circuits'[Target(call'[c])].state # "closed"
                => now - failedAt'[Target(call'[c])] >= Cooldown
             /\ \A d \in Callers : d # c => call'[d] = call[d]
  <2> DEFINE q == k.route[next]
             probing == slots[q].state # "closed"
  <2>1. next \in 1..Len(k.route) /\ canAttempt(slots[q]) /\ next \in Nat
    <3>1. k.route \in Seq(Providers)
      BY RouteTargets
    <3> QED
      BY <3>1 DEF Admitting
  <2>2. q \in Providers /\ next \in DOMAIN k.route
    BY <2>1, RouteTargets
  <2>3. now \in Times \ {0} /\ now \in Nat /\ slots[q] \in Slot
        /\ failedAt'[q] \in Times /\ probedAt[q] \in Times
    BY <2>2 DEF TypeOK, Times
  <2> DEFINE fresh == [k EXCEPT !.at = "waiting", !.index = next,
                                !.probing = probing,
                                !.since = IF probing THEN now ELSE 0]
  <2>4. /\ call'[c] = fresh
        /\ \A d \in Callers : d # c => call'[d] = call[d]
    BY <1>2 DEF TypeOK
  <2>5. /\ fresh \in Call /\ fresh.at = "waiting" /\ fresh.index = next
        /\ fresh.route = k.route /\ fresh.heard = {}
        /\ fresh.probing = probing
        /\ fresh.since = IF probing THEN now ELSE 0
    <3>1. (IF probing THEN now ELSE 0) \in Times
      BY <2>3, BreakerAssumption DEF Times
    <3>2. probing \in BOOLEAN
      OBVIOUS
    <3> HIDE DEF probing
    <3> QED
      BY <2>1, <3>1, <3>2 DEF Call
  <2>6. Target(call'[c]) = q
    BY <2>4, <2>5 DEF Target
  <2>7. /\ Admitted(slots[q]) \in Slot
        /\ CircuitOK(Admitted(slots[q]), failedAt'[q],
                     IF probing THEN now ELSE probedAt[q], now)
        /\ Mark(Admitted(slots[q]), now) = now
        /\ ~probing => Admitted(slots[q]).state = "closed"
        /\ probing => now - failedAt'[q] >= Cooldown
        /\ probing => now - Mark(slots[q], now) >= Cooldown
    BY <2>1, <2>2, <2>3, AdmissionGranted
  <2>8. /\ circuits'[q] = Admitted(slots[q])
        /\ \A p \in Providers : p # q => circuits'[p] = slots[p]
        /\ probedAt'[q] = IF probing THEN now ELSE probedAt[q]
        /\ \A p \in Providers : p # q => probedAt'[p] = probedAt[p]
    BY <1>2, <2>2 DEF TypeOK
  <2>9. TypeOK'
    <3>1. circuits' \in [Providers -> Slot]
      BY <1>2, <2>7
    <3>2. call' \in [Callers -> Call]
      BY <1>2, <2>5 DEF TypeOK
    <3>3. probedAt' \in [Providers -> Times]
      BY <1>2, <2>3 DEF TypeOK
    <3>4. \A d \in Callers : call'[d].at # "none" =>
                                 call'[d].index \in DOMAIN call'[d].route
      <4>1. call'[c].index \in DOMAIN call'[c].route
        BY <2>2, <2>4, <2>5
      <4>2. \A d \in Callers : d # c => call'[d] = call[d]
        BY <2>4
      <4> HIDE DEF fresh
      <4> QED
        BY <4>1, <4>2 DEF TypeOK
    <3> QED
      BY <3>1, <3>2, <3>3, <3>4 DEF TypeOK
  <2>10. CircuitInv'
    <3> SUFFICES ASSUME NEW p \in Providers
                 PROVE  CircuitOK(circuits'[p], failedAt'[p], probedAt'[p], now)
      BY DEF CircuitInv
    <3>1. CASE p = q
      BY <2>7, <2>8, <3>1
    <3>2. CASE p # q
      BY <2>8, <3>2
    <3> QED
      BY <3>1, <3>2
  <2>11. ASSUME NEW d \in Callers, d # c, IsProbe(d)
         PROVE  /\ Target(call[d]) \in Providers
                /\ call[d].since \in Nat
                /\ call[d].since <= Mark(circuits'[Target(call[d])], now)
                /\ Target(call[d]) = q /\ probing => now - call[d].since >= Cooldown
    <3>1. Target(call[d]) \in Providers /\ call[d].since \in Nat
      BY <2>11, TargetTyped DEF IsProbe, Waiting, Call, Times
    <3>2. call[d].since <= Mark(slots[Target(call[d])], now)
      BY <2>11
    <3>3. CASE Target(call[d]) # q
      BY <2>8, <3>1, <3>2, <3>3
    <3>4. CASE Target(call[d]) = q
      <4>1. Mark(slots[q], now) \in Times /\ Mark(slots[q], now) <= now
        BY <2>2, <2>3, MarkBounded
      <4>2. call[d].since <= Mark(slots[q], now)
        BY <3>2, <3>4
      <4>3. call[d].since <= now
        BY <2>3, <3>1, <4>1, <4>2 DEF Times
      <4>4. probing => now - call[d].since >= Cooldown
        BY <2>3, <2>7, <3>1, <4>1, <4>2, BreakerAssumption DEF Times
      <4> QED
        BY <2>7, <2>8, <3>1, <3>4, <4>3, <4>4
    <3> QED
      BY <3>3, <3>4
  <2>12. ProbeInv'
    <3> SUFFICES ASSUME NEW d \in Callers, IsProbe(d)'
                 PROVE  call'[d].since <= Mark(circuits'[Target(call'[d])], now)
      BY DEF ProbeInv
    <3>1. CASE d = c
      <4>1. fresh.probing
        BY <2>4, <3>1 DEF IsProbe
      <4>2. call'[c].since = now
        BY <2>4, <2>5, <4>1
      <4>3. Mark(circuits'[q], now) = now
        BY <2>7, <2>8
      <4> HIDE DEF fresh, q
      <4> QED
        BY <2>3, <2>6, <3>1, <4>2, <4>3
    <3>2. CASE d # c
      BY <2>4, <2>11, <3>2 DEF IsProbe, Waiting
    <3> QED
      BY <3>1, <3>2
  <2>13. ProbesSpaced'
    <3>1. ASSUME NEW d \in Callers, d # c, IsProbe(d), IsProbe(c)',
                 Target(call[d]) = q
          PROVE  call'[c].since - call[d].since >= Cooldown
      BY <2>3, <2>4, <2>5, <2>11, <3>1 DEF IsProbe, Waiting
    <3>2. \A d \in Callers : d # c => (IsProbe(d)' <=> IsProbe(d))
      BY <2>4 DEF IsProbe, Waiting
    <3> SUFFICES ASSUME NEW d \in Callers, NEW e \in Callers, d # e,
                        IsProbe(d)', IsProbe(e)',
                        Target(call'[d]) = Target(call'[e])
                 PROVE  \/ call'[d].since - call'[e].since >= Cooldown
                        \/ call'[e].since - call'[d].since >= Cooldown
      BY DEF ProbesSpaced, IsProbe
    <3> HIDE DEF q, fresh
    <3>3. CASE d = c
      BY <2>4, <2>6, <3>1, <3>2, <3>3
    <3>4. CASE e = c
      BY <2>4, <2>6, <3>1, <3>2, <3>4
    <3>5. CASE d # c /\ e # c
      <4>1. IsProbe(d) /\ IsProbe(e) /\ call'[d] = call[d] /\ call'[e] = call[e]
        BY <2>4, <3>2, <3>5
      <4> QED
        BY <4>1 DEF ProbesSpaced, IsProbe
    <3> QED
      BY <3>3, <3>4, <3>5
  <2>14. VoiceInv'
    BY <2>4, <2>5 DEF VoiceInv
  <2> QED
    BY <2>4, <2>6, <2>7, <2>8, <2>9, <2>10, <2>12, <2>13, <2>14 DEF Inv
<1> QED
  BY <1>1, <1>2 DEF Walk
-----------------------------------------------------------------------------
(* Steps of one call that start no walk *)

\* Circuits stay as they are, or one provider's success is recorded.
Settled ==
    \/ UNCHANGED <<circuits, failedAt, probedAt>>
    \/ \E p \in Providers :
          /\ circuits' = [circuits EXCEPT ![p] = Closed]
          /\ failedAt' = [failedAt EXCEPT ![p] = 0]
          /\ probedAt' = [probedAt EXCEPT ![p] = 0]

\* Such a step keeps the invariant and reaches no provider.
LEMMA QuietStep ==
    ASSUME Inv, NEW c \in Callers, NEW k \in Call,
           call' = [call EXCEPT ![c] = k],
           k.at # "none" => k.index \in DOMAIN k.route,
           k.at = "waiting" =>
              /\ Waiting(c) /\ k.index = call[c].index
              /\ k.route = call[c].route /\ k.since = call[c].since
              /\ k.probing = call[c].probing,
           k.at # "relaying" => k.heard = {},
           k.at = "relaying" => k.heard \subseteq {Target(k)} /\ k.told = k.failed,
           now' = now, Settled
    PROVE  Inv' /\ \A d \in Callers : ~Contacts(d)
<1>1. /\ call'[c] = k /\ \A d \in Callers : d # c => call'[d] = call[d]
      /\ call' \in [Callers -> Call]
  BY DEF Inv, TypeOK
<1>2. \A d \in Callers : Waiting(d)' =>
         /\ Waiting(d) /\ call'[d].index = call[d].index
         /\ call'[d].since = call[d].since
         /\ call'[d].probing = call[d].probing
         /\ Target(call'[d]) = Target(call[d])
  BY <1>1 DEF Waiting, Target
<1>3. Closed \in Slot /\ 0 \in Times /\ Closed.state = "closed"
      /\ now \in Times /\ now \in Nat
  BY BreakerAssumption DEF Closed, Slot, Times, Inv, TypeOK
<1>4. /\ circuits' \in [Providers -> Slot]
      /\ failedAt' \in [Providers -> Times]
      /\ probedAt' \in [Providers -> Times]
  BY <1>3 DEF Settled, Inv, TypeOK
<1>5. \A p \in Providers :
         \/ /\ circuits'[p] = circuits[p]
            /\ failedAt'[p] = failedAt[p]
            /\ probedAt'[p] = probedAt[p]
         \/ circuits'[p] = Closed /\ failedAt'[p] = 0 /\ probedAt'[p] = 0
  BY DEF Settled, Inv, TypeOK
<1>6. TypeOK'
  <2>1. \A d \in Callers : call'[d].at # "none" =>
                               call'[d].index \in DOMAIN call'[d].route
    BY <1>1 DEF Inv, TypeOK
  <2> QED
    BY <1>1, <1>4, <2>1 DEF Inv, TypeOK
<1>7. CircuitInv'
  <2> SUFFICES ASSUME NEW p \in Providers
               PROVE  CircuitOK(circuits'[p], failedAt'[p], probedAt'[p], now)
    BY DEF CircuitInv
  <2>1. CircuitOK(circuits[p], failedAt[p], probedAt[p], now)
    BY DEF Inv, CircuitInv
  <2>2. CircuitOK(Closed, 0, 0, now)
    BY <1>3, BreakerAssumption DEF CircuitOK, Closed
  <2> QED
    BY <1>5, <2>1, <2>2
<1>8. ProbeInv'
  <2> SUFFICES ASSUME NEW d \in Callers, IsProbe(d)'
               PROVE  call'[d].since <= Mark(circuits'[Target(call'[d])], now)
    BY DEF ProbeInv
  <2> DEFINE p == Target(call[d])
  <2>1. IsProbe(d) /\ call'[d].since = call[d].since /\ Target(call'[d]) = p
    BY <1>2 DEF IsProbe
  <2>2. p \in Providers /\ call[d].since \in Nat
    BY <2>1, TargetTyped DEF Inv, IsProbe, Waiting, Call, Times
  <2>3. call[d].since <= Mark(circuits[p], now)
    BY <2>1 DEF Inv, ProbeInv
  <2>4. Mark(circuits[p], now) \in Times /\ Mark(circuits[p], now) <= now
    BY <1>3, <2>2, MarkBounded DEF Inv, TypeOK, CircuitInv
  <2>5. Mark(Closed, now) = now
    BY <1>3 DEF Mark
  <2>6. call[d].since <= now
    BY <1>3, <2>2, <2>3, <2>4 DEF Times
  <2> HIDE DEF p
  <2> QED
    BY <1>5, <2>1, <2>2, <2>3, <2>5, <2>6
<1>9. ProbesSpaced'
  BY <1>2 DEF Inv, ProbesSpaced
<1>10. VoiceInv'
  <2> SUFFICES ASSUME NEW d \in Callers
               PROVE  /\ call'[d].at # "relaying" => call'[d].heard = {}
                      /\ call'[d].at = "relaying" =>
                            /\ call'[d].heard \subseteq {Target(call'[d])}
                            /\ call'[d].told = call'[d].failed
    BY DEF VoiceInv
  <2> QED
    BY <1>1 DEF Inv, VoiceInv
<1> QED
  BY <1>2, <1>6, <1>7, <1>8, <1>9, <1>10 DEF Inv, Contacts

\* A call that is over is a quiet step.
LEMMA OverStep ==
    ASSUME Inv, NEW c \in Callers, Over(c), now' = now, Settled
    PROVE  Inv' /\ \A d \in Callers : ~Contacts(d)
<1>1. NoCall \in Call /\ NoCall.at = "none" /\ NoCall.heard = {}
  BY BreakerAssumption DEF NoCall, Call, Times
<1> QED
  BY <1>1, QuietStep DEF Over

-----------------------------------------------------------------------------
(* The invariant *)

\* The initial states satisfy the invariant.
LEMMA InitInv == Init => Inv
<1> SUFFICES ASSUME Init PROVE Inv
  OBVIOUS
<1>1. NoCall \in Call /\ Closed \in Slot /\ 0 \in Times /\ 1 \in Times
  BY BreakerAssumption DEF NoCall, Call, Closed, Slot, Times
<1>2. \A c \in Callers : call[c] = NoCall /\ call[c].at = "none"
                         /\ call[c].heard = {}
  BY DEF Init, NoCall
<1>3. TypeOK
  BY <1>1, <1>2 DEF Init, TypeOK
<1>4. CircuitInv
  BY BreakerAssumption DEF Init, CircuitInv, CircuitOK, Closed
<1>5. ProbeInv /\ ProbesSpaced /\ VoiceInv
  BY <1>2 DEF ProbeInv, ProbesSpaced, VoiceInv, IsProbe, Waiting
<1> QED
  BY <1>3, <1>4, <1>5 DEF Inv

\* What a step may reach: a provider behind a circuit that is not closed has
\* rested.
RestedContacts ==
    \A c \in Callers :
        Contacts(c) /\ circuits'[Target(call'[c])].state # "closed"
        => now - failedAt'[Target(call'[c])] >= Cooldown

\* Every step keeps the invariant and leaves resting providers alone.
LEMMA NextInv == Inv /\ [Next]_vars => Inv' /\ RestedContacts
<1> SUFFICES ASSUME Inv, [Next]_vars PROVE Inv' /\ RestedContacts
  OBVIOUS
<1>t. /\ TypeOK /\ now \in Times /\ now \in Nat
  BY DEF Inv, TypeOK, Times
<1>1. ASSUME NEW c \in Callers, Start(c) PROVE Inv' /\ RestedContacts
  <2>1. PICK kind \in {"chat", "stream"}, route \in Routes :
           Walk(c, NewCall(kind, route), 1, circuits)
    BY <1>1 DEF Start
  <2> DEFINE k == NewCall(kind, route)
  <2>2. k \in Call /\ k.route \in Routes /\ k.heard = {}
    <3>1. NoCall \in Call /\ NoCall.heard = {}
      BY BreakerAssumption DEF NoCall, Call, Times
    <3>2. k = [NoCall EXCEPT !.kind = kind, !.route = route]
      BY DEF NewCall
    <3> HIDE DEF k
    <3> QED
      BY <3>1, <3>2 DEF Call
  <2>3. now' = now /\ failedAt' = failedAt
    BY <1>1 DEF Start
  <2>4. \A d \in Callers : d # c /\ IsProbe(d) =>
           call[d].since <= Mark(circuits[Target(call[d])], now)
    BY DEF Inv, ProbeInv
  <2>5. \A p \in Providers : CircuitOK(circuits[p], failedAt'[p], probedAt[p], now)
    BY <2>3 DEF Inv, CircuitInv
  <2>6. circuits \in [Providers -> Slot] /\ failedAt' \in [Providers -> Times]
    BY <2>3 DEF Inv, TypeOK
  <2> HIDE DEF k
  <2>7. /\ Inv'
        /\ Contacts(c) /\ circuits'[Target(call'[c])].state # "closed"
           => now - failedAt'[Target(call'[c])] >= Cooldown
        /\ \A d \in Callers : d # c => call'[d] = call[d]
    BY <2>1, <2>2, <2>3, <2>4, <2>5, <2>6, WalkKeeps DEF Inv, k
  <2> QED
    BY <2>7 DEF RestedContacts, Contacts, Waiting
<1>2. ASSUME NEW c \in Callers, FailsRetryably(c) PROVE Inv' /\ RestedContacts
  <2> DEFINE p == Target(call[c])
             slots == [circuits EXCEPT ![p] = recordFailure(@)]
             k == [call[c] EXCEPT !.failed = TRUE]
             first == NextTarget(call[c])
  <2>1. /\ Walk(c, k, first, slots) /\ Waiting(c) /\ now' = now
        /\ failedAt' = [failedAt EXCEPT ![p] = now]
    BY <1>2 DEF FailsRetryably
  <2>2. /\ call[c] \in Call /\ call[c].route \in Routes /\ p \in Providers
        /\ call[c].index \in 1..Len(call[c].route)
    BY <2>1, <1>t, TargetTyped DEF Waiting
  <2>3. k \in Call /\ k.route \in Routes /\ k.heard = {}
    <3>1. call[c].heard = {}
      BY <2>1 DEF Inv, VoiceInv, Waiting
    <3> QED
      BY <2>2, <3>1 DEF Call
  <2>4. first \in Nat \ {0}
    BY <2>2, RouteTargets DEF NextTarget
  <2>5. /\ circuits[p] \in Slot /\ failedAt[p] \in Times /\ probedAt[p] \in Times
        /\ CircuitOK(circuits[p], failedAt[p], probedAt[p], now)
    BY <2>2 DEF Inv, TypeOK, CircuitInv
  <2>6. /\ recordFailure(circuits[p]) \in Slot
        /\ CircuitOK(recordFailure(circuits[p]), now, probedAt[p], now)
        /\ Mark(recordFailure(circuits[p]), now) = now
    BY <1>t, <2>5, FailureRecorded
  <2>7. /\ slots \in [Providers -> Slot]
        /\ slots[p] = recordFailure(circuits[p])
        /\ \A q \in Providers : q # p => slots[q] = circuits[q]
        /\ failedAt' \in [Providers -> Times] /\ failedAt'[p] = now
        /\ \A q \in Providers : q # p => failedAt'[q] = failedAt[q]
    BY <1>t, <2>1, <2>2, <2>6 DEF TypeOK
  <2>8. ASSUME NEW q \in Providers
        PROVE  CircuitOK(slots[q], failedAt'[q], probedAt[q], now)
    <3>1. CASE q = p
      BY <2>6, <2>7, <3>1
    <3>2. CASE q # p
      BY <2>7, <3>2 DEF Inv, CircuitInv
    <3> QED
      BY <3>1, <3>2
  <2>9. ASSUME NEW d \in Callers, d # c, IsProbe(d)
        PROVE  call[d].since <= Mark(slots[Target(call[d])], now)
    <3> DEFINE q == Target(call[d])
    <3>1. q \in Providers /\ call[d].since \in Nat
      BY <1>t, <2>9, TargetTyped DEF IsProbe, Waiting, Call, Times
    <3>2. call[d].since <= Mark(circuits[q], now)
      BY <2>9 DEF Inv, ProbeInv
    <3>3. Mark(circuits[q], now) \in Times /\ Mark(circuits[q], now) <= now
      BY <1>t, <3>1, MarkBounded DEF Inv, TypeOK, CircuitInv
    <3>4. call[d].since <= now
      BY <1>t, <3>1, <3>2, <3>3 DEF Times
    <3> HIDE DEF q
    <3>5. CASE q = p
      BY <2>6, <2>7, <3>4, <3>5 DEF q
    <3>6. CASE q # p
      BY <2>7, <3>1, <3>2, <3>6 DEF q
    <3> QED
      BY <3>5, <3>6
  <2> HIDE DEF slots, k, first
  <2>10. /\ Inv'
         /\ Contacts(c) /\ circuits'[Target(call'[c])].state # "closed"
            => now - failedAt'[Target(call'[c])] >= Cooldown
         /\ \A d \in Callers : d # c => call'[d] = call[d]
    BY <2>1, <2>3, <2>4, <2>7, <2>8, <2>9, WalkKeeps DEF Inv
  <2> QED
    BY <2>10 DEF RestedContacts, Contacts, Waiting
<1>3. ASSUME NEW c \in Callers, Waiting(c), Succeeded(c)
      PROVE  Settled /\ now' = now
  BY <1>t, <1>3, TargetTyped DEF Succeeded, Recovered, Settled, Waiting
<1>4. ASSUME NEW c \in Callers, ChatAnswers(c) \/ StreamRefused(c)
      PROVE  Inv' /\ RestedContacts
  <2>1. Waiting(c) /\ Succeeded(c) /\ Over(c)
    BY <1>4 DEF ChatAnswers, StreamRefused
  <2> QED
    BY <1>3, <2>1, OverStep DEF RestedContacts
<1>5. ASSUME NEW c \in Callers, StreamAnswers(c) PROVE Inv' /\ RestedContacts
  <2> DEFINE k == [call[c] EXCEPT !.at = "relaying", !.told = call[c].failed]
  <2>1. /\ Waiting(c) /\ Succeeded(c) /\ call' = [call EXCEPT ![c] = k]
    BY <1>5, <1>t DEF StreamAnswers, TypeOK
  <2>2. /\ call[c] \in Call /\ call[c].heard = {}
        /\ call[c].index \in DOMAIN call[c].route
    BY <2>1 DEF Inv, VoiceInv, TypeOK, Waiting
  <2>3. /\ k \in Call /\ k.at = "relaying" /\ k.heard = {} /\ k.told = k.failed
        /\ k.index \in DOMAIN k.route
    BY <2>2 DEF Call
  <2> HIDE DEF k
  <2> QED
    BY <1>3, <2>1, <2>3, QuietStep DEF RestedContacts
<1>6. ASSUME NEW c \in Callers, ThrowsTerminally(c) \/ RelayEnds(c)
      PROVE  Inv' /\ RestedContacts
  <2>1. Over(c) /\ Settled /\ now' = now
    BY <1>6 DEF ThrowsTerminally, RelayEnds, Settled
  <2> QED
    BY <2>1, OverStep DEF RestedContacts
<1>7. ASSUME NEW c \in Callers, Relay(c) PROVE Inv' /\ RestedContacts
  <2> DEFINE k == [call[c] EXCEPT !.heard = @ \cup {Target(call[c])}]
  <2>1. /\ call[c].at = "relaying" /\ call' = [call EXCEPT ![c] = k]
        /\ Settled /\ now' = now
    BY <1>7 DEF Relay, Settled
  <2>2. /\ call[c] \in Call /\ Target(call[c]) \in Providers
        /\ call[c].index \in DOMAIN call[c].route
        /\ call[c].heard \subseteq {Target(call[c])} /\ call[c].told = call[c].failed
    BY <1>t, <2>1, TargetTyped DEF Inv, VoiceInv, TypeOK
  <2>3. /\ k \in Call /\ k.at = "relaying" /\ k.told = k.failed
        /\ k.index \in DOMAIN k.route /\ k.heard \subseteq {Target(k)}
    BY <2>1, <2>2 DEF Call, Target
  <2> HIDE DEF k
  <2> QED
    BY <2>1, <2>3, QuietStep DEF RestedContacts
<1>8. ASSUME NEW c \in Callers, CallerLeaves(c) PROVE Inv' /\ RestedContacts
  <2>1. Settled /\ now' = now
    BY <1>8 DEF CallerLeaves, Settled
  <2>2. CASE Over(c)
    BY <2>1, <2>2, OverStep DEF RestedContacts
  <2>3. CASE Waiting(c) /\ call' = [call EXCEPT ![c].gone = TRUE]
    <3> DEFINE k == [call[c] EXCEPT !.gone = TRUE]
    <3>1. call' = [call EXCEPT ![c] = k]
      BY <2>3
    <3>2. /\ call[c] \in Call /\ call[c].heard = {} /\ call[c].at = "waiting"
          /\ call[c].index \in DOMAIN call[c].route
      BY <2>3 DEF Inv, VoiceInv, TypeOK, Waiting
    <3>3. /\ k \in Call /\ k.at = "waiting" /\ k.heard = {}
          /\ k.index = call[c].index /\ k.route = call[c].route
          /\ k.since = call[c].since /\ k.probing = call[c].probing
      BY <3>2 DEF Call
    <3> HIDE DEF k
    <3> QED
      BY <2>1, <2>3, <3>1, <3>2, <3>3, QuietStep DEF RestedContacts
  <2> QED
    BY <1>8, <2>2, <2>3 DEF CallerLeaves
<1>9. CASE Tick
  <2>1. /\ now' = now + 1 /\ now' \in Times \ {0}
        /\ UNCHANGED <<circuits, call, failedAt, probedAt>>
    BY <1>9, BreakerAssumption DEF Tick, Inv, TypeOK, Times
  <2>2. TypeOK' /\ VoiceInv' /\ ProbesSpaced'
    BY <2>1 DEF Inv, TypeOK, VoiceInv, ProbesSpaced, Waiting
  <2>3. CircuitInv'
    <3> SUFFICES ASSUME NEW p \in Providers
                 PROVE  CircuitOK(circuits[p], failedAt[p], probedAt[p], now + 1)
      BY <2>1 DEF CircuitInv
    <3>1. CircuitOK(circuits[p], failedAt[p], probedAt[p], now)
          /\ failedAt[p] \in Nat /\ probedAt[p] \in Nat
      BY DEF Inv, CircuitInv, TypeOK, Times
    <3> QED
      BY <1>t, <3>1 DEF CircuitOK
  <2>4. ProbeInv'
    <3> SUFFICES ASSUME NEW d \in Callers, IsProbe(d)
                 PROVE  call[d].since <= Mark(circuits[Target(call[d])], now + 1)
      BY <2>1 DEF ProbeInv, IsProbe, Waiting
    <3>1. call[d].since <= Mark(circuits[Target(call[d])], now)
      BY DEF Inv, ProbeInv
    <3>2. call[d].since \in Nat
      BY <1>t, TargetTyped DEF IsProbe, Waiting, Call, Times
    <3> QED
      BY <1>t, <3>1, <3>2 DEF Mark
  <2>5. \A d \in Callers : ~Contacts(d)
    BY <2>1 DEF Contacts, Waiting
  <2> QED
    BY <2>2, <2>3, <2>4, <2>5 DEF Inv, RestedContacts
<1>10. CASE UNCHANGED vars
  <2>1. UNCHANGED <<circuits, call, now, failedAt, probedAt>>
    BY <1>10 DEF vars
  <2>2. Inv'
    BY <2>1 DEF Inv, TypeOK, CircuitInv, ProbeInv, IsProbe, ProbesSpaced,
                VoiceInv, Waiting
  <2>3. \A d \in Callers : ~Contacts(d)
    BY <2>1 DEF Contacts, Waiting
  <2> QED
    BY <2>2, <2>3 DEF RestedContacts
<1> QED
  BY <1>1, <1>2, <1>4, <1>5, <1>6, <1>7, <1>8, <1>9, <1>10 DEF Next, Answers

\* The invariant holds in every state of every behaviour.
LEMMA Invariance == Spec => []Inv
BY InitInv, NextInv, PTL DEF Spec

-----------------------------------------------------------------------------
(* Theorems *)

\* Types: circuits, calls and times keep their shape, and a call in flight is
\* at a target of its route.
THEOREM TypeCorrect == Spec => []TypeOK
BY Invariance, PTL DEF Inv

\* recordFailure's threshold: a circuit is closed exactly while fewer than
\* Threshold failures in a row are counted, late failures included.
THEOREM ThresholdOpens == Spec => []OpensAtThreshold
<1>1. Inv => OpensAtThreshold
  BY DEF Inv, CircuitInv, CircuitOK, OpensAtThreshold
<1> QED
  BY <1>1, Invariance, PTL

\* canAttempt's promise of audit CQ-022: probes of one provider are a cooldown
\* apart, whatever other calls, late answers and stops do to the circuit.
THEOREM ProbesKeepApart == Spec => []ProbesSpaced
BY Invariance, PTL DEF Inv

\* No circuit stays shut: canAttempt grants a call to any provider that neither
\* failed nor was probed for a cooldown.
THEOREM NoProviderIsForgotten == Spec => []NoProviderForgotten
<1>1. Inv => NoProviderForgotten
  <2> SUFFICES ASSUME Inv, NEW p \in Providers,
                      now - failedAt[p] >= Cooldown,
                      now - probedAt[p] >= Cooldown
               PROVE  canAttempt(circuits[p])
    BY DEF NoProviderForgotten
  <2>1. circuits[p].state \in {"closed", "open", "half-open"}
    BY DEF Inv, TypeOK, Slot
  <2>2. CircuitOK(circuits[p], failedAt[p], probedAt[p], now)
    BY DEF Inv, CircuitInv
  <2> QED
    BY <2>1, <2>2 DEF CircuitOK, canAttempt
<1> QED
  BY <1>1, Invariance, PTL

\* walkFallbackChain asks an open provider again only after it has rested for
\* a whole cooldown since its last recorded failure.
THEOREM OpenProvidersRest == Spec => OpenProviderRests
<1>1. Inv /\ [Next]_vars =>
        [\A c \in Callers :
             /\ Contacts(c)
             /\ circuits'[Target(call'[c])].state # "closed"
             => now - failedAt'[Target(call'[c])] >= Cooldown]_vars
  BY NextInv DEF RestedContacts
<1> QED
  BY <1>1, Invariance, PTL DEF Spec, OpenProviderRests

\* A stream's caller hears one provider, and is told when it is not the first.
THEOREM CallersHearOneVoice == Spec => []OneVoice
<1>1. Inv => OneVoice
  <2> SUFFICES ASSUME Inv, NEW c \in Callers
               PROVE  /\ Cardinality(call[c].heard) <= 1
                      /\ call[c].heard # {} /\ call[c].failed => call[c].told
    BY DEF OneVoice
  <2>1. call[c].heard = {} \/ call[c].heard = {Target(call[c])}
    BY DEF Inv, VoiceInv
  <2>2. Cardinality(call[c].heard) <= 1
    <3>1. CASE call[c].heard = {}
      BY <3>1, FS_EmptySet
    <3>2. CASE call[c].heard = {Target(call[c])}
      <4>1. Cardinality({Target(call[c])}) = 1
        BY FS_Singleton, Zenon
      <4> QED
        BY <3>2, <4>1
    <3> QED
      BY <2>1, <3>1, <3>2
  <2>3. call[c].heard # {} => call[c].told = call[c].failed
    BY DEF Inv, VoiceInv
  <2> QED
    BY <2>2, <2>3
<1> QED
  BY <1>1, Invariance, PTL
=============================================================================
