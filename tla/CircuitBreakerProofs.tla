------------------------ MODULE CircuitBreakerProofs ------------------------
(***************************************************************************)
(* The invariants of CircuitBreaker, for every set of exchange slots,      *)
(* every configuration and any number of overlapping attempts.             *)
(*                                                                         *)
(* None of them is inductive by itself.  ProbeNeverLockedOut needs to know *)
(* that the probe counter is at most one and that a claimed probe has a    *)
(* holder; RecoveryIsBounded that the backoff a half-open circuit doubles  *)
(* is zero or at least the configured cooldown; both are in IInv.  Its     *)
(* part about the record alone is Steady, kept by each operation of        *)
(* ProviderHealth; the rest ties the record to the attempts in flight.     *)
(***************************************************************************)
EXTENDS CircuitBreaker, RoutingProofs

\* A claimed probe is held by an attempt in flight.
ProbeIsHeld == s.probes = 1 => Probes # {}

IInv ==
  /\ TypeOK
  /\ Steady(s, p, now)
  /\ SlotsMatchAttempts
  /\ ProbeIsHeld

----------------------------------------------------------------------------
\* The numbers of a policy are natural ones.
LEMMA PolicyNumbers ==
  ASSUME p \in Policies
  PROVE  Numbers(p)
BY PoliciesAssumption DEF Numbers

\* Ending the attempt of slot x takes it from the attempts in flight; the
\* record with its slot given back agrees with those that remain.
LEMMA ReleaseStep ==
  ASSUME IInv, NEW x \in Slots, att[x].busy, att' = [att EXCEPT ![x] = Idle]
  PROVE  /\ Steady(Released(x), p, now)
         /\ Released(x).active = Cardinality(InFlight')
         /\ Released(x).probes = 1 => Probes' # {}
         /\ att' \in [Slots -> Attempts]
<1> DEFINE r == Released(x)
           b == att[x].probe
<1>1. /\ Numbers(p) /\ now \in Nat /\ s \in ProviderState
      /\ b \in BOOLEAN /\ Steady(s, p, now)
  BY PolicyNumbers DEF IInv, TypeOK, Attempts
<1>2. Steady(r, p, now)
  BY <1>1, EndSteady DEF Released
<1>3. /\ r.active = IF s.active > 0 THEN s.active - 1 ELSE s.active
      /\ r.probes = IF b /\ s.probes > 0 THEN s.probes - 1 ELSE s.probes
  BY <1>1, EndFields DEF Released
<1>4. InFlight' = InFlight \ {x} /\ x \in InFlight
  BY DEF InFlight, Idle, IInv, TypeOK, Attempts
<1>5. IsFiniteSet(InFlight)
  BY SlotsAssumption, FS_Subset DEF InFlight
<1>6. Cardinality(InFlight') = Cardinality(InFlight) - 1
  BY <1>4, <1>5, FS_RemoveElement
<1>7. Cardinality(InFlight) \in Nat /\ Cardinality(InFlight') \in Nat
  BY <1>4, <1>5, FS_CardinalityType, FS_Subset
<1>8. s.active = Cardinality(InFlight)
  BY DEF IInv, SlotsMatchAttempts
<1> HIDE DEF r
<1>9. r.active = Cardinality(InFlight')
  BY <1>3, <1>6, <1>7, <1>8
<1>10. r.probes = 1 => Probes' # {}
  <2>1. s.probes \in {0, 1}
    BY <1>1 DEF Steady
  <2> SUFFICES ASSUME r.probes = 1 PROVE Probes' # {}
    OBVIOUS
  <2>2. ~b /\ s.probes = 1
    BY <1>1, <1>3, <2>1
  <2>3. PICK y \in Slots : att[y].busy /\ att[y].probe
    BY <2>2 DEF IInv, ProbeIsHeld, Probes
  <2>4. y # x
    BY <2>2, <2>3
  <2> QED
    BY <2>3, <2>4 DEF Probes, IInv, TypeOK
<1>11. att' \in [Slots -> Attempts]
  BY DEF IInv, TypeOK, Attempts, Idle
<1> QED
  BY <1>2, <1>9, <1>10, <1>11 DEF r

\* What is left of a step that ends an attempt: the outcome keeps the counts.
LEMMA OutcomeStep ==
  ASSUME IInv, NEW x \in Slots, att[x].busy, att' = [att EXCEPT ![x] = Idle],
         UNCHANGED <<p, now>>, Steady(s', p, now),
         s'.active = Released(x).active,
         s'.probes \in {0, Released(x).probes}
  PROVE  IInv'
<1>1. /\ Released(x).active = Cardinality(InFlight')
      /\ Released(x).probes = 1 => Probes' # {}
      /\ att' \in [Slots -> Attempts]
  BY ReleaseStep
<1>2. TypeOK'
  BY <1>1 DEF IInv, TypeOK, Steady
<1>3. SlotsMatchAttempts'
  BY <1>1 DEF SlotsMatchAttempts
<1>4. ProbeIsHeld'
  BY <1>1 DEF ProbeIsHeld
<1> QED
  BY <1>2, <1>3, <1>4 DEF IInv, Steady

\* IInv holds initially.
LEMMA InitIInv == Init => IInv
<1> SUFFICES ASSUME Init PROVE IInv
  OBVIOUS
<1>1. Numbers(p)
  BY PolicyNumbers DEF Init
<1>2. Steady(s, p, now)
  BY <1>1, NewStateSteady DEF Init
<1>3. TypeOK
  BY NewStateType DEF Init, TypeOK, Attempts, Idle
<1>4. InFlight = {}
  BY DEF InFlight, Init, Idle
<1>5. SlotsMatchAttempts
  BY <1>4, FS_EmptySet DEF SlotsMatchAttempts, Init, NewState
<1>6. ProbeIsHeld
  BY DEF ProbeIsHeld, Init, NewState
<1> QED
  BY <1>2, <1>3, <1>5, <1>6 DEF IInv

\* IInv is preserved by the claim of a slot.
LEMMA BeginStep ==
  ASSUME IInv, NEW x \in Slots, BeginAttempt(x)
  PROVE  IInv'
<1> DEFINE r == Refresh(s, now)
<1>1. Numbers(p) /\ now \in Nat /\ s \in ProviderState /\ Steady(s, p, now)
  BY PolicyNumbers DEF IInv, TypeOK
<1>2. r \in ProviderState /\ r.active = s.active /\ r.probes \in {0, s.probes}
  BY <1>1, RefreshFields
<1>3. Steady(r, p, now)
  BY <1>1, RefreshSteady
<1>4. /\ Admit(r) /\ ~att[x].busy /\ s' = Begin(r)
      /\ att' = [att EXCEPT ![x] = [busy |-> TRUE, probe |-> IsProbe(r)]]
      /\ p' = p /\ now' = now
  BY Zenon DEF BeginAttempt, Eligible
<1> HIDE DEF r
<1>5. Steady(s', p, now)
  BY <1>1, <1>3, <1>4, BeginSteady
<1>6. /\ s'.active = r.active + 1
      /\ s'.probes = IF IsProbe(r) THEN r.probes + 1 ELSE r.probes
  BY <1>2, <1>4, BeginFields
<1>7. TypeOK'
  <2>1. att' \in [Slots -> Attempts]
    BY <1>4 DEF IInv, TypeOK, Attempts, IsProbe
  <2> QED
    BY <1>4, <1>5, <2>1 DEF IInv, TypeOK, Steady
<1>8. SlotsMatchAttempts'
  <2>1. InFlight' = InFlight \cup {x} /\ x \notin InFlight
    BY <1>4 DEF InFlight, IInv, TypeOK
  <2>2. IsFiniteSet(InFlight)
    BY SlotsAssumption, FS_Subset DEF InFlight
  <2>3. Cardinality(InFlight') = Cardinality(InFlight) + 1
    BY <2>1, <2>2, FS_AddElement
  <2> QED
    BY <1>2, <1>6, <2>3 DEF IInv, SlotsMatchAttempts
<1>9. ProbeIsHeld'
  <2>1. CASE IsProbe(r)
    <3>1. x \in Probes'
      BY <1>4, <2>1 DEF Probes, IInv, TypeOK
    <3> QED
      BY <3>1 DEF ProbeIsHeld
  <2>2. CASE ~IsProbe(r)
    <3>1. Probes \subseteq Probes'
      BY <1>4 DEF Probes, IInv, TypeOK
    <3>2. s'.probes = 1 => s.probes = 1
      BY <1>2, <1>6, <2>2
    <3> QED
      BY <3>1, <3>2 DEF IInv, ProbeIsHeld
  <2> QED
    BY <2>1, <2>2
<1> QED
  BY <1>4, <1>5, <1>7, <1>8, <1>9 DEF IInv

\* IInv is preserved by every step.
LEMMA NextIInv == IInv /\ [Next]_vars => IInv'
<1> SUFFICES ASSUME IInv, [Next]_vars PROVE IInv'
  OBVIOUS
<1>0. /\ Numbers(p) /\ now \in Nat /\ s \in ProviderState
      /\ Steady(s, p, now) /\ att \in [Slots -> Attempts]
  BY PolicyNumbers DEF IInv, TypeOK
<1>1. CASE Tick
  <2>1. Steady(s, p, now')
    BY <1>0, <1>1, LaterSteady DEF Tick
  <2> QED
    BY <1>0, <1>1, <2>1
    DEF Tick, IInv, TypeOK, SlotsMatchAttempts, InFlight, ProbeIsHeld, Probes
<1>2. CASE Look
  <2>1. Steady(s', p, now)
    BY <1>0, <1>2, RefreshSteady DEF Look
  <2>2. s'.active = s.active /\ s'.probes \in {0, s.probes}
    BY <1>0, <1>2, RefreshFields DEF Look
  <2> QED
    BY <1>0, <1>2, <2>1, <2>2
    DEF Look, IInv, TypeOK, SlotsMatchAttempts, InFlight, ProbeIsHeld, Probes,
        Steady
<1>3. ASSUME NEW x \in Slots, BeginAttempt(x) PROVE IInv'
  BY <1>3, BeginStep
<1>4. ASSUME NEW x \in Slots, EndSuccess(x) PROVE IInv'
  <2>1. Steady(Released(x), p, now)
    BY <1>4, ReleaseStep DEF EndSuccess
  <2>2. PICK l \in Latencies : s' = Success(Released(x), p, l)
    BY <1>4 DEF EndSuccess
  <2>3. l \in Nat
    BY LatenciesAssumption
  <2>4. Steady(s', p, now)
    BY <1>0, <2>1, <2>2, <2>3, SuccessSteady
  <2>5. Released(x) \in ProviderState
    BY <2>1 DEF Steady
  <2>6. s'.active = Released(x).active /\ s'.probes = Released(x).probes
    BY <2>2, <2>3, <2>5, SuccessFields
  <2> QED
    BY <1>4, <2>4, <2>6, OutcomeStep DEF EndSuccess
<1>5. ASSUME NEW x \in Slots, EndFailure(x) PROVE IInv'
  <2>1. Steady(Released(x), p, now)
    BY <1>5, ReleaseStep DEF EndFailure
  <2>2. Steady(s', p, now)
    BY <1>0, <1>5, <2>1, FailureSteady DEF EndFailure
  <2>3. Released(x) \in ProviderState /\ p.failThr \in Nat /\ p.cooldown \in Nat
    BY <1>0, <2>1 DEF Steady, Numbers
  <2>4. /\ s'.active = Released(x).active
        /\ s'.probes \in {0, Released(x).probes}
    BY <1>0, <1>5, <2>3, FailureFields DEF EndFailure
  <2> QED
    BY <1>5, <2>2, <2>4, OutcomeStep DEF EndFailure
<1>6. ASSUME NEW x \in Slots, EndCancelled(x) PROVE IInv'
  <2>1. Steady(s', p, now)
    BY <1>6, ReleaseStep DEF EndCancelled
  <2> QED
    BY <1>6, <2>1, OutcomeStep DEF EndCancelled
<1>7. CASE UNCHANGED vars
  BY <1>7
  DEF vars, IInv, TypeOK, SlotsMatchAttempts, InFlight, ProbeIsHeld, Probes
<1> QED
  BY <1>1, <1>2, <1>3, <1>4, <1>5, <1>6, <1>7 DEF Next

\* The inductive invariant holds of every behaviour.
LEMMA Invariance == Spec => []IInv
BY InitIInv, NextIInv, PTL DEF Spec

----------------------------------------------------------------------------
(***************************************************************************)
(* Every field of the record stays within its type: no counter of          *)
(* routing_health.asm goes below zero, whatever the order of the outcomes. *)
(***************************************************************************)
THEOREM TypeCorrect == Spec => []TypeOK
<1>1. IInv => TypeOK
  BY DEF IInv
<1> QED
  BY <1>1, Invariance, PTL

(***************************************************************************)
(* The claimed concurrency slots of a provider are exactly the attempts in *)
(* flight against it: af_health_begin and af_health_end balance.           *)
(***************************************************************************)
THEOREM SlotsBalance == Spec => []SlotsMatchAttempts
<1>1. IInv => SlotsMatchAttempts
  BY DEF IInv
<1> QED
  BY <1>1, Invariance, PTL

(***************************************************************************)
(* A half-open circuit without a probe in flight admits the next request.  *)
(***************************************************************************)
THEOREM ProbeAdmitted == Spec => []ProbeNeverLockedOut
<1>1. IInv => ProbeNeverLockedOut
  BY DEF IInv, ProbeNeverLockedOut, ProbeIsHeld, Steady, Admit,
         AF_HALF_OPEN_PROBES
<1> QED
  BY <1>1, Invariance, PTL

(***************************************************************************)
(* An open circuit reopens for a probe within sixteen cooldowns.           *)
(***************************************************************************)
THEOREM BoundedRecovery == Spec => []RecoveryIsBounded
<1>1. IInv => RecoveryIsBounded
  BY DEF IInv, RecoveryIsBounded, Steady
<1> QED
  BY <1>1, Invariance, PTL

(***************************************************************************)
(* The health reported and routed on agrees with the counters.             *)
(***************************************************************************)
THEOREM HealthIsConsistent == Spec => []HealthMatchesCounters
<1>1. IInv => HealthMatchesCounters
  BY DEF IInv, HealthMatchesCounters, Steady
<1> QED
  BY <1>1, Invariance, PTL

----------------------------------------------------------------------------
(* The refinement.  With one attempt at a time the circuit and the attempt  *)
(* in flight are in step: nothing is in flight against an open circuit, the *)
(* attempt against a half-open one is its probe, and there is no other      *)
(* probe.  A half-open circuit keeps the backoff it was opened with, so     *)
(* that the next one is longer.                                             *)

InStep ==
  /\ s.active <= 1
  /\ s.health = OPEN => InFlight = {}
  /\ s.health = HALF_OPEN => Probes = InFlight /\ s.backoff >= Cooldown(p)
  /\ s.health \in {HEALTHY, DEGRADED} => Probes = {}

SerialInv == p.maxConc = 1 => InStep

\* One claim more or less: who is in flight after a step of slot x.
LEMMA SetsAfter ==
  ASSUME att \in [Slots -> Attempts], NEW x \in Slots, NEW b \in BOOLEAN
  PROVE  /\ att' = [att EXCEPT ![x] = Idle] =>
              InFlight' = InFlight \ {x} /\ Probes' = Probes \ {x}
         /\ ~att[x].busy /\ att' = [att EXCEPT ![x] = [busy |-> TRUE, probe |-> b]] =>
              /\ InFlight' = InFlight \cup {x}
              /\ Probes' = IF b THEN Probes \cup {x} ELSE Probes
BY DEF InFlight, Probes, Attempts, Idle

\* With at most one claim, the attempt that ends is the only one.
LEMMA OnlyOne ==
  ASSUME IInv, InStep, NEW x \in Slots, att[x].busy
  PROVE  InFlight = {x} /\ s.health # OPEN
<1>1. x \in InFlight /\ IsFiniteSet(InFlight)
  BY SlotsAssumption, FS_Subset DEF InFlight
<1>2. Cardinality(InFlight) <= 1
  BY DEF IInv, SlotsMatchAttempts, InStep
<1>3. Cardinality(InFlight \ {x}) = Cardinality(InFlight) - 1
  BY <1>1, FS_RemoveElement
<1>4. IsFiniteSet(InFlight \ {x}) /\ Cardinality(InFlight \ {x}) \in Nat
  BY <1>1, FS_Subset, FS_CardinalityType
<1>5. Cardinality(InFlight) \in Nat
  BY <1>1, FS_CardinalityType
<1>6. Cardinality(InFlight \ {x}) = 0
  BY <1>2, <1>3, <1>4, <1>5
<1>7. InFlight \ {x} = {}
  BY <1>4, <1>6, FS_EmptySet
<1> QED
  BY <1>1, <1>7 DEF InStep

\* With no claim at all nothing is in flight.
LEMMA NobodyThere ==
  ASSUME IInv, s.active < 1
  PROVE  InFlight = {} /\ Probes = {}
<1>1. IsFiniteSet(InFlight)
  BY SlotsAssumption, FS_Subset DEF InFlight
<1>2. Cardinality(InFlight) = 0
  BY <1>1, FS_CardinalityType DEF IInv, SlotsMatchAttempts
<1>3. InFlight = {}
  BY <1>1, <1>2, FS_EmptySet
<1> QED
  BY <1>3 DEF Probes, InFlight

\* It holds initially.
LEMMA InitSerial == Init => SerialInv
<1> SUFFICES ASSUME Init PROVE InStep
  BY DEF SerialInv
<1>1. InFlight = {} /\ Probes = {}
  BY DEF Init, InFlight, Probes, Idle
<1> QED
  BY <1>1 DEF Init, InStep, NewState, HEALTHY, OPEN, HALF_OPEN

\* When the only attempt ends, nobody is left; it was the probe exactly when
\* the circuit is half-open.
LEMMA LastOneOut ==
  ASSUME IInv, IInv', InStep, NEW x \in Slots, att[x].busy,
         att' = [att EXCEPT ![x] = Idle]
  PROVE  /\ InFlight' = {} /\ Probes' = {} /\ s'.active <= 1
         /\ s.health \in {HEALTHY, DEGRADED, HALF_OPEN}
         /\ Probes = IF s.health = HALF_OPEN THEN {x} ELSE {}
<1>1. InFlight = {x} /\ s.health # OPEN
  BY OnlyOne
<1>2. InFlight' = InFlight \ {x} /\ Probes' = Probes \ {x}
  BY SetsAfter DEF IInv, TypeOK
<1>3. InFlight' = {} /\ Probes' = {}
  BY <1>1, <1>2 DEF InFlight, Probes
<1>4. s'.active = 0
  BY <1>3, FS_EmptySet DEF IInv, SlotsMatchAttempts
<1>5. s.health \in {HEALTHY, DEGRADED, HALF_OPEN}
  BY <1>1 DEF IInv, TypeOK, ProviderState, HealthStates
<1> QED
  BY <1>1, <1>3, <1>4, <1>5 DEF InStep, HEALTHY, DEGRADED, HALF_OPEN

\* A refresh is a stutter of the contract or its Cool.
LEMMA LookMeets ==
  ASSUME IInv, IInv', InStep, Look
  PROVE  InStep' /\ Contract!Step
<1>1. /\ s' = Refresh(s, now) /\ p' = p /\ att' = att /\ now' = now
      /\ s \in ProviderState /\ now \in Nat
  BY DEF Look, IInv, TypeOK
<1>2. InFlight' = InFlight /\ Probes' = Probes
  BY <1>1 DEF InFlight, Probes
<1>3. CASE s' = s
  BY <1>1, <1>2, <1>3 DEF InStep, Contract!Step, Contract!cvars
<1>4. CASE s' # s
  <2>1. /\ s.health = OPEN /\ s.openUntil <= now
        /\ s'.health = HALF_OPEN /\ s'.active = s.active
        /\ s'.backoff = s.backoff /\ s'.openUntil = s.openUntil
    BY <1>1, <1>4, RefreshFields
  <2>2. InFlight = {} /\ Probes = {}
    BY <2>1 DEF InStep, InFlight, Probes
  <2>3. s.backoff >= Cooldown(p)
    BY <2>1 DEF IInv, Steady
  <2>4. InStep'
    BY <1>1, <1>2, <2>1, <2>2, <2>3
    DEF InStep, HALF_OPEN, OPEN, HEALTHY, DEGRADED
  <2>5. Contract!Cool
    BY <1>1, <1>2, <2>1 DEF Contract!Cool, HALF_OPEN, OPEN, IInv, TypeOK, ProviderState
  <2> QED
    BY <2>4, <2>5 DEF Contract!Step, Contract!Next
<1> QED
  BY <1>3, <1>4

\* A claim is a stutter, the contract's Probe, or its Cool with the probe out.
LEMMA BeginMeets ==
  ASSUME IInv, IInv', InStep, p.maxConc = 1, NEW x \in Slots, BeginAttempt(x)
  PROVE  InStep' /\ Contract!Step
<1> DEFINE r == Refresh(s, now)
           b == IsProbe(r)
<1>1. /\ s \in ProviderState /\ now \in Nat /\ att \in [Slots -> Attempts]
      /\ b \in BOOLEAN
  BY DEF IInv, TypeOK, IsProbe
<1>2. /\ Admit(r) /\ r.active < p.maxConc /\ ~att[x].busy /\ s' = Begin(r)
      /\ att' = [att EXCEPT ![x] = [busy |-> TRUE, probe |-> b]]
      /\ p' = p /\ now' = now
  BY DEF BeginAttempt, Eligible
<1>3. /\ r \in ProviderState /\ r.active = s.active /\ r.backoff = s.backoff
      /\ r.openUntil = s.openUntil
      /\ \/ r = s
         \/ s.health = OPEN /\ s.openUntil <= now /\ r.health = HALF_OPEN
  BY <1>1, RefreshFields
<1>4. b <=> r.health = HALF_OPEN
  BY DEF IsProbe
<1> HIDE DEF r, b
<1>5. /\ s'.active = r.active + 1 /\ s'.health = r.health
      /\ s'.backoff = r.backoff /\ s'.openUntil = r.openUntil
  BY <1>2, <1>3, BeginFields
<1>6. InFlight = {} /\ Probes = {}
  BY <1>2, <1>3, NobodyThere
<1>7. InFlight' = {x} /\ Probes' = IF b THEN {x} ELSE {}
  BY <1>1, <1>2, <1>6, SetsAfter
<1>8. r.health # OPEN
  BY <1>2 DEF Admit, HEALTHY, DEGRADED, HALF_OPEN, OPEN
<1>9. r.health = HALF_OPEN => r.backoff >= Cooldown(p)
  BY <1>3 DEF IInv, Steady, InStep
<1>10. s'.active <= 1
  BY <1>2, <1>3, <1>5 DEF ProviderState
<1>11. InStep'
  BY <1>2, <1>4, <1>5, <1>7, <1>8, <1>9, <1>10
  DEF InStep, HEALTHY, DEGRADED, HALF_OPEN
<1>12. Contract!Step
  <2>1. CASE r = s /\ ~b
    <3>1. UNCHANGED Contract!cvars
      BY <1>2, <1>5, <1>6, <1>7, <2>1 DEF Contract!cvars
    <3> QED
      BY <3>1 DEF Contract!Step
  <2>2. CASE r = s /\ b
    <3>1. Contract!Probe
      BY <1>2, <1>4, <1>5, <1>6, <1>7, <2>2 DEF Contract!Probe, HALF_OPEN
    <3> QED
      BY <3>1 DEF Contract!Step, Contract!Next
  <2>3. CASE r # s
    <3>1. s.openUntil \in Nat
      BY <1>1 DEF ProviderState
    <3>2. Contract!Cool
      BY <1>1, <1>2, <1>3, <1>5, <2>3, <3>1 DEF Contract!Cool, HALF_OPEN, OPEN
    <3> QED
      BY <3>2 DEF Contract!Step, Contract!Next
  <2> QED
    BY <2>1, <2>2, <2>3
<1> QED
  BY <1>11, <1>12

\* What giving the slot back leaves of the circuit.
LEMMA ReleasedCircuit ==
  ASSUME IInv, NEW x \in Slots
  PROVE  /\ Released(x) \in ProviderState
         /\ Released(x).health = s.health /\ Released(x).backoff = s.backoff
         /\ Released(x).openUntil = s.openUntil
<1>1. s \in ProviderState /\ att[x].probe \in BOOLEAN
  BY DEF IInv, TypeOK, Attempts
<1> QED
  BY <1>1, EndFields DEF Released

\* A success is a stutter, the contract's Recover, or its ProbeBack.
LEMMA SuccessMeets ==
  ASSUME IInv, IInv', InStep, NEW x \in Slots, EndSuccess(x)
  PROVE  InStep' /\ Contract!Step
<1>1. /\ att[x].busy /\ att' = [att EXCEPT ![x] = Idle] /\ p' = p /\ now' = now
  BY DEF EndSuccess
<1>2. PICK l \in Nat : s' = Success(Released(x), p, l)
  BY LatenciesAssumption DEF EndSuccess
<1>3. /\ InFlight' = {} /\ Probes' = {} /\ s'.active <= 1
      /\ s.health \in {HEALTHY, DEGRADED, HALF_OPEN}
      /\ Probes = IF s.health = HALF_OPEN THEN {x} ELSE {}
  BY <1>1, LastOneOut
<1>4. /\ s'.openUntil = s.openUntil
      /\ \/ s'.health = s.health /\ s'.backoff = s.backoff
         \/ s.health \in {DEGRADED, HALF_OPEN} /\ s'.health = HEALTHY
  <2>1. /\ Released(x) \in ProviderState
        /\ Released(x).health = s.health /\ Released(x).backoff = s.backoff
        /\ Released(x).openUntil = s.openUntil
    BY ReleasedCircuit
  <2>2. /\ s'.openUntil = Released(x).openUntil
        /\ \/ /\ s'.health = Released(x).health
              /\ s'.backoff = Released(x).backoff
           \/ /\ Released(x).health \in {DEGRADED, HALF_OPEN}
              /\ s'.health = HEALTHY
    BY <1>2, <2>1, SuccessFields
  <2> QED
    BY <2>1, <2>2
<1>5. InStep'
  BY <1>1, <1>3, <1>4 DEF InStep, HEALTHY, DEGRADED, HALF_OPEN, OPEN
<1>6. CASE s.health = HALF_OPEN
  <2>1. Contract!ProbeBack
    BY <1>1, <1>3, <1>4, <1>6 DEF Contract!ProbeBack, HEALTHY, HALF_OPEN
  <2> QED
    BY <1>5, <2>1 DEF Contract!Step, Contract!Next
<1>7. CASE s.health # HALF_OPEN /\ s'.health = s.health
  <2>1. UNCHANGED Contract!cvars
    BY <1>1, <1>3, <1>4, <1>7 DEF Contract!cvars
  <2> QED
    BY <1>5, <2>1 DEF Contract!Step
<1>8. CASE s.health # HALF_OPEN /\ s'.health # s.health
  <2>1. Contract!Recover
    BY <1>1, <1>3, <1>4, <1>8
    DEF Contract!Recover, HEALTHY, DEGRADED, HALF_OPEN
  <2> QED
    BY <1>5, <2>1 DEF Contract!Step, Contract!Next
<1> QED
  BY <1>6, <1>7, <1>8

\* A failure is the contract's Fail, or its ProbeFailed with a longer cooldown.
LEMMA FailureMeets ==
  ASSUME IInv, IInv', InStep, NEW x \in Slots, EndFailure(x)
  PROVE  InStep' /\ Contract!Step
<1> DEFINE r == Released(x)
           cd == Cooldown(p)
           lb == LongerBackoff(r, p)
<1>1. /\ att[x].busy /\ att' = [att EXCEPT ![x] = Idle] /\ p' = p /\ now' = now
      /\ s' = Failure(r, p, now)
  BY DEF EndFailure
<1>2. /\ InFlight' = {} /\ Probes' = {} /\ s'.active <= 1
      /\ s.health \in {HEALTHY, DEGRADED, HALF_OPEN}
      /\ Probes = IF s.health = HALF_OPEN THEN {x} ELSE {}
  BY <1>1, LastOneOut
<1>3. /\ r \in ProviderState /\ r.health = s.health /\ r.backoff = s.backoff
      /\ r.openUntil = s.openUntil
  BY ReleasedCircuit
<1>4. cd \in Nat /\ now \in Nat /\ p.cooldown \in Nat
  BY PolicyNumbers, ThresholdsPositive DEF IInv, TypeOK, Numbers
<1>5. s.health = HALF_OPEN => lb \in (2 * cd) .. (16 * cd)
  <2> SUFFICES ASSUME s.health = HALF_OPEN PROVE lb \in (2 * cd) .. (16 * cd)
    OBVIOUS
  <2>1. r.backoff \in Nat /\ r.backoff >= cd
    BY <1>3 DEF InStep, ProviderState
  <2> QED
    BY <1>4, <2>1 DEF LongerBackoff, Cooldown, AF_HEALTH_MAX_BACKOFF
<1>6. IF s.health = HALF_OPEN
      THEN s'.health = OPEN /\ s'.openUntil = now + lb
      ELSE \/ s'.health = DEGRADED /\ s'.openUntil = s.openUntil
           \/ s'.health = OPEN /\ s'.openUntil = now + cd
  BY <1>1, <1>3, FailureCircuit
<1> HIDE DEF r, lb
<1>7. InStep'
  BY <1>2, <1>6 DEF InStep, HEALTHY, DEGRADED, HALF_OPEN, OPEN
<1>8. CASE s.health = HALF_OPEN
  <2>1. Contract!ProbeFailed
    <3> HIDE DEF cd
    <3>1. now + lb \in (now + 2 * cd) .. (now + 16 * cd)
      BY <1>4, <1>5, <1>8
    <3> QED
      BY <1>1, <1>2, <1>6, <1>8, <3>1
      DEF Contract!ProbeFailed, OPEN, HALF_OPEN, cd
  <2> QED
    BY <1>7, <2>1 DEF Contract!Step, Contract!Next
<1>9. CASE s.health # HALF_OPEN
  <2>1. Contract!Fail
    BY <1>1, <1>2, <1>6, <1>9
    DEF Contract!Fail, HEALTHY, DEGRADED, OPEN, HALF_OPEN
  <2> QED
    BY <1>7, <2>1 DEF Contract!Step, Contract!Next
<1> QED
  BY <1>8, <1>9

\* A cancelled attempt is a stutter, or ProbeBack to a circuit still half-open.
LEMMA CancelMeets ==
  ASSUME IInv, IInv', InStep, NEW x \in Slots, EndCancelled(x)
  PROVE  InStep' /\ Contract!Step
<1>1. /\ att[x].busy /\ att' = [att EXCEPT ![x] = Idle] /\ p' = p /\ now' = now
      /\ s' = Released(x)
  BY DEF EndCancelled
<1>2. /\ InFlight' = {} /\ Probes' = {} /\ s'.active <= 1
      /\ Probes = IF s.health = HALF_OPEN THEN {x} ELSE {}
  BY <1>1, LastOneOut
<1>3. /\ s'.health = s.health /\ s'.backoff = s.backoff
      /\ s'.openUntil = s.openUntil
  BY <1>1, ReleasedCircuit
<1>4. InStep'
  BY <1>1, <1>2, <1>3 DEF InStep
<1>5. CASE s.health = HALF_OPEN
  <2>1. Contract!ProbeBack
    BY <1>1, <1>2, <1>3, <1>5 DEF Contract!ProbeBack, HALF_OPEN
  <2> QED
    BY <1>4, <2>1 DEF Contract!Step, Contract!Next
<1>6. CASE s.health # HALF_OPEN
  <2>1. UNCHANGED Contract!cvars
    BY <1>1, <1>2, <1>3, <1>6 DEF Contract!cvars
  <2> QED
    BY <1>4, <2>1 DEF Contract!Step
<1> QED
  BY <1>5, <1>6

\* Every step of serial traffic keeps circuit and attempt in step, and is one
\* the contract allows.
LEMMA SerialStep ==
  IInv /\ SerialInv /\ [Next]_vars =>
    SerialInv' /\ (p.maxConc = 1 => Contract!Step)
<1> SUFFICES ASSUME IInv, SerialInv, [Next]_vars
             PROVE  SerialInv' /\ (p.maxConc = 1 => Contract!Step)
  OBVIOUS
<1>1. IInv'
  BY NextIInv
<1>2. p' = p
  BY DEF Next, vars, Tick, Look, BeginAttempt, EndSuccess, EndFailure, EndCancelled
<1> SUFFICES ASSUME p.maxConc = 1, InStep PROVE InStep' /\ Contract!Step
  BY <1>2 DEF SerialInv
<1>3. CASE Tick
  <2>1. /\ p' = p /\ s' = s /\ att' = att /\ now' = now + 1 /\ now \in Nat
    BY <1>3 DEF Tick, IInv, TypeOK
  <2>2. InFlight' = InFlight /\ Probes' = Probes
    BY <2>1 DEF InFlight, Probes
  <2>3. InStep'
    BY <2>1, <2>2 DEF InStep
  <2>4. Contract!Pass
    BY <2>1, <2>2 DEF Contract!Pass
  <2> QED
    BY <2>3, <2>4 DEF Contract!Step, Contract!Next
<1>4. CASE UNCHANGED vars
  <2>1. p' = p /\ s' = s /\ att' = att /\ now' = now
    BY <1>4 DEF vars
  <2>2. InFlight' = InFlight /\ Probes' = Probes
    BY <2>1 DEF InFlight, Probes
  <2> QED
    BY <2>1, <2>2 DEF InStep, Contract!Step, Contract!cvars
<1> QED
  BY <1>1, <1>3, <1>4, LookMeets, BeginMeets, SuccessMeets, FailureMeets,
     CancelMeets DEF Next

(***************************************************************************)
(* With max_concurrency 1 the breaker of routing_health.asm implements the *)
(* documented state machine: it starts where CircuitContract starts        *)
(* (SerialStart) and every step, for every configuration and any number of *)
(* slots, is a step of CircuitContract or leaves its variables alone.      *)
(***************************************************************************)
THEOREM SerialRefines == Spec => SerialMeetsContract
<1> DEFINE A == p.maxConc = 1 => Contract!Step
<1>1. IInv /\ SerialInv /\ [Next]_vars => SerialInv' /\ [A]_vars
  BY SerialStep
<1>2. Spec => [][A]_vars
  BY <1>1, InitSerial, Invariance, PTL DEF Spec
<1> QED
  BY <1>2 DEF SerialMeetsContract, A

\* The initial states map to initial states of the contract.
THEOREM SerialStart == Init => Contract!Init
<1> SUFFICES ASSUME Init PROVE Contract!Init
  OBVIOUS
<1>1. Probes = {}
  BY DEF Init, Probes, Idle
<1> QED
  BY <1>1 DEF Init, Contract!Init, NewState, HEALTHY

=============================================================================
