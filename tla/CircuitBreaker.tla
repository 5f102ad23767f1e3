--------------------------- MODULE CircuitBreaker ---------------------------
(***************************************************************************)
(* The circuit of ONE provider while attempts against it overlap:          *)
(* src/routing/routing_health.asm as src/providers/provider_exchange.asm   *)
(* drives it.  An exchange slot x is idle or holds one attempt; the        *)
(* outcomes of the attempts arrive in any order, and time passes between   *)
(* any two of them.  Who is routed where is RouteSelect's and Exchange's   *)
(* subject; here a request may arrive whenever a slot is idle.             *)
(***************************************************************************)
EXTENDS ProviderHealth, FiniteSets

CONSTANTS
  Slots,        \* exchange slots that may hold an attempt against the provider
  Latencies,    \* durations a successful attempt may have had
  Policies,     \* the provider configurations to consider
  MaxRequests,  \* bound, per configuration: attempts started
  MaxNow        \* bound, per configuration: the monotonic clock

ASSUME SlotsAssumption == IsFiniteSet(Slots)

ASSUME LatenciesAssumption == Latencies \subseteq Nat

ASSUME PoliciesAssumption ==
  Policies \subseteq [failThr: Nat, succThr: Nat, cooldown: Nat, maxConc: Nat]

ASSUME BoundsAssumption ==
  /\ MaxRequests \in [Policies -> Nat]
  /\ MaxNow \in [Policies -> Nat]

VARIABLES
  p,     \* the provider's configuration; constant while the daemon runs
  s,     \* af_prov_state
  att,   \* att[x]: Idle, or what the exchange carries about its attempt
  now

vars == <<p, s, att, now>>

Idle     == [busy |-> FALSE, probe |-> FALSE]
Attempts == [busy: BOOLEAN, probe: BOOLEAN]

InFlight == {x \in Slots : att[x].busy}
Probes   == {x \in Slots : att[x].busy /\ att[x].probe}

Init ==
  /\ p \in Policies
  /\ s = NewState
  /\ att = [x \in Slots |-> Idle]
  /\ now = 0

----------------------------------------------------------------------------
Tick ==
  /\ now < MaxNow[p]
  /\ now' = now + 1
  /\ UNCHANGED <<p, s, att>>

\* A request that scans this provider's target without choosing it, and
\* providers.list of the control plane: both refresh the state they read.
Look ==
  /\ s' = Refresh(s, now)
  /\ UNCHANGED <<p, att, now>>

\* Filters 4 and 5 of af_route_candidates, then af_health_begin: one turn of
\* the event loop, so nothing comes between the check and the claim.
Eligible(r) == Admit(r) /\ (p.maxConc = 0 \/ r.active < p.maxConc)

BeginAttempt(x) ==
  /\ ~att[x].busy
  /\ s.requests < MaxRequests[p]
  /\ LET r == Refresh(s, now) IN
       /\ Eligible(r)
       /\ att' = [att EXCEPT ![x] = [busy |-> TRUE, probe |-> IsProbe(r)]]
       /\ s' = Begin(r)
  /\ UNCHANGED <<p, now>>

\* af_prov_attempt_release, whose three verdicts are the three actions below.
\* The slot goes back first, then the outcome is recorded.
Released(x) == End(s, att[x].probe)

EndSuccess(x) ==
  /\ att[x].busy
  /\ \E latency \in Latencies : s' = Success(Released(x), p, latency)
  /\ att' = [att EXCEPT ![x] = Idle]
  /\ UNCHANGED <<p, now>>

EndFailure(x) ==
  /\ att[x].busy
  /\ s' = Failure(Released(x), p, now)
  /\ att' = [att EXCEPT ![x] = Idle]
  /\ UNCHANGED <<p, now>>

\* The client went away: nothing is recorded against the provider.
EndCancelled(x) ==
  /\ att[x].busy
  /\ s' = Released(x)
  /\ att' = [att EXCEPT ![x] = Idle]
  /\ UNCHANGED <<p, now>>

Next ==
  \/ Tick
  \/ Look
  \/ \E x \in Slots : \/ BeginAttempt(x)
                      \/ EndSuccess(x)
                      \/ EndFailure(x)
                      \/ EndCancelled(x)

Spec == Init /\ [][Next]_vars

----------------------------------------------------------------------------
TypeOK ==
  /\ p \in Policies
  /\ s \in ProviderState
  /\ att \in [Slots -> Attempts]
  /\ now \in Nat

(***************************************************************************)
(* The concurrency slots claimed are exactly the attempts in flight: none  *)
(* leaks (the provider would end up refused for ever at max_concurrency)   *)
(* and none is given back twice, whatever order the outcomes arrive in     *)
(* (af_prov_attempt_release, "exactly once per attempt").                  *)
(***************************************************************************)
SlotsMatchAttempts == s.active = Cardinality(InFlight)

(***************************************************************************)
(* A half-open circuit with no probe in flight admits one: the probe       *)
(* counter, which is zeroed on some transitions and decremented on others, *)
(* never keeps a claim nobody holds, so a recovered provider is always     *)
(* asked again.                                                            *)
(***************************************************************************)
ProbeNeverLockedOut == (s.health = HALF_OPEN /\ Probes = {}) => Admit(s)

(***************************************************************************)
(* A provider that recovers is noticed within a bounded time: an open      *)
(* circuit's deadline is at most sixteen cooldowns away, and its backoff   *)
(* never below the configured cooldown (routing.inc, AF_HEALTH_MAX_BACKOFF:*)
(* "which is why the growth stops").                                       *)
(***************************************************************************)
RecoveryIsBounded ==
  s.health = OPEN =>
    /\ s.openUntil <= now + AF_HEALTH_MAX_BACKOFF * Cooldown(p)
    /\ s.backoff >= Cooldown(p)

(***************************************************************************)
(* The reported health agrees with the counters it is derived from, after  *)
(* any mix of overlapping outcomes: a healthy provider has no failure      *)
(* outstanding and no stretched cooldown, a provider that reached its      *)
(* failure threshold is not left degraded, and one with a success behind   *)
(* it never looks unmeasured to the least-latency policy.                  *)
(***************************************************************************)
HealthMatchesCounters ==
  /\ s.health = HEALTHY => s.failures = 0 /\ s.backoff = 0
  /\ s.health = DEGRADED => s.failures < FailThr(p)
  /\ s.successes > 0 => s.ewma > 0

----------------------------------------------------------------------------
(* What the documents promise of the circuit.  Each is a step property or  *)
(* an invariant of the circuit alone; overlapping attempts break them, one *)
(* attempt at a time (max_concurrency 1) keeps them.                       *)

(***************************************************************************)
(* docs/API_CONTRACT.md 8: "an open circuit receives nothing, and the      *)
(* cooldown elapsing makes it half_open".  An open circuit stays open      *)
(* until its deadline.                                                     *)
(***************************************************************************)
CooldownServed ==
  [][(s.health = OPEN /\ now < s.openUntil) => s'.health = OPEN]_vars

(***************************************************************************)
(* docs/API_CONTRACT.md 8: "a half-open circuit admits exactly one probe"; *)
(* routing.inc: "half-open probes in flight (at most one)".                *)
(***************************************************************************)
AtMostOneProbe == Cardinality(Probes) <= AF_HALF_OPEN_PROBES

Contract == INSTANCE CircuitContract WITH
  health <- s.health, until <- s.openUntil, probing <- (Probes # {}),
  base <- Cooldown(p), now <- now

(***************************************************************************)
(* One attempt at a time is enough for the documented state machine: with  *)
(* max_concurrency 1 every step of the code's breaker, refreshes, probes,  *)
(* thresholds and backoff included, is a step of CircuitContract.          *)
(***************************************************************************)
SerialMeetsContract == [][p.maxConc = 1 => Contract!Step]_vars

=============================================================================
