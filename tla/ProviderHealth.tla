--------------------------- MODULE ProviderHealth ---------------------------
(***************************************************************************)
(* What the runtime knows about one provider (af_prov_state) and the       *)
(* operations on it: src/routing/routing_health.asm.  Every operation of   *)
(* that file takes the state of one provider and stores a new one, so each *)
(* is an operator from a state to a state, used by CircuitBreaker (one     *)
(* provider, many attempts) and by Exchange (many providers).              *)
(*                                                                         *)
(* Time is in milliseconds: the code keeps nanoseconds and multiplies the  *)
(* cooldown by NS_PER_MS.  The configuration bounds the cooldown by one    *)
(* hour, so neither the product nor the doubling below can leave 64 bits.  *)
(*                                                                         *)
(* A provider's configuration is a record p with the fields failThr,       *)
(* succThr, cooldown (its health section) and maxConc (max_concurrency).   *)
(***************************************************************************)
EXTENDS Integers

HEALTHY   == "healthy"
DEGRADED  == "degraded"
OPEN      == "open"
HALF_OPEN == "half_open"

\* The fifth state, "disabled", is compared against and never stored by the
\* code: no execution reaches it.
HealthStates == {HEALTHY, DEGRADED, OPEN, HALF_OPEN}

AF_HALF_OPEN_PROBES   == 1
AF_HEALTH_MAX_BACKOFF == 16

ProviderState ==
  [ health: HealthStates, failures: Nat, successes: Nat, openUntil: Nat,
    active: Nat, ewma: Nat, backoff: Nat, probes: Nat,
    requests: Nat, failed: Nat, opened: Nat ]

\* af_routing_provider on an identifier it has not seen: a zeroed record.
NewState ==
  [ health |-> HEALTHY, failures |-> 0, successes |-> 0, openUntil |-> 0,
    active |-> 0, ewma |-> 0, backoff |-> 0, probes |-> 0,
    requests |-> 0, failed |-> 0, opened |-> 0 ]

----------------------------------------------------------------------------
(* Mutants of the operations below: plausible defects of that code.        *)

\* Releasing a probe forgets the probe count.
EndKeepsProbe(s, wasProbe) ==
  [s EXCEPT !.active = IF @ > 0 THEN @ - 1 ELSE @]

\* The decrements without their guards.
EndUnguarded(s, wasProbe) ==
  [s EXCEPT !.active = @ - 1, !.probes = IF wasProbe THEN @ - 1 ELSE @]

\* A slot is given back only by the attempts that were probes.
EndProbesOnly(s, wasProbe) ==
  IF wasProbe
    THEN [s EXCEPT !.active = IF @ > 0 THEN @ - 1 ELSE @,
                   !.probes = IF @ > 0 THEN @ - 1 ELSE @]
    ELSE s

\* A cooldown counted from zero rather than from the backoff.
RefreshEarly(s, now) ==
  IF s.health = OPEN
    THEN [s EXCEPT !.health = HALF_OPEN, !.probes = 0, !.successes = 0]
    ELSE s

\* A success closes the circuit and forgets to clear the failure count.
SuccessKeepsFailures(s, p, latency) ==
  IF s.health \in {DEGRADED, HALF_OPEN}
    THEN [s EXCEPT !.health = HEALTHY, !.successes = 0]
    ELSE [s EXCEPT !.successes = @ + 1]

\* The doubling without its cap.
LongerBackoffUncapped(s, p) == 2 * (IF s.backoff = 0 THEN 1 ELSE s.backoff)

----------------------------------------------------------------------------
\* The one transition time makes on its own, applied when the state is read.
Refresh(s, now) ==
  IF s.health = OPEN /\ now >= s.openUntil
    THEN [s EXCEPT !.health = HALF_OPEN, !.probes = 0, !.successes = 0]
    ELSE s

\* May a request be sent?  The caller has refreshed the state.
Admit(s) ==
  \/ s.health \in {HEALTHY, DEGRADED}
  \/ s.health = HALF_OPEN /\ s.probes < AF_HALF_OPEN_PROBES

\* What af_health_begin returns: this attempt is a half-open probe.
IsProbe(s) == s.health = HALF_OPEN

\* Claims a concurrency slot.
Begin(s) ==
  [s EXCEPT !.active = @ + 1,
            !.requests = @ + 1,
            !.probes = IF IsProbe(s) THEN @ + 1 ELSE @]

\* Releases the slot; both decrements are guarded against zero.
End(s, wasProbe) ==
  [s EXCEPT !.active = IF @ > 0 THEN @ - 1 ELSE @,
            !.probes = IF wasProbe /\ @ > 0 THEN @ - 1 ELSE @]

\* Integer moving average, never zero: zero means "not measured".  (The code
\* also answers a 64-bit overflow with the observation; latencies are bounded
\* by the request timeout.)
Ewma(old, observed) ==
  LET obs == IF observed = 0 THEN 1 ELSE observed
      avg == (obs + 3 * old) \div 4
  IN  IF old = 0 THEN obs ELSE IF avg = 0 THEN 1 ELSE avg

\* Zero in the configuration record selects the code's default of one.
SuccThr(p)  == IF p.succThr = 0 THEN 1 ELSE p.succThr
FailThr(p)  == IF p.failThr = 0 THEN 1 ELSE p.failThr
Cooldown(p) == IF p.cooldown = 0 THEN 1000 ELSE p.cooldown

\* The attempt succeeded after latency.
Success(s, p, latency) ==
  LET counted == [s EXCEPT !.failures = 0,
                           !.successes = @ + 1,
                           !.ewma = Ewma(@, latency)]
  IN  IF /\ s.health \in {DEGRADED, HALF_OPEN}
         /\ counted.successes >= SuccThr(p)
        THEN [counted EXCEPT !.health = HEALTHY, !.backoff = 0, !.successes = 0]
        ELSE counted

\* The next cooldown after a failure in HALF_OPEN: doubled, and capped.
LongerBackoff(s, p) ==
  LET double == 2 * (IF s.backoff = 0 THEN Cooldown(p) ELSE s.backoff)
      cap    == AF_HEALTH_MAX_BACKOFF * Cooldown(p)
  IN  IF double <= cap THEN double ELSE cap

\* .open_it: the circuit opens for backoff milliseconds.
OpenIt(s, backoff, now) ==
  [s EXCEPT !.health = OPEN, !.probes = 0, !.opened = @ + 1,
            !.backoff = backoff, !.openUntil = now + backoff]

\* The attempt failed at time now.
Failure(s, p, now) ==
  LET counted == [s EXCEPT !.successes = 0,
                           !.failures = @ + 1,
                           !.failed = @ + 1]
  IN  IF s.health = HALF_OPEN
        THEN OpenIt(counted, LongerBackoff(s, p), now)
      ELSE IF counted.failures < FailThr(p)
        THEN [counted EXCEPT !.health = DEGRADED]
        ELSE OpenIt(counted, Cooldown(p), now)

=============================================================================
