--------------------------- MODULE CircuitContract --------------------------
(***************************************************************************)
(* The circuit breaker as the repository documents it: the state machine   *)
(* at the head of src/routing/routing_health.asm and docs/API_CONTRACT.md  *)
(* section 8, "Provider health".  It knows nothing of attempts: a circuit, *)
(* its deadline, and whether the one probe is out.                         *)
(***************************************************************************)
EXTENDS Integers

VARIABLES
  health, until,   \* the circuit, and the deadline of its cooldown
  probing,         \* the probe a half-open circuit admitted is in flight
  base,            \* the configured cooldown
  now

cvars == <<health, until, probing, base, now>>

Init ==
  /\ health = "healthy" /\ until = 0 /\ ~probing /\ now = 0

Pass == now' > now /\ UNCHANGED <<health, until, probing, base>>

\* healthy or degraded, one more failure: degraded below the threshold, open
\* for the configured cooldown at it.
Fail ==
  /\ health \in {"healthy", "degraded"}
  /\ \/ health' = "degraded" /\ until' = until
     \/ health' = "open" /\ until' = now + base
  /\ UNCHANGED <<probing, base, now>>

Recover ==
  /\ health = "degraded" /\ health' = "healthy"
  /\ UNCHANGED <<until, probing, base, now>>

\* open -> half_open: time, not an event.  The request that notices it may be
\* the probe itself.
Cool ==
  /\ health = "open" /\ now >= until /\ health' = "half_open"
  /\ probing' \in BOOLEAN
  /\ UNCHANGED <<until, base, now>>

Probe ==
  /\ health = "half_open" /\ ~probing /\ probing'
  /\ UNCHANGED <<health, until, base, now>>

\* The probe succeeded, or was cancelled by its client.
ProbeBack ==
  /\ health = "half_open" /\ probing /\ ~probing'
  /\ health' \in {"half_open", "healthy"}
  /\ UNCHANGED <<until, base, now>>

\* half_open --failure--> open, longer.
ProbeFailed ==
  /\ health = "half_open" /\ probing /\ ~probing'
  /\ health' = "open"
  /\ until' \in (now + 2 * base) .. (now + 16 * base)
  /\ UNCHANGED <<base, now>>

Next ==
  Pass \/ Fail \/ Recover \/ Cool \/ Probe \/ ProbeBack \/ ProbeFailed

Step == Next \/ UNCHANGED cvars

=============================================================================
