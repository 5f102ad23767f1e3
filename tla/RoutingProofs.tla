---------------------------- MODULE RoutingProofs ---------------------------
(***************************************************************************)
(* What the operators of src/routing return and preserve, for every        *)
(* provider state, configuration, route and cursor: the lemmas under the   *)
(* proofs about CircuitBreaker, RouteScan and Exchange.                    *)
(*                                                                         *)
(* ProviderHealth: what each operation does to each field.  RouteSelect:   *)
(* the comparisons are strict total orders, the candidates are the scanned *)
(* targets that are admissible, in configured order, and the chosen one is *)
(* among them.                                                             *)
(***************************************************************************)
EXTENDS RouteSelect, ListingProofs

----------------------------------------------------------------------------
\* The code's defaults make a threshold at least one, and a cooldown positive.
LEMMA ThresholdsPositive ==
  ASSUME NEW c, c.failThr \in Nat, c.cooldown \in Nat
  PROVE  /\ FailThr(c) \in Nat \ {0}
         /\ Cooldown(c) \in Nat \ {0}
BY DEF FailThr, Cooldown

\* The initial record is a provider state.
LEMMA NewStateType == NewState \in ProviderState
BY DEF NewState, ProviderState, HealthStates, HEALTHY

\* What a refresh leaves alone, and what it stores when the cooldown is over.
LEMMA RefreshFields ==
  ASSUME NEW st \in ProviderState, NEW t \in Nat
  PROVE  LET r == Refresh(st, t) IN
           /\ r \in ProviderState
           /\ r.active = st.active /\ r.failures = st.failures
           /\ r.backoff = st.backoff /\ r.openUntil = st.openUntil
           /\ r.ewma = st.ewma
           /\ \/ r = st
              \/ /\ st.health = OPEN /\ st.openUntil <= t
                 /\ r.health = HALF_OPEN /\ r.probes = 0 /\ r.successes = 0
BY DEF Refresh, ProviderState, HealthStates, OPEN, HALF_OPEN

\* A claim counts the attempt, and the probe when the circuit is half-open.
LEMMA BeginFields ==
  ASSUME NEW st \in ProviderState
  PROVE  LET r == Begin(st) IN
           /\ r \in ProviderState
           /\ r.active = st.active + 1
           /\ r.probes = IF IsProbe(st) THEN st.probes + 1 ELSE st.probes
           /\ r.health = st.health /\ r.failures = st.failures
           /\ r.successes = st.successes /\ r.backoff = st.backoff
           /\ r.openUntil = st.openUntil /\ r.ewma = st.ewma
<1> DEFINE n == IF IsProbe(st) THEN st.probes + 1 ELSE st.probes
           m == st.active + 1
           k == st.requests + 1
<1>1. n \in Nat /\ m \in Nat /\ k \in Nat
  BY DEF ProviderState
<1>2. Begin(st) = [st EXCEPT !.active = m, !.requests = k, !.probes = n]
  BY Zenon DEF Begin
<1> HIDE DEF n, m, k
<1>3. LET r == Begin(st) IN
        /\ r \in ProviderState
        /\ r.active = m
        /\ r.probes = n
        /\ r.health = st.health /\ r.failures = st.failures
        /\ r.successes = st.successes /\ r.backoff = st.backoff
        /\ r.openUntil = st.openUntil /\ r.ewma = st.ewma
  BY <1>1, <1>2 DEF ProviderState
<1> QED
  BY <1>3 DEF n, m

\* A release takes one slot back, and one probe; never below zero.
LEMMA EndFields ==
  ASSUME NEW st \in ProviderState, NEW b \in BOOLEAN
  PROVE  LET r == End(st, b) IN
           /\ r \in ProviderState
           /\ r.active = IF st.active > 0 THEN st.active - 1 ELSE st.active
           /\ r.probes = IF b /\ st.probes > 0 THEN st.probes - 1 ELSE st.probes
           /\ r.health = st.health /\ r.failures = st.failures
           /\ r.successes = st.successes /\ r.backoff = st.backoff
           /\ r.openUntil = st.openUntil /\ r.ewma = st.ewma
<1> DEFINE m == IF st.active > 0 THEN st.active - 1 ELSE st.active
           n == IF b /\ st.probes > 0 THEN st.probes - 1 ELSE st.probes
<1>1. m \in Nat /\ n \in Nat
  BY DEF ProviderState
<1>2. End(st, b) = [st EXCEPT !.active = m, !.probes = n]
  BY DEF End
<1> HIDE DEF m, n
<1>3. LET r == End(st, b) IN
        /\ r \in ProviderState
        /\ r.active = m
        /\ r.probes = n
        /\ r.health = st.health /\ r.failures = st.failures
        /\ r.successes = st.successes /\ r.backoff = st.backoff
        /\ r.openUntil = st.openUntil /\ r.ewma = st.ewma
  BY <1>1, <1>2 DEF ProviderState
<1> QED
  BY <1>3 DEF m, n

\* A measured average is never the "not measured" zero.
LEMMA EwmaPositive ==
  ASSUME NEW old \in Nat, NEW obs \in Nat
  PROVE  Ewma(old, obs) \in Nat \ {0}
BY Z3 DEF Ewma

\* A success clears the failures and measures; it closes a degraded or a
\* half-open circuit that has reached its threshold, and nothing else.
LEMMA SuccessFields ==
  ASSUME NEW st \in ProviderState, NEW c, NEW l \in Nat
  PROVE  LET r == Success(st, c, l) IN
           /\ r \in ProviderState
           /\ r.active = st.active /\ r.probes = st.probes
           /\ r.failures = 0 /\ r.ewma > 0
           /\ r.openUntil = st.openUntil
           /\ \/ r.health = st.health /\ r.backoff = st.backoff
              \/ /\ st.health \in {DEGRADED, HALF_OPEN}
                 /\ r.health = HEALTHY /\ r.backoff = 0
<1> DEFINE e == Ewma(st.ewma, l)
           m == st.successes + 1
           k == [st EXCEPT !.failures = 0, !.successes = m, !.ewma = e]
           h == [k EXCEPT !.health = HEALTHY, !.backoff = 0, !.successes = 0]
<1>0. st.ewma \in Nat /\ m \in Nat
  BY DEF ProviderState
<1>1. e \in Nat \ {0}
  BY <1>0, EwmaPositive
<1>2. \/ Success(st, c, l) = k
      \/ st.health \in {DEGRADED, HALF_OPEN} /\ Success(st, c, l) = h
  BY Zenon DEF Success
<1> HIDE DEF e, m
<1>3. /\ k \in ProviderState
      /\ k.active = st.active /\ k.probes = st.probes /\ k.failures = 0
      /\ k.ewma = e /\ k.openUntil = st.openUntil
      /\ k.health = st.health /\ k.backoff = st.backoff
  BY <1>0, <1>1 DEF ProviderState
<1> HIDE DEF k
<1>4. /\ h \in ProviderState
      /\ h.active = k.active /\ h.probes = k.probes /\ h.failures = k.failures
      /\ h.ewma = k.ewma /\ h.openUntil = k.openUntil
      /\ h.health = HEALTHY /\ h.backoff = 0
  BY <1>3 DEF ProviderState, HealthStates, HEALTHY
<1> HIDE DEF h
<1> QED
  BY <1>1, <1>2, <1>3, <1>4

\* The next cooldown is between the configured one and sixteen times it.
LEMMA LongerBackoffBounds ==
  ASSUME NEW st \in ProviderState, NEW c, c.cooldown \in Nat,
         st.backoff = 0 \/ st.backoff >= Cooldown(c)
  PROVE  /\ LongerBackoff(st, c) \in Nat
         /\ LongerBackoff(st, c) >= Cooldown(c)
         /\ LongerBackoff(st, c) <= AF_HEALTH_MAX_BACKOFF * Cooldown(c)
BY DEF LongerBackoff, Cooldown, AF_HEALTH_MAX_BACKOFF, ProviderState

\* Opening a circuit, for any backoff.
LEMMA OpenItFields ==
  ASSUME NEW st \in ProviderState, NEW d \in Nat, NEW t \in Nat
  PROVE  LET r == OpenIt(st, d, t) IN
           /\ r \in ProviderState
           /\ r.health = OPEN /\ r.probes = 0
           /\ r.backoff = d /\ r.openUntil = t + d
           /\ r.active = st.active /\ r.failures = st.failures
           /\ r.successes = st.successes /\ r.ewma = st.ewma
<1> DEFINE n == st.opened + 1
           u == t + d
<1>1. n \in Nat /\ u \in Nat
  BY DEF ProviderState
<1>2. OpenIt(st, d, t) = [st EXCEPT !.health = OPEN, !.probes = 0, !.opened = n,
                                    !.backoff = d, !.openUntil = u]
  BY Zenon DEF OpenIt
<1> HIDE DEF n, u
<1> DEFINE w == [st EXCEPT !.health = OPEN, !.probes = 0, !.opened = n]
<1>5. w \in ProviderState
  BY <1>1 DEF ProviderState, HealthStates
<1>6. OpenIt(st, d, t) = [w EXCEPT !.backoff = d, !.openUntil = u]
  BY Zenon, <1>2
<1> HIDE DEF w
<1>3. OpenIt(st, d, t) \in ProviderState
  BY <1>1, <1>5, <1>6 DEF ProviderState
<1>4. LET r == OpenIt(st, d, t) IN
        /\ r.health = OPEN /\ r.probes = 0
        /\ r.backoff = d /\ r.openUntil = u
        /\ r.active = st.active /\ r.failures = st.failures
        /\ r.successes = st.successes /\ r.ewma = st.ewma
  BY <1>1, <1>2 DEF ProviderState
<1> QED
  BY <1>3, <1>4 DEF u

\* A failure leaves the circuit degraded below the threshold and open at it,
\* for the configured cooldown or, from half-open, for a longer one.
LEMMA FailureFields ==
  ASSUME NEW st \in ProviderState, NEW t \in Nat, NEW c,
         c.failThr \in Nat, c.cooldown \in Nat
  PROVE  LET r == Failure(st, c, t) IN
           /\ r \in ProviderState
           /\ r.active = st.active /\ r.successes = 0
           /\ \/ /\ r.health = DEGRADED /\ r.failures < FailThr(c)
                 /\ r.probes = st.probes /\ r.backoff = st.backoff
              \/ /\ r.health = OPEN /\ r.probes = 0
                 /\ r.backoff \in {Cooldown(c), LongerBackoff(st, c)}
                 /\ r.openUntil = t + r.backoff
<1> DEFINE m == st.failures + 1
           n == st.failed + 1
           k == [st EXCEPT !.successes = 0, !.failures = m, !.failed = n]
           g == [k EXCEPT !.health = DEGRADED]
<1>1. LongerBackoff(st, c) \in Nat
  BY DEF LongerBackoff, Cooldown, AF_HEALTH_MAX_BACKOFF, ProviderState
<1>2. Cooldown(c) \in Nat /\ FailThr(c) \in Nat
  BY ThresholdsPositive DEF Cooldown, FailThr
<1>3. \/ Failure(st, c, t) = OpenIt(k, LongerBackoff(st, c), t)
      \/ Failure(st, c, t) = g /\ k.failures < FailThr(c)
      \/ Failure(st, c, t) = OpenIt(k, Cooldown(c), t)
  BY Zenon DEF Failure
<1>0. m \in Nat /\ n \in Nat
  BY DEF ProviderState
<1> HIDE DEF m, n
<1>4. /\ k \in ProviderState
      /\ k.active = st.active /\ k.successes = 0
      /\ k.probes = st.probes /\ k.backoff = st.backoff
  BY <1>0 DEF ProviderState
<1> HIDE DEF k
<1>5. /\ g \in ProviderState
      /\ g.active = k.active /\ g.successes = k.successes
      /\ g.health = DEGRADED /\ g.failures = k.failures
      /\ g.probes = k.probes /\ g.backoff = k.backoff
  BY <1>4 DEF ProviderState, HealthStates, DEGRADED
<1> HIDE DEF g
<1>6. CASE Failure(st, c, t) = g /\ k.failures < FailThr(c)
  BY <1>4, <1>5, <1>6
<1>7. ASSUME NEW d \in Nat, Failure(st, c, t) = OpenIt(k, d, t)
      PROVE  LET r == Failure(st, c, t) IN
               /\ r \in ProviderState
               /\ r.active = k.active /\ r.successes = k.successes
               /\ r.health = OPEN /\ r.probes = 0
               /\ r.backoff = d /\ r.openUntil = t + d
  <2>1. k \in ProviderState
    BY <1>4
  <2>2. ASSUME NEW w \in ProviderState
        PROVE  LET r == OpenIt(w, d, t) IN
                 /\ r \in ProviderState
                 /\ r.active = w.active /\ r.successes = w.successes
                 /\ r.health = OPEN /\ r.probes = 0
                 /\ r.backoff = d /\ r.openUntil = t + d
    <3>1. OpenIt(w, d, t) \in ProviderState
      BY OpenItFields
    <3>2. OpenIt(w, d, t).health = OPEN /\ OpenIt(w, d, t).probes = 0
      BY OpenItFields
    <3>3. OpenIt(w, d, t).backoff = d /\ OpenIt(w, d, t).openUntil = t + d
      BY OpenItFields
    <3>4. /\ OpenIt(w, d, t).active = w.active
          /\ OpenIt(w, d, t).successes = w.successes
      BY OpenItFields
    <3> QED
      BY <3>1, <3>2, <3>3, <3>4
  <2>3. LET r == OpenIt(k, d, t) IN
          /\ r \in ProviderState
          /\ r.active = k.active /\ r.successes = k.successes
          /\ r.health = OPEN /\ r.probes = 0
          /\ r.backoff = d /\ r.openUntil = t + d
    BY <2>1, <2>2
  <2> QED
    BY <1>7, <2>3
<1>8. CASE Failure(st, c, t) = OpenIt(k, LongerBackoff(st, c), t)
  <2> DEFINE d == LongerBackoff(st, c)
  <2>1. d \in Nat
    BY <1>1
  <2>2. Failure(st, c, t) = OpenIt(k, d, t)
    BY <1>8
  <2> HIDE DEF d
  <2>3. LET r == Failure(st, c, t) IN
          /\ r \in ProviderState
          /\ r.active = k.active /\ r.successes = k.successes
          /\ r.health = OPEN /\ r.probes = 0
          /\ r.backoff = d /\ r.openUntil = t + d
    BY <1>7, <2>1, <2>2
  <2> QED
    BY <1>4, <2>3 DEF d
<1>9. CASE Failure(st, c, t) = OpenIt(k, Cooldown(c), t)
  <2> DEFINE d == Cooldown(c)
  <2>1. d \in Nat
    BY <1>2
  <2>2. Failure(st, c, t) = OpenIt(k, d, t)
    BY <1>9
  <2> HIDE DEF d
  <2>3. LET r == Failure(st, c, t) IN
          /\ r \in ProviderState
          /\ r.active = k.active /\ r.successes = k.successes
          /\ r.health = OPEN /\ r.probes = 0
          /\ r.backoff = d /\ r.openUntil = t + d
    BY <1>7, <2>1, <2>2
  <2> QED
    BY <1>4, <2>3 DEF d
<1> QED
  BY <1>3, <1>6, <1>8, <1>9

\* Where a failure takes the circuit: from half-open it opens for longer;
\* otherwise it degrades with its deadline alone, or opens for the cooldown.
LEMMA FailureCircuit ==
  ASSUME NEW st \in ProviderState, NEW t, NEW c
  PROVE  LET r == Failure(st, c, t) IN
           IF st.health = HALF_OPEN
           THEN /\ r.health = OPEN /\ r.backoff = LongerBackoff(st, c)
                /\ r.openUntil = t + LongerBackoff(st, c)
           ELSE \/ r.health = DEGRADED /\ r.openUntil = st.openUntil
                \/ /\ r.health = OPEN /\ r.backoff = Cooldown(c)
                   /\ r.openUntil = t + Cooldown(c)
<1> DEFINE k == [st EXCEPT !.successes = 0, !.failures = @ + 1, !.failed = @ + 1]
           g == [k EXCEPT !.health = DEGRADED]
<1>1. /\ k = [f \in DOMAIN st |-> k[f]] /\ k.openUntil = st.openUntil
      /\ DOMAIN st = {"health", "failures", "successes", "openUntil", "active",
                      "ewma", "backoff", "probes", "requests", "failed", "opened"}
  BY DEF ProviderState
<1>2. IF st.health = HALF_OPEN
      THEN Failure(st, c, t) = OpenIt(k, LongerBackoff(st, c), t)
      ELSE Failure(st, c, t) \in {g, OpenIt(k, Cooldown(c), t)}
  BY Zenon DEF Failure
<1> HIDE DEF k
<1>3. ASSUME NEW d
      PROVE  LET r == OpenIt(k, d, t) IN
               r.health = OPEN /\ r.backoff = d /\ r.openUntil = t + d
  BY <1>1 DEF OpenIt
<1>4. g.health = DEGRADED /\ g.openUntil = st.openUntil
  BY <1>1
<1> HIDE DEF g
<1>5. CASE st.health = HALF_OPEN
  BY <1>2, <1>3, <1>5
<1>6. CASE st.health # HALF_OPEN
  BY <1>2, <1>3, <1>4, <1>6
<1> QED
  BY <1>5, <1>6

----------------------------------------------------------------------------
(* What the operations keep of a record: Steady.  A deadline is bounded     *)
(* only because the backoff is, and the backoff of a closed or half-open   *)
(* circuit matters for the next opening, so it says something of every     *)
(* state of the circuit.                                                   *)

\* The configured numbers that a provider is judged by.
Numbers(c) == c.failThr \in Nat /\ c.cooldown \in Nat

\* A provider record st, under the configuration c, at the time t.
Steady(st, c, t) ==
  /\ st \in ProviderState
  /\ st.probes \in {0, 1}
  /\ st.backoff = 0 \/ st.backoff >= Cooldown(c)
  /\ st.health = OPEN =>
       /\ st.openUntil <= t + AF_HEALTH_MAX_BACKOFF * Cooldown(c)
       /\ st.backoff >= Cooldown(c)
  /\ st.health = HEALTHY => st.failures = 0 /\ st.backoff = 0
  /\ st.health = DEGRADED => st.failures < FailThr(c)
  /\ st.successes > 0 => st.ewma > 0

\* A provider nobody has called yet.
LEMMA NewStateSteady ==
  ASSUME NEW c, Numbers(c)
  PROVE  Steady(NewState, c, 0)
<1>1. NewState \in ProviderState
  BY NewStateType
<1>2. Cooldown(c) \in Nat /\ FailThr(c) \in Nat
  BY ThresholdsPositive DEF Numbers
<1> QED
  BY <1>1, <1>2
  DEF Steady, NewState, HEALTHY, OPEN, DEGRADED, AF_HEALTH_MAX_BACKOFF

\* Time only brings an open circuit's deadline nearer.
LEMMA LaterSteady ==
  ASSUME NEW c, Numbers(c), NEW t \in Nat, NEW st, Steady(st, c, t)
  PROVE  Steady(st, c, t + 1)
<1>1. Cooldown(c) \in Nat
  BY ThresholdsPositive DEF Numbers
<1> QED
  BY <1>1 DEF Steady, ProviderState, AF_HEALTH_MAX_BACKOFF

\* A refresh keeps a record steady.
LEMMA RefreshSteady ==
  ASSUME NEW c, Numbers(c), NEW t \in Nat, NEW st, Steady(st, c, t)
  PROVE  Steady(Refresh(st, t), c, t)
<1> DEFINE r == Refresh(st, t)
<1>0. st \in ProviderState
  BY DEF Steady
<1>1. /\ r \in ProviderState
      /\ r.backoff = st.backoff
      /\ \/ r = st
         \/ r.health = HALF_OPEN /\ r.probes = 0 /\ r.successes = 0
  BY <1>0, RefreshFields
<1> HIDE DEF r
<1>2. Steady(r, c, t)
  BY <1>1 DEF Steady, HEALTHY, DEGRADED, OPEN, HALF_OPEN
<1> QED
  BY <1>2 DEF r

\* A claim that the circuit admitted keeps a record steady.
LEMMA BeginSteady ==
  ASSUME NEW c, Numbers(c), NEW t \in Nat, NEW st, Steady(st, c, t), Admit(st)
  PROVE  Steady(Begin(st), c, t)
<1> DEFINE r == Begin(st)
<1>0. st \in ProviderState
  BY DEF Steady
<1>1. /\ r \in ProviderState
      /\ r.probes = IF IsProbe(st) THEN st.probes + 1 ELSE st.probes
      /\ r.health = st.health /\ r.failures = st.failures
      /\ r.successes = st.successes /\ r.backoff = st.backoff
      /\ r.openUntil = st.openUntil /\ r.ewma = st.ewma
  BY <1>0, BeginFields
<1>2. IsProbe(st) => st.probes = 0
  BY DEF IsProbe, Admit, Steady, AF_HALF_OPEN_PROBES, HEALTHY, DEGRADED, HALF_OPEN
<1> HIDE DEF r
<1>3. r.probes \in {0, 1}
  BY <1>1, <1>2 DEF Steady
<1>4. Steady(r, c, t)
  BY <1>1, <1>3 DEF Steady
<1> QED
  BY <1>4 DEF r

\* A release keeps a record steady.
LEMMA EndSteady ==
  ASSUME NEW c, Numbers(c), NEW t \in Nat, NEW st, NEW b \in BOOLEAN,
         Steady(st, c, t)
  PROVE  Steady(End(st, b), c, t)
<1> DEFINE r == End(st, b)
<1>0. st \in ProviderState
  BY DEF Steady
<1>1. /\ r \in ProviderState
      /\ r.probes = IF b /\ st.probes > 0 THEN st.probes - 1 ELSE st.probes
      /\ r.health = st.health /\ r.failures = st.failures
      /\ r.successes = st.successes /\ r.backoff = st.backoff
      /\ r.openUntil = st.openUntil /\ r.ewma = st.ewma
  BY <1>0, EndFields
<1> HIDE DEF r
<1>3. r.probes \in {0, 1}
  BY <1>1 DEF Steady
<1>4. Steady(r, c, t)
  BY <1>1, <1>3 DEF Steady
<1> QED
  BY <1>4 DEF r

\* A success keeps a record steady.
LEMMA SuccessSteady ==
  ASSUME NEW c, Numbers(c), NEW t \in Nat, NEW l \in Nat, NEW st,
         Steady(st, c, t)
  PROVE  Steady(Success(st, c, l), c, t)
<1> DEFINE r == Success(st, c, l)
<1>0. st \in ProviderState
  BY DEF Steady
<1>1. /\ r \in ProviderState
      /\ r.probes = st.probes
      /\ r.failures = 0 /\ r.ewma > 0
      /\ r.openUntil = st.openUntil
      /\ \/ r.health = st.health /\ r.backoff = st.backoff
         \/ r.health = HEALTHY /\ r.backoff = 0
  BY <1>0, SuccessFields
<1>2. FailThr(c) > 0
  BY ThresholdsPositive DEF Numbers
<1> HIDE DEF r
<1>3. Steady(r, c, t)
  BY <1>1, <1>2 DEF Steady, HEALTHY, DEGRADED, OPEN
<1> QED
  BY <1>3 DEF r

\* A failure keeps a record steady.
LEMMA FailureSteady ==
  ASSUME NEW c, Numbers(c), NEW t \in Nat, NEW st, Steady(st, c, t)
  PROVE  Steady(Failure(st, c, t), c, t)
<1> DEFINE r == Failure(st, c, t)
           cd == Cooldown(c)
           lb == LongerBackoff(st, c)
<1>0. st \in ProviderState /\ c.failThr \in Nat /\ c.cooldown \in Nat
  BY DEF Steady, Numbers
<1>1. /\ r \in ProviderState
      /\ r.successes = 0
      /\ \/ /\ r.health = DEGRADED /\ r.failures < FailThr(c)
            /\ r.probes = st.probes /\ r.backoff = st.backoff
         \/ /\ r.health = OPEN /\ r.probes = 0
            /\ r.backoff \in {cd, lb}
            /\ r.openUntil = t + r.backoff
  BY <1>0, FailureFields
<1>2. cd \in Nat
  BY ThresholdsPositive DEF Numbers
<1>3. lb \in Nat /\ lb >= cd /\ lb <= AF_HEALTH_MAX_BACKOFF * cd
  BY <1>0, LongerBackoffBounds DEF Steady
<1> HIDE DEF r, lb
<1>4. r.health = OPEN =>
        /\ r.openUntil <= t + AF_HEALTH_MAX_BACKOFF * cd
        /\ r.backoff >= cd
  <2> HIDE DEF cd
  <2> QED
    BY <1>1, <1>2, <1>3 DEF AF_HEALTH_MAX_BACKOFF, OPEN, DEGRADED
<1>5. /\ r.probes \in {0, 1}
      /\ r.backoff = 0 \/ r.backoff >= cd
      /\ r.health # HEALTHY
      /\ r.health = DEGRADED => r.failures < FailThr(c)
  BY <1>1, <1>4 DEF Steady, OPEN, DEGRADED, HEALTHY
<1>6. Steady(r, c, t)
  BY <1>1, <1>4, <1>5 DEF Steady
<1> QED
  BY <1>6 DEF r

----------------------------------------------------------------------------
\* Two candidates with different indices: one beats the other, and not both.
LEMMA BeatsTotal ==
  ASSUME NEW a \in CandidateRecord, NEW b \in CandidateRecord,
         a.index # b.index, NEW q
  PROVE  /\ Beats(q, a, b) \/ Beats(q, b, a)
         /\ ~(Beats(q, a, b) /\ Beats(q, b, a))
<1>1. /\ BeatsPriority(a, b) \/ BeatsPriority(b, a)
      /\ ~(BeatsPriority(a, b) /\ BeatsPriority(b, a))
  BY DEF BeatsPriority, CandidateRecord
<1>2. /\ BeatsLatency(a, b) \/ BeatsLatency(b, a)
      /\ ~(BeatsLatency(a, b) /\ BeatsLatency(b, a))
  BY DEF BeatsLatency, CandidateRecord, HalfOpen, Unmeasured, Bit
<1> QED
  BY <1>1, <1>2 DEF Beats

\* Both comparisons are transitive.
LEMMA BeatsTransitive ==
  ASSUME NEW a \in CandidateRecord, NEW b \in CandidateRecord,
         NEW c \in CandidateRecord, NEW q,
         Beats(q, a, b), Beats(q, b, c)
  PROVE  Beats(q, a, c)
<1>1. BeatsPriority(a, b) /\ BeatsPriority(b, c) => BeatsPriority(a, c)
  BY DEF BeatsPriority, CandidateRecord
<1>2. BeatsLatency(a, b) /\ BeatsLatency(b, c) => BeatsLatency(a, c)
  BY DEF BeatsLatency, CandidateRecord, HalfOpen, Unmeasured, Bit
<1> QED
  BY <1>1, <1>2 DEF Beats

----------------------------------------------------------------------------
\* The chosen position is one of a candidate: candidates with different indices
\* have a first one under either comparison.
LEMMA SelectIsACandidate ==
  ASSUME NEW cands \in Seq(CandidateRecord), cands # <<>>, NEW policy,
         NEW cursor \in Nat,
         \A j, k \in DOMAIN cands : j # k => cands[j].index # cands[k].index
  PROVE  Select(policy, cands, cursor) \in DOMAIN cands
<1>0. /\ Len(cands) \in Nat \ {0} /\ DOMAIN cands = 1 .. Len(cands)
      /\ \A k \in DOMAIN cands : cands[k] \in CandidateRecord
  OBVIOUS
<1>1. CASE policy = ROUND_ROBIN
  <2>1. (cursor % Len(cands)) + 1 \in 1 .. Len(cands)
    BY <1>0
  <2> QED
    BY <1>0, <1>1, <2>1 DEF Select
<1>2. CASE policy # ROUND_ROBIN
  <2> DEFINE S == DOMAIN cands
             Better(k) == {j \in S : j # k /\ Beats(policy, cands[j], cands[k])}
             Before == [k \in S |-> Better(k)]
  <2>1. IsFiniteSet(S) /\ Cardinality(S) = Len(cands)
    BY <1>0, FS_Interval
  <2>2. /\ Before \in [S -> SUBSET S]
        /\ \A i \in S : i \notin Before[i]
    OBVIOUS
  <2>3. \A i, j \in S : i = j \/ i \in Before[j] \/ j \in Before[i]
    BY <1>0, BeatsTotal
  <2>4. \A i, j \in S : i \in Before[j] => Before[i] \subseteq Before[j]
    <3> SUFFICES ASSUME NEW i \in S, NEW j \in S, NEW m \in S,
                        i # j, Beats(policy, cands[i], cands[j]),
                        m # i, Beats(policy, cands[m], cands[i])
                 PROVE  m # j /\ Beats(policy, cands[m], cands[j])
      OBVIOUS
    <3>1. Beats(policy, cands[m], cands[j])
      BY <1>0, BeatsTransitive
    <3>2. m # j
      BY <1>0, BeatsTotal
    <3> QED
      BY <3>1, <3>2
  <2> HIDE DEF Before
  <2>5. \E k \in S : Cardinality(Before[k]) = 0
    <3>1. \A k \in 1 .. Cardinality(S) : \E i \in S : Cardinality(Before[i]) = k - 1
      BY <2>1, <2>2, <2>3, <2>4, RanksAreTaken
    <3>2. 1 \in 1 .. Cardinality(S) /\ 1 - 1 = 0
      BY <1>0, <2>1
    <3> QED
      BY <3>1, <3>2
  <2>6. PICK k \in S : Cardinality(Before[k]) = 0
    BY <2>5
  <2>7. Before[k] = {}
    BY <2>1, <2>2, <2>6, FS_Subset, FS_EmptySet
  <2>8. \A j \in S \ {k} : Beats(policy, cands[k], cands[j])
    <3> SUFFICES ASSUME NEW j \in S \ {k}
                 PROVE  Beats(policy, cands[k], cands[j])
      OBVIOUS
    <3>1. ~Beats(policy, cands[j], cands[k])
      BY <2>7 DEF Before
    <3> QED
      BY <1>0, <3>1, BeatsTotal
  <2>9. Select(policy, cands, cursor) =
          CHOOSE m \in S : \A j \in S \ {m} : Beats(policy, cands[m], cands[j])
    BY <1>2 DEF Select
  <2> QED
    BY <2>8, <2>9
<1> QED
  BY <1>1, <1>2

\* The state a scan leaves behind: refreshed or not, with the slots as they were
\* and no more probes.
LEMMA RefreshedFields ==
  ASSUME NEW Q, NEW h \in [Q -> ProviderState], NEW r, NEW scanned, NEW t \in Nat
  PROVE  LET f == Refreshed(h, r, scanned, t) IN
           /\ f \in [Q -> ProviderState]
           /\ \A q \in Q : /\ f[q] = h[q] \/ f[q] = Refresh(h[q], t)
                           /\ f[q].active = h[q].active
                           /\ f[q].probes = h[q].probes \/ f[q].probes = 0
<1> DEFINE f == Refreshed(h, r, scanned, t)
<1>1. f = [q \in Q |-> IF \E i \in scanned : r.targets[i].prov = q
                        THEN Refresh(h[q], t) ELSE h[q]]
  BY DEF Refreshed
<1> HIDE DEF f
<1>2. ASSUME NEW q \in Q
      PROVE  /\ f[q] \in ProviderState
             /\ f[q] = h[q] \/ f[q] = Refresh(h[q], t)
             /\ f[q].active = h[q].active
             /\ f[q].probes = h[q].probes \/ f[q].probes = 0
  <2>1. h[q] \in ProviderState
    OBVIOUS
  <2>2. f[q] = h[q] \/ f[q] = Refresh(h[q], t)
    BY <1>1
  <2>3. LET w == Refresh(h[q], t) IN
          /\ w \in ProviderState /\ w.active = h[q].active
          /\ w.probes = h[q].probes \/ w.probes = 0
    BY <2>1, RefreshFields
  <2> QED
    BY <2>1, <2>2, <2>3
<1>3. f \in [Q -> ProviderState]
  BY <1>1, <1>2
<1> QED
  BY <1>2, <1>3 DEF f

\* The candidates are targets that were scanned and whose provider's state, as
\* the scan left it, is admissible; no two have the same index.
LEMMA CandidatesAreAdmissible ==
  ASSUME NEW cfg, NEW h \in [DOMAIN cfg -> ProviderState],
         DOMAIN cfg \subseteq Int,
         NEW r, r.targets \in Seq(TargetRecords(cfg)),
         NEW scanned \in SUBSET DOMAIN r.targets
  PROVE  LET cands == Candidates(h, r, cfg, scanned) IN
           /\ cands \in Seq(CandidateRecord)
           /\ \A k \in DOMAIN cands :
                LET i == cands[k].index IN
                  /\ i \in scanned
                  /\ Admissible(h[r.targets[i].prov], cfg[r.targets[i].prov])
           /\ \A j, k \in DOMAIN cands : j # k => cands[j].index # cands[k].index
<1> DEFINE Flat(i) == [index |-> i, prio |-> r.targets[i].prio,
                       health |-> h[r.targets[i].prov].health,
                       latency |-> h[r.targets[i].prov].ewma,
                       id |-> r.targets[i].prov]
           kept == {i \in scanned :
                      Admissible(h[r.targets[i].prov], cfg[r.targets[i].prov])}
           order == InOrder(kept)
           cands == [k \in DOMAIN order |-> Flat(order[k])]
<1>1. Candidates(h, r, cfg, scanned) = cands
  BY DEF Candidates
<1>2. kept \in SUBSET Nat /\ IsFiniteSet(kept)
  <2>1. DOMAIN r.targets = 1 .. Len(r.targets) /\ Len(r.targets) \in Nat
    OBVIOUS
  <2>2. IsFiniteSet(DOMAIN r.targets)
    BY <2>1, FS_Interval
  <2> QED
    BY <2>1, <2>2, FS_Subset
<1>3. \A i \in kept : Flat(i) \in CandidateRecord /\ Flat(i).index = i
  <2> SUFFICES ASSUME NEW i \in kept
               PROVE  Flat(i) \in CandidateRecord /\ Flat(i).index = i
    OBVIOUS
  <2>0. i \in DOMAIN r.targets /\ i \in Nat
    BY <1>2
  <2>1. r.targets[i] \in TargetRecords(cfg)
    <3> HIDE DEF kept
    <3> QED
      BY <2>0
  <2>2. r.targets[i].prov \in DOMAIN cfg /\ r.targets[i].prio \in Int
    BY <2>1 DEF TargetRecords
  <2>3. h[r.targets[i].prov] \in ProviderState
    BY <2>2
  <2>4. /\ h[r.targets[i].prov].health \in HealthStates
        /\ h[r.targets[i].prov].ewma \in Nat
    BY <2>3 DEF ProviderState
  <2> QED
    BY <2>0, <2>2, <2>4 DEF CandidateRecord
<1> DEFINE n == Cardinality(kept)
<1>4. n \in Nat
  BY <1>2, FS_CardinalityType
<1> HIDE DEF kept, n
<1>5. /\ order \in [1 .. n -> kept]
      /\ \A j, k \in 1 .. n : j < k => order[j] < order[k]
  BY <1>2, InOrderLists DEF n
<1> HIDE DEF order, Flat
<1>6. /\ DOMAIN cands = 1 .. n
      /\ \A k \in 1 .. n : /\ cands[k] \in CandidateRecord
                           /\ cands[k].index = order[k] /\ order[k] \in kept
  BY <1>3, <1>5
<1>7. cands \in Seq(CandidateRecord)
  BY <1>4, <1>6
<1> HIDE DEF cands
<1>8. \A j, k \in DOMAIN cands : j # k => cands[j].index # cands[k].index
  <2> SUFFICES ASSUME NEW j \in 1 .. n, NEW k \in 1 .. n, j # k
               PROVE  order[j] # order[k]
    BY <1>6
  <2>1. order[j] \in Nat /\ order[k] \in Nat
    BY <1>2, <1>5
  <2>2. j < k \/ k < j
    BY <1>4
  <2> QED
    BY <1>5, <2>1, <2>2
<1> QED
  BY <1>1, <1>6, <1>7, <1>8 DEF kept

=============================================================================
