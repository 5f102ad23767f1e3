----------------------------- MODULE RouteSelect ----------------------------
(***************************************************************************)
(* Which targets of a route may take a request, and which of them does:    *)
(* src/routing/routing_select.asm.  The selection loop itself is RouteScan;*)
(* this module states what it chooses.                                     *)
(*                                                                         *)
(* A route is a record with the fields targets (a sequence of              *)
(* [prov, prio]), policy, families, maxAttempts and retryable.  A          *)
(* provider's configuration extends the record of ProviderHealth with      *)
(* enabled, families (what its capabilities and its adapter both allow)    *)
(* and streams (the streaming capability).  A request kind is a record     *)
(* [family, stream].  Identifiers are integers, standing for the bytewise  *)
(* order of the strings.  Target indices are 1-based.                      *)
(***************************************************************************)
EXTENDS ProviderHealth, Listing

PRIORITY      == "priority"
ROUND_ROBIN   == "round_robin"
LEAST_LATENCY == "least_latency"
PolicyNames   == {PRIORITY, ROUND_ROBIN, LEAST_LATENCY}

AF_LATENCY_UNKNOWN == 0

\* af_route_candidate, flattened.
CandidateRecord ==
  [index: Nat, prio: Int, health: HealthStates, latency: Nat, id: Int]

\* The targets a route may have over the providers cfg.
TargetRecords(cfg) == [prov: DOMAIN cfg, prio: Int]

Bit(b) == IF b THEN 1 ELSE 0

HalfOpen(a)   == Bit(a.health = HALF_OPEN)
Unmeasured(a) == Bit(a.latency = AF_LATENCY_UNKNOWN)

----------------------------------------------------------------------------
(* Mutants.                                                                *)

\* The measured latency is compared before the half-open rank.
BeatsLatencyFirst(a, b) ==
  \/ a.latency < b.latency
  \/ a.latency = b.latency /\ a.index < b.index

\* Ties on priority go to the later target.
BeatsPriorityLast(a, b) ==
  \/ a.prio < b.prio
  \/ a.prio = b.prio /\ a.index > b.index

\* Filter 6 dropped: a target this request has tried is scanned again.
ScannedAgain(route, cfg, kind, tried) ==
  {i \in DOMAIN route.targets :
     LET c == cfg[route.targets[i].prov] IN
       c.enabled /\ kind.family \in c.families /\ (kind.stream => c.streams)}

----------------------------------------------------------------------------
\* (priority, configured index, provider id), lowest first.
BeatsPriority(a, b) ==
  \/ a.prio < b.prio
  \/ /\ a.prio = b.prio
     /\ \/ a.index < b.index
        \/ a.index = b.index /\ a.id < b.id

\* (half-open last, unmeasured after measured, latency, index, id).
BeatsLatency(a, b) ==
  \/ HalfOpen(a) < HalfOpen(b)
  \/ /\ HalfOpen(a) = HalfOpen(b)
     /\ \/ Unmeasured(a) < Unmeasured(b)
        \/ /\ Unmeasured(a) = Unmeasured(b)
           /\ \/ a.latency < b.latency
              \/ /\ a.latency = b.latency
                 /\ \/ a.index < b.index
                    \/ a.index = b.index /\ a.id < b.id

Beats(policy, a, b) ==
  IF policy = LEAST_LATENCY THEN BeatsLatency(a, b) ELSE BeatsPriority(a, b)

\* af_route_select: the position in cands of the chosen candidate, and what
\* the loop of RouteScan is proved to compute.  The candidates are not empty.
Select(policy, cands, cursor) ==
  IF policy = ROUND_ROBIN
    THEN (cursor % Len(cands)) + 1
    ELSE CHOOSE k \in DOMAIN cands :
           \A j \in DOMAIN cands \ {k} : Beats(policy, cands[k], cands[j])

----------------------------------------------------------------------------
\* Filters 6, 1, 2 and 3: the targets whose provider's state is looked at.
Scanned(route, cfg, kind, tried) ==
  {i \in DOMAIN route.targets \ tried :
     LET c == cfg[route.targets[i].prov] IN
       c.enabled /\ kind.family \in c.families /\ (kind.stream => c.streams)}

\* Looking at a provider's state refreshes it, whether or not it is chosen.
Refreshed(hs, route, scanned, now) ==
  [q \in DOMAIN hs |->
     IF \E i \in scanned : route.targets[i].prov = q
       THEN Refresh(hs[q], now) ELSE hs[q]]

\* Filters 4 and 5, on the refreshed states.
Admissible(s, c) == Admit(s) /\ (c.maxConc = 0 \/ s.active < c.maxConc)

\* af_route_candidates, over the refreshed states, in configured order.
Candidates(hs, route, cfg, scanned) ==
  LET Flat(i) == LET t == route.targets[i] IN
        [index |-> i, prio |-> t.prio, health |-> hs[t.prov].health,
         latency |-> hs[t.prov].ewma, id |-> t.prov]
      Kept(i) == LET q == route.targets[i].prov IN Admissible(hs[q], cfg[q])
      order == InOrder({i \in scanned : Kept(i)})
  IN  [k \in DOMAIN order |-> Flat(order[k])]

=============================================================================
