---------------------------- MODULE MCRouteScan -----------------------------
(* All routes of up to three targets over two priorities, two healths and   *)
(* three latencies.  An open circuit never passes the filters.              *)
EXTENDS RouteScan

MCTargets ==
  { t \in [ok: BOOLEAN, prio: {-1, 2}, health: {HEALTHY, HALF_OPEN},
           latency: {0, 5, 7}, id: {1}] :
      ~t.ok => t.prio = 2 /\ t.health = HEALTHY /\ t.latency = 0 }

MCTargetLists == UNION {[1 .. n -> MCTargets] : n \in 1 .. 3}

=============================================================================
