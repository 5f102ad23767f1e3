------------------------------ MODULE RouteScan -----------------------------
(***************************************************************************)
(* af_route_candidates and af_route_select as the loops they are: the walk *)
(* over a route's targets that flattens the eligible ones, then the scan   *)
(* that keeps the best candidate so far (src/routing/routing_select.asm).  *)
(* RouteSelect states what is chosen; here it is shown that the loops      *)
(* choose it, and that the choice is the one of the repository's routing   *)
(* oracle (tests/route_oracle.py).                                         *)
(*                                                                         *)
(* A target, seen from here, is the candidate record it would become and   *)
(* whether it passes the six filters (ok).                                 *)
(***************************************************************************)
EXTENDS RouteSelect

CONSTANTS
  TargetLists,  \* the routes to walk: sequences of target records
  Cursors       \* round-robin cursors

TargetRecord ==
  [ok: BOOLEAN, prio: Int, health: HealthStates, latency: Nat, id: Int]

ASSUME TargetListsAssumption == TargetLists \subseteq Seq(TargetRecord)

ASSUME CursorsAssumption == Cursors \subseteq Nat

VARIABLES
  targets, policy, cursor,  \* the arguments
  pc,     \* "walk", "scan" or "done"
  i,      \* target index of the walk, then candidate index of the scan
  cands,  \* the candidates found so far
  best    \* position in cands of the best so far; 0 when nothing is chosen

vars == <<targets, policy, cursor, pc, i, cands, best>>

Init ==
  /\ targets \in TargetLists
  /\ policy \in PolicyNames
  /\ cursor \in Cursors
  /\ pc = "walk"
  /\ i = 1
  /\ cands = <<>>
  /\ best = 0

----------------------------------------------------------------------------
(* Mutants.                                                                *)

\* The scan starts at the third candidate.
EndWalkSkips ==
  /\ pc = "walk" /\ i > Len(targets)
  /\ pc' = IF cands = <<>> \/ policy = ROUND_ROBIN THEN "done" ELSE "scan"
  /\ best' = IF cands = <<>> THEN 0
             ELSE IF policy = ROUND_ROBIN THEN (cursor % Len(cands)) + 1
             ELSE 1
  /\ i' = 3
  /\ UNCHANGED <<targets, policy, cursor, cands>>

\* The cursor is used without the remainder.
EndWalkNoRemainder ==
  /\ pc = "walk" /\ i > Len(targets)
  /\ pc' = IF cands = <<>> \/ policy = ROUND_ROBIN THEN "done" ELSE "scan"
  /\ best' = IF cands = <<>> THEN 0
             ELSE IF policy = ROUND_ROBIN THEN cursor + 1
             ELSE 1
  /\ i' = 2
  /\ UNCHANGED <<targets, policy, cursor, cands>>

\* A target that fails a filter is flattened all the same when it is first.
WalkKeepsFirst ==
  /\ pc = "walk" /\ i <= Len(targets)
  /\ cands' = IF targets[i].ok \/ cands = <<>>
                THEN Append(cands, [ index |-> i, prio |-> targets[i].prio,
                                     health |-> targets[i].health,
                                     latency |-> targets[i].latency,
                                     id |-> targets[i].id ])
                ELSE cands
  /\ i' = i + 1
  /\ UNCHANGED <<targets, policy, cursor, pc, best>>

----------------------------------------------------------------------------
Flat(k) ==
  [ index |-> k, prio |-> targets[k].prio, health |-> targets[k].health,
    latency |-> targets[k].latency, id |-> targets[k].id ]

Walk ==
  /\ pc = "walk" /\ i <= Len(targets)
  /\ cands' = IF targets[i].ok THEN Append(cands, Flat(i)) ELSE cands
  /\ i' = i + 1
  /\ UNCHANGED <<targets, policy, cursor, pc, best>>

\* The head of af_route_select: nothing to choose from, round robin, or a scan
\* that starts with the first candidate as the best.
EndWalk ==
  /\ pc = "walk" /\ i > Len(targets)
  /\ pc' = IF cands = <<>> \/ policy = ROUND_ROBIN THEN "done" ELSE "scan"
  /\ best' = IF cands = <<>> THEN 0
             ELSE IF policy = ROUND_ROBIN THEN (cursor % Len(cands)) + 1
             ELSE 1
  /\ i' = 2
  /\ UNCHANGED <<targets, policy, cursor, cands>>

Scan ==
  /\ pc = "scan" /\ i <= Len(cands)
  /\ best' = IF Beats(policy, cands[i], cands[best]) THEN i ELSE best
  /\ i' = i + 1
  /\ UNCHANGED <<targets, policy, cursor, pc, cands>>

EndScan ==
  /\ pc = "scan" /\ i > Len(cands)
  /\ pc' = "done"
  /\ UNCHANGED <<targets, policy, cursor, i, cands, best>>

Done == pc = "done" /\ UNCHANGED vars

Next == Walk \/ EndWalk \/ Scan \/ EndScan \/ Done

Spec == Init /\ [][Next]_vars

----------------------------------------------------------------------------
TypeOK ==
  /\ targets \in Seq(TargetRecord)
  /\ policy \in PolicyNames
  /\ cursor \in Nat
  /\ pc \in {"walk", "scan", "done"}
  /\ i \in Nat \ {0}
  /\ cands \in Seq(CandidateRecord)
  /\ best \in 0 .. Len(cands)

\* The oracle's sort keys, as tuples compared from the left.
OracleKey(c) ==
  IF policy = LEAST_LATENCY
    THEN <<HalfOpen(c), Unmeasured(c), c.latency, c.index, c.id>>
    ELSE <<c.prio, c.index, c.id>>

Precedes(u, v) ==
  \E k \in DOMAIN u : u[k] < v[k] /\ \A j \in 1 .. k - 1 : u[j] = v[j]

(***************************************************************************)
(* Parity with tests/route_oracle.py: at the end of the scan no candidate  *)
(* has a smaller key than the chosen one, and round robin takes the        *)
(* candidate at cursor mod count of the order by configured index.         *)
(***************************************************************************)
ChoiceIsTheOracles ==
  (pc = "done" /\ cands # <<>>) =>
    IF policy = ROUND_ROBIN
      THEN Cardinality({k \in DOMAIN cands : cands[k].index < cands[best].index})
             = cursor % Len(cands)
      ELSE \A k \in DOMAIN cands :
             ~Precedes(OracleKey(cands[k]), OracleKey(cands[best]))

(***************************************************************************)
(* The loop computes Select, which is what Exchange uses for the choice.   *)
(***************************************************************************)
ScanComputesSelect ==
  (pc = "done" /\ cands # <<>>) => best = Select(policy, cands, cursor)

(***************************************************************************)
(* A target takes the request only if it passed every filter, and when any *)
(* passed one of them takes it: the walk neither drops an eligible target  *)
(* nor lets an ineligible one through.                                     *)
(***************************************************************************)
OnlyEligibleTargets ==
  pc = "done" =>
    IF cands = <<>>
      THEN \A k \in DOMAIN targets : ~targets[k].ok
      ELSE /\ best \in DOMAIN cands
           /\ cands[best].index \in DOMAIN targets
           /\ targets[cands[best].index].ok

(***************************************************************************)
(* Under least latency a half-open target is a probe and not a choice: it  *)
(* is taken only when every eligible target is half-open, and a target     *)
(* without a measurement only when no closed one has any                   *)
(* (af_route_beats_latency; docs/API_CONTRACT.md 8).                       *)
(***************************************************************************)
ProbesAreLast ==
  (pc = "done" /\ cands # <<>> /\ policy = LEAST_LATENCY) =>
    /\ cands[best].health = HALF_OPEN =>
         \A k \in DOMAIN targets : targets[k].ok => targets[k].health = HALF_OPEN
    /\ cands[best].latency = AF_LATENCY_UNKNOWN =>
         \A k \in DOMAIN targets :
           targets[k].ok => \/ targets[k].health = HALF_OPEN
                            \/ targets[k].latency = AF_LATENCY_UNKNOWN

=============================================================================
