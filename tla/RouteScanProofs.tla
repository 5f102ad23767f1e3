--------------------------- MODULE RouteScanProofs --------------------------
(***************************************************************************)
(* The selection loop is right for every route: RouteScan's invariants for *)
(* target lists of any length, any priorities, latencies and cursors.      *)
(*                                                                         *)
(* The argument: the walk keeps the eligible targets, in order (Flattened);*)
(* among candidates with different indices each comparison is a strict     *)
(* total order, so the best candidate of a prefix stays the best when it   *)
(* beats the next one, and is replaced by one that beats them all when it  *)
(* does not (Leading); at the end there is only one candidate that beats   *)
(* all the others, so the CHOOSE of Select is it.                          *)
(***************************************************************************)
EXTENDS RouteScan, RoutingProofs

\* c is the candidate that target number c.index becomes.
FromTarget(c) ==
  /\ c.index \in DOMAIN targets
  /\ targets[c.index].ok
  /\ c.health = targets[c.index].health
  /\ c.latency = targets[c.index].latency

\* The candidates are the eligible targets walked so far, in order.
Flattened ==
  /\ \A k \in DOMAIN cands : FromTarget(cands[k])
  /\ \A j, k \in DOMAIN cands : j < k => cands[j].index < cands[k].index
  /\ pc = "walk" => \A k \in DOMAIN cands : cands[k].index < i
  /\ \A t \in DOMAIN targets :
       (targets[t].ok /\ (pc = "walk" => t < i)) =>
         \E k \in DOMAIN cands : cands[k].index = t

\* best beats every other candidate up to position n.
BestOf(n) ==
  /\ best \in 1 .. n
  /\ \A j \in 1 .. n : j # best => Beats(policy, cands[best], cands[j])

\* What the loop knows at each label.
Leading ==
  /\ pc = "walk" => best = 0 /\ i <= Len(targets) + 1
  /\ pc = "scan" => /\ policy # ROUND_ROBIN /\ cands # <<>>
                    /\ i \in 2 .. Len(cands) + 1
                    /\ BestOf(i - 1)
  /\ (pc = "done" /\ cands # <<>>) =>
       IF policy = ROUND_ROBIN
         THEN best = (cursor % Len(cands)) + 1
         ELSE BestOf(Len(cands))

LoopInv == TypeOK /\ Flattened /\ Leading

----------------------------------------------------------------------------
\* LoopInv holds initially.
LEMMA InitLoopInv == Init => LoopInv
BY TargetListsAssumption, CursorsAssumption
DEF Init, LoopInv, TypeOK, Flattened, Leading

\* One step of the walk.
LEMMA WalkStep ==
  ASSUME LoopInv, Walk
  PROVE  LoopInv'
<1> DEFINE c == Flat(i)
<1>1. c \in CandidateRecord
  <2>1. targets[i] \in TargetRecord
    BY DEF LoopInv, TypeOK, Walk
  <2>2. i \in Nat
    BY DEF LoopInv, TypeOK
  <2> QED
    BY <2>1, <2>2 DEF Flat, CandidateRecord, TargetRecord
<1>2. /\ c.index = i /\ c.health = targets[i].health
      /\ c.latency = targets[i].latency
  BY DEF Flat
<1>3. /\ i \in DOMAIN targets /\ i' = i + 1 /\ pc = "walk" /\ pc' = "walk"
      /\ UNCHANGED <<targets, policy, cursor, best>>
      /\ cands' = IF targets[i].ok THEN Append(cands, c) ELSE cands
  BY DEF Walk, LoopInv, TypeOK
<1> HIDE DEF c
<1>4. TypeOK'
  BY <1>1, <1>3 DEF LoopInv, TypeOK, Leading
<1>5. Leading'
  BY <1>3 DEF LoopInv, TypeOK, Leading
<1>6. Flattened'
  <2>1. CASE ~targets[i].ok
    BY <1>3, <2>1 DEF LoopInv, TypeOK, Flattened, FromTarget
  <2>2. CASE targets[i].ok
    <3>1. /\ cands' = Append(cands, c) /\ cands \in Seq(CandidateRecord)
          /\ DOMAIN cands' = 1 .. Len(cands) + 1
          /\ DOMAIN cands = 1 .. Len(cands) /\ Len(cands) \in Nat
          /\ \A k \in DOMAIN cands : cands'[k] = cands[k]
          /\ cands'[Len(cands) + 1] = c
      BY <1>1, <1>3, <2>2 DEF LoopInv, TypeOK
    <3>2. \A k \in DOMAIN cands : cands[k].index < i
      BY <1>3 DEF LoopInv, Flattened
    <3>3. \A k \in DOMAIN cands' : FromTarget(cands[k])' /\ cands'[k].index < i'
      <4> SUFFICES ASSUME NEW k \in DOMAIN cands'
                   PROVE  FromTarget(cands[k])' /\ cands'[k].index < i'
        OBVIOUS
      <4>1. CASE k \in DOMAIN cands
        <5>1. FromTarget(cands[k]) /\ cands[k].index < i
          BY <3>2, <4>1 DEF LoopInv, Flattened
        <5>2. cands[k] \in CandidateRecord
          BY <3>1, <4>1
        <5>3. cands[k].index \in Nat
          BY <5>2 DEF CandidateRecord
        <5> QED
          BY <1>3, <3>1, <4>1, <5>1, <5>3 DEF FromTarget, LoopInv, TypeOK
      <4>2. CASE k = Len(cands) + 1
        BY <1>2, <1>3, <2>2, <3>1, <4>2 DEF FromTarget, LoopInv, TypeOK
      <4> QED
        BY <3>1, <4>1, <4>2
    <3>4. \A j, k \in DOMAIN cands' : j < k => cands'[j].index < cands'[k].index
      <4> SUFFICES ASSUME NEW j \in DOMAIN cands', NEW k \in DOMAIN cands', j < k
                   PROVE  cands'[j].index < cands'[k].index
        OBVIOUS
      <4>1. j \in DOMAIN cands
        BY <3>1
      <4>2. CASE k \in DOMAIN cands
        BY <3>1, <4>1, <4>2 DEF LoopInv, Flattened
      <4>3. CASE k = Len(cands) + 1
        BY <1>2, <3>1, <3>2, <4>1, <4>3
      <4> QED
        BY <3>1, <4>2, <4>3
    <3>5. ASSUME NEW t \in DOMAIN targets, targets[t].ok, t < i'
          PROVE  \E k \in DOMAIN cands' : cands'[k].index = t
      <4>1. CASE t = i
        BY <1>2, <3>1, <4>1
      <4>2. CASE t # i
        <5>1. t < i
          BY <1>3, <3>5, <4>2 DEF LoopInv, TypeOK
        <5>2. PICK k \in DOMAIN cands : cands[k].index = t
          BY <3>5, <5>1 DEF LoopInv, Flattened
        <5> QED
          BY <3>1, <5>2
      <4> QED
        BY <4>1, <4>2
    <3> QED
      BY <1>3, <3>3, <3>4, <3>5 DEF Flattened
  <2> QED
    BY <2>1, <2>2
<1> QED
  BY <1>4, <1>5, <1>6 DEF LoopInv

\* The head of af_route_select.
LEMMA EndWalkStep ==
  ASSUME LoopInv, EndWalk
  PROVE  LoopInv'
<1>1. /\ UNCHANGED <<targets, policy, cursor, cands>> /\ pc = "walk"
      /\ i = Len(targets) + 1 /\ i' = 2
      /\ pc' = IF cands = <<>> \/ policy = ROUND_ROBIN THEN "done" ELSE "scan"
      /\ best' = IF cands = <<>> THEN 0
                 ELSE IF policy = ROUND_ROBIN THEN (cursor % Len(cands)) + 1
                 ELSE 1
  BY DEF EndWalk, LoopInv, TypeOK, Leading
<1>2. Len(cands) \in Nat /\ (cands # <<>> => Len(cands) > 0) /\ cursor \in Nat
  BY DEF LoopInv, TypeOK
<1>3. cands # <<>> => (cursor % Len(cands)) + 1 \in 1 .. Len(cands)
  BY <1>2
<1>4. TypeOK'
  <2>1. best' \in 0 .. Len(cands)
    BY <1>1, <1>2, <1>3
  <2> QED
    BY <1>1, <2>1 DEF LoopInv, TypeOK
<1>5. Flattened'
  BY <1>1 DEF LoopInv, TypeOK, Flattened, FromTarget
<1>6. Leading'
  <2>1. pc' \in {"scan", "done"}
    BY <1>1
  <2>2. CASE pc' = "scan"
    BY <1>1, <1>2, <2>2 DEF Leading, BestOf
  <2>3. CASE pc' = "done"
    BY <1>1, <1>2, <2>3 DEF Leading
  <2> QED
    BY <2>1, <2>2, <2>3
<1> QED
  BY <1>4, <1>5, <1>6 DEF LoopInv

\* One comparison of the scan: the winner beats everything up to position i.
LEMMA ScanStep ==
  ASSUME LoopInv, Scan
  PROVE  LoopInv'
<1>1. /\ UNCHANGED <<targets, policy, cursor, pc, cands>> /\ pc = "scan"
      /\ i \in 2 .. Len(cands) /\ i' = i + 1 /\ Len(cands) \in Nat
      /\ best' = IF Beats(policy, cands[i], cands[best]) THEN i ELSE best
      /\ policy # ROUND_ROBIN /\ cands # <<>>
  BY DEF Scan, LoopInv, TypeOK, Leading
<1>2. /\ best \in 1 .. i - 1
      /\ \A j \in 1 .. i - 1 :
           j # best => Beats(policy, cands[best], cands[j])
  BY <1>1 DEF LoopInv, Leading, BestOf
<1>3. /\ DOMAIN cands = 1 .. Len(cands)
      /\ \A k \in 1 .. Len(cands) : cands[k] \in CandidateRecord
  BY DEF LoopInv, TypeOK
<1>4. best \in DOMAIN cands /\ i \in DOMAIN cands /\ best < i
  BY <1>1, <1>2, <1>3
<1>5. cands[best].index # cands[i].index
  <2>1. cands[best].index < cands[i].index
    BY <1>4 DEF LoopInv, Flattened
  <2>2. cands[best].index \in Nat /\ cands[i].index \in Nat
    BY <1>3, <1>4 DEF CandidateRecord
  <2> QED
    BY <2>1, <2>2
<1>6. best' \in 1 .. i
      /\ \A j \in 1 .. i : j # best' => Beats(policy, cands[best'], cands[j])
  <2>1. CASE Beats(policy, cands[i], cands[best])
    <3> SUFFICES ASSUME NEW j \in 1 .. i, j # i
                 PROVE  Beats(policy, cands[i], cands[j])
      BY <1>1, <2>1
    <3>1. j \in 1 .. i - 1 /\ j \in DOMAIN cands
      BY <1>1, <1>3
    <3>2. CASE j = best
      BY <2>1, <3>2
    <3>3. CASE j # best
      <4>1. Beats(policy, cands[best], cands[j])
        BY <1>2, <3>1, <3>3
      <4> QED
        BY <1>3, <1>4, <2>1, <3>1, <4>1, BeatsTransitive
    <3> QED
      BY <3>2, <3>3
  <2>2. CASE ~Beats(policy, cands[i], cands[best])
    <3>1. best' = best
      BY <1>1, <2>2
    <3>2. Beats(policy, cands[best], cands[i])
      BY <1>3, <1>4, <1>5, <2>2, BeatsTotal
    <3> QED
      BY <1>1, <1>2, <3>1, <3>2
  <2> QED
    BY <2>1, <2>2
<1>7. TypeOK'
  BY <1>1, <1>6 DEF LoopInv, TypeOK
<1>8. Flattened'
  BY <1>1 DEF LoopInv, Flattened, FromTarget
<1>9. Leading'
  <2>1. BestOf(i - 1)'
    BY <1>1, <1>6 DEF BestOf
  <2> QED
    BY <1>1, <2>1 DEF Leading
<1> QED
  BY <1>7, <1>8, <1>9 DEF LoopInv

\* The scan has compared every candidate.
LEMMA EndScanStep ==
  ASSUME LoopInv, EndScan
  PROVE  LoopInv'
<1>1. /\ UNCHANGED <<targets, policy, cursor, i, cands, best>>
      /\ pc = "scan" /\ pc' = "done" /\ i = Len(cands) + 1
      /\ Len(cands) \in Nat /\ policy # ROUND_ROBIN
  BY DEF EndScan, LoopInv, TypeOK, Leading
<1>2. BestOf(Len(cands))
  BY <1>1 DEF LoopInv, Leading
<1>3. TypeOK'
  BY <1>1 DEF LoopInv, TypeOK
<1>4. Flattened'
  BY <1>1 DEF LoopInv, Flattened, FromTarget
<1>5. Leading'
  BY <1>1, <1>2 DEF Leading, BestOf
<1> QED
  BY <1>3, <1>4, <1>5 DEF LoopInv

\* LoopInv is an inductive invariant of the loop.
LEMMA LoopInvariance == Spec => []LoopInv
<1>1. LoopInv /\ [Next]_vars => LoopInv'
  <2> SUFFICES ASSUME LoopInv, [Next]_vars
               PROVE  LoopInv'
    OBVIOUS
  <2>1. CASE Walk
    BY <2>1, WalkStep
  <2>2. CASE EndWalk
    BY <2>2, EndWalkStep
  <2>3. CASE Scan
    BY <2>3, ScanStep
  <2>4. CASE EndScan
    BY <2>4, EndScanStep
  <2>5. CASE UNCHANGED vars
    BY <2>5 DEF vars, LoopInv, TypeOK, Flattened, FromTarget, Leading, BestOf
  <2> QED
    BY <2>1, <2>2, <2>3, <2>4, <2>5 DEF Next, Done
<1> QED
  BY InitLoopInv, <1>1, PTL DEF Spec

----------------------------------------------------------------------------
\* The loop computes Select, whatever the route: the best candidate it keeps is
\* the only one that beats all the others (af_route_select).
THEOREM ScanIsSelect == Spec => []ScanComputesSelect
<1>1. LoopInv => ScanComputesSelect
  <2> SUFFICES ASSUME LoopInv, pc = "done", cands # <<>>
               PROVE  best = Select(policy, cands, cursor)
    BY DEF ScanComputesSelect
  <2>1. CASE policy = ROUND_ROBIN
    BY <2>1 DEF LoopInv, Leading, Select
  <2>2. CASE policy # ROUND_ROBIN
    <3> DEFINE Wins(k) ==
          \A j \in DOMAIN cands \ {k} : Beats(policy, cands[k], cands[j])
    <3>1. /\ DOMAIN cands = 1 .. Len(cands)
          /\ \A k \in DOMAIN cands : cands[k] \in CandidateRecord
      BY DEF LoopInv, TypeOK
    <3>2. best \in DOMAIN cands /\ Wins(best)
      BY <2>2, <3>1 DEF LoopInv, Leading, BestOf
    <3>3. ASSUME NEW k \in DOMAIN cands, Wins(k)
          PROVE  k = best
      <4> SUFFICES ASSUME k # best
                   PROVE  FALSE
        OBVIOUS
      <4>1. /\ Beats(policy, cands[k], cands[best])
            /\ Beats(policy, cands[best], cands[k])
        BY <3>2, <3>3
      <4>2. cands[k].index # cands[best].index
        <5>1. cands[k].index \in Nat /\ cands[best].index \in Nat
          BY <3>1, <3>2 DEF CandidateRecord
        <5>2. \/ cands[k].index < cands[best].index
              \/ cands[best].index < cands[k].index
          BY <3>1, <3>2 DEF LoopInv, Flattened
        <5> QED
          BY <5>1, <5>2
      <4> QED
        BY <3>1, <3>2, <4>1, <4>2, BeatsTotal
    <3>4. Select(policy, cands, cursor) = CHOOSE k \in DOMAIN cands : Wins(k)
      BY <2>2 DEF Select
    <3> HIDE DEF Wins
    <3> QED
      BY <3>2, <3>3, <3>4
  <2> QED
    BY <2>1, <2>2
<1> QED
  BY <1>1, LoopInvariance, PTL

\* The walk neither drops an eligible target nor lets an ineligible one through
\* (af_route_candidates), for routes of any length.
THEOREM EligibleOnly == Spec => []OnlyEligibleTargets
<1>1. LoopInv => OnlyEligibleTargets
  <2> SUFFICES ASSUME LoopInv, pc = "done"
               PROVE  OnlyEligibleTargets
    BY DEF OnlyEligibleTargets
  <2>1. CASE cands = <<>>
    BY <2>1 DEF LoopInv, Flattened, OnlyEligibleTargets
  <2>2. CASE cands # <<>>
    <3>1. Len(cands) \in Nat \ {0} /\ DOMAIN cands = 1 .. Len(cands)
      BY <2>2 DEF LoopInv, TypeOK
    <3>2. (cursor % Len(cands)) + 1 \in 1 .. Len(cands)
      BY <3>1 DEF LoopInv, TypeOK
    <3>3. best \in DOMAIN cands
      BY <2>2, <3>1, <3>2 DEF LoopInv, Leading, BestOf
    <3> QED
      BY <2>2, <3>3 DEF LoopInv, Flattened, FromTarget, OnlyEligibleTargets
  <2> QED
    BY <2>1, <2>2
<1> QED
  BY <1>1, LoopInvariance, PTL

\* A half-open target is taken under least latency only when every eligible one
\* is half-open, and one without a measurement only when no closed one has any
\* (af_route_beats_latency), for routes of any length.
THEOREM ProbesLast == Spec => []ProbesAreLast
<1>1. LoopInv => ProbesAreLast
  <2> SUFFICES ASSUME LoopInv, pc = "done", cands # <<>>, policy = LEAST_LATENCY,
                      NEW t \in DOMAIN targets, targets[t].ok
               PROVE  /\ cands[best].health = HALF_OPEN =>
                           targets[t].health = HALF_OPEN
                      /\ cands[best].latency = AF_LATENCY_UNKNOWN =>
                           \/ targets[t].health = HALF_OPEN
                           \/ targets[t].latency = AF_LATENCY_UNKNOWN
    BY DEF ProbesAreLast
  <2>1. PICK k \in DOMAIN cands : cands[k].index = t
    BY DEF LoopInv, Flattened
  <2>2. cands[k].health = targets[t].health /\ cands[k].latency = targets[t].latency
    BY <2>1 DEF LoopInv, Flattened, FromTarget
  <2>3. /\ best \in 1 .. Len(cands) /\ DOMAIN cands = 1 .. Len(cands)
        /\ k # best => BeatsLatency(cands[best], cands[k])
    BY <2>1 DEF LoopInv, TypeOK, Leading, BestOf, Beats, ROUND_ROBIN, LEAST_LATENCY
  <2>4. CASE k = best
    BY <2>2, <2>4
  <2>5. CASE k # best
    <3>1. BeatsLatency(cands[best], cands[k])
      BY <2>3, <2>5
    <3> QED
      BY <2>2, <3>1 DEF BeatsLatency, HalfOpen, Unmeasured, Bit
  <2> QED
    BY <2>4, <2>5
<1> QED
  BY <1>1, LoopInvariance, PTL

\* Parity with tests/route_oracle.py for routes of any length: no candidate has
\* a smaller key than the chosen one, and round robin takes the candidate at
\* cursor mod count of the order by configured index.
THEOREM OracleAgrees == Spec => []ChoiceIsTheOracles
<1>1. LoopInv => ChoiceIsTheOracles
  <2> SUFFICES ASSUME LoopInv, pc = "done", cands # <<>>
               PROVE  ChoiceIsTheOracles
    BY DEF ChoiceIsTheOracles
  <2>0. /\ Len(cands) \in Nat \ {0} /\ DOMAIN cands = 1 .. Len(cands)
        /\ \A k \in DOMAIN cands : cands[k] \in CandidateRecord
        /\ \A k \in DOMAIN cands : cands[k].index \in Nat
        /\ \A j, k \in DOMAIN cands : j < k => cands[j].index < cands[k].index
    <3>1. /\ Len(cands) \in Nat \ {0} /\ DOMAIN cands = 1 .. Len(cands)
          /\ \A k \in DOMAIN cands : cands[k] \in CandidateRecord
      BY DEF LoopInv, TypeOK
    <3>2. \A k \in DOMAIN cands : cands[k].index \in Nat
      BY <3>1 DEF CandidateRecord
    <3>3. \A j, k \in DOMAIN cands : j < k => cands[j].index < cands[k].index
      BY DEF LoopInv, Flattened
    <3> QED
      BY <3>1, <3>2, <3>3
  <2>1. CASE policy = ROUND_ROBIN
    <3>1. best = (cursor % Len(cands)) + 1
      BY <2>1 DEF LoopInv, Leading
    <3>2. cursor % Len(cands) \in 0 .. Len(cands) - 1
      BY <2>0 DEF LoopInv, TypeOK
    <3>3. best \in DOMAIN cands
      BY <2>0, <3>1, <3>2
    <3>4. {k \in DOMAIN cands : cands[k].index < cands[best].index} = 1 .. best - 1
      <4>1. ASSUME NEW k \in DOMAIN cands
            PROVE  cands[k].index < cands[best].index <=> k < best
        BY <2>0, <3>3
      <4> QED
        BY <2>0, <3>3, <4>1
    <3>5. Cardinality(1 .. best - 1) = best - 1
      BY <2>0, <3>3, FS_Interval
    <3>6. best - 1 = cursor % Len(cands)
      BY <3>1, <3>2
    <3>7. Cardinality({k \in DOMAIN cands : cands[k].index < cands[best].index})
            = cursor % Len(cands)
      BY <3>4, <3>5, <3>6
    <3> QED
      BY <2>1, <3>7 DEF ChoiceIsTheOracles
  <2>2. CASE policy # ROUND_ROBIN
    <3> SUFFICES ASSUME NEW k \in DOMAIN cands
                 PROVE  ~Precedes(OracleKey(cands[k]), OracleKey(cands[best]))
      BY <2>2 DEF ChoiceIsTheOracles
    <3> DEFINE a == cands[k]
               b == cands[best]
    <3>1. best \in DOMAIN cands /\ (k # best => Beats(policy, b, a))
      BY <2>0, <2>2 DEF LoopInv, Leading, BestOf
    <3>2. a \in CandidateRecord /\ b \in CandidateRecord
      BY <2>0, <3>1
    <3>3. a = b \/ Beats(policy, b, a)
      BY <3>1
    <3> HIDE DEF a, b
    <3>4. CASE policy = LEAST_LATENCY
      <4>1. a = b \/ BeatsLatency(b, a)
        BY <3>3, <3>4 DEF Beats
      <4> DEFINE u == <<HalfOpen(a), Unmeasured(a), a.latency, a.index, a.id>>
                 v == <<HalfOpen(b), Unmeasured(b), b.latency, b.index, b.id>>
      <4>2. u = OracleKey(a) /\ v = OracleKey(b)
        BY <3>4 DEF OracleKey
      <4>3. \A i1 \in 1 .. 5 : u[i1] \in Int /\ v[i1] \in Int
        BY <3>2 DEF CandidateRecord, HalfOpen, Unmeasured, Bit
      <4>4. \/ a = b
            \/ v[1] < u[1]
            \/ v[1] = u[1] /\ v[2] < u[2]
            \/ v[1] = u[1] /\ v[2] = u[2] /\ v[3] < u[3]
            \/ v[1] = u[1] /\ v[2] = u[2] /\ v[3] = u[3] /\ v[4] < u[4]
            \/ /\ v[1] = u[1] /\ v[2] = u[2] /\ v[3] = u[3] /\ v[4] = u[4]
               /\ v[5] < u[5]
        BY <4>1 DEF BeatsLatency
      <4>5. DOMAIN u = 1 .. 5
        OBVIOUS
      <4>6. a = b => u = v
        OBVIOUS
      <4> HIDE DEF u, v
      <4>7. ASSUME NEW m \in 1 .. 5, u[m] < v[m], \A j \in 1 .. m - 1 : u[j] = v[j]
            PROVE  FALSE
        <5>1. m = 1 \/ m = 2 \/ m = 3 \/ m = 4 \/ m = 5
          OBVIOUS
        <5>2. /\ m > 1 => u[1] = v[1]
              /\ m > 2 => u[2] = v[2]
              /\ m > 3 => u[3] = v[3]
              /\ m > 4 => u[4] = v[4]
          BY <4>7
        <5>3. /\ u[1] \in Int /\ u[2] \in Int /\ u[3] \in Int /\ u[4] \in Int
              /\ u[5] \in Int
              /\ v[1] \in Int /\ v[2] \in Int /\ v[3] \in Int /\ v[4] \in Int
              /\ v[5] \in Int
          BY <4>3
        <5>4. a # b
          BY <4>3, <4>6, <4>7
        <5>5. CASE m = 1 \/ m = 2 \/ m = 3
          BY <4>4, <4>7, <5>2, <5>3, <5>4, <5>5
        <5>6. CASE m = 4 \/ m = 5
          BY <4>4, <4>7, <5>2, <5>3, <5>4, <5>6
        <5> QED
          BY <5>1, <5>5, <5>6
      <4>8. ~Precedes(u, v)
        BY <4>5, <4>7 DEF Precedes
      <4> QED
        BY <4>2, <4>8 DEF a, b
    <3>5. CASE policy # LEAST_LATENCY
      <4>1. a = b \/ BeatsPriority(b, a)
        BY <3>3, <3>5 DEF Beats
      <4> DEFINE u == <<a.prio, a.index, a.id>>
                 v == <<b.prio, b.index, b.id>>
      <4>2. u = OracleKey(a) /\ v = OracleKey(b)
        BY <3>5 DEF OracleKey
      <4>3. \A i1 \in 1 .. 3 : u[i1] \in Int /\ v[i1] \in Int
        BY <3>2 DEF CandidateRecord
      <4>4. \/ a = b
            \/ v[1] < u[1]
            \/ v[1] = u[1] /\ v[2] < u[2]
            \/ v[1] = u[1] /\ v[2] = u[2] /\ v[3] < u[3]
        BY <4>1 DEF BeatsPriority
      <4>5. DOMAIN u = 1 .. 3
        OBVIOUS
      <4>6. a = b => u = v
        OBVIOUS
      <4> HIDE DEF u, v
      <4>7. ASSUME NEW m \in 1 .. 3, u[m] < v[m], \A j \in 1 .. m - 1 : u[j] = v[j]
            PROVE  FALSE
        <5>1. m = 1 \/ m = 2 \/ m = 3
          OBVIOUS
        <5>2. (m > 1 => u[1] = v[1]) /\ (m > 2 => u[2] = v[2])
          BY <4>7
        <5> QED
          BY <4>3, <4>4, <4>6, <4>7, <5>1, <5>2
      <4>8. ~Precedes(u, v)
        BY <4>5, <4>7 DEF Precedes
      <4> QED
        BY <4>2, <4>8 DEF a, b
    <3> QED
      BY <3>4, <3>5
  <2> QED
    BY <2>1, <2>2
<1> QED
  BY <1>1, LoopInvariance, PTL

\* Every variable of the loop keeps its type; in particular the best position
\* never points outside the candidates.
THEOREM TypeCorrect == Spec => []TypeOK
<1>1. LoopInv => TypeOK
  BY DEF LoopInv
<1> QED
  BY <1>1, LoopInvariance, PTL

=============================================================================
