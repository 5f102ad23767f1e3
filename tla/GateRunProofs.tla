--------------------------- MODULE GateRunProofs ----------------------------
(***************************************************************************)
(* For every list of checks and suites, every way a script may judge a     *)
(* suite and whatever the tree and the suites come to: the exit status 0   *)
(* means that everything ran and nothing failed.                           *)
(***************************************************************************)
EXTENDS MCGateRun, TLAPS

(* The types of a run: part of the inductive invariant.                    *)
TypeOK ==
    /\ gate \in Gates /\ skip \in BOOLEAN
    /\ ck \in Nat \ {0} /\ cl \in Nat \ {0} /\ sk \in Nat \ {0}
    /\ failed \in BOOLEAN /\ oks \in Nat /\ passed \in Nat
    /\ weak \in SUBSET Weaknesses
    /\ exit \in {"running", "0", "1", "traceback", "hung", "make"}

(* How far the run has come, and what it has counted on the way.  The      *)
(* counts are exact only while nothing has failed: a check that returns    *)
(* early and a suite found bad are passed over without being counted.      *)
InRange ==
    /\ ck <= Len(Checks) + 1
    /\ sk <= Len(Suites[gate]) + 1

Counted == ~failed => oks + 1 = ck /\ passed + 1 = sk

GreenIsEarned ==
    exit = "0" => ~failed /\ ck = Len(Checks) + 1 /\ sk = Len(Suites[gate]) + 1

IInv == TypeOK /\ InRange /\ Counted /\ GreenIsEarned
-----------------------------------------------------------------------------
(* The lists of a script have lengths.                                     *)
LEMMA Lengths ==
    ASSUME NEW g \in Gates
    PROVE  /\ Script[g] \in Seq(Seq(Clauses)) /\ Len(Script[g]) \in Nat
           /\ Suites[g] \in Seq({Python, Native}) /\ Len(Suites[g]) \in Nat
  <1>1. Script[g] \in Seq(Seq(Clauses)) /\ Suites[g] \in Seq({Python, Native})
    BY ScriptAssumption
  <1> QED BY <1>1

(* A script starts with nothing counted and nothing failed.                *)
LEMMA InitInv == Init => IInv
  <1> SUFFICES ASSUME Init PROVE IInv
    OBVIOUS
  <1>1. Len(Checks) \in Nat /\ Len(Suites[gate]) \in Nat
    BY Lengths DEF Init, Checks
  <1>2. TypeOK
    <2>1. skip \in BOOLEAN /\ failed \in BOOLEAN
      BY Zenon DEF Init
    <2>2. ck \in Nat \ {0} /\ cl \in Nat \ {0} /\ sk \in Nat \ {0}
      BY DEF Init
    <2>3. oks \in Nat /\ passed \in Nat
      BY DEF Init
    <2> QED BY <2>1, <2>2, <2>3 DEF Init, TypeOK
  <1> QED BY <1>1, <1>2 DEF Init, IInv, InRange, Counted, GreenIsEarned

(* What a suite may be short of is one of the weaknesses.                  *)
LEMMA WeaknessType ==
    ASSUME NEW s, NEW o \in Outcomes
    PROVE  Weakness(s, o) \subseteq Weaknesses
  BY DEF Weakness, Weaknesses, Outcomes

(* Every step keeps the variables in their types.                          *)
LEMMA TypeStep == TypeOK /\ [Next]_vars => TypeOK'
  <1> SUFFICES ASSUME TypeOK, [Next]_vars PROVE TypeOK'
    OBVIOUS
  <1> USE DEF TypeOK
  <1>1. CASE Traceback
    BY <1>1 DEF Traceback
  <1>2. CASE ClausePasses
    BY <1>2 DEF ClausePasses
  <1>3. CASE ClauseFails
    <2>1. ck' \in Nat \ {0} /\ cl' \in Nat \ {0}
      BY <1>3 DEF ClauseFails
    <2>2. failed' \in BOOLEAN
      BY <1>3, Zenon DEF ClauseFails
    <2> QED BY <1>3, <2>1, <2>2 DEF ClauseFails
  <1>4. CASE CheckEnds
    BY <1>4 DEF CheckEnds
  <1>5. ASSUME NEW o \in Outcomes, MakeTarget(o) PROVE TypeOK'
    <2>1. Weakness(Suites[gate][sk], o) \subseteq Weaknesses
      BY WeaknessType
    <2> QED BY <1>5, <2>1 DEF MakeTarget
  <1>6. ASSUME NEW o \in Outcomes, SuiteEnds(o) PROVE TypeOK'
    <2>1. Weakness(Suites[gate][sk], o) \subseteq Weaknesses
      BY WeaknessType
    <2> DEFINE verdict == RunSuite(gate, Suites[gate][sk], o)
    <2>2. failed' = (failed \/ verdict \in {"fail", "quit"})
      BY <1>6 DEF SuiteEnds
    <2>3. passed' \in Nat /\ sk' \in Nat \ {0}
      BY <1>6 DEF SuiteEnds
    <2>4. weak' \in SUBSET Weaknesses
      BY <1>6, <2>1 DEF SuiteEnds
    <2>5. exit' \in {"running", "0", "1", "traceback", "hung", "make"}
      BY <1>6 DEF SuiteEnds
    <2> QED BY <1>6, <2>2, <2>3, <2>4, <2>5 DEF SuiteEnds
  <1>7. CASE Finish
    BY <1>7 DEF Finish
  <1>8. CASE Ended
    BY <1>8 DEF Ended, vars
  <1>9. CASE UNCHANGED vars
    BY <1>9 DEF vars
  <1> QED BY <1>1, <1>2, <1>3, <1>4, <1>5, <1>6, <1>7, <1>8, <1>9 DEF Next

(* The lists are the same after a step: the script does not change.        *)
LEMMA SameGate == [Next]_vars => gate' = gate
  BY DEF Next, vars, Traceback, ClausePasses, ClauseFails, CheckEnds,
         MakeTarget, SuiteEnds, Finish, Ended

(* Every step keeps the counts and what the exit status 0 stands for.      *)
LEMMA StepInv == IInv /\ [Next]_vars => IInv'
  <1> SUFFICES ASSUME IInv, [Next]_vars PROVE IInv'
    OBVIOUS
  <1>t. TypeOK'
    BY TypeStep DEF IInv
  <1> DEFINE c == Len(Script[gate])
             n == Len(Suites[gate])
  <1>n. c \in Nat /\ n \in Nat
    BY Lengths DEF IInv, TypeOK
  <1>g. gate' = gate
    BY SameGate
  <1>i. /\ ck \in Nat \ {0} /\ sk \in Nat \ {0} /\ oks \in Nat /\ passed \in Nat
        /\ failed \in BOOLEAN
        /\ ck <= c + 1 /\ sk <= n + 1
        /\ ~failed => oks + 1 = ck /\ passed + 1 = sk
        /\ exit = "0" => ~failed /\ ck = c + 1 /\ sk = n + 1
    BY DEF IInv, TypeOK, InRange, Counted, GreenIsEarned, Checks
  <1> SUFFICES /\ ck' <= c + 1 /\ sk' <= n + 1
               /\ ~failed' => oks' + 1 = ck' /\ passed' + 1 = sk'
               /\ exit' = "0" => ~failed' /\ ck' = c + 1 /\ sk' = n + 1
    BY <1>t, <1>g DEF IInv, InRange, Counted, GreenIsEarned, Checks
  <1> HIDE DEF c, n
  <1> DEFINE Goal == /\ ck' <= c + 1 /\ sk' <= n + 1
                     /\ ~failed' => oks' + 1 = ck' /\ passed' + 1 = sk'
                     /\ exit' = "0" => ~failed' /\ ck' = c + 1 /\ sk' = n + 1
  <1>1. CASE Traceback
    BY <1>1, <1>i DEF Traceback
  <1>2. CASE ClausePasses
    BY <1>2, <1>i DEF ClausePasses
  <1>3. CASE ClauseFails
    <2>1. exit = "running" /\ ck <= c
      BY <1>3 DEF ClauseFails, InCheck, Started, Checks, c
    <2>2. exit' # "0" /\ failed' /\ ck' \in {ck, ck + 1}
      BY <1>3, <2>1 DEF ClauseFails
    <2> QED BY <1>3, <1>i, <1>n, <2>1, <2>2 DEF ClauseFails
  <1>4. CASE CheckEnds
    <2>1. exit = "running" /\ ck <= c
      BY <1>4 DEF CheckEnds, Started, Checks, c
    <2> QED BY <1>4, <1>i, <1>n, <2>1 DEF CheckEnds
  <1>5. ASSUME NEW o \in Outcomes, MakeTarget(o) PROVE Goal
    <2>1. exit = "running" /\ sk <= n
      BY <1>5 DEF MakeTarget, n
    <2>2. exit' # "0"
      BY <1>5, <2>1 DEF MakeTarget
    <2> QED BY <1>5, <1>i, <1>n, <2>1, <2>2 DEF MakeTarget
  <1>6. ASSUME NEW o \in Outcomes, SuiteEnds(o) PROVE Goal
    <2> DEFINE verdict == RunSuite(gate, Suites[gate][sk], o)
    <2>1. exit = "running" /\ sk <= n
      BY <1>6 DEF SuiteEnds, InSuites, n
    <2>2. exit' # "0"
      BY <1>6, <2>1 DEF SuiteEnds
    <2>3. failed' \/ (sk' = sk + 1 /\ passed' = passed + 1) \/ (sk' = sk /\ passed' = passed)
      BY <1>6 DEF SuiteEnds
    <2>4. sk' \in {sk, sk + 1} /\ (failed => failed')
      BY <1>6 DEF SuiteEnds
    <2> QED BY <1>6, <1>i, <1>n, <2>1, <2>2, <2>3, <2>4 DEF SuiteEnds
  <1>7. CASE Finish
    <2>1. ck > c /\ sk > n
      BY <1>7 DEF Finish, Checks, c, n
    <2> QED BY <1>7, <1>i, <1>n, <2>1 DEF Finish
  <1>8. CASE Ended
    BY <1>8, <1>i DEF Ended, vars
  <1>9. CASE UNCHANGED vars
    BY <1>9, <1>i DEF vars
  <1> QED BY <1>1, <1>2, <1>3, <1>4, <1>5, <1>6, <1>7, <1>8, <1>9 DEF Next

(* The invariant holds throughout.                                         *)
LEMMA Invariant == Spec => []IInv
  BY InitInv, StepInv, PTL DEF Spec
-----------------------------------------------------------------------------
(* For every list of checks and suites, a gate that exits 0 has run every  *)
(* check to its end and every suite was found good.                        *)
THEOREM PassComplete == Spec => []PassIsComplete
  <1>1. ASSUME IInv PROVE PassIsComplete
    <2>1. Len(Checks) \in Nat /\ Len(Suites[gate]) \in Nat
      BY <1>1, Lengths DEF IInv, TypeOK, Checks
    <2> QED BY <1>1, <2>1 DEF IInv, TypeOK, Counted, GreenIsEarned, PassIsComplete
  <1> QED BY Invariant, <1>1, PTL
-----------------------------------------------------------------------------
(* A suite the script counts as good is short of nothing but what the      *)
(* script tolerates.                                                       *)
SuitesAreJudged ==
    \A g \in Gates : \A k \in DOMAIN Suites[g] : \A o \in Outcomes :
        RunSuite(g, Suites[g][k], o) = "ok"
            => Weakness(Suites[g][k], o) \subseteq Tolerated(g)

(* The scripts of this tree: what each run_suite lets pass as good.        *)
TheirJudgment ==
    \A g \in Gates, s \in {Python, Native}, o \in Outcomes :
        RunSuite(g, s, o) = MCRunSuite(g, s, o)

LEMMA WhatIsGood ==
    ASSUME NEW g, NEW s \in {Python, Native}, NEW o \in Outcomes,
           MCRunSuite(g, s, o) = "ok"
    PROVE  Weakness(s, o) \subseteq Tolerated(g)
  <1>1. o.code \in {0, 1} /\ o.ran \in {"none", "few", "enough"}
    BY DEF Outcomes
  <1> USE <1>1 DEF MCRunSuite, Weakness, Tolerated
  <1>3. CASE g = "m3"
    BY <1>3 DEF M3!run_suite
  <1>4. CASE g = "m4"
    BY <1>4 DEF M4!run_suite
  <1>5. CASE g = "m5"
    BY <1>5 DEF M5!run_suite
  <1>6. CASE g = "m6"
    BY <1>6 DEF M6!run_suite
  <1>7. CASE g = "m7"
    BY <1>7 DEF M7!run_suite
  <1>8. CASE g = "m8"
    BY <1>8 DEF M8!run_suite
  <1>9. CASE g = "m9"
    BY <1>9 DEF M9!run_suite
  <1>10. CASE g = "m10"
    BY <1>10 DEF M10!run_suite
  <1>11. CASE g = "m11"
    BY <1>11 DEF M11!run_suite, M11!run_native_suite, M11!run_python_suite,
                 Python, Native, M11!Python, M11!Native
  <1> QED BY <1>3, <1>4, <1>5, <1>6, <1>7, <1>8, <1>9, <1>10, <1>11

LEMMA TheyJudge ==
    ASSUME TheirJudgment
    PROVE  SuitesAreJudged
  <1> SUFFICES ASSUME NEW g \in Gates, NEW k \in DOMAIN Suites[g], NEW o \in Outcomes,
                      RunSuite(g, Suites[g][k], o) = "ok"
               PROVE  Weakness(Suites[g][k], o) \subseteq Tolerated(g)
    BY DEF SuitesAreJudged
  <1>1. Suites[g] \in Seq({Python, Native})
    BY Lengths
  <1>2. Suites[g][k] \in {Python, Native}
    BY <1>1
  <1>3. MCRunSuite(g, Suites[g][k], o) = "ok"
    BY <1>2 DEF TheirJudgment
  <1> QED BY <1>2, <1>3, WhatIsGood

(* With run_suite as each script has it and any list of suites, a suite    *)
(* that ran nothing or too little, or skipped a test, is not found good,   *)
(* whatever became of the others.                                          *)
THEOREM SuitesReal ==
    ASSUME TheirJudgment
    PROVE  Spec => []SuitesAreReal
  <1>1. Init => SuitesAreReal
    BY DEF Init, SuitesAreReal
  <1>2. IInv /\ SuitesAreReal /\ [Next]_vars => SuitesAreReal'
    <2> SUFFICES ASSUME IInv, SuitesAreReal, [Next]_vars, ~skip'
                 PROVE  weak' \subseteq Tolerated(gate')
      BY DEF SuitesAreReal
    <2>1. gate' = gate
      BY SameGate
    <2>2. ASSUME NEW o \in Outcomes, MakeTarget(o) PROVE FALSE
      BY <2>2 DEF MakeTarget
    <2>3. ASSUME NEW o \in Outcomes, SuiteEnds(o)
          PROVE  weak' \subseteq Tolerated(gate)
      <3>1. weak \subseteq Tolerated(gate)
        BY <2>3 DEF SuiteEnds, SuitesAreReal
      <3>2. gate \in Gates /\ sk \in DOMAIN Suites[gate]
        <4>1. Suites[gate] \in Seq({Python, Native}) /\ Len(Suites[gate]) \in Nat
          BY Lengths DEF IInv, TypeOK
        <4> QED BY <4>1, <2>3 DEF IInv, TypeOK, SuiteEnds, InSuites
      <3>3. RunSuite(gate, Suites[gate][sk], o) = "ok"
              => Weakness(Suites[gate][sk], o) \subseteq Tolerated(gate)
        BY <3>2, TheyJudge DEF SuitesAreJudged
      <3>4. \/ weak' = weak
            \/ /\ RunSuite(gate, Suites[gate][sk], o) = "ok"
               /\ weak' = weak \cup Weakness(Suites[gate][sk], o)
        BY <2>3 DEF SuiteEnds
      <3> QED BY <3>1, <3>3, <3>4
    <2>4. CASE UNCHANGED <<weak, skip>>
      BY <2>1, <2>4 DEF SuitesAreReal
    <2> QED BY <2>1, <2>2, <2>3, <2>4
            DEF Next, vars, Traceback, ClausePasses, ClauseFails, CheckEnds, Finish, Ended
  <1> QED BY <1>1, <1>2, Invariant, PTL DEF Spec
=============================================================================
