------------------------------ MODULE GateRun -------------------------------
(***************************************************************************)
(* One run of a gate script: main calls the checks in order, each check    *)
(* its clauses; a failure sets the sticky FAILED; then the suites run as   *)
(* child processes; the exit status tells whether anything failed.  Under  *)
(* `make gate-mN` the suites are targets of their own, made first, and the *)
(* script is run with --skip-suites.  How a clause is answered and what a  *)
(* suite comes to is the environment's choice.                             *)
(***************************************************************************)
EXTENDS GateClauses, Naturals, Sequences

CONSTANTS Gates,            \* the scripts
          Script,           \* of each, the checks main calls
          Suites,           \* of each, the suites it runs
          RunSuite(_, _, _),\* what the gate's run_suite makes of an outcome
          MaySkip,          \* the scripts with an option --skip-suites
          Timed             \* the scripts that put a limit on every suite

Clauses == [then : {"stop", "go", "quit"}, raises : BOOLEAN]

ASSUME ScriptAssumption ==
    /\ Script \in [Gates -> Seq(Seq(Clauses))]
    /\ Suites \in [Gates -> Seq({Python, Native})]
    /\ \A g \in Gates, s \in {Python, Native}, o \in Outcomes :
          RunSuite(g, s, o) \in {"ok", "fail", "quit", "raise", "hang"}

VARIABLES
    gate, skip,     \* the script, and whether make runs it
    ck, cl,         \* the check it is in and the clause it comes to
    sk,             \* the suite it comes to
    failed,         \* FAILED
    oks, passed,    \* checks that ran to their end, suites found good
    weak,           \* what was wrong with suites that were found good
    exit            \* "running", the exit status, "traceback" (a non-zero one),
                    \* "hung", or "make" (a target failed and make stopped)

vars == <<gate, skip, ck, cl, sk, failed, oks, passed, weak, exit>>

Init ==
    /\ gate \in Gates /\ skip \in IF gate \in MaySkip THEN BOOLEAN ELSE {FALSE}
    /\ ck = 1 /\ cl = 1 /\ sk = 1
    /\ failed = FALSE /\ oks = 0 /\ passed = 0 /\ weak = {}
    /\ exit = "running"

Checks == Script[gate]
Started == exit = "running" /\ (skip => sk > Len(Suites[gate]))
InCheck == Started /\ ck <= Len(Checks) /\ cl <= Len(Checks[ck])
Clause == Checks[ck][cl]

(* What a suite found good may have been short of; only unittest says that  *)
(* it skipped a test.                                                      *)
Weaknesses == {"status", "none", "few", "skipped"}
Weakness(s, o) ==
    (IF o.code # 0 THEN {"status"} ELSE {})
      \cup (IF o.ran = "enough" THEN {} ELSE {o.ran})
      \cup (IF s = Python /\ o.skipped THEN {"skipped"} ELSE {})

(* A suite as a target of make, which looks at its exit status only, has   *)
(* all the time in the world and knows of no number of tests.              *)
MakeTarget(o) ==
    /\ exit = "running" /\ skip /\ sk <= Len(Suites[gate])
    /\ exit' = IF o.hang THEN "hung" ELSE IF o.code # 0 THEN "make" ELSE exit
    /\ IF exit' = exit
         THEN /\ sk' = sk + 1 /\ passed' = passed + 1
              /\ weak' = weak \cup (Weakness(Suites[gate][sk], o) \ {"few"})
         ELSE UNCHANGED <<sk, passed, weak>>
    /\ UNCHANGED <<gate, skip, ck, cl, failed, oks>>

(* An exception where no handler is.                                       *)
Traceback ==
    /\ InCheck /\ Clause.raises
    /\ exit' = "traceback"
    /\ UNCHANGED <<gate, skip, ck, cl, sk, failed, oks, passed, weak>>

ClausePasses ==
    /\ InCheck
    /\ cl' = cl + 1
    /\ UNCHANGED <<gate, skip, ck, sk, failed, oks, passed, weak, exit>>

ClauseFailsSilently ==
    /\ InCheck
    /\ ck' = ck + 1 /\ cl' = 1
    /\ UNCHANGED <<gate, skip, sk, failed, oks, passed, weak, exit>>

(* fail() reports and remembers; it never returns from the check itself.   *)
ClauseFails ==
    /\ InCheck
    /\ failed' = TRUE
    /\ ck' = IF Clause.then = "stop" THEN ck + 1 ELSE ck
    /\ cl' = CASE Clause.then = "stop" -> 1
               [] Clause.then = "go"   -> cl + 1
               [] OTHER                -> cl
    /\ exit' = IF Clause.then = "quit" THEN "1" ELSE exit
    /\ UNCHANGED <<gate, skip, sk, oks, passed, weak>>

(* ok(): the check ran to its end, with or without failures on the way.    *)
CheckEnds ==
    /\ Started /\ ck <= Len(Checks) /\ cl > Len(Checks[ck])
    /\ ck' = ck + 1 /\ cl' = 1 /\ oks' = oks + 1
    /\ UNCHANGED <<gate, skip, sk, failed, passed, weak, exit>>

InSuites == exit = "running" /\ ck > Len(Checks) /\ ~skip /\ sk <= Len(Suites[gate])

SuiteEnds(o) ==
    /\ InSuites
    /\ LET verdict == RunSuite(gate, Suites[gate][sk], o)
       IN  /\ failed' = (failed \/ verdict \in {"fail", "quit"})
           /\ passed' = IF verdict = "ok" THEN passed + 1 ELSE passed
           /\ weak' = IF verdict = "ok" THEN weak \cup Weakness(Suites[gate][sk], o) ELSE weak
           /\ sk' = IF verdict \in {"ok", "fail"} THEN sk + 1 ELSE sk
           /\ exit' = CASE verdict = "quit"  -> "1"
                        [] verdict = "raise" -> "traceback"
                        [] verdict = "hang"  -> "hung"
                        [] OTHER             -> exit
    /\ UNCHANGED <<gate, skip, ck, cl, oks>>

Finish ==
    /\ exit = "running" /\ ck > Len(Checks) /\ sk > Len(Suites[gate])
    /\ exit' = IF failed THEN "1" ELSE "0"
    /\ UNCHANGED <<gate, skip, ck, cl, sk, failed, oks, passed, weak>>

Ended == exit # "running" /\ UNCHANGED vars

Next ==
    \/ Traceback \/ ClausePasses \/ ClauseFails
    \/ CheckEnds
    \/ \E o \in Outcomes : MakeTarget(o) \/ SuiteEnds(o)
    \/ Finish
    \/ Ended

Spec == Init /\ [][Next]_vars

(* The interpreter goes on, and a suite that can end does.                 *)
FairSpec == Spec /\ WF_vars(Next)
-----------------------------------------------------------------------------
(* A gate that exits 0 has run every check to its end, and it or make has  *)
(* found every suite good: no early return of a check, no suite's return   *)
(* and no exception leads to the line "gate passed".                       *)
PassIsComplete ==
    exit = "0" => oks = Len(Checks) /\ passed = Len(Suites[gate])

(* unittest exits 0 when it ran nothing or skipped everything: a suite a   *)
(* script itself counts as good has ended with status 0, has run tests, as *)
(* many as its floor from M9 on, and skipped none.  M3's parity suite is   *)
(* judged by its status alone.                                             *)
Tolerated(g) == CASE g = "m3"                   -> {"none", "few", "skipped"}
                  [] g \in {"m9", "m10", "m11"} -> {}
                  [] OTHER                      -> {"few"}
SuitesAreReal == ~skip => weak \subseteq Tolerated(gate)

(* The same of every green gate, however it was run: "a skip under the     *)
(* gate means the binary was not found" and fails it.                      *)
GreenMeansTested ==
    exit = "0" /\ gate \in MaySkip => weak \cap {"none", "skipped"} = {}

(* Whatever its checks meet and its suites do, a gate that limits them     *)
(* comes to an exit status.                                                *)
EveryGateEnds == (gate \in Timed /\ ~skip) ~> (exit \in {"0", "1", "traceback"})
=============================================================================
