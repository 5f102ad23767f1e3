----------------------------- MODULE MCGateRun ------------------------------
(* The gates of the repository for TLC.                                    *)
EXTENDS GateRun

M1 == INSTANCE GateM1
M3 == INSTANCE GateM3
M4 == INSTANCE GateM4
M5 == INSTANCE GateM5
M6 == INSTANCE GateM6
M7 == INSTANCE GateM7
M8 == INSTANCE GateM8
M9 == INSTANCE GateM9
M10 == INSTANCE GateM10
M11 == INSTANCE GateM11
Repo == INSTANCE ValidateRepo

MCScript ==
    [m1 |-> M1!main, m3 |-> M3!main, m4 |-> M4!main, m5 |-> M5!main,
     m6 |-> M6!main, m7 |-> M7!main, m8 |-> M8!main, m9 |-> M9!main,
     m10 |-> M10!main, m11 |-> M11!main, repo |-> Repo!main]
MCSuites ==
    [m1 |-> M1!SUITES, m3 |-> M3!SUITES, m4 |-> M4!SUITES, m5 |-> M5!SUITES,
     m6 |-> M6!SUITES, m7 |-> M7!SUITES, m8 |-> M8!SUITES, m9 |-> M9!SUITES,
     m10 |-> M10!SUITES, m11 |-> M11!SUITES, repo |-> Repo!SUITES]
MCRunSuite(g, s, o) ==
    CASE g = "m3"  -> M3!run_suite(s, o)
      [] g = "m4"  -> M4!run_suite(s, o)
      [] g = "m5"  -> M5!run_suite(s, o)
      [] g = "m6"  -> M6!run_suite(s, o)
      [] g = "m7"  -> M7!run_suite(s, o)
      [] g = "m8"  -> M8!run_suite(s, o)
      [] g = "m9"  -> M9!run_suite(s, o)
      [] g = "m10" -> M10!run_suite(s, o)
      [] g = "m11" -> M11!run_suite(s, o)
      [] OTHER     -> "fail"
=============================================================================
