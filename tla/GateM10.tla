------------------------------ MODULE GateM10 -------------------------------
(***************************************************************************)
(* scripts/gate_m10.py: the console milestone. Every check returns with    *)
(* its first failure.                                                      *)
(***************************************************************************)
EXTENDS GateClauses, Sequences

check_test_and_fixture_matrix == << OrRaises(Stop) >>

check_make_and_ci_wiring == << OrRaises(Stop) >>

check_source_invariants == << OrRaises(Stop) >>

check_binaries_and_link_boundaries == << OrRaises(Stop) >>

(* A suite that exceeds its 900 seconds, or runs fewer tests than its       *)
(* floor, has failed.                                                      *)
run_suite(s, o) ==
    IF o.hang \/ o.code # 0 \/ o.ran # "enough" \/ o.skipped THEN "fail" ELSE "ok"

SUITES == << Python, Python, Python, Python, Python >>

main ==
    << check_test_and_fixture_matrix, check_make_and_ci_wiring,
       check_binaries_and_link_boundaries, check_source_invariants >>
=============================================================================
