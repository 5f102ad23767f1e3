------------------------------ MODULE GateM11 -------------------------------
(***************************************************************************)
(* scripts/gate_m11.py: the security and recovery milestone. Every check   *)
(* returns with its first failure.                                         *)
(***************************************************************************)
EXTENDS GateClauses, Sequences

check_required_assets_and_build == << OrRaises(Stop) >>

check_structured_redaction_and_diagnostics == << OrRaises(Stop) >>

check_auth_permissions_and_audit == << OrRaises(Stop) >>

check_backup_restore_and_policy_boundary == << OrRaises(Stop) >>

check_shutdown_and_crash_contracts == << OrRaises(Stop) >>

check_test_and_fuzz_matrix == << OrRaises(Stop) >>

check_make_wiring == << OrRaises(Stop) >>

run_python_suite(o) ==
    IF o.hang \/ o.code # 0 \/ o.ran # "enough" \/ o.skipped THEN "fail" ELSE "ok"

(* The native runner's summary has no word for a skipped test.             *)
run_native_suite(o) ==
    IF o.hang \/ o.code # 0 \/ o.ran # "enough" THEN "fail" ELSE "ok"

run_suite(s, o) ==
    IF s = Native THEN run_native_suite(o) ELSE run_python_suite(o)

SUITES == << Native, Native, Native, Native,
             Python, Python, Python, Python, Python, Python >>

main ==
    << check_required_assets_and_build,
       check_structured_redaction_and_diagnostics,
       check_auth_permissions_and_audit,
       check_backup_restore_and_policy_boundary,
       check_shutdown_and_crash_contracts, check_test_and_fuzz_matrix,
       check_make_wiring >>
=============================================================================
