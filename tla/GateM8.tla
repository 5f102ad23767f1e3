------------------------------- MODULE GateM8 -------------------------------
(***************************************************************************)
(* scripts/gate_m8.py: the stdio supervision milestone. Every check        *)
(* returns with its first failure.                                         *)
(***************************************************************************)
EXTENDS GateClauses, Sequences

check_build_contains_the_supervisor == << OrRaises(Stop) >>

check_direct_argv_exec_without_a_shell == << OrRaises(Stop) >>

check_environment_is_constructed_from_the_allowlist ==
    << OrRaises(Stop) >>

check_m8_is_stdio_only == << OrRaises(Stop) >>

check_modern_and_legacy_adapters_are_separate == << OrRaises(Stop) >>

check_all_deadlines_are_monotonic == << OrRaises(Stop) >>

check_buffers_and_tables_are_bounded == << OrRaises(Stop) >>

check_no_mcp_policy_lives_in_c == << OrRaises(Stop) >>

check_readiness_and_tool_confirmation_are_wired == << OrRaises(Stop) >>

check_named_make_targets_are_focused == << OrRaises(Stop) >>

run_suite_by_status(s, o) ==
    IF o.hang THEN "raise" ELSE IF o.code # 0 THEN "fail" ELSE "ok"

(* A suite is stopped after 900 seconds, with an exception nobody handles.  *)
run_suite(s, o) ==
    CASE o.hang                                      -> "raise"
      [] ~o.hang /\ (o.code # 0 \/ o.ran = "none" \/ o.skipped) -> "fail"
      [] OTHER                                       -> "ok"

SUITES == << Python, Python, Python, Python, Python, Python >>

main ==
    << check_build_contains_the_supervisor,
       check_direct_argv_exec_without_a_shell,
       check_environment_is_constructed_from_the_allowlist,
       check_m8_is_stdio_only,
       check_modern_and_legacy_adapters_are_separate,
       check_all_deadlines_are_monotonic,
       check_buffers_and_tables_are_bounded,
       check_no_mcp_policy_lives_in_c,
       check_readiness_and_tool_confirmation_are_wired,
       check_named_make_targets_are_focused >>
=============================================================================
