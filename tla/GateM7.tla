------------------------------- MODULE GateM7 -------------------------------
(***************************************************************************)
(* scripts/gate_m7.py: the routing milestone. Every check returns with its *)
(* first failure.                                                          *)
(***************************************************************************)
EXTENDS GateClauses, Sequences

check_oracle_is_not_reachable_from_the_product == << OrRaises(Stop) >>

check_fixtures_are_test_only == << OrRaises(Stop) >>

check_the_selector_is_pure == << OrRaises(Stop) >>

check_every_policy_is_implemented == << OrRaises(Stop) >>

check_the_breaker_uses_the_monotonic_clock == << OrRaises(Stop) >>

check_the_clock_out_parameter_is_never_misused == << OrRaises(Stop) >>

check_the_commit_barrier_is_first_and_final == << OrRaises(Stop) >>

check_every_retryable_class_is_mapped == << OrRaises(Stop) >>

check_the_concurrency_slot_has_one_release == << OrRaises(Stop) >>

(* A suite is stopped after 1800 seconds, with an exception nobody handles. *)
run_suite(s, o) ==
    CASE o.hang                                      -> "raise"
      [] ~o.hang /\ o.code # 0                       -> "fail"
      [] ~o.hang /\ o.code = 0 /\ (o.skipped \/ o.ran = "none") -> "fail"
      [] OTHER                                       -> "ok"

SUITES == << Python, Python, Python, Python, Python >>

main ==
    << check_oracle_is_not_reachable_from_the_product,
       check_fixtures_are_test_only, check_the_selector_is_pure,
       check_every_policy_is_implemented,
       check_the_breaker_uses_the_monotonic_clock,
       check_the_clock_out_parameter_is_never_misused,
       check_the_commit_barrier_is_first_and_final,
       check_every_retryable_class_is_mapped,
       check_the_concurrency_slot_has_one_release >>
=============================================================================
