------------------------------- MODULE GateM9 -------------------------------
(***************************************************************************)
(* scripts/gate_m9.py: the MCP-over-HTTP milestone. The first check goes   *)
(* on over modules and exports that are missing and returns when the       *)
(* daemon is; the others return with their first failure.                  *)
(***************************************************************************)
EXTENDS GateClauses, Sequences

check_sources_and_build == << OrRaises(Go), Stop >>

check_transport_dispatch == << OrRaises(Stop) >>

check_modern_and_legacy_are_isolated == << OrRaises(Stop) >>

check_version_and_fallback_classification == << OrRaises(Stop) >>

check_one_epoll_driven_curl_engine == << OrRaises(Stop) >>

check_buffers_and_stream_cancellation == << OrRaises(Stop) >>

check_security_options_and_c_boundary == << OrRaises(Stop) >>

check_cache_ttl_and_partitioning == << OrRaises(Stop) >>

check_fixture_and_test_matrix == << OrRaises(Stop) >>

check_make_wiring == << OrRaises(Stop) >>

run_suite_unlimited(s, o) ==
    IF o.hang THEN "hang" ELSE
    IF o.code # 0 \/ o.ran # "enough" \/ o.skipped THEN "fail" ELSE "ok"

(* A suite that exceeds its 900 seconds, or runs fewer tests than its       *)
(* floor, has failed.                                                      *)
run_suite(s, o) ==
    IF o.hang \/ o.code # 0 \/ o.ran # "enough" \/ o.skipped THEN "fail" ELSE "ok"

SUITES == << Python, Python, Python, Python, Python >>

main ==
    << check_sources_and_build, check_transport_dispatch,
       check_modern_and_legacy_are_isolated,
       check_version_and_fallback_classification,
       check_one_epoll_driven_curl_engine,
       check_buffers_and_stream_cancellation,
       check_security_options_and_c_boundary,
       check_cache_ttl_and_partitioning, check_fixture_and_test_matrix,
       check_make_wiring >>
=============================================================================
