------------------------------- MODULE GateM6 -------------------------------
(***************************************************************************)
(* scripts/gate_m6.py: the upstream milestone. Every check but one returns *)
(* with its first failure.                                                 *)
(***************************************************************************)
EXTENDS GateClauses, Sequences

check_no_second_event_loop == << OrRaises(Stop) >>

check_shim_is_an_adapter == << OrRaises(Go), Stop >>

check_every_transfer_option_is_stated == << OrRaises(Stop) >>

check_tls_verification_is_not_configurable_off == << OrRaises(Stop) >>

check_no_client_header_is_forwarded == << OrRaises(Stop) >>

check_commit_point_is_recorded == << OrRaises(Stop) >>

check_contract_documents_every_code == << OrRaises(Stop) >>

check_upstream_classes_are_documented == << OrRaises(Stop) >>

check_ordinals_are_asserted_at_startup == << OrRaises(Stop) >>

check_upstream_descriptors_are_not_closed_by_us == << OrRaises(Stop) >>

run_suite(s, o) ==
    CASE o.hang                                      -> "hang"
      [] ~o.hang /\ o.code # 0                       -> "fail"
      [] ~o.hang /\ o.code = 0 /\ (o.skipped \/ o.ran = "none") -> "fail"
      [] OTHER                                       -> "ok"

SUITES == << Python, Python, Python, Python >>

main ==
    << check_no_second_event_loop, check_shim_is_an_adapter,
       check_every_transfer_option_is_stated,
       check_tls_verification_is_not_configurable_off,
       check_no_client_header_is_forwarded, check_commit_point_is_recorded,
       check_contract_documents_every_code,
       check_upstream_classes_are_documented,
       check_ordinals_are_asserted_at_startup,
       check_upstream_descriptors_are_not_closed_by_us >>
=============================================================================
