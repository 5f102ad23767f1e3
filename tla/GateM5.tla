------------------------------- MODULE GateM5 -------------------------------
(***************************************************************************)
(* scripts/gate_m5.py: the HTTP milestone. Most of its checks report every *)
(* failure they meet and go on; what they cannot do without ends them.     *)
(***************************************************************************)
EXTENDS GateClauses, Sequences

check_linkage == << Stop, OrRaises(Go) >>

check_symbol_boundary == << Stop, OrRaises(Go) >>

check_leniency_coverage == << OrRaises(Stop), OrRaises(Go) >>

check_shim_is_an_adapter == << OrRaises(Go) >>

check_contract_documents_every_code == << OrRaises(Stop), Go >>

check_no_request_data_in_messages == << OrRaises(Stop), Go >>

(* unittest exits 0 when every test was skipped; there is no timeout.      *)
run_suite(s, o) ==
    CASE o.hang                                      -> "hang"
      [] ~o.hang /\ o.code # 0                       -> "fail"
      [] ~o.hang /\ o.code = 0 /\ (o.skipped \/ o.ran = "none") -> "fail"
      [] OTHER                                       -> "ok"

SUITES == << Python, Python, Python, Python, Python, Python >>

main ==
    << check_linkage, check_symbol_boundary, check_leniency_coverage,
       check_shim_is_an_adapter, check_contract_documents_every_code,
       check_no_request_data_in_messages >>
=============================================================================
