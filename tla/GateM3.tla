------------------------------- MODULE GateM3 -------------------------------
(***************************************************************************)
(* scripts/gate_m3.py: the configuration milestone, checked by running     *)
(* `asmflowd --check-config` on documents. A run that exceeds its limit    *)
(* raises an exception nobody handles; the first failure ends the script.  *)
(***************************************************************************)
EXTENDS GateClauses, Sequences

built == << Quit >>

check_examples_load == << OrRaises(Quit) >>

check_invalid_fixtures == << OrRaises(Quit) >>

check_unknown_key_policy == << OrRaises(Quit) >>

check_plaintext_refused == << OrRaises(Quit) >>

check_missing_secret_fails == << OrRaises(Quit) >>

check_rejection_is_side_effect_free == << OrRaises(Quit) >>

check_hash_is_stable == << OrRaises(Quit) >>

check_json_bounds == << OrRaises(Quit) >>

check_reload_soak == << OrRaises(Quit) >>

(* check_parity: the suite's exit status is all that is read.              *)
run_suite(s, o) ==
    IF o.hang THEN "raise" ELSE IF o.code # 0 THEN "quit" ELSE "ok"

SUITES == << Python >>

main ==
    << built, check_examples_load, check_invalid_fixtures,
       check_unknown_key_policy, check_plaintext_refused,
       check_missing_secret_fails, check_rejection_is_side_effect_free,
       check_hash_is_stable, check_json_bounds, check_reload_soak >>
=============================================================================
