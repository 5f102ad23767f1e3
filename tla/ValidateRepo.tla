---------------------------- MODULE ValidateRepo ----------------------------
(***************************************************************************)
(* scripts/validate_repo.py: the repository gate `make validate`. fail()   *)
(* raises and main reports the first failure; load_json turns what it      *)
(* cannot read into one. A text that is not UTF-8, and a document of an    *)
(* unexpected shape, end the script with an exception.                     *)
(***************************************************************************)
EXTENDS GateClauses, Sequences

check_layout == << Quit >>

check_version == << OrRaises(Quit) >>

check_license == << OrRaises(Quit) >>

check_template_markers == << OrRaises(Quit) >>

check_json_files == << Quit >>

check_examples == << OrRaises(Quit) >>

check_contract_fixtures == << OrRaises(Quit) >>

check_scripts == << OrRaises(Quit) >>

check_macro_namespace == << OrRaises(Quit) >>

check_size_and_binary_policy == << OrRaises(Quit) >>

check_status_disclosure == << OrRaises(Quit) >>

main ==
    << check_layout, check_version, check_license, check_template_markers,
       check_json_files, check_examples, check_contract_fixtures,
       check_scripts, check_macro_namespace, check_size_and_binary_policy,
       check_status_disclosure >>

SUITES == << >>
=============================================================================
