------------------------------- MODULE GateM1 -------------------------------
(***************************************************************************)
(* scripts/gate_m1.py: the toolchain milestone. Its checks raise           *)
(* GateError, which main reports, so the first failure is the script's     *)
(* only one; a command that exceeds its 60 seconds, and a file that cannot *)
(* be read, raise what main does not handle.                               *)
(***************************************************************************)
EXTENDS GateClauses, Sequences

need_tool == << OrRaises(Quit) >>

check_version_and_help == << OrRaises(Quit) >>

check_terminal_mode_preserved == << OrRaises(Quit) >>

check_symbols == << OrRaises(Quit) >>

check_link_security == << OrRaises(Quit) >>

check_no_linker_warnings == << OrRaises(Quit) >>

check_ci_uses_make == << OrRaises(Quit) >>

check_artifacts_untracked == << OrRaises(Quit) >>

main ==
    << need_tool, check_version_and_help, check_terminal_mode_preserved,
       check_symbols, check_link_security, check_no_linker_warnings,
       check_ci_uses_make, check_artifacts_untracked >>

SUITES == << >>
=============================================================================
