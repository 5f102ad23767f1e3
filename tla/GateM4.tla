------------------------------- MODULE GateM4 -------------------------------
(***************************************************************************)
(* scripts/gate_m4.py: the storage milestone. The first failure ends the   *)
(* script; a native run that exceeds its 600 seconds raises what nobody    *)
(* handles.                                                                *)
(***************************************************************************)
EXTENDS GateClauses, Sequences

built == << Quit >>

run_assembly == << OrRaises(Quit) >>

check_single_writer == << OrRaises(Quit) >>

check_tui_does_not_link_sqlite == << OrRaises(Quit) >>

check_no_sql_string_building == << OrRaises(Quit) >>

check_migration_statement_coverage == << OrRaises(Quit) >>

(* run_python                                                              *)
run_suite(s, o) ==
    CASE o.hang -> "raise"
      [] ~o.hang /\ (o.code # 0 \/ o.skipped \/ o.ran = "none") -> "quit"
      [] OTHER -> "ok"

SUITES == << Python >>

main ==
    << built, run_assembly, check_migration_statement_coverage, run_assembly,
       run_assembly, run_assembly, check_single_writer,
       check_tui_does_not_link_sqlite, check_no_sql_string_building >>
=============================================================================
