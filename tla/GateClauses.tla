---------------------------- MODULE GateClauses ----------------------------
(***************************************************************************)
(* What the checks of scripts/gate_m1.py to gate_m11.py and                *)
(* validate_repo.py are made of.  A check asks one thing after another of  *)
(* the sources, the build products and the output of tools.  What it asks, *)
(* and how well a search of a text answers it, is abstracted to the answer *)
(* yes or no; what the check does then is kept.  Consecutive questions     *)
(* with the same consequences are one clause, and a check is the sequence  *)
(* of its clauses.                                                         *)
(***************************************************************************)

(* On a no the check returns with the failure, reports it and goes on, or  *)
(* raises the exception main reports as the script's one failure.          *)
Stop == [then |-> "stop", raises |-> FALSE]
Go   == [then |-> "go", raises |-> FALSE]
Quit == [then |-> "quit", raises |-> FALSE]

(* A clause that reads a file, runs a tool or takes apart what it read     *)
(* where no handler is: it may as well end the script with a traceback.    *)
OrRaises(c) == [c EXCEPT !.raises = TRUE]

(***************************************************************************)
(* What a test suite run as a child process comes to: it may not end, and  *)
(* if it does it has an exit code, ran no test, some or at least as many   *)
(* as the gate asks for, and may have skipped one.                         *)
(***************************************************************************)
Outcomes == [hang : BOOLEAN, code : {0, 1}, ran : {"none", "few", "enough"},
             skipped : BOOLEAN]

Python == "python"
Native == "native"
=============================================================================
