--------------------------- MODULE MCMcpSupervisor ---------------------------
(* Small instances of McpSupervisor.                                         *)
EXTENDS McpSupervisor

Config(enabled, mode, legacy) ==
  [enabled |-> enabled, mode |-> mode, legacy |-> legacy]

\* A server that is restarted after a failure and may be legacy, one that is
\* never restarted and may not, and a disabled one.
MCConfigs ==
  {Config(TRUE, "never", FALSE), Config(TRUE, "on_failure", TRUE),
   Config(FALSE, "always", TRUE)}

\* Tools, and one list for the two optional ones.
MCLists == <<"tools", "prompts">>

\* For liveness: a server that is always restarted, and tools alone.
LiveConfigs == {Config(TRUE, "always", TRUE)}
OneList     == <<"tools">>
=============================================================================
