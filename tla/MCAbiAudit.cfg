SPECIFICATION Spec
CONSTANTS
    Blocks <- MCBlocks
    MaxBlocks = 4
    Ways = {"plain", "unlinked", "bare", "data", "exempt"}
INVARIANTS AcceptedPreserves EveryExportIsAudited
PROPERTIES MacroCodeIsAccepted
CHECK_DEADLOCK FALSE
