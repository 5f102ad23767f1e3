SPECIFICATION Spec
CONSTANTS
    Blocks <- FewBlocks
    MaxBlocks = 2
    Ways = {"plain", "declared"}
INVARIANT EveryExportIsAudited
CHECK_DEADLOCK FALSE
