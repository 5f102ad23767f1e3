SPECIFICATION Spec
CONSTANTS
  TargetLists <- MCTargetLists
  Cursors = {0, 1, 5}
INVARIANTS
  TypeOK
  ChoiceIsTheOracles
  ScanComputesSelect
  OnlyEligibleTargets
  ProbesAreLast
