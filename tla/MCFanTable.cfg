\* ApplyFanTable with four points: every byte can fail, firmware drifts.
SPECIFICATION Spec
CONSTANTS
  PointCount = 4
  Names <- SomeNames
  Files <- SomeFiles
  DryRuns = {TRUE, FALSE}
  DriftAddr <- SomeAddr
  MaxInterrupted = 1
  None = None
INVARIANTS
  TableIsProgrammed
  RetainedIsProgrammed
  ReservedBytesKeepTail
  StageTellsProgress
  CurvesRise
  OnlyUnusableRefused
PROPERTY
  ActivatedWhenComplete
