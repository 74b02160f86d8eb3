\* Mode and fan boost of amw0, real and dry-run, with firmware at work.
SPECIFICATION Spec
CONSTANTS
  DryRuns = {TRUE, FALSE}
  Observed <- ObservedBytes
  None = None
INVARIANTS
  OtherHalfKept
  ModeIsProgrammed
  SuccessShown
  RecallIsCurrent
PROPERTIES
  ShadowFollowsControl
