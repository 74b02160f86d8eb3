SPECIFICATION Spec
CONSTANTS
  StandardReading <- MCStandardReading
  Amw0Reading <- NothingRead
  Limits = {{"pl4"}}
INVARIANTS
  BestIsShown
