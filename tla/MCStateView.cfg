SPECIFICATION Spec
CONSTANTS
  StandardReading <- MCStandardReading
  Amw0Reading <- MCAmw0Reading
  Limits = {{"pl4"}}
INVARIANTS
  AttributionIsTrue
  ThermalIsHonest
  SummariesAreTrue
  LiveIsShown
  SensorsFit
