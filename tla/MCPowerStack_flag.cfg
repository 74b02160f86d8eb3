SPECIFICATION Spec
CONSTANTS
  Field = {"pl1", "pl2"}
  Requests <- BothNamed
  ByteRange = 3
  Platforms <- Alone
  PowercapDrift <- NoDrift
  EcDrift = {}
  None = None
INVARIANTS
  FalseMeansUntouched
