SPECIFICATION Spec
CONSTANTS
  Field = {"pl1", "pl2"}
  Requests <- OneOrTwo
  ByteRange = 3
  Platforms <- Unlimited
  PowercapDrift <- NoDrift
  EcDrift = {}
  None = None
INVARIANTS
  ShownLimitIsTheRegister
