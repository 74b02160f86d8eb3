SPECIFICATION Spec
CONSTANTS
  Field = {"pl1", "pl2", "pl4"}
  Requests <- MCRequests
  ByteRange = 3
  Platforms <- Every
  PowercapDrift <- MCPowercapDrift
  EcDrift = {1}
  None = None
INVARIANTS
  DoneIsProgrammed
  WriteFlagIsTrue
  SuccessShown
PROPERTIES
  ImplementsContract
