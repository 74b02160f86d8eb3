\* Power limits: several settings per command, one that both backends have and
\* one that only amw0 has.
SPECIFICATION Spec
CONSTANTS
  office = office
  turbo = turbo
  table1 = table1
  watt1 = watt1
  watt2 = watt2
  Backend = {"standard", "amw0"}
  Ops = {"set-power-limits"}
  PowerField = {"pl1", "pl4"}
  Mode = {office, turbo}
  FanTable = {table1}
  Byte = {watt1, watt2}
  Alien = Alien
  Unsafe = Unsafe
  TooLong = TooLong
  NoValue = NoValue
  BackendStage = {"write"}
  BackendFailure = {"IO"}
  ReadFailure = {"IO"}
  Probed <- AllOrNothing
  Seed <- AmwSeed
  StandardDefault <- NoDefault
  DriftBound = 1
SYMMETRY AnyWatt
INVARIANTS
  LiveIsCurrent
  NullsTellHowFar
PROPERTIES
  ImplementsService
