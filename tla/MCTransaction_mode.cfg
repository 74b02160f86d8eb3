\* Profiles that platform_profile or amw0 takes, and the fan boost, which shares
\* amw0's control byte with them; liveness.
SPECIFICATION FairSpec
CONSTANTS
  office = office
  turbo = turbo
  table1 = table1
  watt1 = watt1
  watt2 = watt2
  Backend = {"standard", "amw0"}
  Ops = {"set-profile", "set-fan-boost"}
  PowerField = {}
  Mode = {office, turbo}
  FanTable = {table1}
  Byte = {watt1, watt2}
  Alien = Alien
  Unsafe = Unsafe
  TooLong = TooLong
  NoValue = NoValue
  BackendStage = {}
  BackendFailure = {"NOT_SUPPORTED"}
  ReadFailure = {"IO"}
  Probed <- AllFound
  Seed <- AmwSeed
  StandardDefault <- NoDefault
  DriftBound = 1
INVARIANTS
  SuccessReflectsRequest
  ViewsAgree
PROPERTIES
  Answered
