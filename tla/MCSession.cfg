\* A profile apply, a mode change and a reader against one daemon.
SPECIFICATION Spec
CONSTANTS
  applier = applier
  setter = setter
  reader = reader
  Client = {applier, setter, reader}
  Commands <- TwoPartsAndOne
  Method = {"set-mode", "set-power-limits"}
  Outcome = {"OK", "NOT_SUPPORTED"}
  Local = {"NOT_FOUND"}
  Unsent = {"NOT_FOUND"}
  Readback = {"set-mode"}
  Nobody = Nobody
INVARIANTS
  AppliedInOrder
  NoOvertaking
  CacheIsRecent
PROPERTIES
  OnlyGranted
  UserBusServed
  ImplementsCalls
