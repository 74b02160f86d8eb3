\* SetProfile and SetMode on every pairing of the two backends.
SPECIFICATION Spec
CONSTANTS
  Machines <- Every
  Names <- AllNames
  None = None
INVARIANTS
  DoneIsProgrammed
  OneBackendWritten
  OnlyUnknownRefused
PROPERTIES
  ImplementsContract
