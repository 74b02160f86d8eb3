\* The daemon's calls among those of other tools.
SPECIFICATION Spec
CONSTANTS
  Reg = {"FFAN", "MODE_CONTROL"}
  Byte = {1, 2}
  ProbeReg = "FFAN"
  Candidate <- Both
  Overrides = {None, "_SB.ECRR"}
  ForeignNumber = {1, 258}
  None = None
INVARIANTS
  ReadIsTrue
  PathAnswers
  WriteLands
