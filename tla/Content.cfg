SPECIFICATION ContentSpec
CONSTANTS
  Sources <- MCSources
  Inputs <- MCInputs
  Limit = 4
INVARIANTS TextKept WindowsSound SlicesFaithful
PROPERTIES ContentPrepared
