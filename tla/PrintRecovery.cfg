SPECIFICATION Spec
CONSTANTS
  Heads = {0, 1}
  Files = {fileA, fileB}
  Cals = {calA, calB}
  Shapes = {flat}
  None = None
  EarlyStart = FALSE
  RepeatPause = FALSE
  PickFails = {}
  HandNames = {"default"}
SYMMETRY Interchangeable
INVARIANTS BodyDatum BodyMapping RecordFaithful RecoveryAcceptedOnce
