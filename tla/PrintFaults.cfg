SPECIFICATION Spec
CONSTANTS
  Heads = {0, 1}
  Files = {fileA}
  Cals = {calA}
  Shapes = {flat}
  None = None
  EarlyStart = FALSE
  RepeatPause = FALSE
  PickFails = {"start", "recover"}
  HandNames = {"default"}
SYMMETRY Interchangeable
INVARIANTS BodyMesh RecordExists
