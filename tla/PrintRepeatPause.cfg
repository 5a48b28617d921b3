SPECIFICATION Spec
CONSTANTS
  Heads = {0, 1}
  Files = {fileA}
  Cals = {calA}
  Shapes = {flat}
  None = None
  EarlyStart = FALSE
  RepeatPause = TRUE
  PickFails = {}
  HandNames = {"default"}
INVARIANT BodyMapping
