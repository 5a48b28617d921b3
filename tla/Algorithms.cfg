SPECIFICATION Spec
CONSTANTS
  Bands <- SmallBands
  Percent = 70
  ConfigFiles = {a, b}
  Regions = {1, 2}
  Marked = {"x"}
  ConfigTexts <- SmallTexts
  Missing = Missing
  Unreadable = Unreadable
  PrintFails = FALSE
  Slots = {0, 1}
  Heats <- SmallHeats
  Lines <- SmallLines
  MaxLines = 3
  MaxStamp = 3
  NoFile = NoFile
  Unparsable = Unparsable
  Coarse = FALSE
INVARIANTS RunsAreReference UpdateSound CleanIsComplete NothingLost StatusOfFile
CHECK_DEADLOCK FALSE
