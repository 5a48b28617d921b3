SPECIFICATION MirrorSpec
CONSTANTS
  c1 = c1
  c2 = c2
  top = top
  bottom = bottom
  dark = dark
  light = light
  Rows = {top, bottom}
  Colours = {dark, light}
  Blank = Blank
  None = None
  Short = Short
  Beat = Beat
  Conns = {c1, c2}
  Buffer = 1
  LatePaint = FALSE
  MaxDraws = 2
  MaxSnaps = 1
  MaxConnects = 2
SYMMETRY Interchangeable
INVARIANTS LastFrameShown
PROPERTIES ShowsCaptured
CHECK_DEADLOCK FALSE
