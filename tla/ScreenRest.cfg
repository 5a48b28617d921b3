SPECIFICATION FairSpec
CONSTANTS
  c1 = c1
  top = top
  bottom = bottom
  dark = dark
  light = light
  Rows = {top, bottom}
  Colours = {dark, light}
  Blank = Blank
  None = None
  Short = Short
  Beat = Beat
  Conns = {c1}
  Buffer = 1
  LatePaint = FALSE
  MaxDraws = 2
  MaxSnaps = 1
  MaxConnects = 2
PROPERTIES FreshAtRest RestsUnwatched
CHECK_DEADLOCK FALSE
