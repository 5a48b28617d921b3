SPECIFICATION FairSpec
CONSTANTS
  t1 = t1
  t2 = t2
  t3 = t3
  Threads = {t1, t2, t3}
  None = None
  Races = FALSE
  Moves = 1
  MaxAsks = 3
INVARIANTS GestureOnce FingerOwned
PROPERTY Answered
