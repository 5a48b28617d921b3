SPECIFICATION Spec
CONSTANTS
  A = A
  B = B
  g1 = g1
  r1 = r1
  Slots = {A, B}
  Good = {g1}
  Stock = {r1}
  Torn = Torn
  Absent = Absent
  None = None
  Faults = {}
SYMMETRY Interchangeable
INVARIANT MarkerTrusted
PROPERTIES RecoversTrusted PublishedAfterSync
