SPECIFICATION Spec
CONSTANTS
  Installed = 3
  Orders <- AnyOrder
  Removable = {0}
  Headroom = 2
  MaxFaults = 2
INVARIANTS SelectedIsMounted DropsWhatItCarries PickupIsEmpty ReturnsToPart
PROPERTIES NothingFalls LiftKept
