\* The app is killed after the server has accepted a save, before its task is complete.
CONSTANTS
  p1 = p1 p2 = p2 battery = battery
  Keys = {battery}
  Procs = {p1, p2}
  Does = {"save", "wake"}
  Faults = {"kill"}
  MaxMade = 1
  MaxBegun = 2
  MaxOther = 0
  MaxUpsets = 1
SYMMETRY Symmetry
SPECIFICATION Spec
INVARIANTS NoFalseConflict
CHECK_DEADLOCK FALSE
