\* Two operations at once on the saves of one game, one fault, one step of another device.
CONSTANTS
  p1 = p1 p2 = p2 battery = battery
  Keys = {battery}
  Procs = {p1, p2}
  Does = {"save", "forget", "wake", "delete", "keep", "use", "retry", "restore", "version", "other"}
  Faults = {"net", "disk", "kill", "scope", "refuse"}
  MaxMade = 4
  MaxBegun = 3
  MaxOther = 1
  MaxUpsets = 1
SPECIFICATION Spec
INVARIANTS TypeOK NothingForgotten NoBlindOverwrite SaveKept
SYMMETRY Symmetry
PROPERTIES DeletionNotUndone QueueKeepsNewest
CHECK_DEADLOCK FALSE
