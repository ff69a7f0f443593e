\* Two jobs at once; commits and frames fail, the clock is set back.
CONSTANTS
  p1 = p1 p2 = p2
  Procs = {p1, p2}
  MaxGen = 2
  Delay = 2
  Faults = {"commit", "core", "clock"}
SPECIFICATION Spec
INVARIANTS TypeOK FinalSaved BlankNeverSaved 
PROPERTIES SavedOnceStill
CHECK_DEADLOCK FALSE
