\* A page imports, installs, removes and repairs beside the player; kills and damaged ROMs.
CONSTANTS
  a = a b = b page = page player = player
  NoFile = NoFile NoOp = NoOp NoCatalog = NoCatalog
  Roms = {a, b}
  Sessions = {a, b}
  Procs = {page, player}
  Does <- PageAndPlayer
  Offers <- SomeOffers
  Replies <- SomeReplies
  Bundled <- OldCatalogue
  Remote = TRUE
  Faults = {"kill", "rot"}
  MaxOps = 3
  MaxSessions = 1
SPECIFICATION Spec
INVARIANTS TypeOK EntryHasRom  HistoryKept 
PROPERTIES RepairComplete
CHECK_DEADLOCK FALSE
