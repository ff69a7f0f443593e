\* The sync service updates the manifest while the player commits or removes.
CONSTANTS
  player = player sync = sync NoFile = NoFile NoOp = NoOp
  Procs = {player, sync}
  Does <- PlayerAndSync
  Faults = {"kill", "io", "read"}
  MaxCommits = 3
  MaxCloud = 1
SPECIFICATION Spec
INVARIANTS TypeOK LoadFresh KeptOnDisk
PROPERTIES RevisionsSurviveOneCut
CHECK_DEADLOCK FALSE
