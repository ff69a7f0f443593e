\* Two phones; the head is deleted, purged and made again, or the account is deleted.
CONSTANTS
  u1 = u1 c1 = c1 c2 = c2 s1 = s1 s2 = s2 h1 = h1 h2 = h2 d1 = d1 d2 = d2
  NoDigest = NoDigest NoHandler = NoHandler NoTask = NoTask Gc = Gc
  Users = {u1}
  Clients = {c1, c2}
  ClientUser <- PhonesToU1
  KnownDevices = {c1, c2}
  Saves = {s1}
  Owner <- SavesOfU1
  Rom <- OneRom
  Keep <- KeepOne
  Age <- AgeZero
  Digests = {d1, d2}
  Handlers = {h1}
  Quota = 3
  IdemTTL = 9
  HeadGrace = 0
  BlobGrace = 9
  DueLimit = 2
  Traffic = {"upload", "timeout", "delete", "account"}
  MaxTasks = 2
  MaxTime = 1
SYMMETRY Symmetry
SPECIFICATION Spec
INVARIANTS HeadCurrent AckedIsStored DeletedAccountEmpty
PROPERTIES NoSilentOverwrite
CHECK_DEADLOCK FALSE
