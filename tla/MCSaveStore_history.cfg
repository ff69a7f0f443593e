\* One phone, two saves: uploads, restores and downloads while versions are pruned and a
\* deleted head is purged.
CONSTANTS
  u1 = u1 c1 = c1 c2 = c2 s1 = s1 s2 = s2 h1 = h1 h2 = h2 d1 = d1 d2 = d2
  NoDigest = NoDigest NoHandler = NoHandler NoTask = NoTask Gc = Gc
  Users = {u1}
  Clients = {c1}
  ClientUser <- PhonesToU1
  KnownDevices = {c1}
  Saves = {s1, s2}
  Owner <- SavesOfU1
  Rom <- OneRom
  Keep <- KeepOne
  Age <- AgeZero
  Digests = {d1, d2}
  Handlers = {h1}
  Quota = 3
  IdemTTL = 1
  HeadGrace = 0
  BlobGrace = 1
  DueLimit = 2
  Traffic = {"upload", "timeout", "restore", "download", "delete", "crash"}
  MaxTasks = 3
  MaxTime = 2
SYMMETRY Symmetry
SPECIFICATION Spec
INVARIANTS InFlightReadable
CHECK_DEADLOCK FALSE
