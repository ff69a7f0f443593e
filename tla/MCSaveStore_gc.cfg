\* One phone whose requests overlap with the collector: retries, crashes, failing disk
\* and database, uploads of a digest that is being collected.
CONSTANTS
  u1 = u1 c1 = c1 c2 = c2 s1 = s1 s2 = s2 h1 = h1 h2 = h2 d1 = d1 d2 = d2
  NoDigest = NoDigest NoHandler = NoHandler NoTask = NoTask Gc = Gc
  Users = {u1}
  Clients = {c1}
  ClientUser <- PhonesToU1
  KnownDevices = {c1}
  Saves = {s1}
  Owner <- SavesOfU1
  Rom <- OneRom
  Keep <- KeepOne
  Age <- AgeZero
  Digests = {d1, d2}
  Handlers = {h1, h2}
  Quota = 3
  IdemTTL = 1
  HeadGrace = 1
  BlobGrace = 1
  DueLimit = 2
  Traffic = {"upload", "timeout", "delete", "crash", "iofail"}
  MaxTasks = 2
  MaxTime = 3
SYMMETRY Symmetry
SPECIFICATION Spec
INVARIANTS TypeOK ContentKept RefCountsExact IInv
PROPERTIES ExactlyOnce
CHECK_DEADLOCK FALSE
