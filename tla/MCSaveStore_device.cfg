\* The X-Device-ID a phone makes for itself is no row of devices.
CONSTANTS
  u1 = u1 c1 = c1 c2 = c2 s1 = s1 s2 = s2 h1 = h1 h2 = h2 d1 = d1 d2 = d2
  NoDigest = NoDigest NoHandler = NoHandler NoTask = NoTask Gc = Gc
  Users = {u1}
  Clients = {c1}
  ClientUser <- PhonesToU1
  KnownDevices = {}
  Saves = {s1}
  Owner <- SavesOfU1
  Rom <- OneRom
  Keep <- KeepOne
  Age <- AgeZero
  Digests = {d1, d2}
  Handlers = {h1}
  Quota = 3
  IdemTTL = 1
  HeadGrace = 1
  BlobGrace = 1
  DueLimit = 2
  Traffic = {"upload", "timeout"}
  MaxTasks = 2
  MaxTime = 1
SYMMETRY Symmetry
SPECIFICATION Spec
INVARIANTS NeverServerError
CHECK_DEADLOCK FALSE
