\* Two people, two accounts and two sessions, tokens that expire and are refreshed half
\* way, and jobs with two attempts, those of the second account in vain.
CONSTANTS
  ann = ann bob = bob h1 = h1 h2 = h2 NoOne = NoOne
  Subjects = {ann, bob}
  Handlers = {h1, h2}
  MaxAttempts = 2
  Broken = {2}
  Ttl = 2
  MaxUsers = 2
  MaxSessions = 2
  MaxNow = 2
SPECIFICATION Spec
INVARIANTS TypeOK AccountsClosed
PROPERTIES EndedStaysEnded DeletionsEnd
CHECK_DEADLOCK FALSE
