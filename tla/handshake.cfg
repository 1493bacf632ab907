SPECIFICATION FairSpec
CONSTANTS
  Password = {p, q}
  None = None
  MaxAuth = 2
INVARIANTS TypeOK NobodyMisreads
PROPERTIES KeepsAdmission HandshakeEnds
CHECK_DEADLOCK FALSE
