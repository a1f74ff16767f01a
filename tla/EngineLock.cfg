SPECIFICATION LockFairSpec
CONSTANTS
  e1 = e1
  e2 = e2
  Engine = {e1, e2}
  None = None
  Orphan = Orphan
  Ttl = 6
  Interval = 1
  Late = 1
  MaxFails = 1
  MaxLockFaults = 3
INVARIANTS
  OneEngine
PROPERTIES
  NotTakenAway
  LoserStops
  EngineComesBack
