SPECIFICATION BothSpec
CONSTANTS
  Proc = {p1, p2, p3}
  Token = {k1, k2, k3, k4}
  NoToken = NoToken
  Free = Free
  Orphan = Orphan
  LockTTL = 10
  TouchEvery = 3
  TouchMax = 2
  Patience = 2
  Faults = {"store", "crash"}
  LapsingProc = {p1, p2}
  LapsingToken = {k1, k2, k3}
  LapsingFaults = {"store", "crash", "touch", "stall", "evict"}
INVARIANTS TypeOK Mutex
PROPERTIES RefinesLeaseLock OrphanFreed CallReturns NobodyElsesLapsing
