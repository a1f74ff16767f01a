SPECIFICATION FairFanout
CONSTANTS
  btc = btc
  eth = eth
  c1 = c1
  c2 = c2
  Market = {btc, eth}
  Client = {c1, c2}
  MaxUpdates = 3
  MaxStops = 2
  Cap = 2
  Window = 2
  Count = 2
INVARIANTS
  ClientsShareTheCache
  CacheIsNotBehind
PROPERTIES
  GoesBackOnlyInReplay
  UpdatesArrive
