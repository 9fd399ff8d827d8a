\* A coordinator fed by a worker with nested operators.
SPECIFICATION FairSpec
CONSTANTS
  qc = qc
  worker = worker
  NoThread = NoThread
  Main = Main
  Threads = {qc, worker}
  MaxDepth = 2
  Depth <- Mixed
  Feeder <- Parallel
  Compiles = {qc}
  MaxCalls = 2
  ChannelCap = 1
INVARIANTS TypeOK FlatBracketHoldsLock LockNotLeaked
PROPERTIES EveryCallReturns ServerStops
