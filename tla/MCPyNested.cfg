\* The same threads; what the comments say of nested operators.
SPECIFICATION Spec
CONSTANTS
  qc = qc
  worker = worker
  NoThread = NoThread
  Main = Main
  Threads = {qc, worker}
  MaxDepth = 2
  Depth <- Mixed
  Feeder <- Parallel
  Compiles = {qc}
  MaxCalls = 2
  ChannelCap = 1
INVARIANTS BracketHoldsLock
