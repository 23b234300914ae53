SPECIFICATION Spec
CONSTANTS
  k1 = k1 k2 = k2 r1 = r1 r2 = r2 r3 = r3 w1 = w1 w2 = w2 c = c c7 = c7
  Workers = {w1}
  Requests = {r1, r2}
  WorkerOf <- OneWorker
  Keys = {k1}
  Namespaces = {c, c7}
  Under <- OneKeyUnder
  IndexOf <- MCIndexOf
  Top <- MCTop
  Writes <- OneKeyWrites
  Faults = {"get", "decode", "epoch", "exec", "execReply", "drop", "purge", "trim", "commitReply", "crash"}
  NoValue = NoValue
  IndexMax = 0
  PendingMax = 1
  UnlinkChunk = 1
  BreakerThreshold = 1
  MaxCommits = 2
  MaxFailures = 2
PROPERTY DeferredPurgeKept
INVARIANTS StaleIsOwed
