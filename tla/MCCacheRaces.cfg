SPECIFICATION FairSpec
CONSTANTS
  k1 = k1 k2 = k2 r1 = r1 r2 = r2 r3 = r3 w1 = w1 w2 = w2 c = c c7 = c7
  Workers = {w1}
  Requests = {r1, r2}
  WorkerOf <- OneWorker
  Keys = {k1, k2}
  Namespaces = {c, c7}
  Under <- MCUnder
  IndexOf <- MCIndexOf
  Top <- MCTop
  Writes <- RaceWrites
  Faults = {}
  NoValue = NoValue
  IndexMax = 1
  PendingMax = 2
  UnlinkChunk = 1
  BreakerThreshold = 2
  MaxCommits = 2
  MaxFailures = 0
PROPERTY StaleEventuallyGone
