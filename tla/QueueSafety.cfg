SPECIFICATION HistoryFairSpec
CONSTANTS
  Job = {1, 2}
  Worker = {w1, w2}
  MaxAttempts = 2
  BatchSize = 2
INVARIANTS QueueTypeOK OverlapBounded
PROPERTIES ImplementsWorkQueue JobSettles
