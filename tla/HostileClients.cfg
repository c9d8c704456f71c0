SPECIFICATION Spec
CONSTANTS
  Job = {1, 2}
  Worker = {w1}
  MaxAttempts = 1
  BatchSize = 2
  Thread = {t1, t2}
  Request = {r1, r2}
  MaxMessages = 2
  SerialSends = FALSE
  DeletesMayAbort = TRUE
  NoThread = nothread
SYMMETRY RequestSymmetry
INVARIANT NoOrphanJob
