SPECIFICATION FairSpec
CONSTANTS
  Job = {1, 2}
  Worker = {w1}
  MaxAttempts = 2
  BatchSize = 1
  Thread = {t1}
  Request = {r1}
  MaxMessages = 4
  SerialSends = TRUE
  DeletesMayAbort = FALSE
  NoThread = nothread
PROPERTY TurnsExtracted
