SPECIFICATION Spec
CONSTANTS
  Job = {1, 2}
  Worker = {w1, w2}
  MaxAttempts = 2
  BatchSize = 2
  Thread = {t1}
  Request = {r1}
  MaxMessages = 4
  SerialSends = TRUE
  DeletesMayAbort = FALSE
  NoThread = nothread
SYMMETRY Symmetry
INVARIANTS TypeOK NoMessageSkipped NoTurnLost CompletedCoversOlder MarksAfterExtraction
