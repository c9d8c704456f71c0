SPECIFICATION Spec
CONSTANTS
  Fact = {f1, f2}
  Request = {q1}
  Worker = {w1, w2}
  PageSize = 1
  MaxTurns = 2
SYMMETRY Symmetry
CHECK_DEADLOCK FALSE
INVARIANTS MemoryTypeOK ForgetComplete 
PROPERTY ShownInOrder
