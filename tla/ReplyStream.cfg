SPECIFICATION FairSpec
CONSTANTS
  MaxChunks = 2
  MaxBeats = 1
CHECK_DEADLOCK FALSE
INVARIANTS ReadInOrder OutcomeTold
PROPERTY ResponseEnds
