SPECIFICATION ClientFairSpec
CONSTANTS
  Thread = {t1, t2}
  Op = {o1, o2, o3}
  Nothing = nothing
  MaxStored = 2
CHECK_DEADLOCK FALSE
INVARIANTS ClientTypeOK OneLiveStream BoxFollowsStream ShowsSelected
PROPERTY BoxComesBack
