SPECIFICATION Spec
CONSTANTS
  Request = {r1, r2}
  Client = {ann}
  Limit = 1
  Window = 1
  MaxDelay = 1
  MaxTime = 2
  Role = {"tutor"}
  Prompt = {""}
  AgentRow <- MCAgentRows
  FirstAgent <- MCFirstAgent
  Source = {1, 2}
  Hollow = {2}
  Fact = {"short", "long"}
  Cost <- MCCost
  Provider <- MCProviders
  Title = {"mine"}
  MaxSends = 3
  MaxOthers = 2
SYMMETRY Symmetry
CHECK_DEADLOCK FALSE
INVARIANTS RepliesTypeOK WindowLimit  InjectionFits MetadataKept
PROPERTY PrefixStable
