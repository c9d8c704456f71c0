SPECIFICATION Spec
CONSTANTS
  RoleId = {r1, r2}
  SourceId = {k1}
  AgentId = {a1, a2}
  Key = {x, y}
  File = {f1, f2}
  None = None
  Slot = {s1, s2}
  MaxRequests = 5
  SeedRoles = {x}
  SeedSources = {x}
  SeedAgent = x
  SeedRole = x
  SeedLinks = {x}
SYMMETRY Symmetry
CHECK_DEADLOCK FALSE
INVARIANTS CatalogTypeOK  NoOrphanFiles
 
