SPECIFICATION Spec
CONSTANTS
  UserName = {"ann", "root"}
  SourceName = {"f1", "f2"}
  AgentName = {"a1", "a2"}
  Thread = {1, 2, 3, 4, 5, 6}
  Title = {"T", "V", "W"}
  FactText = {"tea", "Tea", "-"}
  Key <- MCKey
  LegacyUsers <- MCUsers
  LegacyRoles <- MCRoles
  LegacySources <- MCSources
  LegacyAgents <- MCAgents
  LegacyLinks <- MCLinks
  LegacySessions <- MCSessions
  LegacyMessages <- MCMessages
  Late = 100
  OwnerName = ""
  AdminEmail = TRUE
  MaxRuns = 3
  MaxLive = 2
CHECK_DEADLOCK FALSE
INVARIANTS MigrationTypeOK  RunCompletes
 
