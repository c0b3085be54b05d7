SPECIFICATION Spec
CONSTANTS
  None = None
  NoRow = NoRow
  Requests <- MCRequests
  Ask <- MCAsk
  Workloads <- MCWorkloads
  Seeds <- MCSeeds
  Members = {"ann", "bob"}
  Profile <- MCProfile
  StartAgents <- MCStartAgents
  StartProjects <- MCStartProjects
  Lower <- MCLower
  ValidNames = {"a", "b", "l"}
  Trajectories = {"t"}
  Modes = {"m", "n"}
  StartItems <- MCStartItems
INVARIANTS
  TypeOK
  KeysUnique
  ProjectsOutliveAgents
  BatchesAttributed
  ThreadsWhole
  SavedStays
  ReadWasListed
  TaggedUntilDetached
PROPERTIES
  RevokedStaysRevoked
CHECK_DEADLOCK FALSE
