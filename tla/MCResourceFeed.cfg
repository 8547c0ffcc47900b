SPECIFICATION Spec
CONSTANTS
  Agent = {a1, a2}
  NoAgent = NoAgent
  AttemptBudget = 3
  Drift = {"exited", ""}
  Resource = {r1}
  SystemTier = {r1}
  MaxItems = 1
  StatusDocs = {"plain", "unhealthy"}
  StatusPatches <- NoPatches
  MaxGeneration = 4
  MaxAttempts = 4
  MaxCalls = 2
INVARIANTS
  TypeOK
  NoOrphan
  ConvergedIsReal
  FeedWithinBudget
  SoleCustody
PROPERTIES
  KeepsContract
  ParkedUntilSpecChange
CHECK_DEADLOCK FALSE
