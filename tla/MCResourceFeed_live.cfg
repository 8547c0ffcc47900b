SPECIFICATION FairSpec
CONSTANTS
  Agent = {a1}
  NoAgent = NoAgent
  AttemptBudget = 2
  Drift = {}
  Resource = {r1, r2}
  SystemTier = {}
  MaxItems = 1
  StatusDocs = {"plain"}
  StatusPatches <- NoPatches
  MaxGeneration = 1
  MaxAttempts = 2
  MaxCalls = 2
PROPERTY Settles
CHECK_DEADLOCK FALSE
