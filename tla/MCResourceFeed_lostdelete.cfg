SPECIFICATION Spec
CONSTANTS
  Agent = {a1, a2}
  NoAgent = NoAgent
  AttemptBudget = 2
  Drift = {"exited"}
  Resource = {r1}
  SystemTier = {r1}
  MaxItems = 1
  StatusDocs = {"plain"}
  StatusPatches <- NoPatches
  MaxGeneration = 3
  MaxAttempts = 3
  MaxCalls = 2
SYMMETRY Symmetry
PROPERTY TeardownSurvives
CHECK_DEADLOCK FALSE
