SPECIFICATION Spec
CONSTANTS
  Agent = {a1}
  NoAgent = NoAgent
  AttemptBudget = 1
  Drift = {"exited"}
  Subject = {}
  NoSubject = NoSubject
  Service = {"auth"}
  AppTier = {}
  EscalateAfter = 1
  Answers = {"none", "plain", "healthy"}
  SlowAgents = TRUE
  MaxFaults = 3
INVARIANT NotResurrected
