SPECIFICATION FairSpec
CONSTANTS
  Agent = {a1}
  NoAgent = NoAgent
  AttemptBudget = 1
  Drift = {"exited"}
  Subject = {}
  NoSubject = NoSubject
  Service = {"auth"}
  AppTier = {}
  EscalateAfter = 1
  Answers = {"none", "plain", "healthy"}
  SlowAgents = FALSE
  MaxFaults = 2
INVARIANTS
  OneEscalation
PROPERTIES
  TeardownUntouched
  StrandedIsRaised
  KeptAlive
