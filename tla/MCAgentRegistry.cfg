SPECIFICATION FairSpec
CONSTANTS
  Subject = {s1, s2}
  NoSubject = NoSubject
  AgentId = {u1}
  EnforceBinding = TRUE
  PatchStatuses = {"", "online", "offline"}
  MaxHandlers = 2
INVARIANTS
  TypeOK
  OneCertificate
  OneIdentity
PROPERTY SilentGoesOffline
CHECK_DEADLOCK FALSE
