SPECIFICATION Spec
CONSTANTS
  Tenant = {"t0", "t1", "t2"}
  Project = {"p1", "p2"}
  Provider = {"v1", "v2"}
  Service = {"s1", "s2"}
  Agent = {"a1", "a2"}
  NoAgent = NoAgent
  Resource = {"r1", "r2"}
  SystemTenant = "t0"
  Name = {"n1", "x:y"}
  BadName = {"x:y"}
  Val = {"v1"}
  Seeds <- OneOfEach
  SystemService = {"n1"}
  MaxRequests = 2
  AttemptBudget = 2
  Drift = {}
  Subject = {}
  NoSubject = NoSubject
  PingAttempts = 2
  TLSFiles = {"cert", "key", "ca"}
  Caller = {"c1", "c2"}
  NoCaller = "nobody"
  Timeout = 1
  RefreshSkew = 4
  DefaultTTL = 4
  Grants <- ThreeGrants
INVARIANTS
  TokenOutlivesCall
  RefusedWroteNothing
  WritesNeedPermission
  FallbackOnlyWhenAbsent
PROPERTIES
  DeletedStaysDeleted
  FreshWriteKeepsTheRest
  Stops
  EveryCallAnswered
