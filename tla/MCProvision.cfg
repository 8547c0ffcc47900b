SPECIFICATION FairSpec
CONSTANTS
  Dep = {"auth", "secret"}
  Mode = "enforced"
  Request <- Requests
INVARIANTS
  NoPlaintext
  ReferenceResolves
  RenderedIsTyped
  HealthyWasSeen
PROPERTIES
  DependencyTracked
