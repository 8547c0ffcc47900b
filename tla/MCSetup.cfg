SPECIFICATION FairSpec
CONSTANTS
  Key = {k1, k2, k3}
  NoKey = NoKey
  Service = {s1}
  Image = {i1}
  Env = {"docker", "kubernetes"}
  EnvPassword = TRUE
  DialFiles = {"ca"}
  MaxFaults = 3
INVARIANTS
  ProvisionedOnce
  ProvisioningOrder
  CachesStayTrue
PROPERTIES
  KeyNeverBlanked
  SubstrateImmutable
  SetupConverges
