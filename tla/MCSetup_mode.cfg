SPECIFICATION Spec
CONSTANTS
  Key = {k1, k2, k3}
  NoKey = NoKey
  Service = {s1}
  Image = {i1}
  Env = {"docker", "Docker"}
  EnvPassword = TRUE
  DialFiles = {"ca"}
  MaxFaults = 0
INVARIANT
  BootsAgain
