SPECIFICATION FairSpec
CONSTANTS
  Services <- TwoServices
  Granted = {"runtime"}
  From = 4
  To = 8
  EnvVars = {"AUTH_SETUP_ADDR", "AUTH_SETUP_CA_FILE"}
  Permission = {p1, p2}
  Key = {k1, k2, k3, k4}
  NoKey = NoKey
  NoFile = NoFile
  EmptyFile = EmptyFile
  BootMaxAttempts = 4
  MaxFaults = 3
INVARIANTS
  CreatedOnce
  CleanMeansInPlace
  WindowKeepsKeys
PROPERTIES
  BootConverges
  ApplyConverges
