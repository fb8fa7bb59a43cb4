\* Two ports, two controllers of which one feeds both, ArtSync, ArtNzs, fairness.
SPECIFICATION LiveSpec
CONSTANTS
  h1 = h1
  h2 = h2
  PortCount = 2
  UniverseOf <- OwnUniverse
  Hosts = {h1, h2}
  None = None
  Physicals = {0}
  MaxLevel = 1
  MergeTimeout = 3
  FailsafeTimeout = 1
  SyncTimeout = 2
  Commands = {}
  NzsUniverses = {0}
  ReplyOnChange = FALSE
PROPERTIES StagedReachesOutput LossIsNoticed
