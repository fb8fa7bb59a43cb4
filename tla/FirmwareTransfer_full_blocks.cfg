\* An image of exactly two full blocks (refuted).
SPECIFICATION FairSpec
CONSTANTS
  Controllers = {c1}
  None = None
  Sizes = {4}
  BlockSize = 2
  Wrap = 256
  Uploads = 1
  FirmwareTimeout = 1
  Faults = {}
PROPERTY EveryUploadEnds
CHECK_DEADLOCK FALSE
