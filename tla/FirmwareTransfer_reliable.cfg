\* Two controllers on a network that loses nothing; block numbers wrap.
SPECIFICATION FairSpec
CONSTANTS
  Controllers = {c1, c2}
  None = None
  Sizes = {1, 3, 7}
  BlockSize = 2
  Wrap = 2
  Uploads = 2
  FirmwareTimeout = 1
  Faults = {}
INVARIANTS TypeOK InstalledIntact SuccessIsReal
PROPERTY EveryUploadEnds
CHECK_DEADLOCK FALSE
