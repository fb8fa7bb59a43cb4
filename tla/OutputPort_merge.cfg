\* One port, three controllers, ArtSync, ArtNzs, merge commands and a recorded scene.
SPECIFICATION HistorySpec
CONSTANTS
  PortCount = 1
  UniverseOf <- OneUniverse
  Hosts = {h1, h2, h3}
  None = None
  Physicals = {0}
  MaxLevel = 1
  MergeTimeout = 3
  FailsafeTimeout = 1
  SyncTimeout = 2
  Commands = {"CANCEL", "MERGE_LTP_0", "MERGE_HTP_0", "DIRECTION_0", "FAIL_RECORD", "FAIL_SCENE"}
  NzsUniverses = {0}
  ReplyOnChange = TRUE
INVARIANTS TypeOK SourcesDistinct DualSourceFlagged StagedOnlyInSyncMode MergesAnnounced SlotHoldsLatest
PROPERTIES LiveSourcesKept SyncHoldsOutput FailsafeHeld MergePromise
SYMMETRY HostSymmetry
