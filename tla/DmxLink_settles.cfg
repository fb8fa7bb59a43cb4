\* Three sequence numbers and three calls, so that the numbers wrap; the keepalive is slower than the fail-safe, as in the code.
SPECIFICATION FairSpec
CONSTANTS
  MaxLevel = 1
  SeqMax = 3
  Keepalive = 2
  FailsafeTimeout = 1
  SyncTimeout = 2
  MergeTimeout = 3
  None = None
  MaxCalls = 3
  MaxInFlight = 2
INVARIANT SequenceSound
PROPERTY Settles
