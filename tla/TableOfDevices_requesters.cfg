\* Two ports share an address, a table grows and takes two datagrams, one controller too many asks.
SPECIFICATION Spec
CONSTANTS
  u1 = u1
  u2 = u2
  Ports = {0, 1}
  AddressOf <- SharedAddress
  UidsAt <- TwoLines
  Hosts = {c1, c2, c3}
  NoHost = NoHost
  InitialSize = 1
  Increment = 1
  MaxUidCount = 1
  MaxRequesters = 2
  MaxFaults = 1
INVARIANTS TypeOK TableIsReported ViewHasNoHole AskersRemembered
PROPERTY ChangesAnnounced
SYMMETRY Symmetry
