\* Calls of the application and programming packets in every order, five changes long, with stops and starts between.
SPECIFICATION Spec
CONSTANTS
  NumPorts = 1
  Ports <- AllPorts
  NodeTypes = {"node", "srv"}
  Addressings <- AddressPackets
  IpProgs <- IpPackets
  NetArgs = {0, 1, 128}
  SubnetArgs = {0, 18}
  PortArgs = {0, 2, 16}
  Names <- SomeNames
  Address0 = "a1"
  Mask0 = "m1"
  NoGateway = "g0"
  None = None
  MaxChanges = 5
INVARIANTS PortsFollowSwitches ProgrammingHolds AnnouncedCurrent
