\* Three nodes are created, joined, started, stopped and destroyed in any order, and send everything they can.
SPECIFICATION Spec
CONSTANTS
  n1 = n1
  n2 = n2
  n3 = n3
  Nodes = {n1, n2, n3}
  NoNode = NoNode
  Broadcast = Broadcast
  TypeOf <- Types3
  Preferred <- Addresses3
  AnyAddress = AnyAddress
  Interfaces <- Machine
  Sockets = {s1, s2}
  NoSocket = NoSocket
  Subscribers = {h1}
  PortsOfNet <- OnePort
INVARIANTS RingsSound SocketsOwned SentIsAccepted
CHECK_DEADLOCK FALSE
