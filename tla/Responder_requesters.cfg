\* Two controllers poll, program and query a node of each type, which answers after a delay or from its application.
SPECIFICATION Spec
CONSTANTS
  Hosts = {h1, h2}
  Self = Self
  NoHost = NoHost
  Broadcast = Broadcast
  NodeTypes = {"srv", "node", "raw"}
  PortAddrs = {3}
  Incoming <- AllPackets
  Followed = {"filefnreply", "diagdata", "rdm"}
  MaxDiagControllers = 4
  MaxDelay = 1
  MaxPostponed = 1
INVARIANTS AnswersGoToRequesters DiagnosticsShared
PROPERTIES PollIsAnswered
