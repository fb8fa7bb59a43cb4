\* Packets are duplicated and reordered, sends and allocations fail, nodes are forgotten.
SPECIFICATION Spec
CONSTANTS
  Controllers = {c1, c2}
  None = None
  Sizes = {5}
  BlockSize = 2
  Wrap = 2
  Uploads = 1
  FirmwareTimeout = 0
  Faults = {"duplicate", "send_fails", "no_memory", "forget"}
INVARIANTS WritesInsideImage OneControllerPerImage
SYMMETRY ControllerSymmetry
CHECK_DEADLOCK FALSE
