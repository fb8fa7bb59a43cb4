------------------------- MODULE MCFirmwareTransfer -------------------------
(* Model values for checking FirmwareTransfer with TLC.                    *)
EXTENDS FirmwareTransfer, TLC

(* The controllers are interchangeable; only the run without liveness      *)
(* properties uses this.                                                   *)
ControllerSymmetry == Permutations(Controllers)
=============================================================================
