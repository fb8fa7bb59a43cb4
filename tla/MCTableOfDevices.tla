--------------------------- MODULE MCTableOfDevices ---------------------------
(* Model values for checking TableOfDevices with TLC.                      *)
EXTENDS TableOfDevices, TLC

CONSTANTS u1, u2

(* Two ports on one address, two devices on the line of the first.       *)
SharedAddress == 0 :> "a" @@ 1 :> "a"
TwoLines == 0 :> {u1, u2} @@ 1 :> {}

Symmetry == Permutations(Hosts) \cup Permutations({u1, u2})
=============================================================================
