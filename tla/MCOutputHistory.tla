--------------------------- MODULE MCOutputHistory --------------------------
(* Model values for checking OutputHistory and OutputRefinement with TLC.  *)
EXTENDS OutputHistory, OutputRefinement, TLC

OneUniverse == [p \in Ports |-> 0]

(* The controllers are interchangeable, and all properties are of single   *)
(* states and steps.                                                       *)
HostSymmetry == Permutations(Hosts)
=============================================================================
