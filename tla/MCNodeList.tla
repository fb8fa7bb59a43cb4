----------------------------- MODULE MCNodeList -----------------------------
(* Model values for checking NodeList with TLC.                            *)
EXTENDS NodeList, TLC

CONSTANTS a, b, c

(* "b" is a joined page of "a": it shares the address and does not carry   *)
(* the universe, "a" carries it on two ports.                              *)
JoinedIps == [n \in Nodes |-> IF n = c THEN "ip2" ELSE "ip1"]
TwoOfA == [n \in Nodes |-> IF n = a THEN 2 ELSE IF n = b THEN 0 ELSE 1]

OwnIps == [n \in Nodes |-> n]
OnePortEach == [n \in Nodes |-> 1]

(* No definition tells one address of the heap from another.               *)
CellSymmetry == Permutations(Cells)
=============================================================================
