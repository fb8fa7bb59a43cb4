------------------------------ MODULE MCEndpoint ------------------------------
(* Model values for checking Endpoint with TLC: three nodes on a machine   *)
(* with a loopback, a dead and two usable interfaces.                      *)
EXTENDS Endpoint, TLC

CONSTANTS n1, n2, n3

Types3 == n1 :> "srv" @@ n2 :> "raw" @@ n3 :> "node"
Addresses3 == n1 :> AnyAddress @@ n2 :> "b" @@ n3 :> "a"
Machine ==
  <<[addr |-> "lo", up |-> TRUE, loopback |-> TRUE, ipv4 |-> TRUE],
    [addr |-> "dead", up |-> FALSE, loopback |-> FALSE, ipv4 |-> TRUE],
    [addr |-> "a", up |-> TRUE, loopback |-> FALSE, ipv4 |-> TRUE],
    [addr |-> "b", up |-> TRUE, loopback |-> FALSE, ipv4 |-> TRUE]>>
OnePort == [net \in {0} |-> 2]
=============================================================================
