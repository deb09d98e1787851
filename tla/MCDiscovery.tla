---------------------------- MODULE MCDiscovery ----------------------------
(* Instance of Discovery for TLC: two nodes, the first of which changes its *)
(* IP address, and may come to have the one of the second.                  *)
EXTENDS Discovery, TLC

CONSTANTS n1, n2, x, y
IpsOfNodes == n1 :> {x, y} @@ n2 :> {y}
=============================================================================
