--------------------------- MODULE MCFileStorage ---------------------------
(***************************************************************************)
(* Small instances of FileStorage for TLC.                                 *)
(***************************************************************************)
EXTENDS FileStorage, TLC

CONSTANTS agent, radio, udp, own, x, y

\* The agent saves bundles of this node, receivers those of others.
ComesApart == [t \in Tasks |-> ((agent :> {own}) @@ (radio :> {x, y}) @@ (udp :> {x}))[t] \cap Bundles]
Priorities == [b \in Bundles |-> ((own :> 1) @@ (x :> 0) @@ (y :> 2))[b]]
Lifetimes == [b \in Bundles |-> 1]
=============================================================================
