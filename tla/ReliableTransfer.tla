-------------------------- MODULE ReliableTransfer --------------------------
(***************************************************************************)
(* What routing relies on when it hands bundles to the convergence layer:  *)
(* the neighbour stores whole bundles of ours and nothing else, and a      *)
(* bundle that is reported as sent has been stored before.                 *)
(***************************************************************************)
CONSTANT Bundles

VARIABLES
  stored,   \* what the neighbour's dispatching has taken
  reported  \* the bundles reported as ROUTING_STATUS_OK

Init == stored = {} /\ reported = {}

Store(b) == stored' = stored \cup {b} /\ UNCHANGED reported
Report(b) == b \in stored /\ reported' = reported \cup {b} /\ UNCHANGED stored

Next == \E b \in Bundles : Store(b) \/ Report(b)

Spec == Init /\ [][Next]_<<stored, reported>>
=============================================================================
