------------------------ MODULE MCSegmentedTransfer ------------------------
(***************************************************************************)
(* Small instances of SegmentedTransfer for TLC.                           *)
(***************************************************************************)
EXTENDS SegmentedTransfer, TLC

CONSTANTS b1, b2, b3

Sizes == [b \in Bundles |-> ((b1 :> 5) @@ (b2 :> 2) @@ (b3 :> 1))[b]]
SeqSpace == [l \in Links |-> IF l = "lowpan" THEN 4 ELSE 16]
=============================================================================
