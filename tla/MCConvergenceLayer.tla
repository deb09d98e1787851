------------------------ MODULE MCConvergenceLayer ------------------------
(***************************************************************************)
(* Small instances of ConvergenceLayer for TLC.                            *)
(***************************************************************************)
EXTENDS ConvergenceLayer

Interchangeable ==  Permutations(Bundles)

DriftBound == pool.slots \in -1 .. QUEUE /\ pool.queue \in -1 .. QUEUE
=============================================================================
