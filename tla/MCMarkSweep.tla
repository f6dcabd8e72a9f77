---------------------------- MODULE MCMarkSweep ----------------------------
(* Instances of MarkSweep for TLC.                                         *)
EXTENDS MarkSweep, TLC

HeapSymmetry == Permutations(Objects) \cup Permutations(Slots)
=============================================================================
