---------------------------- MODULE MCSafepoint ----------------------------
(* Instances of SafepointProtocol for TLC.                                 *)
EXTENDS SafepointProtocol, TLC

MutatorSymmetry == Permutations(Mutators)
=============================================================================
