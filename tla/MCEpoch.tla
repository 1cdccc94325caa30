------------------------------ MODULE MCEpoch -------------------------------
(* An instance of Epoch for TLC. *)
EXTENDS Epoch, TLC

NodeSymmetry == Permutations(Nodes)
=============================================================================
