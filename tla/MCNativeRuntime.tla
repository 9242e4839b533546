-------------------------- MODULE MCNativeRuntime --------------------------
(* Instances of NativeRuntime for TLC. *)
EXTENDS NativeRuntime, TLC

Symmetry == Permutations(Operations)
=============================================================================
