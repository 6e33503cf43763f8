-------------------------- MODULE MCNativeProcess --------------------------
(* Small instances of NativeProcess for TLC.                                *)
EXTENDS NativeProcess, TLC

Symmetry == Permutations(Calls)
=============================================================================
