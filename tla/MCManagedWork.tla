---------------------------- MODULE MCManagedWork ----------------------------
(* Small instances of ManagedWork for TLC.                                 *)
EXTENDS ManagedWork, TLC

Symmetry == Permutations(Blocking) \cup Permutations(Thread)

=============================================================================
