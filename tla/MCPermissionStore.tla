------------------------- MODULE MCPermissionStore -------------------------
(* PermissionStore with a few calls on two ids.                            *)
EXTENDS PermissionStore, TLC

Symmetry == Permutations(Ids) \cup Permutations(Calls)
=============================================================================
