----------------------------- MODULE MCXdgAppDb -----------------------------
(* XdgAppDb on two ids, two apps, one permission and one data value.       *)
EXTENDS XdgAppDb, TLC

Symmetry == Permutations(Ids) \cup Permutations(Apps)
=============================================================================
