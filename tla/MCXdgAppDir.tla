---------------------------- MODULE MCXdgAppDir ----------------------------
(***************************************************************************)
(* An instance of XdgAppDir for TLC: two branches of an app and a runtime, *)
(* two commits that export different files, and three commands, of which   *)
(* one can overlap another, fail in the middle, or be killed.              *)
(***************************************************************************)
EXTENDS XdgAppDir, TLC

CONSTANTS s1, s2, a1, master, beta, runtime, c1, c2, f1, f2

MCSlots == {s1, s2}
MCApps == {a1}
MCAppRefs == {master, beta}
MCRefs == MCAppRefs \cup {runtime}
MCCommits == {c1, c2}
MCExported == [c \in MCCommits |-> IF c = c1 THEN {f1} ELSE {f2}]
MCDirs == 1 .. 5

\* Slots and branches are alike, and so are commits with what they export.
Symmetry ==
  {s @@ r @@ c : s \in Permutations(MCSlots), r \in Permutations(MCAppRefs),
                 c \in {c1 :> c1 @@ c2 :> c2 @@ f1 :> f1 @@ f2 :> f2,
                        c1 :> c2 @@ c2 :> c1 @@ f1 :> f2 @@ f2 :> f1}}
=============================================================================
