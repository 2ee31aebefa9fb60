--------------------------- MODULE MCXdgAppProxy ---------------------------
(* XdgAppProxy with one name of an exact policy, one that only a wildcard   *)
(* policy covers, and one without a policy.                                *)
EXTENDS XdgAppProxy, TLC

CONSTANTS exact, wild, hidden, prefix, p1, p2

MCNames == {exact, wild, hidden}
MCPolicy == (exact :> OWN) @@ (wild :> NONE) @@ (hidden :> NONE) @@ (prefix :> TALK)
MCParentOf == (exact :> NULL) @@ (wild :> prefix) @@ (hidden :> NULL)
MCCalls ==
  {<<Bus, "GetNameOwner", wild, FALSE>>, <<Bus, "GetNameOwner", hidden, FALSE>>,
   <<Bus, "RequestName", exact, FALSE>>, <<Bus, "ListNames", NULL, FALSE>>,
   <<hidden, "Method", NULL, FALSE>>, <<wild, "Method", NULL, FALSE>>,
   <<p1, "Method", NULL, TRUE>>}

\* Nobody owns anything; one peer for each name; one for both.
MCInitialOwners ==
  {[n \in MCNames |-> NULL],
   (exact :> p1) @@ (wild :> p2) @@ (hidden :> NULL),
   (exact :> p1) @@ (wild :> p1) @@ (hidden :> p2)}

Symmetry == Permutations({p1, p2})
=============================================================================
