---------------------------- MODULE MCXdpFuseTmp ----------------------------
(* XdpFuseTmp with few threads, tmps and handles.                          *)
EXTENDS XdpFuseTmp, TLC

Symmetry == Permutations(Threads) \cup Permutations(Handles) \cup Permutations(Names)
=============================================================================
