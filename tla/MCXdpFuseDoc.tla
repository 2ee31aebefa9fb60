---------------------------- MODULE MCXdpFuseDoc ----------------------------
(* XdpFuseDoc with few threads, handles and files.                         *)
EXTENDS XdpFuseDoc, TLC

Symmetry == Permutations(Threads) \cup Permutations(Handles)
=============================================================================
