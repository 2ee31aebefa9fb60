--------------------------- MODULE MCAppIdLookup ---------------------------
(* AppIdLookup with a sender whose process the bus knows and one whose process *)
(* it does not know, each an app or the host, and three requests.             *)
EXTENDS AppIdLookup, TLC
=============================================================================
