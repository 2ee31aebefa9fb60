--------------------------- MODULE MCXdgAppHelper ---------------------------
(* One sandbox whose app exits with success, with 1 or with another status. *)
EXTENDS XdgAppHelper

MCStatuses == {0, 1, 2}
=============================================================================
