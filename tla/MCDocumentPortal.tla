-------------------------- MODULE MCDocumentPortal --------------------------
(* DocumentPortal with two documents of two files, two apps beside the     *)
(* host, and two requests, each of up to two calls to the store.           *)
EXTENDS DocumentPortal

\* What a creator gets on any document, with and without the right to pass it
\* on, and what only on a unique one.
SomePermissions == {{"read"}, {"read", "grant-permissions"}, {"grant-permissions", "delete"}}
=============================================================================
