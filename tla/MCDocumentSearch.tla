-------------------------- MODULE MCDocumentSearch --------------------------
(***************************************************************************)
(* A small instance of DocumentSearch: the second document is somebody       *)
(* else's, the first has two chunks, and a third may be uploaded.            *)
(***************************************************************************)
EXTENDS DocumentSearch

CONSTANTS alice, bob

Owners == <<alice, bob, alice>>
Lengths == <<2, 1, 1>>
=============================================================================
