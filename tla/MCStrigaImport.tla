---------------------------- MODULE MCStrigaImport ---------------------------
(* A small instance of StrigaImport for TLC: see the comment in the cfg. *)
EXTENDS StrigaImport
=============================================================================
