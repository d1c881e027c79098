---------------------------- MODULE MCGreenevApp -----------------------------
(* Small instances of GreenevApp for TLC: see the comment in each cfg. *)
EXTENDS GreenevApp
=============================================================================
