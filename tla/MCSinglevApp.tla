---------------------------- MODULE MCSinglevApp -----------------------------
(* Small instances of SinglevApp for TLC. *)
EXTENDS SinglevApp
=============================================================================
