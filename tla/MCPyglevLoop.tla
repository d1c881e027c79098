---------------------------- MODULE MCPyglevLoop -----------------------------
(* Small instances of PyglevLoop for TLC. *)
EXTENDS PyglevLoop
=============================================================================
