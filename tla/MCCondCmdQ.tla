----------------------------- MODULE MCCondCmdQ ------------------------------
(* Small instances of CondCmdQ for TLC. *)
EXTENDS CondCmdQ
=============================================================================
