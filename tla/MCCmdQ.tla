------------------------------- MODULE MCCmdQ -------------------------------
(* Small instances of CmdQ for TLC. *)
EXTENDS CmdQ
=============================================================================
