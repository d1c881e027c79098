---------------------------- MODULE MCWatcherCmdQ ----------------------------
(* Small instances of WatcherCmdQ for TLC. *)
EXTENDS WatcherCmdQ
=============================================================================
