------------------------------ MODULE MCIoThread -----------------------------
(* A small instance of IoThread for TLC: see the comment in each cfg. *)
EXTENDS IoThread
=============================================================================
