----------------------------- MODULE CmdChannel ------------------------------
(***************************************************************************)
(* What a command queue promises to the threads that share it.  Commands   *)
(* are accepted one at a time, as long as fewer than Bound of them wait;   *)
(* each accepted command is handed out exactly once, in the order of       *)
(* acceptance.  A put that finds Bound commands waiting changes nothing    *)
(* (it is refused, or it blocks).                                          *)
(***************************************************************************)
EXTENDS Naturals, Sequences

CONSTANTS Cmds,   \* the commands that can be put
          Bound   \* how many commands may wait at a time

VARIABLES log,    \* every command accepted so far, oldest first
          out     \* every command handed out so far, oldest first

chanVars == <<log, out>>

Waiting == Len(log) - Len(out)

Init == log = <<>> /\ out = <<>>

Accept(c) ==
  /\ Waiting < Bound
  /\ log' = Append(log, c)
  /\ UNCHANGED out

HandOut ==
  /\ Len(out) < Len(log)
  /\ out' = Append(out, log[Len(out) + 1])
  /\ UNCHANGED log

Next == HandOut \/ \E c \in Cmds : Accept(c)

Spec == Init /\ [][Next]_chanVars
=============================================================================
