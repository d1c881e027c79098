---------------------------- MODULE WokenChannel -----------------------------
(***************************************************************************)
(* What a queue with a watcher promises about its wake-ups.  Any thread    *)
(* puts commands; the wake-up (ev_async_send) comes with the put or is a   *)
(* later step of the same thread.  One reader sleeps until a wake-up comes *)
(* and then takes commands.  It goes to sleep again only if nothing waits  *)
(* or another wake-up is due, so it never sleeps over what has been put    *)
(* since the watcher was started.  The start forgets the wake-ups before.  *)
(*                                                                         *)
(* CmdChannel has the contents of a queue and their order; here they are   *)
(* counted.                                                                *)
(***************************************************************************)
EXTENDS Naturals

CONSTANTS Putters,  \* the threads that put
          Bound     \* how many commands may wait at a time

VARIABLES waiting,  \* the number of commands that wait
          owing,    \* the threads whose next step sends the wake-up of a put
          sent,     \* a wake-up is on its way to the reader
          reader    \* "new", "asleep", "awake", "gone"

wokenVars == <<waiting, owing, sent, reader>>

\* The watcher may be started together with the queue.
Init ==
  /\ waiting = 0 /\ owing = {} /\ sent = FALSE
  /\ reader \in {"new", "asleep"}

Put(p) ==
  /\ waiting < Bound /\ p \notin owing
  /\ waiting' = waiting + 1
  /\ owing' = owing \cup {p}
  /\ UNCHANGED <<sent, reader>>

\* A put that includes its wake-up.
PutAndSend ==
  /\ waiting < Bound
  /\ waiting' = waiting + 1
  /\ sent' = TRUE
  /\ UNCHANGED <<owing, reader>>

Send(p) ==
  /\ p \in owing
  /\ owing' = owing \ {p}
  /\ sent' = TRUE
  /\ UNCHANGED <<waiting, reader>>

Start ==
  /\ reader = "new"
  /\ reader' = "asleep"
  /\ sent' = FALSE
  /\ UNCHANGED <<waiting, owing>>

Wake ==
  /\ reader = "asleep"
  /\ sent
  /\ sent' = FALSE
  /\ reader' = "awake"
  /\ UNCHANGED <<waiting, owing>>

\* The reader may go to sleep over n commands.
MaySleep(n) == n = 0 \/ sent \/ owing # {}

Take ==
  /\ reader = "awake"
  /\ waiting > 0
  /\ waiting' = waiting - 1
  /\ \/ reader' = "awake"
     \/ reader' = "asleep" /\ MaySleep(waiting')
  /\ UNCHANGED <<owing, sent>>

Sleep ==
  /\ reader = "awake"
  /\ MaySleep(waiting)
  /\ reader' = "asleep"
  /\ UNCHANGED <<waiting, owing, sent>>

\* The reader leaves its loop.
Leave ==
  /\ reader = "asleep"
  /\ reader' = "gone"
  /\ UNCHANGED <<waiting, owing, sent>>

\* The process ends, and every thread with it.
End ==
  /\ reader = "gone"
  /\ owing' = {}
  /\ UNCHANGED <<waiting, sent, reader>>

Next ==
  \/ \E p \in Putters : Put(p) \/ Send(p)
  \/ PutAndSend
  \/ Start \/ Wake \/ Take \/ Sleep \/ Leave \/ End

Spec == Init /\ [][Next]_wokenVars
=============================================================================
