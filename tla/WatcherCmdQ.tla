----------------------------- MODULE WatcherCmdQ -----------------------------
(***************************************************************************)
(* struct watcher_cmd_q of greenev (cmdq_ev.c): a ring of commands guarded *)
(* by a mutex, filled by any thread and drained by the one thread that     *)
(* runs the libev loop the queue's ev_async watcher is attached to.        *)
(*                                                                         *)
(* Everything a thread does between pthread_mutex_lock and                 *)
(* pthread_mutex_unlock is split in two steps, so that the state in which  *)
(* a slot is reserved but not yet written (or read but not yet released)   *)
(* is a state of the model that only the mutex hides from the others.      *)
(* ev_async_send runs after the unlock and is a step of its own.           *)
(***************************************************************************)
EXTENDS RingIndex

CONSTANTS Producers,  \* threads that call watcher_cmd_q_put
          Loop,       \* the thread that runs the event loop
          NoThread,   \* "the mutex is free"
          MaxPuts,    \* bound: calls of watcher_cmd_q_put per producer
          NoCmd       \* the indeterminate contents of a malloc'ed slot

\* The n-th call of watcher_cmd_q_put by thread p passes command <<p, n>>.
Cmd == Producers \X (1 .. MaxPuts)

ASSUME ThreadAssumption ==
  /\ Loop \notin Producers
  /\ NoThread \notin Producers \cup {Loop}
  /\ MaxPuts \in Nat
  /\ NoCmd \notin Cmd

VARIABLES
  q_head, q_tail, q,  \* the ring
  mtx,        \* holder of q_mtx
  sent,       \* ev_async.sent: a wake-up is on its way to the loop
  pc,         \* where each producer is in watcher_cmd_q_put
  q_pos,      \* its local variable q_pos
  issued,     \* how many puts it has called
  lpc,        \* where the loop thread is
  cmd,        \* local variable cmd of _on_watcher_cmd_q_async
  deleted,    \* watcher_cmd_q_delete has run
  warned,     \* ... and logged that the queue still had content
  accepted,   \* history: commands whose put succeeds, in order
  delivered,  \* history: commands passed to cmdcallback, in order
  early       \* history: how many were accepted before the watcher started

prodVars == <<pc, q_pos, issued>>
endVars  == <<deleted, warned>>
histVars == <<accepted, delivered, early>>
vars == <<q_head, q_tail, q, mtx, sent, prodVars, lpc, cmd, endVars, histVars>>

\* watcher_cmd_q_new.
Init ==
  /\ q_head = 0 /\ q_tail = 0
  /\ q = [i \in Slots |-> NoCmd]
  /\ mtx = NoThread
  /\ sent = FALSE
  /\ pc = [p \in Producers |-> "idle"]
  /\ q_pos = [p \in Producers |-> 0]
  /\ issued = [p \in Producers |-> 0]
  /\ lpc = "new"
  /\ cmd = NoCmd
  /\ deleted = FALSE /\ warned = FALSE
  /\ accepted = <<>> /\ delivered = <<>> /\ early = 0
-----------------------------------------------------------------------------
(* watcher_cmd_q_put, in any thread *)

PutEnter(p) ==
  /\ ~deleted
  /\ pc[p] = "idle"
  /\ issued[p] < MaxPuts
  /\ mtx = NoThread
  /\ issued' = [issued EXCEPT ![p] = @ + 1]
  /\ q_pos' = [q_pos EXCEPT ![p] = q_head]

\* Mutant: a put is refused although one slot is left.
PutRefuseEarly(p) ==
  /\ PutEnter(p)
  /\ NextSlot(q_head) = q_tail \/ NextSlot(NextSlot(q_head)) = q_tail
  /\ UNCHANGED <<q_head, q_tail, q, mtx, sent, pc, lpc, cmd, endVars, histVars>>

\* The advanced head meets the tail: head is put back, false is returned.
PutRefuse(p) ==
  /\ PutEnter(p)
  /\ NextSlot(q_head) = q_tail
  /\ UNCHANGED <<q_head, q_tail, q, mtx, sent, pc, lpc, cmd, endVars, histVars>>

\* Mutant: the full queue is not noticed.
PutReserveUnchecked(p) ==
  /\ PutEnter(p)
  /\ q_head' = NextSlot(q_head)
  /\ mtx' = p
  /\ pc' = [pc EXCEPT ![p] = "store"]
  /\ UNCHANGED <<q_tail, q, sent, lpc, cmd, endVars, histVars>>

\* Mutant: the mutex is released before the slot is written.
PutReserveUnlocked(p) ==
  /\ PutEnter(p)
  /\ NextSlot(q_head) # q_tail
  /\ q_head' = NextSlot(q_head)
  /\ pc' = [pc EXCEPT ![p] = "store"]
  /\ UNCHANGED <<q_tail, q, mtx, sent, lpc, cmd, endVars, histVars>>

PutReserve(p) ==
  /\ PutEnter(p)
  /\ NextSlot(q_head) # q_tail
  /\ q_head' = NextSlot(q_head)
  /\ mtx' = p
  /\ pc' = [pc EXCEPT ![p] = "store"]
  /\ UNCHANGED <<q_tail, q, sent, lpc, cmd, endVars, histVars>>

\* Mutant: ev_async_send is forgotten.
PutStoreSilent(p) ==
  /\ pc[p] = "store"
  /\ q' = [q EXCEPT ![q_pos[p]] = <<p, issued[p]>>]
  /\ mtx' = NoThread
  /\ pc' = [pc EXCEPT ![p] = "idle"]
  /\ accepted' = Append(accepted, <<p, issued[p]>>)
  /\ UNCHANGED <<q_head, q_tail, sent, q_pos, issued, lpc, cmd, endVars,
                 delivered, early>>

PutStore(p) ==
  /\ pc[p] = "store"
  /\ q' = [q EXCEPT ![q_pos[p]] = <<p, issued[p]>>]
  /\ mtx' = NoThread
  /\ pc' = [pc EXCEPT ![p] = "send"]
  /\ accepted' = Append(accepted, <<p, issued[p]>>)
  /\ UNCHANGED <<q_head, q_tail, sent, q_pos, issued, lpc, cmd, endVars,
                 delivered, early>>

PutSend(p) ==
  /\ pc[p] = "send"
  /\ sent' = TRUE
  /\ pc' = [pc EXCEPT ![p] = "idle"]
  /\ UNCHANGED <<q_head, q_tail, q, mtx, q_pos, issued, lpc, cmd, endVars,
                 histVars>>
-----------------------------------------------------------------------------
(* The thread of the event loop.  The watcher is active from Start to Stop. *)

\* watcher_cmd_q_start; libev's ev_async_start clears the sent flag.
Start ==
  /\ lpc = "new"
  /\ lpc' = "poll"
  /\ sent' = FALSE
  /\ early' = Len(accepted)
  /\ UNCHANGED <<q_head, q_tail, q, mtx, prodVars, cmd, endVars, accepted,
                 delivered>>

\* libev: the flag is cleared before the watcher's callback is invoked.
Wake ==
  /\ lpc = "poll"
  /\ sent
  /\ sent' = FALSE
  /\ lpc' = "drain"
  /\ UNCHANGED <<q_head, q_tail, q, mtx, prodVars, cmd, endVars, histVars>>

DrainEmpty ==
  /\ lpc = "drain"
  /\ mtx = NoThread
  /\ q_head = q_tail
  /\ lpc' = "poll"
  /\ UNCHANGED <<q_head, q_tail, q, mtx, sent, prodVars, cmd, endVars, histVars>>

DrainTake ==
  /\ lpc = "drain"
  /\ mtx = NoThread
  /\ q_head # q_tail
  /\ mtx' = Loop
  /\ cmd' = q[q_tail]
  /\ lpc' = "advance"
  /\ UNCHANGED <<q_head, q_tail, q, sent, prodVars, endVars, histVars>>

DrainAdvance ==
  /\ lpc = "advance"
  /\ q_tail' = NextSlot(q_tail)
  /\ mtx' = NoThread
  /\ lpc' = "callback"
  /\ UNCHANGED <<q_head, q, sent, prodVars, cmd, endVars, histVars>>

\* Mutant: one command per wake-up, no loop.
CallbackOnce ==
  /\ lpc = "callback"
  /\ delivered' = Append(delivered, cmd)
  /\ lpc' = "poll"
  /\ UNCHANGED <<q_head, q_tail, q, mtx, sent, prodVars, cmd, endVars,
                 accepted, early>>

Callback ==
  /\ lpc = "callback"
  /\ delivered' = Append(delivered, cmd)
  /\ lpc' = "drain"
  /\ UNCHANGED <<q_head, q_tail, q, mtx, sent, prodVars, cmd, endVars,
                 accepted, early>>

\* watcher_cmd_q_stop, by the same thread once it has left ev_run.
Stop ==
  /\ lpc = "poll"
  /\ lpc' = "stopped"
  /\ UNCHANGED <<q_head, q_tail, q, mtx, sent, prodVars, cmd, endVars, histVars>>

\* watcher_cmd_q_delete, which stops the watcher if that is still to be done.
\* The caller owes that no thread is inside a put (GreenevApp checks it).
Delete ==
  /\ ~deleted
  /\ lpc \in {"poll", "stopped"}
  /\ \A p \in Producers : pc[p] = "idle"
  /\ lpc' = "stopped"
  /\ deleted' = TRUE
  /\ warned' = (q_head # q_tail)
  /\ UNCHANGED <<q_head, q_tail, q, mtx, sent, prodVars, cmd, histVars>>

Put(p) == PutRefuse(p) \/ PutReserve(p) \/ PutStore(p) \/ PutSend(p)
Drain == DrainEmpty \/ DrainTake \/ DrainAdvance \/ Callback

Next ==
  \/ \E p \in Producers : Put(p)
  \/ Start \/ Wake \/ Drain \/ Stop \/ Delete

\* A thread that is inside a put, and a loop that runs, go on running.
Fairness ==
  /\ \A p \in Producers : WF_vars(PutStore(p) \/ PutSend(p))
  /\ WF_vars(Wake \/ Drain)

Spec == Init /\ [][Next]_vars /\ Fairness
-----------------------------------------------------------------------------
(* Properties *)

TypeOK ==
  /\ q_head \in Slots /\ q_tail \in Slots
  /\ q \in [Slots -> Cmd \cup {NoCmd}]
  /\ mtx \in Producers \cup {Loop, NoThread}
  /\ sent \in BOOLEAN
  /\ pc \in [Producers -> {"idle", "store", "send"}]
  /\ q_pos \in [Producers -> Slots]
  /\ issued \in [Producers -> 0 .. MaxPuts]
  /\ lpc \in {"new", "poll", "drain", "advance", "callback", "stopped"}
  /\ cmd \in Cmd \cup {NoCmd}
  /\ deleted \in BOOLEAN /\ warned \in BOOLEAN
  /\ accepted \in Seq(Cmd)
  /\ delivered \in Seq(Cmd)
  /\ early \in Nat

\* The head as the other threads will find it: a put that has reserved a
\* slot but not written it does not count yet.
StoredHead == IF mtx \in Producers THEN q_pos[mtx] ELSE q_head

\* What has left the ring, the command in the callback's hand included.
HandedOut == IF lpc = "callback" THEN Append(delivered, cmd) ELSE delivered

\* No command is lost, duplicated, reordered or read from an unwritten slot:
\* what has left the ring, followed by what the ring holds from tail to head,
\* is exactly the sequence of accepted commands (watcher_cmd_q_put against
\* _on_watcher_cmd_q_async, whatever the interleaving).
FifoExact ==
  LET n == Len(HandedOut) held == Held(StoredHead, q_tail)
  IN  /\ Len(accepted) = n + held
      /\ \A i \in 1 .. n : HandedOut[i] = accepted[i]
      /\ \A k \in 1 .. held : q[SlotAt(q_tail, k)] = accepted[n + k]

\* No wake-up is lost: a loop that sleeps on a non-empty queue has a wake-up
\* under way, or everything it sleeps on was put before watcher_cmd_q_start.
NoSleepOnWork ==
  (lpc = "poll" /\ q_head # q_tail) =>
    \/ sent
    \/ \E p \in Producers : pc[p] # "idle"
    \/ Len(accepted) = early

\* watcher_cmd_q_delete drops commands only with the warning.
NoSilentLoss == (deleted /\ ~warned) => delivered = accepted

\* A put returns false exactly when Capacity commands wait, never earlier.
RefusedOnlyWhenFull ==
  [][\A p \in Producers :
       issued'[p] # issued[p] =>
         (pc'[p] = "idle" <=> Held(q_head, q_tail) = Capacity)]_vars

\* The ring, the mutex and the drain loop implement the bounded channel.
Chan == INSTANCE CmdChannel WITH
          Cmds <- Cmd, Bound <- Capacity, log <- accepted, out <- HandedOut

ImplementsChannel == Chan!Spec

Reader ==
  IF lpc = "new" THEN "new" ELSE IF lpc = "poll" THEN "asleep"
  ELSE IF lpc = "stopped" THEN "gone" ELSE "awake"

\* Puts, wake-ups and the drain loop implement the channel that GreenevApp
\* and IoThread take for this queue.
Woken == INSTANCE WokenChannel WITH
           Putters <- Producers, Bound <- Capacity,
           waiting <- Held(StoredHead, q_tail),
           owing <- {p \in Producers : pc[p] = "send"}, reader <- Reader

ImplementsWokenChannel == Woken!Spec

Delivered(c) == \E i \in DOMAIN delivered : delivered[i] = c

Accepted(c) == \E i \in DOMAIN accepted : accepted[i] = c

\* Whenever a put is about to send its wake-up to a loop that runs, everything
\* accepted so far reaches the callback, unless the loop is stopped first: the
\* command of that put, and what was put before watcher_cmd_q_start, whose own
\* wake-up is lost, too.
PutIsDelivered ==
  \A c \in Cmd :
    ( /\ lpc \notin {"new", "stopped"}
      /\ \E p \in Producers : pc[p] = "send"
      /\ Accepted(c) )
    ~> (Delivered(c) \/ lpc = "stopped")
-----------------------------------------------------------------------------
(* What the critical sections guarantee to the steps inside them; together *)
(* with TypeOK and the properties above, an inductive invariant.           *)

\* q_mtx is held exactly by the thread between the two halves of its section.
MutexInv ==
  /\ \A p \in Producers : pc[p] = "store" <=> mtx = p
  /\ lpc = "advance" <=> mtx = Loop

\* A put about to write its slot still finds the head one past it.
ReserveInv ==
  \A p \in Producers : pc[p] = "store" =>
    /\ q_head = NextSlot(q_pos[p])
    /\ q_head # q_tail
    /\ issued[p] >= 1

\* The loop about to release a slot still holds the command it read there.
TakeInv ==
  /\ lpc = "advance" => q_head # q_tail /\ cmd = q[q_tail]
  /\ lpc = "callback" => cmd \in Cmd

\* Nothing touches a deleted queue.
DeletedInv ==
  deleted => /\ lpc = "stopped"
             /\ \A p \in Producers : pc[p] = "idle"
             /\ warned <=> q_head # q_tail

IInv ==
  /\ TypeOK
  /\ MutexInv /\ ReserveInv /\ TakeInv /\ DeletedInv
  /\ FifoExact /\ NoSleepOnWork
=============================================================================
