-------------------------------- MODULE CmdQ --------------------------------
(***************************************************************************)
(* struct cmd_q, the command queue that singlev and pyglev share           *)
(* (singlev/src/cmdq.c, pyglev/core/cmdq.c).  Unlike greenev's, it refuses *)
(* commands while its watcher is inactive, a test made before the mutex is *)
(* taken, and hands them out by cmd_q_get, which also tells how many are   *)
(* left so that the caller's loop can stop without locking again.          *)
(*                                                                         *)
(* Every access to the ring happens under the mutex, so a critical section *)
(* is one step.  The test before it and the wake-up after it are not.      *)
(***************************************************************************)
EXTENDS RingIndex

CONSTANTS Producers,  \* threads that call cmd_q_put
          MaxPuts,    \* bound: calls of cmd_q_put per producer
          NoCmd       \* the indeterminate contents of a malloc'ed slot

\* The n-th call of cmd_q_put by thread p passes command <<p, n>>.
Cmd == Producers \X (1 .. MaxPuts)

ASSUME CmdAssumption == MaxPuts \in Nat /\ NoCmd \notin Cmd

VARIABLES
  head, tail, queue,  \* the ring
  active,     \* ev_is_active(&watcher)
  sent,       \* ev_async.sent: a wake-up is on its way to the loop
  pc,         \* where each producer is in cmd_q_put
  issued,     \* how many puts it has called
  lpc,        \* where the thread of the loop is
  cmd, qsize, \* local variables of the watcher's callback
  deleted,    \* cmd_q_delete has run
  warned,     \* ... and logged that some content is left
  accepted,   \* history: commands whose put returns true, in order
  delivered   \* history: commands the callback has handled, in order

ringVars == <<head, tail, queue>>
prodVars == <<pc, issued>>
locals   == <<cmd, qsize>>
endVars  == <<deleted, warned>>
histVars == <<accepted, delivered>>
vars == <<ringVars, active, sent, prodVars, lpc, locals, endVars, histVars>>

\* cmd_q_new.
Init ==
  /\ head = 0 /\ tail = 0
  /\ queue = [i \in Slots |-> NoCmd]
  /\ active = FALSE /\ sent = FALSE
  /\ pc = [p \in Producers |-> "idle"]
  /\ issued = [p \in Producers |-> 0]
  /\ lpc = "new"
  /\ cmd = NoCmd /\ qsize = 0
  /\ deleted = FALSE /\ warned = FALSE
  /\ accepted = <<>> /\ delivered = <<>>
-----------------------------------------------------------------------------
(* cmd_q_put, in any thread *)

\* The test of the watcher, without the mutex.
PutCheck(p) ==
  /\ ~deleted
  /\ pc[p] = "idle"
  /\ issued[p] < MaxPuts
  /\ issued' = [issued EXCEPT ![p] = @ + 1]
  /\ pc' = [pc EXCEPT ![p] = IF active THEN "checked" ELSE "idle"]
  /\ UNCHANGED <<ringVars, active, sent, lpc, locals, endVars, histVars>>

\* The advanced head meets the tail: head is put back, false is returned.
PutFull(p) ==
  /\ pc[p] = "checked"
  /\ NextSlot(head) = tail
  /\ pc' = [pc EXCEPT ![p] = "idle"]
  /\ UNCHANGED <<ringVars, active, sent, issued, lpc, locals, endVars, histVars>>

\* Mutant: the command is stored in the slot the head has advanced to.
PutStoreAhead(p) ==
  /\ pc[p] = "checked"
  /\ NextSlot(head) # tail
  /\ head' = NextSlot(head)
  /\ queue' = [queue EXCEPT ![head'] = <<p, issued[p]>>]
  /\ pc' = [pc EXCEPT ![p] = "send"]
  /\ accepted' = Append(accepted, <<p, issued[p]>>)
  /\ UNCHANGED <<tail, active, sent, issued, lpc, locals, endVars, delivered>>

PutStore(p) ==
  /\ pc[p] = "checked"
  /\ NextSlot(head) # tail
  /\ head' = NextSlot(head)
  /\ queue' = [queue EXCEPT ![head] = <<p, issued[p]>>]
  /\ pc' = [pc EXCEPT ![p] = "send"]
  /\ accepted' = Append(accepted, <<p, issued[p]>>)
  /\ UNCHANGED <<tail, active, sent, issued, lpc, locals, endVars, delivered>>

\* Mutant: only the first command of a batch sends the wake-up.
PutSendFirst(p) ==
  /\ pc[p] = "send"
  /\ sent' = (sent \/ Held(head, tail) = 1)
  /\ pc' = [pc EXCEPT ![p] = "idle"]
  /\ UNCHANGED <<ringVars, active, issued, lpc, locals, endVars, histVars>>

PutSend(p) ==
  /\ pc[p] = "send"
  /\ sent' = TRUE
  /\ pc' = [pc EXCEPT ![p] = "idle"]
  /\ UNCHANGED <<ringVars, active, issued, lpc, locals, endVars, histVars>>
-----------------------------------------------------------------------------
(* The thread that owns the loop *)

\* cmd_q_start; libev's ev_async_start clears the flag before the watcher
\* counts as active.
Start ==
  /\ lpc = "new"
  /\ lpc' = "poll"
  /\ sent' = FALSE
  /\ active' = TRUE
  /\ UNCHANGED <<ringVars, prodVars, locals, endVars, histVars>>

\* libev: the flag is cleared before the watcher's callback is invoked.
Wake ==
  /\ lpc = "poll"
  /\ sent
  /\ sent' = FALSE
  /\ lpc' = "get"
  /\ UNCHANGED <<ringVars, active, prodVars, locals, endVars, histVars>>

\* cmd_q_get on an empty queue returns -1, and the callback's loop ends.
GetEmpty ==
  /\ lpc = "get"
  /\ head = tail
  /\ qsize' = -1
  /\ lpc' = "poll"
  /\ UNCHANGED <<ringVars, active, sent, prodVars, cmd, endVars, histVars>>

\* Mutant: a wrapped queue is reported as it would be if it were not.
RemainingUnwrapped(h, t) == IF t > h THEN 0 ELSE h - t

\* The size that cmd_q_get returns, from the head and the advanced tail.
Remaining(h, t) == IF t > h THEN h + (QSize - t) ELSE h - t

Get ==
  /\ lpc = "get"
  /\ head # tail
  /\ cmd' = queue[tail]
  /\ tail' = NextSlot(tail)
  /\ qsize' = Remaining(head, tail')
  /\ lpc' = "handle"
  /\ UNCHANGED <<head, queue, active, sent, prodVars, endVars, histVars>>

\* Mutant: the callback stops one command too early.
HandleShort ==
  /\ lpc = "handle"
  /\ delivered' = Append(delivered, cmd)
  /\ lpc' = IF qsize <= 1 THEN "poll" ELSE "get"
  /\ UNCHANGED <<ringVars, active, sent, prodVars, locals, endVars, accepted>>

\* The callback handles the command and asks for another unless the size it
\* was told is 0, which may be out of date by now.
Handle ==
  /\ lpc = "handle"
  /\ delivered' = Append(delivered, cmd)
  /\ lpc' = IF qsize = 0 THEN "poll" ELSE "get"
  /\ UNCHANGED <<ringVars, active, sent, prodVars, locals, endVars, accepted>>

\* cmd_q_stop, by the same thread outside ev_run.
Stop ==
  /\ lpc = "poll"
  /\ lpc' = "stopped"
  /\ active' = FALSE
  /\ UNCHANGED <<ringVars, sent, prodVars, locals, endVars, histVars>>

\* Mutant: the warning depends on the order of the raw indexes.
DeleteUnwrapped ==
  /\ ~deleted
  /\ lpc = "stopped"
  /\ \A p \in Producers : pc[p] = "idle"
  /\ deleted' = TRUE
  /\ warned' = (head > tail)
  /\ UNCHANGED <<ringVars, active, sent, prodVars, lpc, locals, histVars>>

\* cmd_q_delete, which asserts that the watcher is inactive.  The caller owes
\* that no thread is inside a put.
Delete ==
  /\ ~deleted
  /\ lpc = "stopped"
  /\ \A p \in Producers : pc[p] = "idle"
  /\ deleted' = TRUE
  /\ warned' = (head # tail)
  /\ UNCHANGED <<ringVars, active, sent, prodVars, lpc, locals, histVars>>

Put(p) == PutCheck(p) \/ PutFull(p) \/ PutStore(p) \/ PutSend(p)
Drain == GetEmpty \/ Get \/ Handle

Next ==
  \/ \E p \in Producers : Put(p)
  \/ Start \/ Wake \/ Drain \/ Stop \/ Delete

\* A thread that is inside a put, and a loop that runs, go on running.
Fairness ==
  /\ \A p \in Producers : WF_vars(PutFull(p) \/ PutStore(p) \/ PutSend(p))
  /\ WF_vars(Wake \/ Drain)

Spec == Init /\ [][Next]_vars /\ Fairness
-----------------------------------------------------------------------------
(* Properties *)

TypeOK ==
  /\ head \in Slots /\ tail \in Slots
  /\ queue \in [Slots -> Cmd \cup {NoCmd}]
  /\ active \in BOOLEAN /\ sent \in BOOLEAN
  /\ pc \in [Producers -> {"idle", "checked", "send"}]
  /\ issued \in [Producers -> 0 .. MaxPuts]
  /\ lpc \in {"new", "poll", "get", "handle", "stopped"}
  /\ cmd \in Cmd \cup {NoCmd}
  /\ qsize \in -1 .. Capacity
  /\ deleted \in BOOLEAN /\ warned \in BOOLEAN
  /\ accepted \in Seq(Cmd) /\ delivered \in Seq(Cmd)

\* What has left the ring, the command in the callback's hand included.
HandedOut == IF lpc = "handle" THEN Append(delivered, cmd) ELSE delivered

\* No command is lost, duplicated, reordered or read from an unwritten slot
\* (cmd_q_put against cmd_q_get): what has left the ring, followed by what the
\* ring holds from tail to head, is exactly the sequence of accepted commands.
FifoExact ==
  LET n == Len(HandedOut) held == Held(head, tail)
  IN  /\ Len(accepted) = n + held
      /\ \A i \in 1 .. n : HandedOut[i] = accepted[i]
      /\ \A k \in 1 .. held : queue[SlotAt(tail, k)] = accepted[n + k]

\* No wake-up is lost although the callback trusts a size that is out of date:
\* a loop that sleeps on a non-empty queue has a wake-up on its way.
NoSleepOnWork ==
  (lpc = "poll" /\ head # tail) =>
    sent \/ \E p \in Producers : pc[p] = "send"

\* What is accepted is handled or warned of at the end (cmd_q_delete).  The
\* watcher is tested before the mutex is taken, so a command may be accepted
\* after cmd_q_stop and left behind, on a ring that is wrapped or not.
NoSilentLoss == (deleted /\ ~warned) => delivered = accepted

\* cmd_q_get reports exactly the commands that wait behind the one it returns
\* (singlev/test/check_cmdq.c, unittest_cmdq_04).
SizeIsExact ==
  [][lpc = "get" /\ lpc' = "handle" =>
       qsize' = Len(accepted) - Len(delivered) - 1]_vars

\* The ring, the mutex and the callback's loop implement the bounded channel.
Chan == INSTANCE CmdChannel WITH
          Cmds <- Cmd, Bound <- Capacity, log <- accepted, out <- HandedOut

ImplementsChannel == Chan!Spec

Reader ==
  IF lpc = "new" THEN "new" ELSE IF lpc = "poll" THEN "asleep"
  ELSE IF lpc = "stopped" THEN "gone" ELSE "awake"

\* Puts, wake-ups and the callback's loop implement the channel that
\* SinglevApp and PyglevLoop take for this queue.
Woken == INSTANCE WokenChannel WITH
           Putters <- Producers, Bound <- Capacity,
           waiting <- Held(head, tail),
           owing <- {p \in Producers : pc[p] = "send"}, reader <- Reader

ImplementsWokenChannel == Woken!Spec

Delivered(c) == \E i \in DOMAIN delivered : delivered[i] = c

\* A command whose put succeeds is handled, unless the loop is stopped first.
PutIsDelivered ==
  \A c \in Cmd :
    (pc[c[1]] = "send" /\ issued[c[1]] = c[2])
    ~> (Delivered(c) \/ lpc = "stopped")
-----------------------------------------------------------------------------
(* With TypeOK, FifoExact and NoSleepOnWork an inductive invariant. *)

\* The watcher is active exactly while the loop may run, and nothing is
\* accepted before: an early put cannot lose its wake-up here.
ActiveInv ==
  /\ active <=> lpc \in {"poll", "get", "handle"}
  /\ lpc = "new" => head = tail /\ \A p \in Producers : pc[p] = "idle"
  /\ \A p \in Producers : pc[p] # "idle" => issued[p] >= 1

\* The last size told was 0, so whatever is in the ring now came later and
\* its wake-up has not been used up.
LastGetInv ==
  /\ lpc = "handle" => cmd \in Cmd
  /\ (lpc = "handle" /\ qsize = 0 /\ head # tail) =>
       sent \/ \E p \in Producers : pc[p] = "send"

DeletedInv ==
  deleted => /\ lpc = "stopped"
             /\ \A p \in Producers : pc[p] = "idle"
             /\ warned <=> head # tail

IInv ==
  /\ TypeOK
  /\ ActiveInv /\ LastGetInv /\ DeletedInv
  /\ FifoExact /\ NoSleepOnWork
=============================================================================
