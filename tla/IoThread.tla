------------------------------ MODULE IoThread ------------------------------
(***************************************************************************)
(* greenev's IO thread socket by socket (iothread.c): the threads that     *)
(* prepare sockets with io_thread_listen and io_thread_connect, the        *)
(* command queue that hands them over, and the loop that accepts, reads    *)
(* and closes.  GreenevApp has the same thread as counts, together with    *)
(* the other two.                                                          *)
(*                                                                         *)
(* watcher_cmd_q_put is one step here, its wake-up included; WatcherCmdQ   *)
(* and GreenevApp have the step between its unlock and ev_async_send.      *)
(***************************************************************************)
EXTENDS Integers, Sequences, FiniteSets, SequencesExt, IoBuffer

CONSTANTS
  Sockets,    \* descriptors; none is used twice
  Callers,    \* threads that listen and connect
  NoSocket,   \* "no descriptor": the argument of DIE
  QCapacity,  \* commands the queue holds (255 in the code)
  MaxAddrs,   \* bound: addresses a name resolves to
  WantedIov,  \* wanted_iovcnt (4 in the code)
  MaxHead,    \* bound: how far free_slots_head runs
  FreedNext   \* what sockobj->next reads after free(sockobj)

ASSUME IoThreadAssumption ==
  /\ NoSocket \notin Sockets
  /\ QCapacity \in Nat \ {0} /\ MaxAddrs \in Nat \ {0}
  /\ WantedIov \in Nat \ {0} /\ SlotCount \in Nat /\ SlotCount >= WantedIov
  /\ MaxHead \in Nat
  /\ "intact" \in FreedNext /\ FreedNext \subseteq {"intact", "null"}

VARIABLES
  fd,       \* "none", "open" or "closed"
  pc,       \* each caller: "idle", "open" (its sockets, one by one), "listen",
            \* "connect" (the puts)
  addrs,    \* the addresses it has still to open
  listen_socket,  \* its open sockets that are not handed over yet
  cmd_q, sent,  \* the IO thread's queue and the wake-up of its watcher
  refused,  \* history: sockets whose command the full queue refused
  dying,    \* history: io_thread_die has been called
  ipc,      \* IO thread: "new", "loop", "drain" (_on_iot_cmd),
            \* "return" (io_buffer_put), "done"
  held,     \* the loop's artificial reference
  listening, established,  \* the two lists, newest socket first
  watching, \* sockets whose watcher is active
  iovec     \* local of the read handler: slots to return

callerVars == <<pc, addrs, listen_socket>>
queueVars  == <<cmd_q, sent, refused>>
listVars   == <<listening, established, watching>>
ioVars     == <<ipc, held, listVars, iovec, bufferVars>>
vars == <<fd, callerVars, queueVars, dying, ioVars>>

SetOf(list) == {list[i] : i \in DOMAIN list}

\* close() on each socket of S.
CloseIn(S) == [s \in Sockets |-> IF s \in S THEN "closed" ELSE fd[s]]

\* io_thread_ctor.
Init ==
  /\ fd = [s \in Sockets |-> "none"]
  /\ pc = [c \in Callers |-> "idle"]
  /\ addrs = [c \in Callers |-> 0]
  /\ listen_socket = [c \in Callers |-> <<>>]
  /\ cmd_q = <<>> /\ sent = FALSE /\ refused = {}
  /\ dying = FALSE
  /\ ipc = "new" /\ held = FALSE
  /\ listening = <<>> /\ established = <<>> /\ watching = {}
  /\ iovec = <<>>
  /\ BufferInit

\* Mutant: a put that is refused has overwritten the newest command.
PutOverwrites(cmd) ==
  /\ cmd_q' = IF Len(cmd_q) < QCapacity THEN Append(cmd_q, cmd)
              ELSE [cmd_q EXCEPT ![Len(cmd_q)] = cmd]
  /\ sent' = TRUE
  /\ UNCHANGED refused

\* watcher_cmd_q_put; no caller looks at the result.
Put(cmd) ==
  IF Len(cmd_q) < QCapacity
  THEN /\ cmd_q' = Append(cmd_q, cmd)
       /\ sent' = TRUE
       /\ UNCHANGED refused
  ELSE /\ refused' = refused \cup ({cmd.arg} \ {NoSocket})
       /\ UNCHANGED <<cmd_q, sent>>
-----------------------------------------------------------------------------
(* Threads that call io_thread_listen, io_thread_connect, io_thread_die *)

\* io_thread_listen, the name resolved.  (Otherwise it returns.)
Listen(c) ==
  /\ pc[c] = "idle"
  /\ pc' = [pc EXCEPT ![c] = "open"]
  /\ \E n \in 1 .. MaxAddrs : addrs' = [addrs EXCEPT ![c] = n]
  /\ UNCHANGED <<fd, listen_socket, queueVars, dying, ioVars>>

\* One round of its first loop: socket, setsockopt, bind and listen succeed.
Open(c, s) ==
  /\ pc[c] = "open"
  /\ fd[s] = "none"
  /\ fd' = [fd EXCEPT ![s] = "open"]
  /\ listen_socket' = [listen_socket EXCEPT ![c] = Append(@, s)]
  /\ addrs' = [addrs EXCEPT ![c] = @ - 1]
  /\ pc' = IF addrs[c] = 1 THEN [pc EXCEPT ![c] = "listen"] ELSE pc
  /\ UNCHANGED <<queueVars, dying, ioVars>>

\* Mutant: the loop that closes leaves out the first socket.
OpenFailsFirstKept(c) ==
  /\ pc[c] = "open"
  /\ \E S \in SUBSET {s \in Sockets : fd[s] = "none"} :
       /\ Cardinality(S) <= 1
       /\ fd' = CloseIn(S \cup SetOf(IF listen_socket[c] = <<>> THEN <<>>
                                     ELSE Tail(listen_socket[c])))
  /\ listen_socket' = [listen_socket EXCEPT ![c] = <<>>]
  /\ addrs' = [addrs EXCEPT ![c] = 0]
  /\ pc' = [pc EXCEPT ![c] = "idle"]
  /\ UNCHANGED <<queueVars, dying, ioVars>>

\* ... or one of the calls fails: goto end_freeaddrinfo, where every socket
\* of the call is closed, the one in S too, which failed once it was there.
OpenFails(c) ==
  /\ pc[c] = "open"
  /\ \E S \in SUBSET {s \in Sockets : fd[s] = "none"} :
       /\ Cardinality(S) <= 1
       /\ fd' = CloseIn(S \cup SetOf(listen_socket[c]))
  /\ listen_socket' = [listen_socket EXCEPT ![c] = <<>>]
  /\ addrs' = [addrs EXCEPT ![c] = 0]
  /\ pc' = [pc EXCEPT ![c] = "idle"]
  /\ UNCHANGED <<queueVars, dying, ioVars>>

\* io_thread_connect up to its put; S are the sockets of the addresses that
\* did not answer.
Connect(c, s, S) ==
  /\ pc[c] = "idle"
  /\ \A t \in S \cup {s} : fd[t] = "none"
  /\ s \notin S /\ Cardinality(S) < MaxAddrs
  /\ fd' = [CloseIn(S) EXCEPT ![s] = "open"]
  /\ listen_socket' = [listen_socket EXCEPT ![c] = <<s>>]
  /\ pc' = [pc EXCEPT ![c] = "connect"]
  /\ UNCHANGED <<addrs, queueVars, dying, ioVars>>

\* One round of the second loop of io_thread_listen, or the put of
\* io_thread_connect.
PutSocket(c) ==
  /\ pc[c] \in {"listen", "connect"}
  /\ Put([id |-> IF pc[c] = "listen" THEN "LISTEN" ELSE "ESTABLISH",
          arg |-> Head(listen_socket[c])])
  /\ listen_socket' = [listen_socket EXCEPT ![c] = Tail(@)]
  /\ pc' = IF listen_socket'[c] = <<>> THEN [pc EXCEPT ![c] = "idle"] ELSE pc
  /\ UNCHANGED <<fd, addrs, dying, ioVars>>

\* io_thread_die, which the main thread calls once.
Die ==
  /\ ~dying
  /\ dying' = TRUE
  /\ Put([id |-> "DIE", arg |-> NoSocket])
  /\ UNCHANGED <<fd, callerVars, ioVars>>
-----------------------------------------------------------------------------
(* The IO thread *)

\* _io_thread_start; watcher_cmd_q_start forgets earlier wake-ups.
Start ==
  /\ ipc = "new"
  /\ ipc' = "loop"
  /\ held' = TRUE
  /\ sent' = FALSE
  /\ UNCHANGED <<fd, callerVars, cmd_q, refused, dying, listVars, iovec,
                 bufferVars>>

Wake ==
  /\ ipc = "loop"
  /\ held \/ watching # {}
  /\ sent
  /\ sent' = FALSE
  /\ ipc' = "drain"
  /\ UNCHANGED <<fd, callerVars, cmd_q, refused, dying, held, listVars, iovec,
                 bufferVars>>

\* Mutant: one command per wake-up.
DrainedEarly ==
  /\ ipc = "drain"
  /\ ipc' = "loop"
  /\ UNCHANGED <<fd, callerVars, queueVars, dying, held, listVars, iovec,
                 bufferVars>>

Drained ==
  /\ ipc = "drain"
  /\ cmd_q = <<>>
  /\ ipc' = "loop"
  /\ UNCHANGED <<fd, callerVars, queueVars, dying, held, listVars, iovec,
                 bufferVars>>

\* A command is at hand in _on_iot_cmd.
Command(name) ==
  /\ ipc = "drain"
  /\ cmd_q # <<>> /\ Head(cmd_q).id = name
  /\ cmd_q' = Tail(cmd_q)

\* What a closing loop of IO_THREAD_DIE may leave of a list: the loop moves
\* on to the sockobj->next it reads from the block it has just freed.
LeftOpen(list) ==
  {<<>>} \cup (IF "null" \in FreedNext
               THEN {SubSeq(list, k, Len(list)) : k \in 2 .. Len(list)} ELSE {})

\* IO_THREAD_DIE.
OnDie ==
  /\ Command("DIE")
  /\ listening' \in LeftOpen(listening)
  /\ established' \in LeftOpen(established)
  /\ LET left == SetOf(listening') \cup SetOf(established')
     IN /\ fd' = CloseIn(watching \ left)
        /\ watching' = watching \cap left
  /\ held' = FALSE
  /\ UNCHANGED <<callerVars, sent, refused, dying, ipc, iovec, bufferVars>>

\* IO_THREAD_LISTEN.
OnListen ==
  /\ Command("LISTEN")
  /\ LET s == Head(cmd_q).arg
     IN listening' = <<s>> \o listening /\ watching' = watching \cup {s}
  /\ UNCHANGED <<fd, callerVars, sent, refused, dying, ipc, held, established,
                 iovec, bufferVars>>

\* IO_THREAD_ESTABLISH.
OnEstablish ==
  /\ Command("ESTABLISH")
  /\ LET s == Head(cmd_q).arg
     IN established' = <<s>> \o established /\ watching' = watching \cup {s}
  /\ UNCHANGED <<fd, callerVars, sent, refused, dying, ipc, held, listening,
                 iovec, bufferVars>>

\* _on_io_thread_accept on the listening socket l; `app' is set as long as
\* the IO loop runs.
Accept(l, s) ==
  /\ ipc = "loop"
  /\ l \in watching /\ l \in SetOf(listening)
  /\ fd[s] = "none"
  /\ fd' = [fd EXCEPT ![s] = "open"]
  /\ established' = <<s>> \o established
  /\ watching' = watching \cup {s}
  /\ UNCHANGED <<callerVars, queueVars, dying, ipc, held, listening, iovec,
                 bufferVars>>

\* io_thread_sockobj_close: the socket is unlinked where the walk finds it.
Close(s) ==
  /\ fd' = [fd EXCEPT ![s] = "closed"]
  /\ watching' = watching \ {s}
  /\ \E k \in DOMAIN established :
       established[k] = s /\ established' = RemoveAt(established, k)

\* _on_io_thread_readwrite: slots, readv, and then end of file or an error,
\* or data in the first `used' slots, which nobody ever returns.
Read(s) ==
  /\ ipc = "loop"
  /\ s \in watching /\ s \in SetOf(established)
  /\ Got(WantedIov) > 0
  /\ Get(WantedIov)
  /\ \/ Close(s) /\ iovec' = Iovec(WantedIov)
     \/ /\ \E used \in 1 .. Got(WantedIov) :
             iovec' = SubSeq(Iovec(WantedIov), used + 1, Got(WantedIov))
        /\ UNCHANGED <<fd, watching, established>>
  /\ free_slots_head + Len(iovec') <= MaxHead
  /\ ipc' = IF iovec' = <<>> THEN "loop" ELSE "return"
  /\ UNCHANGED <<callerVars, queueVars, dying, held, listening>>

\* io_buffer_put, one round.
Return ==
  /\ ipc = "return"
  /\ PutSlot(Head(iovec))
  /\ iovec' = Tail(iovec)
  /\ ipc' = IF iovec' = <<>> THEN "loop" ELSE ipc
  /\ UNCHANGED <<fd, callerVars, queueVars, dying, held, listVars>>

\* ev_run returns 0; _io_thread_cleanup.
Leave ==
  /\ ipc = "loop"
  /\ ~held /\ watching = {}
  /\ ipc' = "done"
  /\ UNCHANGED <<fd, callerVars, queueVars, dying, held, listVars, iovec,
                 bufferVars>>

Prepare(c) ==
  \/ PutSocket(c) \/ OpenFails(c)
  \/ \E s \in Sockets : Open(c, s)

Call(c) ==
  \/ Listen(c)
  \/ \E s \in Sockets, S \in SUBSET Sockets : Connect(c, s, S)

Io ==
  \/ Start \/ Wake \/ Drained
  \/ OnDie \/ OnListen \/ OnEstablish
  \/ Return \/ Leave

Next ==
  \/ \E c \in Callers : Prepare(c) \/ Call(c)
  \/ Die \/ Io
  \/ \E s, l \in Sockets : Accept(l, s)
  \/ \E s \in Sockets : Read(s)

\* The IO thread goes on as long as it has something to do, and so does a
\* thread inside io_thread_listen or io_thread_connect.  Nothing is assumed
\* of calls and of peers.
Fairness == WF_vars(Io) /\ \A c \in Callers : WF_vars(Prepare(c))

Spec == Init /\ [][Next]_vars /\ Fairness
-----------------------------------------------------------------------------
(* Properties *)

Commands ==
  [id : {"LISTEN", "ESTABLISH"}, arg : Sockets]
    \cup {[id |-> "DIE", arg |-> NoSocket]}

TypeOK ==
  /\ fd \in [Sockets -> {"none", "open", "closed"}]
  /\ pc \in [Callers -> {"idle", "open", "listen", "connect"}]
  /\ addrs \in [Callers -> 0 .. MaxAddrs]
  /\ listen_socket \in [Callers -> Seq(Sockets)]
  /\ \A c \in Callers :
       pc[c] \in {"listen", "connect"} => listen_socket[c] # <<>>
  /\ cmd_q \in Seq(Commands) /\ Len(cmd_q) <= QCapacity
  /\ sent \in BOOLEAN /\ refused \subseteq Sockets
  /\ dying \in BOOLEAN /\ held \in BOOLEAN
  /\ ipc \in {"new", "loop", "drain", "return", "done"}
  /\ listening \in Seq(Sockets) /\ established \in Seq(Sockets)
  /\ watching \subseteq Sockets
  /\ iovec \in Seq(Slots)
  /\ free_slots_head \in Int /\ free_slots_tail \in Slots
  /\ free_slots \in [Slots -> Slots] /\ stray \in BOOLEAN

InCaller(s) == {c \in Callers : s \in SetOf(listen_socket[c])}
Times(s, list) == Cardinality({i \in DOMAIN list : list[i] = s})
InQueue(s) == Cardinality({i \in DOMAIN cmd_q : cmd_q[i].arg = s})

\* An open descriptor is known in exactly one place: to the thread that
\* prepares it, to one command, or to one list, unless a full queue has
\* refused it.  So none is lost on a failure, none is closed twice.
HeldOnce ==
  \A s \in Sockets :
    Cardinality(InCaller(s)) + InQueue(s) + Times(s, listening)
      + Times(s, established) + (IF s \in refused THEN 1 ELSE 0)
    = IF fd[s] = "open" THEN 1 ELSE 0

\* Stages of SocketLife.
stage ==
  [s \in Sockets |->
     CASE fd[s] # "open"   -> fd[s]
       [] s \in refused    -> "refused"
       [] s \in watching   -> "watched"
       [] InQueue(s) > 0   -> "handed"
       [] InCaller(s) # {} -> "preparing"
       [] OTHER            -> "lost"]

Life == INSTANCE SocketLife

\* Every socket goes along the road of SocketLife.
ImplementsSocketLife == Life!Spec

\* Nothing is put before watcher_cmd_q_start, which forgets wake-ups.
UpBeforePuts == ipc = "new" => cmd_q = <<>>

\* A socket that is handed over is watched, or the IO thread has ended, if
\* the thread was up before the first put.
HandedIsWatched ==
  []UpBeforePuts =>
    \A s \in Sockets : InQueue(s) > 0 ~> (InQueue(s) = 0 \/ ipc = "done")

\* The safe half of it: while there are commands, a thread that is in its loop
\* (or in a read, which returns there) has been sent a wake-up, again if
\* UpBeforePuts (NeverSleepsOnCommands in IoThreadProofs).
WokenForCommands == ipc \in {"loop", "return"} /\ cmd_q # <<>> => sent

\* Slots that a read has not used go back into the pool
\* (the comments "Return IO buffers" in _on_io_thread_readwrite).
PutStaysInPool == ~stray

Reader ==
  IF ipc = "new" THEN "new" ELSE IF ipc \in {"loop", "return"} THEN "asleep"
  ELSE IF ipc = "drain" THEN "awake" ELSE "gone"

Woken == INSTANCE WokenChannel WITH
           Putters <- Callers, Bound <- QCapacity,
           waiting <- Len(cmd_q), owing <- {}, reader <- Reader

\* The queue is used as WatcherCmdQ implements it.
ImplementsWokenChannel == Woken!Spec
-----------------------------------------------------------------------------
(* An inductive invariant; HeldOnce and the refinement rest on it. *)

\* The places of a socket: with a caller, in the queue, in one of the lists,
\* or among the refused.
Preparing == UNION {SetOf(listen_socket[c]) : c \in Callers}
Handed == {cmd_q[i].arg : i \in DOMAIN cmd_q} \ {NoSocket}
Listed == SetOf(listening) \cup SetOf(established)

\* They are disjoint, and the open descriptors are what is in them.
PlacesInv ==
  /\ {s \in Sockets : fd[s] = "open"} = Preparing \cup Handed \cup Listed \cup refused
  /\ \A c, d \in Callers :
       c # d => SetOf(listen_socket[c]) \cap SetOf(listen_socket[d]) = {}
  /\ Preparing \cap (Handed \cup Listed \cup refused) = {}
  /\ Handed \cap (Listed \cup refused) = {}
  /\ Listed \cap refused = {}
  /\ SetOf(listening) \cap SetOf(established) = {}

\* Nothing is twice in one place.
DistinctInv ==
  /\ \A c \in Callers : IsInjective(listen_socket[c])
  /\ \A i, j \in DOMAIN cmd_q :
       cmd_q[i].arg = cmd_q[j].arg /\ cmd_q[i].arg # NoSocket => i = j
  /\ IsInjective(listening) /\ IsInjective(established)

\* The watchers of the sockets in the lists are active, no others.
WatchInv == watching = Listed

\* A call has addresses left while it opens sockets, and its sockets are all
\* handed over or closed when it returns.
CallerInv ==
  \A c \in Callers : /\ pc[c] = "idle" => listen_socket[c] = <<>>
                     /\ pc[c] = "open" => addrs[c] > 0

IovecInv == ipc = "return" => iovec # <<>>

IInv ==
  /\ TypeOK
  /\ PlacesInv /\ DistinctInv /\ WatchInv /\ CallerInv /\ IovecInv
=============================================================================
