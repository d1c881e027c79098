----------------------------- MODULE GreenevApp ------------------------------
(***************************************************************************)
(* The three threads of greenev and how they end together: the main thread *)
(* (app.c), the detached IO thread (iothread.c) and the joinable Python    *)
(* thread (pythread.c, pygeapi.c, pyge/evloop.py).                         *)
(*                                                                         *)
(* The queues between them are taken as the bounded channels that          *)
(* WatcherCmdQ and CondCmdQ implement, with what a caller can notice kept: *)
(* a put into a watcher queue may be refused, its wake-up is a later step  *)
(* of the caller, and watcher_cmd_q_start forgets earlier wake-ups.        *)
(*                                                                         *)
(* EarlyPuts, LateListens, MaxListens >= QCapacity and "null" in FreedNext *)
(* each open the model to one kind of schedule or outcome that the code    *)
(* permits.  A liveness property that fails under one of them names it as  *)
(* a condition (IoUpBeforePuts, RoomForDie, ListensComeFirst).             *)
(***************************************************************************)
EXTENDS Integers, Sequences

CONSTANTS
  QCapacity,    \* commands a watcher queue holds (255 in the code)
  MaxListens,   \* bound: calls of watcher_cmd_q_put by io_thread_listen
  MaxConns,     \* bound: established sockets at a time
  EarlyPuts,    \* may a put precede the IO thread's watcher_cmd_q_start?
  LateListens,  \* may the signal come before the script's listen is done?
  FreedNext     \* what sockobj->next reads after free(sockobj)

ASSUME AppAssumption ==
  /\ QCapacity \in Nat /\ QCapacity >= 2
  /\ MaxListens \in Nat /\ MaxConns \in Nat
  /\ EarlyPuts \in BOOLEAN /\ LateListens \in BOOLEAN
  /\ "intact" \in FreedNext /\ FreedNext \subseteq {"intact", "null"}

VARIABLES
  run_phase,  \* "INIT", "RUN", "DYING", "EXIT"
  mpc,        \* main thread: "ctor", "loop", "drain" (_on_application_cmd),
              \* "die_send", "die_py" (inside _application_die), "join",
              \* "free_io", "free_app" (application_dtor), "exited", "aborted"
  main_refs,  \* reference count of the main loop
  app_cmd_q,  \* commands for the main thread
  app_sent,   \* ... and the wake-up of its watcher
  ipc,        \* IO thread: "new", "loop", "drain" (_on_iot_cmd),
              \* "announce", "send" (_io_thread_cleanup), "done"
  io_refs,    \* reference count of its loop
  io_cmd_q, io_sent,
  listening,    \* sockets in io_thread.listening
  established,  \* sockets in io_thread.established
  informed,   \* history: the IO thread has handled its DIE
  ppc,        \* Python thread: "new", "script", "listen_send", "run",
              \* "announce", "send", "done"
  py_cmd_q,
  listens     \* puts made by io_thread_listen so far

mainVars == <<run_phase, mpc, main_refs>>
ioVars   == <<ipc, io_refs, listening, established, informed>>
pyVars   == <<ppc, listens>>
appQ == <<app_cmd_q, app_sent>>
ioQ  == <<io_cmd_q, io_sent>>
vars == <<mainVars, ioVars, pyVars, appQ, ioQ, py_cmd_q>>

\* enum app_cmd_id.
Exits == {"IO_THREAD_EXIT", "PY_THREAD_EXIT"}

Signals == 2   \* _SIGINT and _SIGTERM
SignalsActive == run_phase \in {"INIT", "RUN"}

\* io_thread_ctor: the lists are empty and the thread has been created, with
\* every signal blocked, as the Python thread is.
IoInit ==
  /\ ipc = "new"
  /\ io_refs = 0
  /\ io_cmd_q = <<>> /\ io_sent = FALSE
  /\ listening = 0 /\ established = 0
  /\ informed = FALSE

\* py_thread_ctor.
PyInit ==
  /\ ppc = "new"
  /\ py_cmd_q = <<>>
  /\ listens = 0

\* Mutant: no reference is taken for the IO thread.
InitOneRef ==
  /\ run_phase = "INIT" /\ mpc = "ctor"
  /\ main_refs = Signals + 1
  /\ app_cmd_q = <<>> /\ app_sent = FALSE
  /\ IoInit /\ PyInit

\* application_ctor: both signal watchers and one reference per thread.
Init ==
  /\ run_phase = "INIT" /\ mpc = "ctor"
  /\ main_refs = Signals + 2
  /\ app_cmd_q = <<>> /\ app_sent = FALSE
  /\ IoInit /\ PyInit

\* watcher_cmd_q_put up to its unlock; a refused command is dropped, because
\* no caller looks at the result.
PutOrDrop(queue, cmd) ==
  IF Len(queue) < QCapacity THEN Append(queue, cmd) ELSE queue
-----------------------------------------------------------------------------
(* The main thread *)

\* application_run.
AppRun ==
  /\ mpc = "ctor"
  /\ run_phase' = "RUN"
  /\ mpc' = "loop"
  /\ UNCHANGED <<main_refs, ioVars, pyVars, appQ, ioQ, py_cmd_q>>

\* _on_terminating_signal and _application_die up to the put of io_thread_die.
Terminate ==
  /\ mpc = "loop"
  /\ SignalsActive
  /\ EarlyPuts \/ ipc # "new"
  /\ LateListens \/ ppc \notin {"new", "script", "listen_send"}
  /\ run_phase' = "DYING"
  /\ main_refs' = main_refs - Signals
  /\ io_cmd_q' = PutOrDrop(io_cmd_q, "DIE")
  /\ mpc' = IF Len(io_cmd_q) < QCapacity THEN "die_send" ELSE "die_py"
  /\ UNCHANGED <<ioVars, pyVars, appQ, io_sent, py_cmd_q>>

DieSend ==
  /\ mpc = "die_send"
  /\ io_sent' = TRUE
  /\ mpc' = "die_py"
  /\ UNCHANGED <<run_phase, main_refs, ioVars, pyVars, appQ, io_cmd_q, py_cmd_q>>

\* Mutant: the Python thread is not told.
DiePyForgotten ==
  /\ mpc = "die_py"
  /\ py_cmd_q' = py_cmd_q
  /\ mpc' = "loop"
  /\ UNCHANGED <<run_phase, main_refs, ioVars, pyVars, appQ, ioQ>>

\* py_thread_die: cond_cmd_q_put, on a queue nobody else puts into.
DiePy ==
  /\ mpc = "die_py"
  /\ py_cmd_q' = Append(py_cmd_q, "DIE")
  /\ mpc' = "loop"
  /\ UNCHANGED <<run_phase, main_refs, ioVars, pyVars, appQ, ioQ>>

AppWake ==
  /\ mpc = "loop"
  /\ main_refs > 0
  /\ app_sent
  /\ app_sent' = FALSE
  /\ mpc' = "drain"
  /\ UNCHANGED <<run_phase, main_refs, ioVars, pyVars, app_cmd_q, ioQ, py_cmd_q>>

AppDrained ==
  /\ mpc = "drain"
  /\ app_cmd_q = <<>>
  /\ mpc' = "loop"
  /\ UNCHANGED <<run_phase, main_refs, ioVars, pyVars, appQ, ioQ, py_cmd_q>>

\* _on_application_cmd.
OnAppCmd ==
  /\ mpc = "drain"
  /\ app_cmd_q # <<>>
  /\ app_cmd_q' = Tail(app_cmd_q)
  /\ IF Head(app_cmd_q) = "IO_THREAD_EXIT" /\ run_phase # "DYING"
     THEN mpc' = "aborted" /\ UNCHANGED main_refs
     ELSE main_refs' = main_refs - 1 /\ UNCHANGED mpc
  /\ UNCHANGED <<run_phase, ioVars, pyVars, app_sent, ioQ, py_cmd_q>>

\* ev_run returns 0 and application_run with it; application_dtor begins.
LeaveLoop ==
  /\ mpc = "loop"
  /\ main_refs = 0
  /\ run_phase' = "EXIT"
  /\ mpc' = "join"
  /\ UNCHANGED <<main_refs, ioVars, pyVars, appQ, ioQ, py_cmd_q>>

\* Mutant: the Python thread is not joined.
JoinNot ==
  /\ mpc = "join"
  /\ mpc' = "free_io"
  /\ UNCHANGED <<run_phase, main_refs, ioVars, pyVars, appQ, ioQ, py_cmd_q>>

\* py_thread_dtor: pthread_join.
Join ==
  /\ mpc = "join"
  /\ ppc = "done"
  /\ mpc' = "free_io"
  /\ UNCHANGED <<run_phase, main_refs, ioVars, pyVars, appQ, ioQ, py_cmd_q>>

\* io_thread_dtor deletes the IO thread's queue.
FreeIo ==
  /\ mpc = "free_io"
  /\ mpc' = "free_app"
  /\ UNCHANGED <<run_phase, main_refs, ioVars, pyVars, appQ, ioQ, py_cmd_q>>

\* watcher_cmd_q_delete(app_cmd_q).
FreeApp ==
  /\ mpc = "free_app"
  /\ mpc' = "exited"
  /\ UNCHANGED <<run_phase, main_refs, ioVars, pyVars, appQ, ioQ, py_cmd_q>>

Main ==
  \/ AppRun \/ DieSend \/ DiePy
  \/ AppWake \/ AppDrained \/ OnAppCmd
  \/ LeaveLoop \/ Join \/ FreeIo \/ FreeApp
-----------------------------------------------------------------------------
(* The IO thread *)

\* Mutant: no artificial reference.
IoStartUnreferenced ==
  /\ ipc = "new"
  /\ io_sent' = FALSE
  /\ io_refs' = io_refs
  /\ ipc' = "loop"
  /\ UNCHANGED <<mainVars, listening, established, informed, pyVars, appQ,
                 io_cmd_q, py_cmd_q>>

\* _io_thread_start: watcher_cmd_q_start and the artificial reference.
IoStart ==
  /\ ipc = "new"
  /\ io_sent' = FALSE
  /\ io_refs' = io_refs + 1
  /\ ipc' = "loop"
  /\ UNCHANGED <<mainVars, listening, established, informed, pyVars, appQ,
                 io_cmd_q, py_cmd_q>>

\* (ev_run does not poll again once the last reference is gone.)
IoWake ==
  /\ ipc = "loop"
  /\ io_refs > 0
  /\ io_sent
  /\ io_sent' = FALSE
  /\ ipc' = "drain"
  /\ UNCHANGED <<mainVars, io_refs, listening, established, informed, pyVars,
                 appQ, io_cmd_q, py_cmd_q>>

IoDrained ==
  /\ ipc = "drain"
  /\ io_cmd_q = <<>>
  /\ ipc' = "loop"
  /\ UNCHANGED <<mainVars, io_refs, listening, established, informed, pyVars,
                 appQ, ioQ, py_cmd_q>>

\* How many of n sockets a closing loop of _on_iot_cmd leaves open: it moves
\* on to the sockobj->next it reads from the block it has just freed.
LeftOpen(n) == IF n > 0 /\ "null" \in FreedNext THEN 0 .. n - 1 ELSE {0}

\* _on_iot_cmd, IO_THREAD_DIE.
OnDie ==
  /\ ipc = "drain"
  /\ io_cmd_q # <<>> /\ Head(io_cmd_q) = "DIE"
  /\ io_cmd_q' = Tail(io_cmd_q)
  /\ listening' \in LeftOpen(listening)
  /\ established' \in LeftOpen(established)
  /\ io_refs' = io_refs - (listening - listening')
                        - (established - established') - 1
  /\ informed' = TRUE
  /\ UNCHANGED <<mainVars, ipc, pyVars, appQ, io_sent, py_cmd_q>>

\* Mutant: the watcher of the socket is not started.
OnListenUnwatched ==
  /\ ipc = "drain"
  /\ io_cmd_q # <<>> /\ Head(io_cmd_q) = "LISTEN"
  /\ io_cmd_q' = Tail(io_cmd_q)
  /\ listening' = listening + 1
  /\ UNCHANGED <<mainVars, ipc, io_refs, established, informed, pyVars, appQ,
                 io_sent, py_cmd_q>>

\* Mutant: one LISTEN per wake-up, although each address of a listen is one.
OnListenOnce ==
  /\ ipc = "drain"
  /\ io_cmd_q # <<>> /\ Head(io_cmd_q) = "LISTEN"
  /\ io_cmd_q' = Tail(io_cmd_q)
  /\ ipc' = "loop"
  /\ listening' = listening + 1
  /\ io_refs' = io_refs + 1
  /\ UNCHANGED <<mainVars, established, informed, pyVars, appQ, io_sent,
                 py_cmd_q>>

\* _on_iot_cmd, IO_THREAD_LISTEN.
OnListen ==
  /\ ipc = "drain"
  /\ io_cmd_q # <<>> /\ Head(io_cmd_q) = "LISTEN"
  /\ io_cmd_q' = Tail(io_cmd_q)
  /\ listening' = listening + 1
  /\ io_refs' = io_refs + 1
  /\ UNCHANGED <<mainVars, ipc, established, informed, pyVars, appQ, io_sent,
                 py_cmd_q>>

\* _on_io_thread_accept.
Accept ==
  /\ ipc = "loop"
  /\ listening > 0 /\ established < MaxConns
  /\ established' = established + 1
  /\ io_refs' = io_refs + 1
  /\ UNCHANGED <<mainVars, ipc, listening, informed, pyVars, appQ, ioQ, py_cmd_q>>

\* _on_io_thread_readwrite on an error or end of file: io_thread_sockobj_close.
PeerCloses ==
  /\ ipc = "loop"
  /\ established > 0
  /\ established' = established - 1
  /\ io_refs' = io_refs - 1
  /\ UNCHANGED <<mainVars, ipc, listening, informed, pyVars, appQ, ioQ, py_cmd_q>>

\* ev_run returns 0; _io_thread_cleanup stops the watcher.
IoLeaveLoop ==
  /\ ipc = "loop"
  /\ io_refs = 0
  /\ ipc' = "announce"
  /\ UNCHANGED <<mainVars, io_refs, listening, established, informed, pyVars,
                 appQ, ioQ, py_cmd_q>>

\* application_command up to the unlock.
IoAnnounce ==
  /\ ipc = "announce"
  /\ app_cmd_q' = PutOrDrop(app_cmd_q, "IO_THREAD_EXIT")
  /\ ipc' = "send"
  /\ UNCHANGED <<mainVars, io_refs, listening, established, informed, pyVars,
                 app_sent, ioQ, py_cmd_q>>

IoSend ==
  /\ ipc = "send"
  /\ app_sent' = TRUE
  /\ ipc' = "done"
  /\ UNCHANGED <<mainVars, io_refs, listening, established, informed, pyVars,
                 app_cmd_q, ioQ, py_cmd_q>>

Io ==
  \/ IoStart \/ IoWake \/ IoDrained \/ OnDie \/ OnListen
  \/ IoLeaveLoop \/ IoAnnounce \/ IoSend
-----------------------------------------------------------------------------
(* The Python thread *)

PyStart ==
  /\ ppc = "new"
  /\ ppc' = "script"
  /\ UNCHANGED <<mainVars, ioVars, listens, appQ, ioQ, py_cmd_q>>

\* Mutant: the IO thread is not woken.
ListenUnsent ==
  /\ ppc = "script"
  /\ listens < MaxListens
  /\ EarlyPuts \/ ipc # "new"
  /\ listens' = listens + 1
  /\ io_cmd_q' = PutOrDrop(io_cmd_q, "LISTEN")
  /\ ppc' = ppc
  /\ UNCHANGED <<mainVars, ioVars, appQ, io_sent, py_cmd_q>>

\* io_thread_listen: one put per address that listens, each with its wake-up.
Listen ==
  /\ ppc = "script"
  /\ listens < MaxListens
  /\ EarlyPuts \/ ipc # "new"
  /\ listens' = listens + 1
  /\ io_cmd_q' = PutOrDrop(io_cmd_q, "LISTEN")
  /\ ppc' = IF Len(io_cmd_q) < QCapacity THEN "listen_send" ELSE ppc
  /\ UNCHANGED <<mainVars, ioVars, appQ, io_sent, py_cmd_q>>

ListenSend ==
  /\ ppc = "listen_send"
  /\ io_sent' = TRUE
  /\ ppc' = "script"
  /\ UNCHANGED <<mainVars, ioVars, listens, appQ, io_cmd_q, py_cmd_q>>

\* The script enters event_loop.run.
PyRun ==
  /\ ppc = "script"
  /\ ppc' = "run"
  /\ UNCHANGED <<mainVars, ioVars, listens, appQ, ioQ, py_cmd_q>>

\* py_thread_next_cmd returns DIE and event_loop.run breaks.
PyDie ==
  /\ ppc = "run"
  /\ py_cmd_q # <<>>
  /\ py_cmd_q' = Tail(py_cmd_q)
  /\ ppc' = "announce"
  /\ UNCHANGED <<mainVars, ioVars, listens, appQ, ioQ>>

\* The script ends by itself, or by an exception.
PyQuit ==
  /\ ppc \in {"script", "run"}
  /\ ppc' = "announce"
  /\ UNCHANGED <<mainVars, ioVars, listens, appQ, ioQ, py_cmd_q>>

\* _py_thread_cleanup.
PyAnnounce ==
  /\ ppc = "announce"
  /\ app_cmd_q' = PutOrDrop(app_cmd_q, "PY_THREAD_EXIT")
  /\ ppc' = "send"
  /\ UNCHANGED <<mainVars, ioVars, listens, app_sent, ioQ, py_cmd_q>>

PySend ==
  /\ ppc = "send"
  /\ app_sent' = TRUE
  /\ ppc' = "done"
  /\ UNCHANGED <<mainVars, ioVars, listens, app_cmd_q, ioQ, py_cmd_q>>

Py ==
  \/ PyStart \/ Listen \/ ListenSend \/ PyRun
  \/ PyDie \/ PyAnnounce \/ PySend

\* abort() ends the process; NoAbort shows that no step after it matters.
Next ==
  \/ Main \/ Terminate
  \/ Io \/ Accept \/ PeerCloses
  \/ Py \/ PyQuit

\* Each thread goes on as long as it has something to do.  Nothing is assumed
\* of signals, peers, or a script that ends.
Fairness == WF_vars(Main) /\ WF_vars(Io) /\ WF_vars(Py)

Spec == Init /\ [][Next]_vars /\ Fairness
-----------------------------------------------------------------------------
(* Properties *)

TypeOK ==
  /\ run_phase \in {"INIT", "RUN", "DYING", "EXIT"}
  /\ mpc \in {"ctor", "loop", "drain", "die_send", "die_py", "join",
              "free_io", "free_app", "exited", "aborted"}
  /\ main_refs \in Int /\ io_refs \in Int
  /\ app_cmd_q \in Seq(Exits)
  /\ io_cmd_q \in Seq({"DIE", "LISTEN"})
  /\ py_cmd_q \in Seq({"DIE"})
  /\ app_sent \in BOOLEAN /\ io_sent \in BOOLEAN
  /\ ipc \in {"new", "loop", "drain", "announce", "send", "done"}
  /\ listening \in Nat /\ established \in Nat
  /\ informed \in BOOLEAN
  /\ ppc \in {"new", "script", "listen_send", "run", "announce", "send", "done"}
  /\ listens \in 0 .. MaxListens

Queued(queue, cmd) == \E i \in DOMAIN queue : queue[i] = cmd

LoopLeft == mpc \in {"join", "free_io", "free_app", "exited"}

\* The main loop ends only when both threads have announced their exit, and
\* only on a termination signal: the references taken in application_ctor and
\* dropped in _on_application_cmd and _application_die neither run out early
\* nor go negative.
ExitOnlyAfterBoth ==
  /\ main_refs >= 0
  /\ LoopLeft => /\ ipc \in {"send", "done"}
                 /\ ppc \in {"send", "done"}
                 /\ app_cmd_q = <<>>

\* The abort() of _on_application_cmd is unreachable: no loss of references
\* ends the IO thread before it is told to.
NoAbort == mpc # "aborted"

\* The IO loop never ends over an open socket: its reference count and its
\* two lists agree, through listen, accept, close and DIE.
NoSocketLeftBehind ==
  ipc \in {"announce", "send", "done"} => listening = 0 /\ established = 0

\* The IO thread's queue is freed only when nobody can use it any more.
IoQueueFreedLast ==
  mpc \in {"free_app", "exited"} => ppc = "done" /\ ipc \in {"send", "done"}

\* app_cmd_q outlives every watcher_cmd_q_put on it, ev_async_send included.
AppQueueFreedLast == mpc = "exited" => ppc = "done" /\ ipc = "done"

\* Nothing is put into the IO thread's queue before its watcher is started,
\* which forgets the wake-ups it finds.
IoUpBeforePuts == [](ipc = "new" => io_cmd_q = <<>>)

\* The queue has room for DIE when the signal comes.
RoomForDie == [](SignalsActive => Len(io_cmd_q) < QCapacity)

\* The script has done its listening when the signal comes.
ListensComeFirst ==
  [](~SignalsActive => ppc \notin {"new", "script", "listen_send"})

\* After a termination signal the program ends, if what DIE frees still reads
\* as before (FreedNext).  Each condition is needed: nothing in the code makes
\* up for one that fails.
DieLeadsToExit ==
  IoUpBeforePuts /\ RoomForDie /\ ListensComeFirst =>
    (run_phase = "DYING" ~> mpc = "exited")

\* A socket the script prepared is taken over by the IO thread, unless the
\* program is ending.
ListenIsServed ==
  IoUpBeforePuts =>
    (Queued(io_cmd_q, "LISTEN")
       ~> (~Queued(io_cmd_q, "LISTEN") \/ run_phase \in {"DYING", "EXIT"}))

\* The safe half of DieLeadsToExit, theorems of GreenevAppProofs.  An exit that
\* is announced finds the main thread in _on_application_cmd, or a wake-up has
\* been sent or is the next step of a thread that announced.
AppWokenForExits ==
  app_cmd_q # <<>> /\ mpc \notin {"drain", "aborted"}
    => app_sent \/ ipc = "send" \/ ppc = "send"

\* The same of the IO thread in its loop, which needs IoUpBeforePuts.
IoWokenForCommands ==
  io_cmd_q # <<>> /\ ipc = "loop"
    => io_sent \/ mpc = "die_send" \/ ppc = "listen_send"

AppReader ==
  IF mpc \in {"ctor", "loop", "die_send", "die_py"} THEN "asleep"
  ELSE IF mpc = "drain" THEN "awake" ELSE "gone"

AppOwing ==
  (IF ipc = "send" THEN {"io"} ELSE {}) \cup (IF ppc = "send" THEN {"py"} ELSE {})

IoReader ==
  IF ipc = "new" THEN "new" ELSE IF ipc = "loop" THEN "asleep"
  ELSE IF ipc = "drain" THEN "awake" ELSE "gone"

IoOwing ==
  (IF mpc = "die_send" THEN {"main"} ELSE {})
    \cup (IF ppc = "listen_send" THEN {"py"} ELSE {})

AppChannel == INSTANCE WokenChannel WITH
                Putters <- {"io", "py"}, Bound <- QCapacity,
                waiting <- Len(app_cmd_q), owing <- AppOwing,
                sent <- app_sent, reader <- AppReader

IoChannel == INSTANCE WokenChannel WITH
               Putters <- {"main", "py"}, Bound <- QCapacity,
               waiting <- Len(io_cmd_q), owing <- IoOwing,
               sent <- io_sent, reader <- IoReader

\* Both queues are used as WatcherCmdQ implements them, by every thread and
\* under every schedule: no put without its wake-up (application_command,
\* io_thread_die, io_thread_listen), no sleep over a command
\* (_on_application_cmd, _on_iot_cmd).
ImplementsWokenChannels == AppChannel!Spec /\ IoChannel!Spec
-----------------------------------------------------------------------------
(* How the references are accounted for: an inductive invariant. *)

AtMostOnce(queue, cmd) ==
  \A i, j \in DOMAIN queue : (queue[i] = cmd /\ queue[j] = cmd) => i = j

IoAnnounced == ipc \in {"send", "done"}
PyAnnounced == ppc \in {"send", "done"}

\* The main thread's phase follows its place in the program.
PhaseInv ==
  /\ run_phase = "INIT" <=> mpc = "ctor"
  /\ run_phase = "EXIT" <=> LoopLeft
  /\ mpc \in {"die_send", "die_py"} => run_phase = "DYING"

\* Each thread announces its exit once; nothing else is in app_cmd_q, so it
\* always has room for the announcement.
AnnounceInv ==
  /\ \A c \in Exits : AtMostOnce(app_cmd_q, c)
  /\ Queued(app_cmd_q, "IO_THREAD_EXIT") => IoAnnounced
  /\ Queued(app_cmd_q, "PY_THREAD_EXIT") => PyAnnounced

\* A thread holds its reference to the main loop until its announcement has
\* been handled, the signal watchers until the first signal.
MainRefsInv ==
  /\ main_refs =
       (IF SignalsActive THEN Signals ELSE 0)
     + (IF IoAnnounced /\ ~Queued(app_cmd_q, "IO_THREAD_EXIT") THEN 0 ELSE 1)
     + (IF PyAnnounced /\ ~Queued(app_cmd_q, "PY_THREAD_EXIT") THEN 0 ELSE 1)
  /\ LoopLeft => main_refs = 0

\* There is one DIE at most, and only after a signal.
DieInv ==
  /\ Queued(io_cmd_q, "DIE") \/ informed => ~SignalsActive
  /\ informed => ~Queued(io_cmd_q, "DIE")
  /\ AtMostOnce(io_cmd_q, "DIE")

\* The IO loop is held by the artificial reference and by its sockets.
IoRefsInv ==
  /\ io_refs = (IF ipc # "new" /\ ~informed THEN 1 ELSE 0)
             + listening + established
  /\ ipc = "new" => ~informed
  /\ ipc \in {"announce", "send", "done"} => io_refs = 0

\* Joining comes before freeing.
JoinInv == mpc \in {"free_io", "free_app", "exited"} => ppc = "done"

IInv ==
  /\ TypeOK
  /\ PhaseInv /\ AnnounceInv /\ MainRefsInv
  /\ DieInv /\ IoRefsInv /\ JoinInv /\ NoAbort
=============================================================================
