----------------------------- MODULE PyglevLoop -----------------------------
(***************************************************************************)
(* The event loop object of pyglev (core/evloop.c) with the listening      *)
(* commands (core/lstncmd.c) and established sockets (core/estsock.c) it   *)
(* keeps, as pyglev/app.py uses it.                                        *)
(*                                                                         *)
(* The main thread runs the script, then event_loop.run(), which gives up  *)
(* the interpreter lock (GIL) and takes it back only around calls into     *)
(* Python.  Other Python threads go on and schedule objects meanwhile.     *)
(* Reference counts, the command queue and the list of listening commands  *)
(* cross that border.                                                      *)
(*                                                                         *)
(* Python code can be interrupted between any two of its steps, so `gil'   *)
(* is held only while a C function that other steps could interleave with  *)
(* keeps it; a step that needs the lock requires it to be free.            *)
(***************************************************************************)
EXTENDS Integers, Sequences, FiniteSets

CONSTANTS
  ListenCmds,   \* objects of type listen_cmd
  Callables,    \* callables passed to schedule()
  Scripts,      \* threads that run Python code
  Main,         \* the one of them that calls event_loop.run()
  Conns,        \* connections that peers can make
  NoThread,     \* "the GIL is free"
  NoObject,     \* "no object"
  QCapacity,    \* commands the queue holds (127 in the code)
  MaxAddrs,     \* bound: addresses a host name resolves to
  MaxPuts,      \* bound: how often one callable is scheduled
  LateListens,  \* may the signal come before a listen is handled?
  Collects,     \* may the cyclic garbage collector traverse the loop?
  FreedNext     \* what listen_cmd->next gives after the last Py_DECREF

Objects == ListenCmds \cup Callables

ASSUME LoopAssumption ==
  /\ ListenCmds \cap Callables = {} /\ NoObject \notin Objects
  /\ Main \in Scripts /\ NoThread \notin Scripts
  /\ QCapacity \in Nat \ {0} /\ MaxAddrs \in Nat \ {0} /\ MaxPuts \in Nat \ {0}
  /\ LateListens \in BOOLEAN /\ Collects \in BOOLEAN
  /\ "intact" \in FreedNext /\ FreedNext \subseteq {"intact", "crash"}

VARIABLES
  gil, ppc, putting,  \* the thread inside schedule() or _xschedule() with
                      \* the GIL, where it is there, and the object it passes
  refs,     \* ob_refcnt of each object; 0 once it is deallocated
  created,  \* the objects that have been created so far
  kept,     \* the objects some variable of the script refers to
  puts,     \* how often each object has been scheduled
  cmd_q, sent,  \* the loop's command queue (CmdQ) and its wake-up
  lpc,      \* main thread: "script", then in event_loop_run "poll",
            \* "get", "link", "resolve" (_on_cmdq_ready), "call", "python"
            \* (a scheduled callable), "close", "next" (the walk of
            \* _event_loop_break), "left", "done"; "faulted" in that walk or
            \* "crashed" in the destructor
  cmd, last,        \* locals of _event_loop_on_cmdq_ready: the command, and
                    \* whether qsize was 0
  listen_commands,  \* the list of that name, newest first
  status,   \* listen_cmd.status, "I", "R", "L" or "C"
  fds,      \* how many listening sockets of a command are open and watched
  signalled,  \* SIGINT or SIGTERM has been sent
  signals,    \* the two signal watchers are active
  conns,    \* established sockets: "none", "open", "finished" (the protocol
            \* has returned), "closed"
  unlisted, \* history: commands the collector has taken off the list
  late      \* history: commands put into the list after the break began

putVars  == <<gil, ppc, putting>>
objVars  == <<refs, created, kept, puts>>
qVars    == <<cmd_q, sent>>
locals   == <<cmd, last>>
listVars == <<listen_commands, status, fds>>
sigVars  == <<signalled, signals>>
histVars == <<unlisted, late>>
vars == <<putVars, objVars, qVars, lpc, locals, listVars, sigVars, conns,
          histVars>>

\* event_loop_ctor: queue and signal watchers are started.
Init ==
  /\ gil = NoThread /\ ppc = "idle" /\ putting = NoObject
  /\ refs = [o \in Objects |-> 0]
  /\ created = {} /\ kept = {}
  /\ puts = [o \in Objects |-> 0]
  /\ cmd_q = <<>> /\ sent = FALSE
  /\ lpc = "script"
  /\ cmd = NoObject /\ last = FALSE
  /\ listen_commands = <<>>
  /\ status = [c \in ListenCmds |-> "I"]
  /\ fds = [c \in ListenCmds |-> 0]
  /\ signalled = FALSE /\ signals = TRUE
  /\ conns = [k \in Conns |-> "none"]
  /\ unlisted = {} /\ late = {}

In(o, s) == \E i \in DOMAIN s : s[i] = o

\* How often o occurs in s.
Count(o, s) == Cardinality({i \in DOMAIN s : s[i] = o})

Ended == lpc \in {"done", "crashed", "faulted"}

\* The main thread is in the walk of _event_loop_break, and has the GIL.
Walking == lpc \in {"close", "next", "faulted"}

\* A listen has been asked for and not been handled yet.
ListenPending ==
  \/ putting \in ListenCmds
  \/ \E c \in ListenCmds : In(c, cmd_q)
  \/ lpc = "link" \/ lpc = "resolve"
-----------------------------------------------------------------------------
(* Python code: the script before run(), callables, other threads *)

\* A thread can execute Python code when nobody keeps the GIL; the main
\* thread only outside ev_run or in a callable that the loop calls.
RunsPython(t) ==
  /\ gil = NoThread
  /\ t = Main => lpc \in {"script", "python"}
  /\ ~Ended

\* core.listen_cmd(...) (listen_cmd_ctor), or a new callable.
Create(t, o) ==
  /\ RunsPython(t)
  /\ o \notin created
  /\ created' = created \cup {o}
  /\ kept' = kept \cup {o}
  /\ refs' = [refs EXCEPT ![o] = 1]
  /\ UNCHANGED <<putVars, puts, qVars, lpc, locals, listVars, sigVars, conns,
                 histVars>>

\* The script drops its reference; the last one deallocates the object.
Drop(t, o) ==
  /\ RunsPython(t)
  /\ o \in kept
  /\ kept' = kept \ {o}
  /\ refs' = [refs EXCEPT ![o] = @ - 1]
  /\ UNCHANGED <<putVars, created, puts, qVars, lpc, locals, listVars, sigVars,
                 conns, histVars>>

\* application.listen schedules each of its commands once.
MayPut(o) ==
  IF o \in ListenCmds THEN puts[o] = 0 /\ (LateListens \/ ~signalled)
                      ELSE puts[o] < MaxPuts

\* event_loop.schedule(o), _xschedule(o): cmd_q_put up to its unlock.  A full
\* queue raises RuntimeError and changes nothing.
Put(t, o) ==
  /\ RunsPython(t)
  /\ o \in kept
  /\ MayPut(o)
  /\ Len(cmd_q) < QCapacity
  /\ cmd_q' = Append(cmd_q, o)
  /\ puts' = [puts EXCEPT ![o] = @ + 1]
  /\ gil' = t /\ ppc' = "send" /\ putting' = o
  /\ UNCHANGED <<refs, created, kept, sent, lpc, locals, listVars, sigVars,
                 conns, histVars>>

\* Mutant: the GIL is given up before the reference is taken.
PutSendUnlocked ==
  /\ ppc = "send"
  /\ sent' = TRUE
  /\ ppc' = "incref"
  /\ gil' = NoThread
  /\ UNCHANGED <<putting, objVars, cmd_q, lpc, locals, listVars, sigVars,
                 conns, histVars>>

\* ev_async_send, at the end of cmd_q_put.
PutSend ==
  /\ ppc = "send"
  /\ sent' = TRUE
  /\ ppc' = "incref"
  /\ UNCHANGED <<gil, putting, objVars, cmd_q, lpc, locals, listVars, sigVars,
                 conns, histVars>>

\* Mutant: the reference of the queue is forgotten.
PutIncrefForgotten ==
  /\ ppc = "incref"
  /\ gil' = NoThread /\ ppc' = "idle" /\ putting' = NoObject
  /\ UNCHANGED <<objVars, qVars, lpc, locals, listVars, sigVars, conns, histVars>>

\* Only now does the function take the queue's reference to the object.
PutIncref ==
  /\ ppc = "incref"
  /\ refs' = [refs EXCEPT ![putting] = @ + 1]
  /\ gil' = NoThread /\ ppc' = "idle" /\ putting' = NoObject
  /\ UNCHANGED <<created, kept, puts, qVars, lpc, locals, listVars, sigVars,
                 conns, histVars>>

\* event_loop_tp_traverse, called by the collector in any Python thread: the
\* loop that visits the list assigns its head on the way.
Collect(t) ==
  /\ Collects
  /\ RunsPython(t)
  /\ listen_commands' = <<>>
  /\ unlisted' = unlisted \cup {listen_commands[i] : i \in DOMAIN listen_commands}
  /\ UNCHANGED <<putVars, objVars, qVars, lpc, locals, status, fds, sigVars,
                 conns, late>>

\* The process is sent SIGINT or SIGTERM.
Signal ==
  /\ ~signalled
  /\ LateListens \/ ~ListenPending
  /\ signalled' = TRUE
  /\ UNCHANGED <<putVars, objVars, qVars, lpc, locals, listVars, signals, conns,
                 histVars>>
-----------------------------------------------------------------------------
(* The main thread in event_loop_run *)

\* app.run(): the GIL is released, ev_run entered.
Run ==
  /\ lpc = "script"
  /\ gil = NoThread
  /\ lpc' = "poll"
  /\ UNCHANGED <<putVars, objVars, qVars, locals, listVars, sigVars, conns, histVars>>

Wake ==
  /\ lpc = "poll"
  /\ sent
  /\ sent' = FALSE
  /\ lpc' = "get"
  /\ UNCHANGED <<putVars, objVars, cmd_q, locals, listVars, sigVars, conns, histVars>>

GetEmpty ==
  /\ lpc = "get"
  /\ cmd_q = <<>>
  /\ lpc' = "poll"
  /\ UNCHANGED <<putVars, objVars, qVars, locals, listVars, sigVars, conns, histVars>>

\* cmd_q_get and the switch on cmd.id.
Get ==
  /\ lpc = "get"
  /\ cmd_q # <<>>
  /\ cmd' = Head(cmd_q)
  /\ cmd_q' = Tail(cmd_q)
  /\ last' = (Tail(cmd_q) = <<>>)
  /\ lpc' = IF cmd' \in ListenCmds THEN "link" ELSE "call"
  /\ UNCHANGED <<putVars, objVars, sent, listVars, sigVars, conns, histVars>>

\* Mutant: one command per wake-up, no loop.
NextCmdOne == "poll"

\* After a command: "this was last command in the queue".
NextCmd == IF last THEN "poll" ELSE "get"

\* LISTEN_CMD_01, without the GIL: the queue's reference becomes the list's.
Link ==
  /\ lpc = "link"
  /\ listen_commands' = <<cmd>> \o listen_commands
  /\ status' = [status EXCEPT ![cmd] = "R"]
  /\ late' = IF signals THEN late ELSE late \cup {cmd}
  /\ lpc' = "resolve"
  /\ UNCHANGED <<putVars, objVars, qVars, locals, fds, sigVars, conns, unlisted>>

\* _listen_cmd_xschedule_01 with every address bound: one watched socket each.
Listening ==
  /\ lpc = "resolve"
  /\ \E n \in 1 .. MaxAddrs : fds' = [fds EXCEPT ![cmd] = n]
  /\ status' = [status EXCEPT ![cmd] = "L"]
  /\ lpc' = NextCmd
  /\ UNCHANGED <<putVars, objVars, qVars, locals, listen_commands, sigVars,
                 conns, histVars>>

\* ... with a failure to resolve, or on one of the addresses: the error goes
\* to on_error under the GIL, every socket opened so far is closed again, and
\* the command stays in the list.
ListenFails ==
  /\ lpc = "resolve"
  /\ gil = NoThread
  /\ lpc' = NextCmd
  /\ UNCHANGED <<putVars, objVars, qVars, locals, listVars, sigVars, conns, histVars>>

\* CALLABLE: PyEval_RestoreThread, then the call.
CallBegin ==
  /\ lpc = "call"
  /\ gil = NoThread
  /\ lpc' = "python"
  /\ UNCHANGED <<putVars, objVars, qVars, locals, listVars, sigVars, conns, histVars>>

\* The call returns, the queue's reference is dropped, the GIL released.
CallEnd ==
  /\ lpc = "python"
  /\ gil = NoThread
  /\ refs' = [refs EXCEPT ![cmd] = @ - 1]
  /\ lpc' = NextCmd
  /\ UNCHANGED <<putVars, created, kept, puts, qVars, locals, listVars, sigVars,
                 conns, histVars>>

\* est_socket_new: the first step of the protocol has configured the watcher.
Establish(k) ==
  /\ conns[k] = "none"
  /\ conns' = [conns EXCEPT ![k] = "open"]

\* _on_listen_socket_accept: on_accept returns a generator.  (A connection
\* that fails anything on the way is closed at once.)
Accept(c, k) ==
  /\ lpc = "poll"
  /\ gil = NoThread
  /\ fds[c] > 0
  /\ status[c] = "L"
  /\ Establish(k)
  /\ UNCHANGED <<putVars, objVars, qVars, lpc, locals, listVars, sigVars,
                 histVars>>

\* _on_est_socket_read: the protocol returns or raises instead of yielding;
\* the socket stays open and watched.
ProtocolEnds(k) ==
  /\ lpc = "poll"
  /\ gil = NoThread
  /\ conns[k] = "open"
  /\ conns' = [conns EXCEPT ![k] = "finished"]
  /\ UNCHANGED <<putVars, objVars, qVars, lpc, locals, listVars, sigVars,
                 histVars>>

\* _on_est_socket_closed: only the watcher is stopped.
PeerCloses(k) ==
  /\ lpc = "poll"
  /\ conns[k] \in {"open", "finished"}
  /\ conns' = [conns EXCEPT ![k] = "closed"]
  /\ UNCHANGED <<putVars, objVars, qVars, lpc, locals, listVars, sigVars,
                 histVars>>

\* Mutant: the signal watchers stay active and keep their references.
BreakKeepsSignals ==
  /\ lpc = "poll"
  /\ signalled /\ signals
  /\ gil = NoThread
  /\ gil' = Main
  /\ lpc' = "close"
  /\ UNCHANGED <<ppc, putting, objVars, qVars, locals, listVars, sigVars, conns,
                 histVars>>

\* _event_loop_break, in the callback of a signal: the signal watchers are
\* stopped and the GIL is taken for the whole walk.
BreakBegin ==
  /\ lpc = "poll"
  /\ signalled /\ signals
  /\ gil = NoThread
  /\ signals' = FALSE
  /\ gil' = Main
  /\ lpc' = "close"
  /\ UNCHANGED <<ppc, putting, objVars, qVars, locals, listVars, signalled,
                 conns, histVars>>

\* Mutant: the sockets are closed but their watchers stay active.
BreakCloseUnstopped ==
  /\ lpc = "close"
  /\ listen_commands # <<>>
  /\ status' = [status EXCEPT ![Head(listen_commands)] = "C"]
  /\ refs' = [refs EXCEPT ![Head(listen_commands)] = @ - 1]
  /\ lpc' = "next"
  /\ UNCHANGED <<putVars, created, kept, puts, qVars, locals, listen_commands,
                 fds, sigVars, conns, histVars>>

\* _listen_cmd_close, then Py_DECREF: the command may be deallocated, and
\* self->listen_commands still points to it.
BreakClose ==
  /\ lpc = "close"
  /\ listen_commands # <<>>
  /\ status' = [status EXCEPT ![Head(listen_commands)] = "C"]
  /\ fds' = [fds EXCEPT ![Head(listen_commands)] = 0]
  /\ refs' = [refs EXCEPT ![Head(listen_commands)] = @ - 1]
  /\ lpc' = "next"
  /\ UNCHANGED <<putVars, created, kept, puts, qVars, locals, listen_commands,
                 sigVars, conns, histVars>>

\* The next field is read, through a command that may just have been
\* deallocated, and still has its value.
BreakNext ==
  /\ lpc = "next"
  /\ listen_commands' = Tail(listen_commands)
  /\ lpc' = "close"
  /\ UNCHANGED <<putVars, objVars, qVars, locals, status, fds, sigVars, conns,
                 histVars>>

\* ... or has not.
BreakFault ==
  /\ lpc = "next"
  /\ "crash" \in FreedNext
  /\ refs[Head(listen_commands)] = 0
  /\ lpc' = "faulted"
  /\ UNCHANGED <<putVars, objVars, qVars, locals, listVars, sigVars, conns,
                 histVars>>

\* Mutant: the walk stops at the last command.
BreakEndShort ==
  /\ lpc = "close"
  /\ Len(listen_commands) <= 1
  /\ listen_commands' = <<>>
  /\ gil' = NoThread
  /\ lpc' = "poll"
  /\ UNCHANGED <<ppc, putting, objVars, qVars, locals, status, fds, sigVars,
                 conns, histVars>>

BreakEnd ==
  /\ lpc = "close"
  /\ listen_commands = <<>>
  /\ gil' = NoThread
  /\ lpc' = "poll"
  /\ UNCHANGED <<ppc, putting, objVars, qVars, locals, listVars, sigVars, conns,
                 histVars>>

Break == BreakBegin \/ BreakClose \/ BreakNext \/ BreakFault \/ BreakEnd

\* libev: nothing referenced is left, ev_run returns.
Leave ==
  /\ lpc = "poll"
  /\ ~signals
  /\ \A c \in ListenCmds : fds[c] = 0
  /\ \A k \in Conns : conns[k] \in {"none", "closed"}
  /\ lpc' = "left"
  /\ UNCHANGED <<putVars, objVars, qVars, locals, listVars, sigVars, conns,
                 histVars>>

\* event_loop_dtor.  Its event_loop_tp_clear sets the variable it walks the
\* list with to NULL and then reads the next field through it.
Finish ==
  /\ lpc = "left"
  /\ gil = NoThread
  /\ lpc' = IF listen_commands = <<>> THEN "done" ELSE "crashed"
  /\ UNCHANGED <<putVars, objVars, qVars, locals, listVars, sigVars, conns,
                 histVars>>

Script(t) ==
  \/ \E o \in Objects : Create(t, o) \/ Drop(t, o) \/ Put(t, o)
  \/ Collect(t)

Drain == GetEmpty \/ Get \/ Link \/ Listening \/ ListenFails \/ CallBegin \/ CallEnd

Sockets ==
  \E k \in Conns : \/ \E c \in ListenCmds : Accept(c, k)
                   \/ ProtocolEnds(k) \/ PeerCloses(k)

Next ==
  \/ \E t \in Scripts : Script(t)
  \/ PutSend \/ PutIncref \/ Signal
  \/ Run \/ Wake \/ Drain \/ Sockets \/ Break \/ Leave \/ Finish

\* The main thread calls run() and goes on, and a thread inside schedule()
\* returns from it.  Nothing is assumed of scripts, peers and signals.
Fairness ==
  /\ WF_vars(PutSend \/ PutIncref)
  /\ WF_vars(Run) /\ WF_vars(Wake) /\ WF_vars(Drain)
  /\ WF_vars(Break) /\ WF_vars(Leave \/ Finish)

Spec == Init /\ [][Next]_vars /\ Fairness
-----------------------------------------------------------------------------
(* Properties *)

TypeOK ==
  /\ gil \in Scripts \cup {NoThread}
  /\ ppc \in {"idle", "send", "incref"}
  /\ putting \in Objects \cup {NoObject}
  /\ refs \in [Objects -> Nat]
  /\ created \subseteq Objects /\ kept \subseteq created
  /\ puts \in [Objects -> 0 .. MaxPuts]
  /\ cmd_q \in Seq(Objects) /\ Len(cmd_q) <= QCapacity
  /\ sent \in BOOLEAN
  /\ lpc \in {"script", "poll", "get", "link", "resolve", "call", "python",
              "close", "next", "left", "done", "crashed", "faulted"}
  /\ cmd \in Objects \cup {NoObject} /\ last \in BOOLEAN
  /\ listen_commands \in Seq(ListenCmds)
  /\ status \in [ListenCmds -> {"I", "R", "L", "C"}]
  /\ fds \in [ListenCmds -> 0 .. MaxAddrs]
  /\ signalled \in BOOLEAN /\ signals \in BOOLEAN
  /\ conns \in [Conns -> {"none", "open", "finished", "closed"}]
  /\ unlisted \subseteq ListenCmds /\ late \subseteq ListenCmds

\* The object the loop has taken from the queue, with the queue's reference.
InHand == IF lpc \in {"link", "call", "python"} THEN {cmd} ELSE {}

\* The head of the list in the walk of _event_loop_break, between its
\* Py_DECREF and the reading of its next field.
Released == IF lpc \in {"next", "faulted"} THEN {Head(listen_commands)} ELSE {}

\* References to o that queue, list and loop own.
Owned(o) ==
  Count(o, cmd_q) + Count(o, listen_commands) + (IF o \in InHand THEN 1 ELSE 0)

\* The reference count of every object is what script, queue, list and the
\* loop's hand own (event_loop_schedule, event_loop_xschedule,
\* _event_loop_on_cmdq_ready, _event_loop_break), less the reference a put has
\* not taken yet or the walk of the break has just dropped.  What the
\* collector takes off the list leaks: it keeps its count for good.
RefsExact ==
  \A o \in Objects :
    refs[o] + (IF o = putting THEN 1 ELSE 0) + (IF o \in Released THEN 1 ELSE 0) =
      Owned(o) + (IF o \in kept THEN 1 ELSE 0) + (IF o \in unlisted THEN 1 ELSE 0)

\* The object the loop works on, between its removal from the queue and the
\* end of its handling.
Working == IF lpc \in {"link", "resolve", "call", "python"} THEN {cmd} ELSE {}

\* What the queue, the loop or the list refers to is allocated, although the
\* reference is taken after the loop may have seen the object.  The one
\* exception is in _event_loop_break: there the list begins with a command
\* whose reference has been dropped, and which is read once more.
OnlyBreakUsesFreed ==
  /\ \A o \in Objects : In(o, cmd_q) \/ o \in Working => refs[o] > 0
  /\ \A i \in DOMAIN listen_commands :
       refs[listen_commands[i]] = 0 => i = 1 /\ lpc \in {"next", "faulted"}

\* What ought to hold instead, and does not (evloop.c:151).
NoUseAfterFree ==
  \A o \in Objects :
    In(o, cmd_q) \/ o \in Working \/ In(o, listen_commands) => refs[o] > 0

\* A listening command is deallocated only when its watchers are inactive
\* (the warning in listen_cmd_dtor).
DestructsInactive ==
  \A c \in created \cap ListenCmds : refs[c] = 0 => fds[c] = 0

\* _event_loop_break informs every listening command: none listens after it.
BreakClosesAll ==
  ~signals /\ lpc \notin {"close", "next"} => \A c \in ListenCmds : fds[c] = 0

\* What the code does keep of that: after a walk that reaches the end of the
\* list, a command listens only if the collector had taken it off the list, or
\* if its turn in the queue came after the break.
BreakMissesOnly ==
  ~signals /\ ~Walking =>
    \A c \in ListenCmds : fds[c] > 0 => c \in unlisted \cup late

NoPeers == \A k \in Conns : conns[k] \in {"none", "closed"}

\* The break finds every command, and its walk reaches the end of the list.
BreakIsComplete == [](unlisted = {} /\ late = {} /\ lpc # "faulted")

\* A signal ends the loop and the program, if peers do not stay for ever.  The
\* condition is needed: nothing in the code makes up for a break that missed.
BreakLeadsToExit ==
  BreakIsComplete /\ []<>NoPeers => (signalled ~> lpc = "done")

\* What is scheduled while the loop runs is handled, in the presence of
\* wake-ups that are shared, unless the loop is left first.
ScheduledIsHandled ==
  \A o \in Objects :
    In(o, cmd_q) ~> (~In(o, cmd_q) \/ lpc = "left" \/ Ended)

\* The main thread will look into the queue without being woken: it is about
\* to, or the size it was told with the command in hand was not 0.
WillGet == lpc = "get" \/ (lpc \in {"link", "resolve", "call", "python"} /\ ~last)

\* The safe half of ScheduledIsHandled, a theorem of PyglevLoopProofs: for what
\* waits in the queue a wake-up has been sent, or a thread inside schedule()
\* sends one next, or the main thread comes by anyway.
WokenForCommands == cmd_q # <<>> => sent \/ ppc = "send" \/ WillGet

Reader ==
  IF lpc \in {"script", "poll", "close", "next"} THEN "asleep"
  ELSE IF lpc \in {"left", "done", "crashed", "faulted"} THEN "gone" ELSE "awake"

Woken == INSTANCE WokenChannel WITH
           Putters <- Scripts, Bound <- QCapacity, waiting <- Len(cmd_q),
           owing <- IF ppc = "send" THEN {gil} ELSE {}, reader <- Reader

\* schedule() and _event_loop_on_cmdq_ready use the queue as CmdQ implements
\* it, from any thread and under every schedule.
ImplementsWokenChannel == Woken!Spec
-----------------------------------------------------------------------------
(* With TypeOK an inductive invariant for every schedule. *)

\* The reference a listening command has been given with its place in the
\* list.  It lasts until the command is closed, even if the collector has
\* emptied the list meanwhile.
Listed(c) == IF status[c] \in {"R", "L"} THEN 1 ELSE 0

\* The count of o is what the list, the queue, the hand and the script hold.
RefsOf(o) ==
  refs[o] + (IF o = putting THEN 1 ELSE 0) =
    Count(o, cmd_q) + (IF o \in ListenCmds THEN Listed(o) ELSE 0)
      + (IF o \in InHand THEN 1 ELSE 0) + (IF o \in kept THEN 1 ELSE 0)

RefsInv == \A o \in Objects : RefsOf(o)

\* A thread inside schedule() has the GIL and refers to the object it passes;
\* so has the main thread in the walk of the break.
PutInv ==
  /\ gil = NoThread <=> ppc = "idle" /\ ~Walking
  /\ ppc # "idle" => ~Walking
  /\ putting = NoObject <=> ppc = "idle"
  /\ putting # NoObject => putting \in kept

CreatedInv ==
  /\ \A o \in Objects : (In(o, cmd_q) \/ o \in InHand) => o \in created
  /\ \A c \in ListenCmds : status[c] # "I" => c \in created

HandInv ==
  /\ lpc \in {"link", "resolve"} => cmd \in ListenCmds
  /\ lpc \in {"call", "python"} => cmd \in Callables
  /\ lpc = "resolve" => status[cmd] = "R"

\* A listening command is scheduled once: it waits, is in hand, or has been
\* put into the list.
OnceInv ==
  \A c \in ListenCmds :
    /\ puts[c] <= 1
    /\ Count(c, cmd_q) + (IF lpc = "link" /\ cmd = c THEN 1 ELSE 0)
         + (IF status[c] # "I" THEN 1 ELSE 0) <= puts[c]

\* The list has every command that has been put into it and is not closed,
\* but for those the collector has taken off, and still has the released one.
ListInv ==
  /\ \A c \in ListenCmds :
       Count(c, listen_commands) + (IF c \in unlisted THEN 1 ELSE 0) =
         Listed(c) + (IF c \in Released THEN 1 ELSE 0)
  /\ lpc \in {"next", "faulted"} => listen_commands # <<>>

FdsInv == \A c \in ListenCmds : fds[c] > 0 => status[c] = "L"

IInv ==
  /\ TypeOK
  /\ PutInv /\ CreatedInv /\ HandInv /\ OnceInv
  /\ RefsInv /\ ListInv /\ FdsInv

\* After the walk the commands still to be closed are those it could not find.
MissedInv ==
  ~signals /\ ~Walking =>
    \A c \in ListenCmds : Listed(c) = 1 => c \in unlisted \cup late
=============================================================================
