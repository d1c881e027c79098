# striga2-pocs in TLA+

The repository holds proofs of concept for one idea, an event-driven Python
application server whose network side is C and libev. There are three attempts at
it, `greenev`, `singlev` and `pyglev`, and two small experiments with Python
sources. This directory specifies the parts whose correctness depends on the
order of events, checks them with TLC and proves the main results with TLAPS.

## 1. Inventory

### greenev (three threads)

| Part | State | Operations | Called by |
|---|---|---|---|
| watcher command queue, `cmdq_ev.c` | ring `q`, `q_head`, `q_tail`, mutex, `ev_async` watcher | new, start, put, drain callback, stop, delete | put: any thread; the rest: the thread of the loop |
| condition-variable command queue, `cmdq_cv.c` | ring, mutex, `q_not_full`, `q_not_empty` | put, timed put, get, timed get, full, empty, size, delete | any thread |
| application, `app.c`, `app.h`, `greenev.c` | `run_phase`, the main loop and its reference count, `app_cmd_q` | ctor, run, signal, die, command, dtor | main thread; `application_command` from the others |
| IO thread, `iothread.c` | its loop and reference count, `cmd_q`, lists `listening` and `established` | start, cleanup, DIE, LISTEN, ESTABLISH, accept, read, close, `io_thread_listen`, `io_thread_connect`, `io_thread_die` | its own loop; the last three from other threads |
| Python thread, `pythread.c`, `pygeapi.c`, `pyge/` | `cmd_q` (a condition-variable queue), the interpreter | start, cleanup, die, next_cmd, listen | itself; die: main thread |
| IO buffer, `iobuffer.c` | array of free slots with head and tail | get, put, empty | IO thread |

Messages: the main thread sends DIE to both other threads through their queues; the
Python thread sends LISTEN to the IO thread; each thread sends its exit
announcement to the main thread. Shared memory is the queues and the pointer `app`.
The hard behaviour is the life cycle: the main loop is held by counted references,
one per thread and one per signal watcher, and every wake-up crosses threads.

### singlev (one process, the script calls C)

| Part | State | Operations | Called by |
|---|---|---|---|
| command queue, `cmdq.c` (`pyglev/core/cmdq.c` is a copy) | ring, mutex, `ev_async` watcher | new, start, put, get, stop, delete | put: any thread; the rest: the loop's thread |
| application, `app.c`, `pysevapi.c`, `pysev/_app.py` | `run_phase`, `python_thread_state`, signal watchers | ctor, start, run, listen, signal, die, dtor | main thread; run and listen from any Python thread |

The wake-up of this queue is sent after the unlock, a put is refused while the watcher
is inactive, and the consumer is an explicit `get` that also tells how many commands
are left. The script runs in the main thread and calls back into `application_run`,
which gives up the interpreter lock (GIL). Hard: threads that the script starts
use the same functions, with and without the lock, also while the process ends.

### pyglev (a Python extension)

| Part | State | Operations | Called by |
|---|---|---|---|
| event loop, `core/evloop.c` | `cmd_q`, `listen_commands`, `tstate`, signal watchers | ctor, run, schedule, `_xschedule`, command callback, break, traverse, clear, dtor | run: main thread; schedule: any Python thread; traverse: the collector |
| listening commands, `core/lstncmd.c` | status, watchers, reference count | ctor, resolve and listen, accept, close, dtor | the loop |
| established sockets, `core/estsock.c` | watcher, protocol (a generator) | new, read, closed | the loop |

Hard: objects travel from the script through the queue to the loop, and their
reference counts with them; the loop's list is changed without the lock; the
garbage collector may traverse the loop at any time.

### ast_change, striga_import

`ast_change/main.py` compiles a source without its blank lines and translates the
line numbers of the syntax tree back to the original: state is the two line counters
and the map between them. `striga_import` installs an import hook that accepts `.stpy`
files; its loader keeps its state in files, the cached bytecode next to the source,
which other processes read and write too.

### What makes each part correct

* Queues: a bounded FIFO channel. Nothing lost, doubled, reordered or read
  before it is written; full and empty never confused; nobody sleeps while there
  is work for them.
* Life cycle: the program ends after a signal; not before both threads have ended;
  no loop ends over an open socket; nothing is freed while in use.
* IO thread: a descriptor is open in exactly one place (a caller, a command, a list)
  and is closed once.
* IO buffer: what is not used goes back into the pool.
* singlev: one thread in the loop, the queue deleted after its last use.
* pyglev: no use of a released object (one remains, in the break), no listening command
  lost (the collector and a late listen lose it); both in section 3.
* Line map: every translated node stands on the line it was written on.
* Imports: an import never returns older code than the source it found, nor another
  file's, and the cached file never passes for a newer source.

`PROJECT.json` lists the hazards behind these at their lines.

## 2. Modules

| Module | What it is |
|---|---|
| `RingIndex` | the index arithmetic all queues share |
| `CmdChannel` | abstract specification: a bounded FIFO channel |
| `WokenChannel` | abstract specification: who puts, who is owed a wake-up, when the reader may sleep |
| `WatcherCmdQ` | `greenev/cmdq_ev.c`; implements `CmdChannel` and `WokenChannel` |
| `CondCmdQ` | `greenev/cmdq_cv.c`; implements `CmdChannel` |
| `GreenevApp` | the three threads of greenev, their queues as channels |
| `SocketLife` | abstract specification: the road of a socket from creation to end |
| `IoThread` | `greenev/iothread.c` socket by socket; implements `SocketLife` |
| `IoBuffer` | `greenev/iobuffer.c`, the variables and operators `IoThread` extends |
| `CmdQ` | `singlev/src/cmdq.c`; implements `CmdChannel` and `WokenChannel` |
| `SinglevApp` | singlev: the script's threads, the loop, the end of the process |
| `PyglevLoop` | pyglev: the loop object, its listening commands and sockets |
| `StrigaImport` | `striga_import`: importing while the sources change |
| `AstChange` | `ast_change/main.py` |
| `RingIndexProofs`, `WatcherCmdQProofs`, `CondCmdQProofs`, `GreenevAppProofs`, `IoThreadProofs`, `PyglevLoopProofs` | theorems about the module of that name |
| `SinglevProofs` | theorems about `CmdQ` and about `SinglevApp`, both of which it extends |
| `StrigaProofs` | theorems about `StrigaImport`, and about `AstChange` (as `Ast!`) |
| `MC*` | the root modules TLC is started on |

`WatcherCmdQ`, `CondCmdQ` and `CmdQ` extend `RingIndex` and each instantiates
`CmdChannel`: what is in the queue and in which order. `WatcherCmdQ` and `CmdQ`
instantiate `WokenChannel` too, which counts the commands and adds the wake-ups: a put
comes with its wake-up or leaves it to the caller's next step, and a reader goes to
sleep only if nothing waits or another wake-up is due. `GreenevApp`, `IoThread`,
`SinglevApp` and `PyglevLoop` take their queues as channels, and instantiate
`WokenChannel` in turn: each shows that its short account of a queue (a sequence or a
count, and a flag) is one that promises what the ring with its mutex does. The
composition is therefore by a common abstraction, and both sides of it are proved.

### WatcherCmdQ

A command is `<<p, n>>`, the n-th put of thread p. A put takes the mutex
(`PutReserve`, which also advances the head), writes its slot and releases the
mutex (`PutStore`), then sends the wake-up (`PutSend`); a put that finds the queue
full restores the head under the mutex and is one step (`PutRefuse`). The critical
section is split so that a reserved, unwritten slot is a visible state: that only
the mutex protects it is then something the model shows. The loop thread polls
(`Wake`), takes a command (`DrainTake`), advances (`DrainAdvance`), calls back
(`Callback`) and goes on until the queue is empty (`DrainEmpty`). libev is
external: `ev_async_send` sets a flag, the loop clears it before it calls the
watcher, `ev_async_start` clears it too. `accepted` and `delivered` are history.

What was put before `watcher_cmd_q_start` may wait for the next put, because the
flag is cleared. `NoSleepOnWork` therefore excludes the state in which everything in
the queue was put before. `PutIsDelivered` says of every accepted command, early or
not, that it is delivered once any put is about to send its wake-up to a loop that
runs. What that leaves open, an early command that nothing follows, is the
consequence for the program in section 3.

### CondCmdQ

Here every access to the ring has the mutex, so a critical section up to the unlock
or the wait is one step. A signal takes one thread off the condition,
chosen freely. `Spurious` is a spurious wake-up. `Timeout` is the moment a wait
ends by the clock; the thread then has still to get the mutex (`GiveUp`). POSIX
lets a signal be consumed by a wait that is timing out: with `LateSignals` the model does that.
Failures of pthread calls are left out. `cond_cmd_q_size` and `abstimeout` are no
part of `Next`: the first is called by the tests alone, the second gives a moment,
and the model has no clock. `CondCmdQProofs` says what they compute.

### GreenevApp

One program counter per thread. The queues are bounded sequences with a wake-up
flag, the view of them that `WatcherCmdQ` and `CondCmdQ` justify: a put is
refused when the queue is full, the flag is set in a later step of the caller,
starting the watcher clears it. `main_refs` and `io_refs` are libev's reference
counts; sockets are counted, not told apart. `LeftOpen` gives what is left of a
list when the closing loops of `_on_iot_cmd` read `next` from freed memory: the
old contents or zeroes. (Other contents crash the process; that outcome is not
modelled.) `io_thread_connect` puts ESTABLISH; no program here calls it, and it is
in `IoThread` only.

Constants open the model to schedules and outcomes the code permits: `EarlyPuts` (a
put may precede the IO thread's start), `LateListens` (the signal may come before
the script is done listening), `MaxListens >= QCapacity` (the queue can overflow)
and `"null" \in FreedNext`. The run `app` has the first three. The two liveness
properties fail under them; they are stated for the behaviours in which
`IoUpBeforePuts`, `RoomForDie` and `ListensComeFirst` hold, and section 3 shows that
each of the three is needed.

### IoThread and IoBuffer

The same thread with its sockets told apart. `Listen`, `Open` and `OpenFails` are
`io_thread_listen` up to its puts, address by address, `PutSocket` one put;
`Connect` is `io_thread_connect` up to its put. A call on the operating system
succeeds or fails freely. Descriptors are not used again. `Put` is a whole
`watcher_cmd_q_put` with its wake-up; the step between its unlock and the wake-up is in
`WatcherCmdQ` and `GreenevApp`. `refused` is history: what a full queue refused, which
no caller looks at. A socket's stage in `SocketLife` is derived from where the
descriptor is known: to the caller that prepares it, in a command, or in the loop.
`Close` takes the socket out of the list at the index where the walk of
`io_thread_sockobj_close` finds it.

`Read` takes slots, reads, and closes the socket or keeps the slots that were used
(no code returns them: the hand-over to Python is a TODO); `Return` is one round of
`io_buffer_put`. `IoBuffer` follows the two indexes as the code moves them. The head
starts at `slot_count`; the first put moves it behind the array, and `stray` records
that a store has gone there. What such a store overwrites is not modelled: the pool is
taken as unchanged by it, and `MaxHead` bounds how far the head runs.

### CmdQ

As `WatcherCmdQ`, but every access to the ring happens inside one critical section
of one function, so a critical section is one step (`PutStore`, `PutFull`, `Get`,
`GetEmpty`). The test of the watcher before the mutex (`PutCheck`) and the wake-up
after it (`PutSend`) are steps of their own; the watcher may be stopped in between.
`qsize` is what `cmd_q_get` told the callback, which ends its loop on 0 without
looking again. A command accepted after `cmd_q_stop`, because its put passed the test
before, is left behind: `NoSilentLoss` says that `cmd_q_delete` then warns. pyglev's copy
of that function has the warning commented out, so there it is lost silently.

### SinglevApp

One program counter per thread. No step keeps the GIL beyond itself, so it is not a
variable: what a function does with the lock is one step, what it does after
releasing it is another. A listen goes through the steps of a put (`ListenCheck`,
`ListenStore`, `ListenSend`); `RunWake` and `RunDrain` are the loop taking commands.
Names that `CmdQ` has too carry the prefix `App` (`AppSpec`). `RunEnter` is the test in `_pysevapi_application_run` with
the release inside `PyEval_SaveThread`, `RunAssign` the assignment of its result;
between them another thread may run Python. `Finalize` is `Py_Finalize`, which waits for
the threads in `Workers \ Daemons`. The queue's contents are counted. What the script
does is free: listen, run, or end. What follows a violated `LoopIsSingle`
(`PyEval_RestoreThread` on another thread's state) is not modelled.

### PyglevLoop

Objects are listening commands and callables, each with its reference count. `kept`
are the script's own references. `gil` is held from the put into the queue to the
`Py_INCREF` after it (`Put`, `PutSend`, `PutIncref`); the loop's thread takes
commands in that window. `Link` moves a listening command, and the queue's reference to
it, to the list; `Listening` and `ListenFails` are the outcomes of
`_listen_cmd_xschedule_01`. `Collect` is `tp_traverse`, whose loop assigns `self->listen_commands`. `Finish` is the
destructor: its walk dereferences a cleared variable as soon as the list is not empty
("crashed").

`Break` is `_event_loop_break` step by step, with the GIL held from `BreakBegin` to
`BreakEnd`. `BreakClose` closes the first command of the list and drops its reference.
Until `BreakNext` has read its `next` field and moved the head on, the list names a
command that may be deallocated: `Released`. `BreakFault` is the other outcome of that
read, possible only if the count is 0 (`lpc` "faulted"). A collection cannot fall into the
walk, nor a put, as both need the GIL; peers and wake-ups wait for the callback to return.
Two variables are history: `unlisted`, what the collector has taken off the list,
and `late`, what was linked after the break began.

`RefsExact` holds at every step of this, with the released reference and the leaked ones
as terms of their own. `OnlyBreakUsesFreed` says that what the queue, the list and the
loop's hand name is allocated, with the one exception the code has: the head of the list
during that read. `BreakMissesOnly` is what remains of the promise that the break informs
everybody. `BreakIsComplete` is the condition under which it is kept.

The loop installs its signal watchers, as `app.py` lets it. `on_error`
and `on_accept` do nothing but return; a connection that fails is closed at once. A
listening command is scheduled once, as `application.listen` does.

### StrigaImport

One module importable from `foo.py` or `foo.stpy`, which share a cached file. A
version is one writing of a source; it has the second it was written in, a size and
the file it went to. An import is the sequence of file operations of `get_code`:
find, `path_stats`, read the cached file, read the source, compile, replace the cached
file. Between any two of them a programmer may write or remove a source or empty the
cache, and another process import. `found` is history. The cached file is replaced in
one step (`_cache_bytecode` writes a temporary file and renames it).

### AstChange

A line of the input is its number and whether it is blank. `SkipLine` and `TakeLine`
are the rounds of the loop in `main`, `Parse` is `compile`, which may build any tree on
lines of the text it is given, `Visit` is `generic_visit` on one node. Nodes that have a
line number and are neither statement nor expression (exception handlers, arguments,
keywords) keep the number of the stripped text, and are of class `other`, as are nodes
without a line. Blank lines inside a string literal are dropped as any other; what that
does to the string is not modelled.

## 3. Runs

| Run | Question | Result |
|---|---|---|
| `watcher_cmd_q` | is it a bounded FIFO channel, is its reader left asleep? | holds |
| `cond_many` | the same with several producers and consumers, and does a blocked put return? | holds |
| `app` | are the references exact and the queues used as channels under every schedule; does a signal end greenev, is a listening socket served? | holds |
| `app_uaf` | is `app_cmd_q` freed after its last use? | no |
| `cmd_q` | is singlev's queue a bounded FIFO channel although its reader trusts an old size, and is what a stop leaves behind warned of? | holds |
| `singlev_main` | does singlev end after a signal, in order? | holds |
| `pyglev` | under every schedule: are reference counts exact, what is used after its release, what does the break miss, and when it misses nothing, does the loop end? | exact; only the head of the list, by the break; only what the collector or a late listen hid from it; it does |
| `pyglev_gc` | does the break close everything when the collector runs? | no |
| `pyglev_freed` | does it when a deallocated command's `next` cannot be read? | no |
| `io_thread` | is every descriptor known in one place, closed once, watched once handed over? | holds |
| `io_buffer` | do unused slots go back into the pool? | no |
| `striga_import` | does an import return code that is too old or of the other file? | no, it does not |

The four disagreements, each against a line of the repository:

* `app_uaf`. The IO thread is detached. Its announcement lets the main thread go on
  as soon as it is in the queue, before `ev_async_send`.
* `pyglev_gc`. `event_loop_tp_traverse` advances `self->listen_commands` along with
  its loop variable and leaves the list empty; the break then informs nobody.
* `pyglev_freed`. The break drops a command's reference and then reads the next one
  through it. When the script has dropped its own (`Drop`), that is a use of freed memory,
  and the commands behind it are not informed.
* `io_buffer`. `io_buffer_new` sets `free_slots_head` to `slot_count`;
  `io_buffer_put` increments it before it tests for equality, so it never wraps, and
  the slot is stored behind the array (`iobuffer.c:77-81`). `iothread.c:247` calls this
  "Return unused IO buffers".

### What the passing runs exclude

The constants name the schedules under which properties fail in this code, and the
conditions inside a property the behaviours it leaves out. Each change shows one:

| Change | Fails | Why |
|---|---|---|
| `app`, `DieLeadsToExit` without `IoUpBeforePuts` | `DieLeadsToExit` | DIE put before `watcher_cmd_q_start` loses its wake-up (`iothread.c:90`) |
| `app`, `DieLeadsToExit` without `RoomForDie` | `DieLeadsToExit` | `io_thread_die` ignores that DIE was refused (`iothread.c:80`) |
| `app`, `DieLeadsToExit` without `ListensComeFirst` | `DieLeadsToExit` | LISTEN follows DIE; the new watcher holds the IO loop, which "should release artifical reference count for our loop and eventually exit" (`iothread.c:145`) |
| `app`, `FreedNext = {"intact", "null"}` | `DieLeadsToExit` | `sockobj->next` is read after `free(sockobj)`; sockets left open hold the loop (`iothread.c:128`) |
| `cond_many`, `LateSignals = TRUE` | `NoConsumerForgotten` | a timed-out wait may have consumed the signal of a put, and returns without looking at the ring (`cmdq_cv.c:325`) |
| `singlev_main`, `Runners = {main, w1}`, invariant `LoopIsSingle` | `LoopIsSingle` | `PyEval_SaveThread` releases the GIL before its result is stored; a second thread passes the test that refuses with "already activated" (`pysevapi.c:14-19`) |
| `singlev_main`, `Runners = {w1}` | `NoAbort` | the script ends while its thread is in the loop (`app.c:65`) |
| `singlev_main`, `Daemons = {w1}` | `QueueFreedLast` | a daemon thread is inside a put when the queue is deleted (`app.c:77`) |
| `pyglev`, invariant `NoUseAfterFree` | `NoUseAfterFree` | `listen_cmd->next` is read after its last `Py_DECREF` (`evloop.c:151`) |
| `pyglev`, `Collects = FALSE`, `FreedNext = {"intact"}`, invariant `BreakClosesAll` | `BreakClosesAll` | a command linked after the break is never closed (`evloop.c:220`) |
| `pyglev`, `BreakLeadsToExit` without `BreakIsComplete` | `BreakLeadsToExit` | a command that listens holds the loop, and a list that is not empty crashes the destructor (`evloop.c:68`); the late listen, the collector and the unreadable `next` suffice each alone |
| `striga_import`, `SharedSeconds = TRUE` | `CodeIsFresh`, `CacheIsHonest` | two versions of one size written in one second are the same to the head of the cached file, also when one is `foo.py` and the other `foo.stpy` (`_srcfileldr.py:29`, `:60`) |

greenev uses the condition-variable queue with one producer and one consumer that
polls; with `Producers = {p1}`, `Consumers = {c1}`, `LateSignals = TRUE` the
properties hold: the only consumer calls again.

### Bounds

Rings of three slots hold two commands: they are empty, partly filled, full and
wrapped at every index, and with three puts by each of two producers the indexes go
round twice. Two producers suffice for every pairwise race in a put, two
consumers for a misdirected signal. In `app` three listens against a queue of two,
two connections reach every branch; the queue's
255 commands in the code are the constant `QCapacity`, and the theorems hold for all its values.
In `io_thread` two callers on two addresses each can fail on the first or the second,
interleave, and overflow a queue of two; three sockets give lists whose first, middle
and last element is closed; both outcomes of a freed `next` are in. A pool of two slots
is emptied by one read. `striga_import` has two processes and three versions, enough for
an edit in each gap of an import while another process imports.
In `singlev_main` two more threads listen twice each through a queue of two, which
overflows. In the pyglev runs two listening commands (a list with a head and a
rest), one callable scheduled twice, a queue of two, one address each and one
connection reach every branch: the walk of the break with a released command at the head
and another behind it, a collection before and after it, a listen on either side of it.
With two addresses each (852,064 states, twice the time) the properties hold too.
The type invariants of `WatcherCmdQ`, `GreenevApp`, `CmdQ`, `SinglevApp`, `PyglevLoop`
and `StrigaImport` and `FifoExact` of `CmdQ` hold in the same instances; the configurations
leave them to a reader who changes a model (all of them are proved, as parts of the
inductive invariants).
`CHECK_DEADLOCK FALSE` is set where the system may stop: the process exits, or the
producers' bounded puts are used up.

### Fairness

Each thread inside an operation goes on (weak fairness on its steps): threads are
scheduled, and no operation waits except on a mutex that is released or a condition.
No queue module assumes that a producer puts; `CondCmdQ` assumes
that a consumer calls again, which is the loop in `pyge/evloop.py`, and that a
timeout passes. `PutReserve`, `PutRefuse` and `PutCheck` need no fairness: a producer need not
enter. `SinglevApp` assumes that scripts and threads end once they can do nothing
else for ever, as its demo does; `IoThread` that a thread inside
`io_thread_listen` finishes. `BreakLeadsToExit` of `PyglevLoop` assumes that
peers do not stay connected and that the break misses nothing (`BreakIsComplete`), which
it states itself. Nothing is assumed of signals.

## 4. Proofs

All theorems hold for every value of the constants that meets the named
assumptions (ring size at least 1, finite or infinite sets of threads, a capacity of
at least 2 commands in `GreenevApp`). Where a theorem has a hypothesis more, it is one
of the exclusions of section 3, and it is written in the theorem:

| Theorem | Hypothesis |
|---|---|
| `ConsumersRemembered`, `ProducersRemembered` (`CondCmdQProofs`) | `SignalsReach`: `LateSignals = FALSE`, or one thread in the group |
| `Invariance`, `CacheCorrect`, `ImportCorrect` (`StrigaProofs`) | `SharedSeconds = FALSE` |
| `CommandsAreHeard` (`GreenevAppProofs`) | `IoUpBeforePuts`; it follows from `EarlyPuts = FALSE` (`UpWithoutEarlyPuts`) |
| `NeverSleepsOnCommands` (`IoThreadProofs`) | `UpBeforePuts` in every state |
| `AppNoAbort`, `AppImplementsWoken` (`SinglevProofs`) | `Runners = {Main}` |
| `AppQueueFreedLast` (`SinglevProofs`) | `Daemons = {}` |

`RingIndexProofs` has the arithmetic: the next slot is in the ring, distinct
positions are distinct slots, and `Held` grows and shrinks by one.

`WatcherCmdQProofs`: `FifoExact` alone is not inductive. It needs who holds the
mutex (`MutexInv`), that a reserved slot is the one before the head (`ReserveInv`),
that the command in the loop's hand is the tail's (`TakeInv`), and, for deletion, that
nobody is inside a put (`DeletedInv`). The conjunction `IInv` is inductive; the safety
properties follow from it, and with it each step is a step of `CmdChannel` or a
stutter (`Implements`).

`SinglevProofs`, the queue: here the argument is about time. `NoSleepOnWork` needs `LastGetInv`: when
the callback holds a command and was told 0, whatever is in the ring now came after
that `get`, so its wake-up has not been used up. `ActiveInv` says that nothing is
accepted before the watcher is active, which is why an early put cannot lose its
wake-up as it does in greenev. `DeleteCorrect` is `FifoExact` at the end. `SizeCorrect` needs that `Remaining` is `Held` of the
advanced tail (`RemainingIsHeld`).

`GreenevAppProofs`: the heart is accounting. A thread's reference to the main loop is
held until its announcement has been *handled*, so `main_refs` is the sum of three
terms that the announcement queue determines (`MainRefsInv`); a thread announces once
(`AnnounceInv`), so the announcement always finds room; DIE exists at most once
(`DieInv`), so the artificial reference of the IO loop is dropped once (`IoRefsInv`).
`ExitOnlyAfterBoth`, `NoAbort`, `NoSocketLeftBehind` and `IoQueueFreedLast` follow.

The safe half of the liveness properties is proved: whoever has commands left has a wake-up,
or somebody's next step gives it one. `NoSleepOnWork` says so of the two watcher queues; of the
compositions, with any number of threads, `AppWokenForExits` (the main thread of greenev,
under every schedule), `IoWokenForCommands` and, in `IoThread`, `WokenForCommands` (the IO
thread, if nothing is put before its watcher is started), and `WokenForCommands` of
`PyglevLoop` and `SinglevApp` (under every schedule). They are inductive or nearly so: a put that
is accepted leaves its caller at the step that sends the wake-up; a refused put finds a full
queue, which was not slept over before; a wake-up is used up only by entering the callback, and
the callback is left when the queue is empty or, in pyglev, was empty when its last command
was taken (`WillGet`). `SinglevApp` needs also that nobody is in a put before
the start (`StartInv`). The configurations do not list them; TLC checks them on the instances
of section 3.

`WokenChannel` ties the modules together, by six theorems. `ImplementsWoken` of
`WatcherCmdQProofs` and of `SinglevProofs` say that the two rings keep it: the number of
commands that wait is `Held` of the head up to which slots are written, so in `cmdq_ev.c`
a reservation and a callback are stutters and only `PutStore` and the advance of the tail
count (`WaitingStep`). What must be shown is the guard of falling asleep: `cmdq_ev.c` looks
at the ring under the mutex first, `cmdq.c` relies on the size it was told, and `LastGetInv`
is what makes that right. The same theorem in `GreenevAppProofs` (both queues, every
schedule), `IoThreadProofs`, `PyglevLoopProofs` and `AppImplementsWoken` say that the
programs use it so. What each rests on besides types: in greenev, that an announcement
always finds room (`RoomToAnnounce`, from `AnnounceInv`); in pyglev, `WokenForCommands`, when
the loop stops at a command it took for the last one; in singlev, that only one thread
reads (`Runners = {Main}`), without which the channel has two readers and the statement
no meaning. `WokenChannel` itself admits a reader that is started late and forgets
wake-ups, so none of these needs the hypothesis that nothing is put early. TLC has
checked all six on the instances of section 3; two of them are properties of the runs.

The application of singlev has two inductive conjuncts, one for each hypothesis.
`MainInv`: the field `python_thread_state` is set only while the main thread is in the
loop, which follows from `RunnersInv` (nobody else is ever there), so at the assertion it
is empty. `EndInv`: from `Py_Finalize` on every other thread is over, and the queue is
freed later than that. `SinglevProofs` and `StrigaProofs` hold two components each. The first
extends both; in the second `AstChange` is instantiated, so its names carry the prefix
`Ast!`.

`CondCmdQProofs`: the tests for full and empty are exact (`FullAndEmptyAreExact`);
`cond_cmd_q_size` is exact on an unwrapped ring and 0 or 1 on a wrapped one
(`SizeIsALowerBound`); the deadline is exact and normalised (`DeadlineIsExact`), by the
division with remainder of the milliseconds and one carry. The invariant of the runs is
`FifoExact` with the types and `IssuedInv`; `ImplementsChannel` and `BlocksOnlyAtLimits`
follow step by step. `NoConsumerForgotten` is inductive beside it: it counts the
consumers on their way to the mutex, to which a put adds one whenever somebody sleeps
(`SignalCounts`), and from which only a get takes one away, together with a command
(`LeaverCounts`); with a signal less, or a wait that swallows one, the count is short.

`IoThreadProofs`: `HeldOnce` counts occurrences, which no step preserves as it stands. The
inductive invariant says it with sets: the places of a socket (with a caller, in the
queue, in a list, among the refused) are pairwise disjoint and together are the open
descriptors (`PlacesInv`), nothing is twice in one place (`DistinctInv`), a watcher is
active exactly for the listed sockets (`WatchInv`), and a caller that is idle holds none
(`CallerInv`). Lemmas about lists (append, tail, prepend, removal, suffix) and one per action
(`OpenFacts` to `ReadFacts`) say what moves where; each part of the invariant, `HeldOnce` and
the refinement of `SocketLife` are derived from them. `stage` is the name of the
place (`StageLemma`), so a step that moves one socket moves it along the road
(`RoadStep`). `DIE` needs no hypothesis on what `next` reads from freed memory: the
sockets that stay behind are still watched.

`PyglevLoopProofs`: the invariant is an account of references (`RefsInv`): what the queue, the
loop's hand, the script and an open listening command hold. It counts the list by
the command's status and not by the list itself, because the collector may empty the list
while the references stay. `ListInv` is the exchange rate between the two: a command is in
the list once for its status, less once if the collector took it off, plus once while the
break has released it and not yet moved on. Together they give `RefsExact` and
`OnlyBreakUsesFreed`: an object that is counted 0 is in no queue and no hand, and in the list
only if it is `Released`, hence at the head. At the end of the walk the list is empty, and
`ListInv` says that whatever still has an open status is `unlisted`; from then on only
`Link` adds to it, and records it in `late` (`MissedInv`), which gives `BreakMissesOnly`.
None of these theorems has a hypothesis: collector, late listens and freed memory are
in all of them.

`StrigaProofs`: versions are ordered by their seconds (`ClockInv`), an importer's stat is
not later than what it reads (`SeenInv`), and the head of the cached file names a version
that is not later than its code (`CachedInv`). `CacheIsHonest` needs the first and the
last; `CodeIsFresh` adds that a file never goes back to an older version
(`FileGoesForward`). For `AstChange`: the map from the stripped text is the list of
lines kept (`MapInv`), and a node that has not been visited stands where `compile` put
it (`NodeInv`); so each lookup succeeds and gives the line of the input
(`AstLinesCorrect`). TLC has checked the same invariants on inputs of up to four lines with
two nodes. Every other inductive invariant is checked by TLC on the instances of section 3.

Every safety property and every refinement that a passing run checks is a theorem.
Out of the prover's reach, and left to TLC for good: everything with liveness
(`PutIsDelivered`, `PutIsTaken`, `BlockedPutReturns`, `DieLeadsToExit`, `ListenIsServed`,
`HandedIsWatched`, `SignalLeadsToExit`, `BreakLeadsToExit`, `ScheduledIsHandled`).

## 5. Not modelled, and the plan

Left out for good: logging, output, argument parsing, the interpreter and what of
Python's import machinery is not in the repository, syntax trees, name resolution, the
build. What the slots of the IO buffer hold has no reader in the code yet.

What the development planned to prove is proved. What would extend it is more program:
the hand-over of what was read to Python, which the code announces as a TODO, and a
second thread that runs the loop of singlev, which the code does not yet refuse reliably.
