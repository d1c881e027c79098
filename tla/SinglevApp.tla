----------------------------- MODULE SinglevApp ------------------------------
(***************************************************************************)
(* singlev: one process whose main thread runs a Python script (app.c,     *)
(* pyutils.c), which calls back into C to listen and to run the event loop *)
(* (pysevapi.c, pysev/_app.py).  Scripts may start further threads, and    *)
(* these may call the same functions.                                      *)
(*                                                                         *)
(* Python code of one thread runs at a time; C code that has released the  *)
(* interpreter lock (GIL) runs beside it.  No step of the model keeps the  *)
(* lock beyond itself, so the lock is not a variable: what a function does *)
(* with it is one step, what it does without it is steps of its own.  The  *)
(* command queue is the channel that CmdQ implements.                      *)
(***************************************************************************)
EXTENDS Integers, FiniteSets

CONSTANTS
  Main,        \* the main thread
  Workers,     \* other Python threads
  Daemons,     \* those of them that the interpreter does not wait for
  Runners,     \* threads that call application.run()
  QCapacity,   \* commands the queue holds (127 in the code)
  MaxListens,  \* bound: calls of application_listen() per thread
  NoThread     \* python_thread_state == NULL

Threads == Workers \cup {Main}

ASSUME ThreadAssumption ==
  /\ Main \notin Workers /\ NoThread \notin Threads
  /\ Daemons \subseteq Workers /\ Runners \subseteq Threads
  /\ QCapacity \in Nat \ {0} /\ MaxListens \in Nat

VARIABLES
  run_phase,  \* "INIT", "RUN", "DYING", "EXIT"
  python_thread_state,  \* the thread whose state PyEval_SaveThread returned
  tpc,        \* where each thread is: "script" (Python code), "enter" (in
              \* _pysevapi_application_run, the lock released), "loop",
              \* "drain" (in ev_run), "restore"; "check", "store", "send" (in
              \* cmd_q_put); "over"; and for the main thread "ctor", "dtor",
              \* "finalize", "delete", "exit", "exited", "aborted"
  listens,    \* calls of application_listen() so far
  watching,   \* the queue's watcher is active
  queued,     \* number of commands in the queue
  woken,      \* the wake-up of its watcher
  signalled,  \* SIGINT or SIGTERM has been sent
  freed       \* cmd_q_delete has run

queueVars == <<watching, queued, woken>>
appVars == <<run_phase, python_thread_state, tpc, listens, queueVars,
             signalled, freed>>

Goto(t, place) == tpc' = [tpc EXCEPT ![t] = place]

\* The process ends, and its threads with it.
EndAll(place) == tpc' = [t \in Threads |-> IF t = Main THEN place ELSE "over"]

\* Before application_ctor; workers are started by the script.
AppInit ==
  /\ run_phase = "INIT"
  /\ python_thread_state = NoThread
  /\ tpc = [t \in Threads |-> IF t = Main THEN "ctor" ELSE "script"]
  /\ listens = [t \in Threads |-> 0]
  /\ watching = FALSE /\ queued = 0 /\ woken = FALSE
  /\ signalled = FALSE
  /\ freed = FALSE

\* The signal watchers, the only references the loop has, are stopped by
\* _application_die.
SignalsActive == run_phase \in {"INIT", "RUN"}

\* _pysevapi_app_ready.
AppReady == run_phase = "RUN"
-----------------------------------------------------------------------------
(* application_listen(), in any Python thread *)

\* The GIL is released around application_command.
Listen(t) ==
  /\ tpc[t] = "script"
  /\ AppReady
  /\ listens[t] < MaxListens
  /\ listens' = [listens EXCEPT ![t] = @ + 1]
  /\ Goto(t, "check")
  /\ UNCHANGED <<run_phase, python_thread_state, queueVars, signalled, freed>>

\* cmd_q_put tests the watcher; false becomes a RuntimeError.
ListenCheck(t) ==
  /\ tpc[t] = "check"
  /\ Goto(t, IF watching THEN "store" ELSE "script")
  /\ UNCHANGED <<run_phase, python_thread_state, listens, queueVars, signalled,
                 freed>>

\* The critical section of cmd_q_put.
ListenStore(t) ==
  /\ tpc[t] = "store"
  /\ queued' = IF queued < QCapacity THEN queued + 1 ELSE queued
  /\ Goto(t, IF queued < QCapacity THEN "send" ELSE "script")
  /\ UNCHANGED <<run_phase, python_thread_state, listens, watching, woken,
                 signalled, freed>>

ListenSend(t) ==
  /\ tpc[t] = "send"
  /\ woken' = TRUE
  /\ Goto(t, "script")
  /\ UNCHANGED <<run_phase, python_thread_state, listens, watching, queued,
                 signalled, freed>>
-----------------------------------------------------------------------------
(* application_run(), in any Python thread *)

\* The tests, then PyEval_SaveThread, which releases the GIL.
RunEnter(t) ==
  /\ t \in Runners
  /\ tpc[t] = "script"
  /\ AppReady
  /\ python_thread_state = NoThread
  /\ Goto(t, "enter")
  /\ UNCHANGED <<run_phase, python_thread_state, listens, queueVars, signalled,
                 freed>>

\* What it returned is assigned, without the GIL; ev_run is entered.
RunAssign(t) ==
  /\ tpc[t] = "enter"
  /\ python_thread_state' = t
  /\ Goto(t, "loop")
  /\ UNCHANGED <<run_phase, listens, queueVars, signalled, freed>>

RunWake(t) ==
  /\ tpc[t] = "loop"
  /\ watching /\ woken
  /\ woken' = FALSE
  /\ Goto(t, "drain")
  /\ UNCHANGED <<run_phase, python_thread_state, listens, watching, queued,
                 signalled, freed>>

\* One turn of the loop in _application_on_cmdq_ready.
RunDrain(t) ==
  /\ tpc[t] = "drain"
  /\ queued' = IF queued = 0 THEN 0 ELSE queued - 1
  /\ Goto(t, IF queued <= 1 THEN "loop" ELSE "drain")
  /\ UNCHANGED <<run_phase, python_thread_state, listens, watching, woken,
                 signalled, freed>>

\* Mutant: the callback of a signal returns without calling _application_die.
OnSignalIgnored(t) ==
  /\ tpc[t] = "loop"
  /\ signalled /\ SignalsActive
  /\ UNCHANGED appVars

\* _application_on_terminating_signal calls _application_die.
OnSignal(t) ==
  /\ tpc[t] = "loop"
  /\ signalled /\ SignalsActive
  /\ run_phase' = "DYING"
  /\ UNCHANGED <<python_thread_state, tpc, listens, queueVars, signalled, freed>>

\* No reference is left, ev_run and application_run return.
LeaveLoop(t) ==
  /\ tpc[t] = "loop"
  /\ ~SignalsActive
  /\ Goto(t, "restore")
  /\ UNCHANGED <<run_phase, python_thread_state, listens, queueVars, signalled,
                 freed>>

\* Mutant: the field keeps the state of a thread that has left the loop.
RestoreUncleared(t) ==
  /\ tpc[t] = "restore"
  /\ python_thread_state = t
  /\ Goto(t, "script")
  /\ UNCHANGED <<run_phase, python_thread_state, listens, queueVars, signalled,
                 freed>>

\* PyEval_RestoreThread of the state the field names, then the reset.  (The
\* state of another thread, or none, ends the interpreter: not modelled, it
\* follows a violation of LoopIsSingle.)
Restore(t) ==
  /\ tpc[t] = "restore"
  /\ python_thread_state = t
  /\ python_thread_state' = NoThread
  /\ Goto(t, "script")
  /\ UNCHANGED <<run_phase, listens, queueVars, signalled, freed>>
-----------------------------------------------------------------------------
(* The life of the application *)

\* application_ctor starts queue and signals, application_start sets the
\* phase and runs the script.
AppStart ==
  /\ tpc[Main] = "ctor"
  /\ watching' = TRUE /\ woken' = FALSE
  /\ run_phase' = "RUN"
  /\ Goto(Main, "script")
  /\ UNCHANGED <<python_thread_state, listens, queued, signalled, freed>>

Signal ==
  /\ ~signalled
  /\ run_phase # "INIT" /\ tpc[Main] \notin {"exited", "aborted"}
  /\ signalled' = TRUE
  /\ UNCHANGED <<run_phase, python_thread_state, tpc, listens, queueVars, freed>>

WorkerEnds(w) ==
  /\ tpc[w] = "script"
  /\ run_phase # "INIT"
  /\ Goto(w, "over")
  /\ UNCHANGED <<run_phase, python_thread_state, listens, queueVars, signalled,
                 freed>>

\* _pyutils_run_module returns, application_start calls _application_die.
ScriptEnds ==
  /\ tpc[Main] = "script"
  /\ run_phase' = "DYING"
  /\ Goto(Main, "dtor")
  /\ UNCHANGED <<python_thread_state, listens, queueVars, signalled, freed>>

\* application_dtor: the assertion, then cmd_q_stop.
Dtor ==
  /\ tpc[Main] = "dtor"
  /\ \/ /\ python_thread_state # NoThread
        /\ EndAll("aborted")
        /\ UNCHANGED watching
     \/ /\ python_thread_state = NoThread
        /\ Goto(Main, "finalize")
        /\ watching' = FALSE
  /\ UNCHANGED <<run_phase, python_thread_state, listens, queued, woken,
                 signalled, freed>>

\* Mutant: the interpreter is not finalized before the queue is deleted.
FinalizeNot ==
  /\ tpc[Main] = "finalize"
  /\ run_phase' = "EXIT"
  /\ Goto(Main, "delete")
  /\ UNCHANGED <<python_thread_state, listens, queueVars, signalled, freed>>

\* Py_Finalize waits for every thread that is not a daemon.
Finalize ==
  /\ tpc[Main] = "finalize"
  /\ \A w \in Workers \ Daemons : tpc[w] = "over"
  /\ run_phase' = "EXIT"
  /\ Goto(Main, "delete")
  /\ UNCHANGED <<python_thread_state, listens, queueVars, signalled, freed>>

\* cmd_q_delete.
AppDelete ==
  /\ tpc[Main] = "delete"
  /\ freed' = TRUE
  /\ Goto(Main, "exit")
  /\ UNCHANGED <<run_phase, python_thread_state, listens, queueVars, signalled>>

\* main() returns.
ProcessExits ==
  /\ tpc[Main] = "exit"
  /\ EndAll("exited")
  /\ UNCHANGED <<run_phase, python_thread_state, listens, queueVars, signalled,
                 freed>>

ListenPut(t) == ListenCheck(t) \/ ListenStore(t) \/ ListenSend(t)
InLoop(t) ==
  RunAssign(t) \/ RunWake(t) \/ RunDrain(t) \/ LeaveLoop(t) \/ Restore(t)
Exit == ScriptEnds \/ Dtor \/ Finalize \/ AppDelete \/ ProcessExits

AppNext ==
  \/ AppStart \/ Signal \/ Exit
  \/ \E t \in Threads :
       Listen(t) \/ ListenPut(t) \/ RunEnter(t) \/ InLoop(t) \/ OnSignal(t)
  \/ \E w \in Workers : WorkerEnds(w)

\* Threads go on, and scripts end once they can do nothing else for ever.
AppFairness ==
  /\ WF_appVars(AppStart) /\ WF_appVars(Exit)
  /\ \A t \in Threads :
       /\ WF_appVars(ListenPut(t)) /\ WF_appVars(InLoop(t))
       /\ WF_appVars(OnSignal(t))
  /\ \A w \in Workers : WF_appVars(WorkerEnds(w))

AppSpec == AppInit /\ [][AppNext]_appVars /\ AppFairness
-----------------------------------------------------------------------------
(* Properties *)

Places ==
  {"script", "enter", "loop", "drain", "restore", "check", "store", "send",
   "over", "ctor", "dtor", "finalize", "delete", "exit", "exited", "aborted"}

AppTypeOK ==
  /\ run_phase \in {"INIT", "RUN", "DYING", "EXIT"}
  /\ python_thread_state \in Threads \cup {NoThread}
  /\ tpc \in [Threads -> Places]
  /\ listens \in [Threads -> 0 .. MaxListens]
  /\ watching \in BOOLEAN /\ queued \in 0 .. QCapacity /\ woken \in BOOLEAN
  /\ signalled \in BOOLEAN /\ freed \in BOOLEAN

\* At most one thread is in the event loop or on its way into it
\* (_pysevapi_application_run: "already activated").
LoopIsSingle ==
  Cardinality({t \in Threads : tpc[t] \in {"enter", "loop", "drain"}}) <= 1

\* The assertion of application_dtor holds: no thread is in the loop.
NoAbort == tpc[Main] # "aborted"

\* The queue is deleted after its last use (application_dtor against
\* application_command in other threads).
QueueFreedLast ==
  freed => \A t \in Threads : tpc[t] \notin {"check", "store", "send"}

\* A signal ends the process, in whatever thread the loop is and although it
\* may come before the loop is entered.
SignalLeadsToExit == signalled ~> tpc[Main] = "exited"

\* While commands wait, somebody is inside the callback that takes them, or a
\* wake-up has been sent or is the next step of a put, whatever threads listen
\* and run the loop (a theorem of SinglevProofs).
WokenForCommands ==
  queued > 0 /\ tpc[Main] \notin {"exited", "aborted"}
    => woken \/ \E t \in Threads : tpc[t] \in {"send", "drain"}

AppReader ==
  IF tpc[Main] = "ctor" THEN "new" ELSE IF tpc[Main] = "drain" THEN "awake"
  ELSE IF tpc[Main] \in {"finalize", "delete", "exit", "exited", "aborted"}
       THEN "gone" ELSE "asleep"

AppWoken == INSTANCE WokenChannel WITH
              Putters <- Threads, Bound <- QCapacity, waiting <- queued,
              owing <- {t \in Threads : tpc[t] = "send"}, sent <- woken,
              reader <- AppReader

\* The application uses its queue as CmdQ implements it, if the main thread
\* alone calls application.run() (Runners = {Main}, as in SinglevProofs).
AppImplementsWokenChannel == AppWoken!Spec
-----------------------------------------------------------------------------
(* Inductive invariants; SinglevProofs rests on them. *)

LoopPlaces == {"enter", "loop", "drain", "restore"}

\* Who does not call application.run() is not in it.
RunnersInv == \A t \in Threads : tpc[t] \in LoopPlaces => t \in Runners

\* If the main thread alone calls it, the state of a thread is kept only
\* while the main thread is in the loop, so never at the assertion.
MainInv ==
  /\ python_thread_state # NoThread =>
       /\ python_thread_state = Main
       /\ tpc[Main] \in {"loop", "drain", "restore"}
  /\ tpc[Main] # "aborted"

\* If there are no daemons, no other thread is left once the interpreter is
\* finalized, and the queue is deleted after that.
EndInv ==
  /\ tpc[Main] \in {"delete", "exit", "exited", "aborted"} =>
       \A w \in Workers : tpc[w] = "over"
  /\ freed => tpc[Main] \in {"exit", "exited"}

\* Nobody is in application_listen() before the watcher is started, so no
\* wake-up is lost to the start.
StartInv ==
  tpc[Main] = "ctor" =>
    /\ run_phase = "INIT" /\ queued = 0
    /\ \A w \in Workers : tpc[w] = "script"

AppInv ==
  /\ AppTypeOK /\ RunnersInv
  /\ Runners = {Main} => MainInv
  /\ Daemons = {} => EndInv
=============================================================================
