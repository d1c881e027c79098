-------------------------- MODULE GreenevAppProofs ---------------------------
(***************************************************************************)
(* GreenevApp for every capacity, every number of sockets and every        *)
(* schedule: the references of the two loops are accounted for, so neither *)
(* loop ends early, over an open socket, or before the threads it serves.  *)
(***************************************************************************)
EXTENDS GreenevApp, TLAPS

\* What Append and Tail do to the membership of a command.
LEMMA QueuedAppend ==
  ASSUME NEW S, NEW s \in Seq(S), NEW e \in S, NEW c \in S
  PROVE  /\ Append(s, e) \in Seq(S)
         /\ Queued(Append(s, e), c) <=> Queued(s, c) \/ e = c
<1>1. /\ Append(s, e) \in Seq(S) /\ Len(Append(s, e)) = Len(s) + 1
      /\ Append(s, e)[Len(s) + 1] = e
      /\ \A i \in 1 .. Len(s) : Append(s, e)[i] = s[i]
      /\ Len(s) \in Nat
  OBVIOUS
<1>2. DOMAIN s = 1 .. Len(s) /\ DOMAIN Append(s, e) = 1 .. Len(s) + 1
  BY <1>1
<1>3. ASSUME Queued(s, c) \/ e = c PROVE Queued(Append(s, e), c)
  BY <1>1, <1>2, <1>3 DEF Queued
<1>4. ASSUME Queued(Append(s, e), c) PROVE Queued(s, c) \/ e = c
  <2>1. PICK i \in 1 .. Len(s) + 1 : Append(s, e)[i] = c
    BY <1>2, <1>4 DEF Queued
  <2>2. i \in 1 .. Len(s) \/ i = Len(s) + 1
    BY <1>1
  <2> QED
    BY <1>1, <1>2, <2>1, <2>2 DEF Queued
<1> QED
  BY <1>1, <1>3, <1>4

LEMMA QueuedTail ==
  ASSUME NEW S, NEW s \in Seq(S), s # <<>>, NEW c \in S
  PROVE  /\ Head(s) \in S /\ Tail(s) \in Seq(S)
         /\ Queued(s, c) <=> Queued(Tail(s), c) \/ Head(s) = c
         /\ AtMostOnce(s, c) => AtMostOnce(Tail(s), c)
         /\ (AtMostOnce(s, c) /\ Head(s) = c) => ~Queued(Tail(s), c)
<1>1. /\ Head(s) \in S /\ Tail(s) \in Seq(S) /\ Head(s) = s[1]
      /\ Len(s) \in Nat \ {0} /\ Len(Tail(s)) = Len(s) - 1
      /\ \A i \in 1 .. Len(s) - 1 : Tail(s)[i] = s[i + 1]
  OBVIOUS
<1>2. DOMAIN s = 1 .. Len(s) /\ DOMAIN Tail(s) = 1 .. Len(s) - 1
  BY <1>1
<1>3. ASSUME Queued(Tail(s), c) \/ Head(s) = c PROVE Queued(s, c)
  <2>1. CASE Head(s) = c
    BY <1>1, <1>2, <2>1 DEF Queued
  <2>2. CASE Queued(Tail(s), c)
    <3>1. PICK i \in 1 .. Len(s) - 1 : Tail(s)[i] = c
      BY <1>2, <2>2 DEF Queued
    <3>2. i + 1 \in 1 .. Len(s) /\ s[i + 1] = c
      BY <1>1, <3>1
    <3> QED
      BY <1>2, <3>2 DEF Queued
  <2> QED
    BY <1>3, <2>1, <2>2
<1>4. ASSUME Queued(s, c) PROVE Queued(Tail(s), c) \/ Head(s) = c
  <2>1. PICK i \in 1 .. Len(s) : s[i] = c
    BY <1>2, <1>4 DEF Queued
  <2>2. CASE i = 1
    BY <1>1, <2>1, <2>2
  <2>3. CASE i # 1
    <3>1. i - 1 \in 1 .. Len(s) - 1 /\ Tail(s)[i - 1] = c
      BY <1>1, <2>1, <2>3
    <3> QED
      BY <1>2, <3>1 DEF Queued
  <2> QED
    BY <2>2, <2>3
<1>5. ASSUME AtMostOnce(s, c) PROVE AtMostOnce(Tail(s), c)
  <2> SUFFICES ASSUME NEW i \in 1 .. Len(s) - 1, NEW j \in 1 .. Len(s) - 1,
                      Tail(s)[i] = c, Tail(s)[j] = c
               PROVE  i = j
    BY <1>2 DEF AtMostOnce
  <2>1. /\ i + 1 \in 1 .. Len(s) /\ j + 1 \in 1 .. Len(s)
        /\ s[i + 1] = c /\ s[j + 1] = c
    BY <1>1
  <2>2. i + 1 = j + 1
    BY <1>2, <1>5, <2>1 DEF AtMostOnce
  <2> QED
    BY <2>2
<1>6. ASSUME AtMostOnce(s, c), Head(s) = c PROVE ~Queued(Tail(s), c)
  <2> SUFFICES ASSUME NEW i \in 1 .. Len(s) - 1, Tail(s)[i] = c PROVE FALSE
    BY <1>2 DEF Queued
  <2>1. i + 1 \in 1 .. Len(s) /\ s[i + 1] = c /\ s[1] = c /\ i + 1 # 1
    BY <1>1, <1>6
  <2>2. 1 \in 1 .. Len(s)
    BY <1>1
  <2> QED
    BY <1>2, <1>6, <2>1, <2>2 DEF AtMostOnce
<1> QED
  BY <1>1, <1>3, <1>4, <1>5, <1>6

\* A put of one more DIE into a queue without one, or of a LISTEN, keeps DIE
\* unique.
LEMMA AtMostOnceAppend ==
  ASSUME NEW S, NEW s \in Seq(S), NEW e \in S, NEW c \in S,
         AtMostOnce(s, c), e = c => ~Queued(s, c)
  PROVE  AtMostOnce(Append(s, e), c)
<1>1. /\ Len(Append(s, e)) = Len(s) + 1
      /\ Append(s, e)[Len(s) + 1] = e
      /\ \A i \in 1 .. Len(s) : Append(s, e)[i] = s[i]
      /\ Len(s) \in Nat
  OBVIOUS
<1>2. DOMAIN s = 1 .. Len(s) /\ DOMAIN Append(s, e) = 1 .. Len(s) + 1
  BY <1>1
<1> SUFFICES ASSUME NEW i \in 1 .. Len(s) + 1, NEW j \in 1 .. Len(s) + 1,
                    Append(s, e)[i] = c, Append(s, e)[j] = c
             PROVE  i = j
  BY <1>2 DEF AtMostOnce
<1>3. /\ i \in 1 .. Len(s) \/ i = Len(s) + 1
      /\ j \in 1 .. Len(s) \/ j = Len(s) + 1
  BY <1>1
<1>4. CASE i \in 1 .. Len(s) /\ j \in 1 .. Len(s)
  BY <1>1, <1>2, <1>4 DEF AtMostOnce
<1>5. CASE i = Len(s) + 1 \/ j = Len(s) + 1
  BY <1>1, <1>2, <1>3, <1>5 DEF Queued
<1> QED
  BY <1>3, <1>4, <1>5

\* A thread that has not announced its exit finds room to do so.
LEMMA Announcing ==
  ASSUME NEW s \in Seq(Exits), \A d \in Exits : AtMostOnce(s, d),
         NEW c \in Exits, ~Queued(s, c)
  PROVE  /\ PutOrDrop(s, c) = Append(s, c)
         /\ Append(s, c) \in Seq(Exits)
         /\ \A d \in Exits : AtMostOnce(Append(s, c), d)
         /\ \A d \in Exits : Queued(Append(s, c), d) <=> Queued(s, d) \/ c = d
<1>1. DOMAIN s = 1 .. Len(s) /\ Len(s) \in Nat
  OBVIOUS
<1>2. Len(s) < 2
  <2> SUFFICES ASSUME Len(s) >= 2 PROVE FALSE
    BY <1>1
  <2>1. 1 \in DOMAIN s /\ 2 \in DOMAIN s /\ s[1] \in Exits /\ s[2] \in Exits
    BY <1>1
  <2>2. s[1] # c /\ s[2] # c
    BY <2>1 DEF Queued
  <2>3. s[1] = s[2]
    BY <2>1, <2>2 DEF Exits
  <2> QED
    BY <2>1, <2>3 DEF AtMostOnce
<1>3. PutOrDrop(s, c) = Append(s, c)
  <2>1. QCapacity \in Nat /\ QCapacity >= 2
    BY AppAssumption
  <2>2. Len(s) < QCapacity
    BY <1>1, <1>2, <2>1
  <2> QED
    BY <2>2 DEF PutOrDrop
<1>4. \A d \in Exits : AtMostOnce(Append(s, c), d)
  BY AtMostOnceAppend
<1> QED
  BY <1>3, <1>4, QueuedAppend

\* Handling one announcement leaves the other one alone.
LEMMA Handling ==
  ASSUME NEW s \in Seq(Exits), \A d \in Exits : AtMostOnce(s, d), s # <<>>
  PROVE  /\ Head(s) \in Exits
         /\ Tail(s) \in Seq(Exits)
         /\ \A d \in Exits : AtMostOnce(Tail(s), d)
         /\ Queued(s, Head(s)) /\ ~Queued(Tail(s), Head(s))
         /\ \A d \in Exits : d # Head(s) => (Queued(Tail(s), d) <=> Queued(s, d))
<1>1. Head(s) \in Exits
  OBVIOUS
<1> QED
  BY <1>1, QueuedTail

-----------------------------------------------------------------------------
LEMMA InitIInv == Init => IInv
<1> SUFFICES ASSUME Init PROVE IInv
  OBVIOUS
<1>1. /\ app_cmd_q = <<>> /\ io_cmd_q = <<>>
      /\ \A c : ~Queued(<<>>, c) /\ AtMostOnce(<<>>, c)
  BY DEF Init, IoInit, PyInit, Queued, AtMostOnce
<1>2. TypeOK
  <2>1. 0 \in 0 .. MaxListens
    BY AppAssumption
  <2>2. /\ app_cmd_q \in Seq(Exits) /\ py_cmd_q \in Seq({"DIE"})
        /\ io_cmd_q \in Seq({"DIE", "LISTEN"})
    BY DEF Init, IoInit, PyInit
  <2>3. main_refs \in Int /\ io_refs \in Int
    BY DEF Init, IoInit, PyInit, Signals
  <2> QED
    BY <2>1, <2>2, <2>3 DEF Init, IoInit, PyInit, TypeOK
<1>3. PhaseInv /\ JoinInv /\ NoAbort
  BY DEF Init, IoInit, PyInit, PhaseInv, JoinInv, NoAbort, LoopLeft
<1>4. AnnounceInv /\ DieInv
  BY <1>1 DEF Init, IoInit, PyInit, AnnounceInv, DieInv, SignalsActive
<1>5. MainRefsInv /\ IoRefsInv
  BY DEF Init, IoInit, PyInit, MainRefsInv, IoRefsInv, SignalsActive, Signals,
     LoopLeft,
         IoAnnounced, PyAnnounced
<1> QED
  BY <1>2, <1>3, <1>4, <1>5 DEF IInv

\* Where the main thread is, and what it has freed.
LEMMA PhaseStep == IInv /\ [Next]_vars => PhaseInv' /\ JoinInv'
<1> SUFFICES ASSUME IInv, [Next]_vars PROVE PhaseInv' /\ JoinInv'
  OBVIOUS
<1> USE DEF TypeOK, PhaseInv, JoinInv, LoopLeft, SignalsActive
<1>0. TypeOK /\ PhaseInv /\ JoinInv
  BY DEF IInv
<1>1. CASE Main
  BY <1>0, <1>1
     DEF Main, AppRun, DieSend, DiePy, AppWake, AppDrained, OnAppCmd,
         LeaveLoop, Join, FreeIo, FreeApp, pyVars
<1>2. CASE Terminate
  BY <1>0, <1>2 DEF Terminate, pyVars
<1>3. CASE Io \/ Accept \/ PeerCloses
  BY <1>0, <1>3
     DEF Io, IoStart, IoWake, IoDrained, OnDie, OnListen, IoLeaveLoop,
         IoAnnounce, IoSend, Accept, PeerCloses, mainVars, pyVars
<1>4. CASE Py \/ PyQuit
  BY <1>0, <1>4
     DEF Py, PyStart, Listen, ListenSend, PyRun, PyDie, PyAnnounce, PySend,
         PyQuit, mainVars
<1>5. CASE UNCHANGED vars
  BY <1>0, <1>5 DEF vars, mainVars, pyVars
<1> QED
  BY <1>1, <1>2, <1>3, <1>4, <1>5 DEF Next

\* The announcements and the references of the main loop.
LEMMA MainRefsStep == IInv /\ [Next]_vars => AnnounceInv' /\ MainRefsInv' /\ NoAbort'
<1> SUFFICES ASSUME IInv, [Next]_vars
             PROVE  AnnounceInv' /\ MainRefsInv' /\ NoAbort'
  OBVIOUS
<1> USE DEF PhaseInv, AnnounceInv, MainRefsInv, NoAbort, LoopLeft,
            SignalsActive, IoAnnounced, PyAnnounced, Signals
<1>0. TypeOK /\ PhaseInv /\ AnnounceInv /\ MainRefsInv /\ NoAbort
  BY DEF IInv
<1>1. /\ "IO_THREAD_EXIT" \in Exits /\ "PY_THREAD_EXIT" \in Exits
      /\ app_cmd_q \in Seq(Exits)
      /\ main_refs \in Int
  BY <1>0 DEF Exits, TypeOK
<1>2. CASE OnAppCmd
  <2> DEFINE c == Head(app_cmd_q)
  <2>1. /\ app_cmd_q # <<>> /\ app_cmd_q' = Tail(app_cmd_q)
        /\ mpc = "drain" /\ UNCHANGED <<run_phase, ipc, ppc>>
    BY <1>2 DEF OnAppCmd, ioVars, pyVars
  <2>2. /\ c \in Exits
        /\ \A d \in Exits : AtMostOnce(app_cmd_q', d)
        /\ Queued(app_cmd_q, c) /\ ~Queued(app_cmd_q', c)
        /\ \A d \in Exits : d # c => (Queued(app_cmd_q', d) <=> Queued(app_cmd_q, d))
    BY <1>0, <1>1, <2>1, Handling
  <2>3. c = "IO_THREAD_EXIT" => run_phase = "DYING"
    <3> SUFFICES ASSUME c = "IO_THREAD_EXIT" PROVE run_phase = "DYING"
      OBVIOUS
    <3>1. IoAnnounced
      BY <1>0, <2>2
    <3>2. informed
      <4>1. /\ io_refs = 0 /\ ipc # "new"
            /\ listening \in Nat /\ established \in Nat
        BY <3>1 DEF IInv, IoRefsInv, TypeOK
      <4>2. io_refs = (IF ipc # "new" /\ ~informed THEN 1 ELSE 0)
                      + listening + established
        BY DEF IInv, IoRefsInv
      <4> QED
        BY <4>1, <4>2
    <3>3. ~SignalsActive
      BY <3>2 DEF IInv, DieInv
    <3> QED
      BY <3>3, <2>1, <1>0 DEF TypeOK
  <2>4. main_refs' = main_refs - 1 /\ mpc' = mpc
    BY <1>2, <2>3 DEF OnAppCmd
  <2>5. AnnounceInv'
    BY <1>0, <1>1, <2>1, <2>2
  <2>6. MainRefsInv'
    BY <1>0, <1>1, <2>1, <2>2, <2>4 DEF Exits
  <2> QED
    BY <1>0, <2>4, <2>5, <2>6
<1>3. CASE IoAnnounce
  <2>1. /\ ipc = "announce" /\ ipc' = "send"
        /\ app_cmd_q' = PutOrDrop(app_cmd_q, "IO_THREAD_EXIT")
        /\ UNCHANGED <<run_phase, mpc, main_refs, ppc>>
    BY <1>3 DEF IoAnnounce, mainVars, pyVars
  <2>2. ~Queued(app_cmd_q, "IO_THREAD_EXIT")
    BY <1>0, <2>1
  <2>a. \A d \in Exits : AtMostOnce(app_cmd_q, d)
    BY <1>0
  <2>b. app_cmd_q' = Append(app_cmd_q, "IO_THREAD_EXIT")
    BY <1>1, <2>1, <2>2, <2>a, Announcing
  <2>3. /\ \A d \in Exits : AtMostOnce(app_cmd_q', d)
        /\ \A d \in Exits : Queued(app_cmd_q', d) <=>
                              Queued(app_cmd_q, d) \/ d = "IO_THREAD_EXIT"
    BY <1>1, <2>2, <2>a, <2>b, Announcing
  <2> QED
    BY <1>0, <1>1, <2>1, <2>2, <2>3
<1>4. CASE PyAnnounce
  <2>1. /\ ppc = "announce" /\ ppc' = "send"
        /\ app_cmd_q' = PutOrDrop(app_cmd_q, "PY_THREAD_EXIT")
        /\ UNCHANGED <<run_phase, mpc, main_refs, ipc>>
    BY <1>4 DEF PyAnnounce, mainVars, ioVars
  <2>2. ~Queued(app_cmd_q, "PY_THREAD_EXIT")
    BY <1>0, <2>1
  <2>a. \A d \in Exits : AtMostOnce(app_cmd_q, d)
    BY <1>0
  <2>b. app_cmd_q' = Append(app_cmd_q, "PY_THREAD_EXIT")
    BY <1>1, <2>1, <2>2, <2>a, Announcing
  <2>3. /\ \A d \in Exits : AtMostOnce(app_cmd_q', d)
        /\ \A d \in Exits : Queued(app_cmd_q', d) <=>
                              Queued(app_cmd_q, d) \/ d = "PY_THREAD_EXIT"
    BY <1>1, <2>2, <2>a, <2>b, Announcing
  <2> QED
    BY <1>0, <1>1, <2>1, <2>2, <2>3
<1>5. CASE LeaveLoop
  <2>1. /\ mpc = "loop" /\ main_refs = 0 /\ mpc' = "join" /\ run_phase' = "EXIT"
        /\ UNCHANGED <<main_refs, ipc, ppc, app_cmd_q>>
    BY <1>5 DEF LeaveLoop, ioVars, pyVars, appQ
  <2>2. ~SignalsActive
    BY <1>0, <1>1, <2>1
  <2> QED
    BY <1>0, <1>1, <2>1, <2>2
<1>6. CASE Terminate
  BY <1>0, <1>1, <1>6 DEF Terminate, ioVars, pyVars, appQ
<1>7. CASE AppRun \/ DieSend \/ DiePy \/ AppWake \/ AppDrained \/ Join
           \/ FreeIo \/ FreeApp
  BY <1>0, <1>1, <1>7
     DEF AppRun, DieSend, DiePy, AppWake, AppDrained, Join, FreeIo, FreeApp,
         ioVars, pyVars, appQ
<1>8. CASE IoStart \/ IoWake \/ IoDrained \/ OnDie \/ OnListen \/ IoLeaveLoop
           \/ IoSend \/ Accept \/ PeerCloses
  BY <1>0, <1>1, <1>8
     DEF IoStart, IoWake, IoDrained, OnDie, OnListen, IoLeaveLoop, IoSend,
         Accept, PeerCloses, mainVars, pyVars, appQ
<1>9. CASE PyStart \/ Listen \/ ListenSend \/ PyRun \/ PyDie \/ PySend \/ PyQuit
  BY <1>0, <1>1, <1>9
     DEF PyStart, Listen, ListenSend, PyRun, PyDie, PySend, PyQuit, mainVars,
         ioVars, appQ
<1>10. CASE UNCHANGED vars
  BY <1>0, <1>10 DEF vars, mainVars, ioVars, pyVars, appQ
<1> QED
  BY <1>2, <1>3, <1>4, <1>5, <1>6, <1>7, <1>8, <1>9, <1>10
     DEF Next, Main, Io, Py

\* The single DIE and the references of the IO loop.
LEMMA IoRefsStep == IInv /\ [Next]_vars => DieInv' /\ IoRefsInv'
<1> SUFFICES ASSUME IInv, [Next]_vars PROVE DieInv' /\ IoRefsInv'
  OBVIOUS
<1> USE DEF DieInv, IoRefsInv, SignalsActive
<1> DEFINE Cmds == {"DIE", "LISTEN"}
<1>0. DieInv /\ IoRefsInv /\ PhaseInv
  BY DEF IInv
<1>1. /\ "DIE" \in Cmds /\ "LISTEN" \in Cmds
      /\ io_cmd_q \in Seq(Cmds)
      /\ io_refs \in Int /\ listening \in Nat /\ established \in Nat
      /\ informed \in BOOLEAN
  BY DEF IInv, TypeOK
<1>2. CASE Terminate
  <2>1. /\ SignalsActive /\ run_phase' = "DYING"
        /\ io_cmd_q' = PutOrDrop(io_cmd_q, "DIE")
        /\ UNCHANGED <<ipc, io_refs, listening, established, informed>>
    BY <1>2 DEF Terminate, ioVars
  <2>2. ~Queued(io_cmd_q, "DIE") /\ ~informed /\ AtMostOnce(io_cmd_q, "DIE")
    BY <1>0, <2>1
  <2>3. AtMostOnce(Append(io_cmd_q, "DIE"), "DIE")
    BY <1>1, <2>2, AtMostOnceAppend
  <2>4. AtMostOnce(io_cmd_q', "DIE")
    BY <2>1, <2>2, <2>3 DEF PutOrDrop
  <2> QED
    BY <1>0, <2>1, <2>2, <2>4
<1>3. CASE Listen
  <2>1. /\ io_cmd_q' = PutOrDrop(io_cmd_q, "LISTEN")
        /\ UNCHANGED <<run_phase, ipc, io_refs, listening, established, informed>>
    BY <1>3 DEF Listen, ioVars, mainVars
  <2>2. /\ AtMostOnce(Append(io_cmd_q, "LISTEN"), "DIE")
        /\ Queued(Append(io_cmd_q, "LISTEN"), "DIE") <=> Queued(io_cmd_q, "DIE")
    BY <1>0, <1>1, AtMostOnceAppend, QueuedAppend
  <2>3. /\ AtMostOnce(io_cmd_q', "DIE")
        /\ Queued(io_cmd_q', "DIE") <=> Queued(io_cmd_q, "DIE")
    BY <1>0, <2>1, <2>2 DEF PutOrDrop
  <2> QED
    BY <1>0, <2>1, <2>3
<1>4. CASE OnDie
  <2>1. /\ io_cmd_q # <<>> /\ Head(io_cmd_q) = "DIE" /\ ipc = "drain"
        /\ io_cmd_q' = Tail(io_cmd_q) /\ informed' = TRUE
        /\ io_refs' = io_refs - (listening - listening')
                              - (established - established') - 1
        /\ UNCHANGED <<run_phase, ipc>>
    BY <1>4 DEF OnDie, mainVars
  <2>2. /\ Queued(io_cmd_q, "DIE") /\ ~Queued(io_cmd_q', "DIE")
        /\ AtMostOnce(io_cmd_q', "DIE")
    BY <1>0, <1>1, <2>1, QueuedTail
  <2>3. listening' \in Nat /\ established' \in Nat
    BY <1>1, <1>4 DEF OnDie, LeftOpen
  <2>4. DieInv'
    BY <1>0, <2>1, <2>2
  <2>5. ~informed /\ ipc # "new"
    BY <1>0, <2>1, <2>2
  <2>6. io_refs = 1 + listening + established
    BY <1>0, <2>5
  <2>7. io_refs' = 0 + listening' + established'
    <3>1. listening \in Nat /\ established \in Nat
      BY <1>1
    <3>2. io_refs' = io_refs - (listening - listening')
                             - (established - established') - 1
      BY <2>1
    <3> QED
      BY <3>1, <3>2, <2>3, <2>6
  <2> QED
    BY <2>1, <2>4, <2>7
<1>5. CASE OnListen
  <2>1. /\ io_cmd_q # <<>> /\ Head(io_cmd_q) = "LISTEN" /\ ipc = "drain"
        /\ io_cmd_q' = Tail(io_cmd_q)
        /\ listening' = listening + 1 /\ io_refs' = io_refs + 1
        /\ UNCHANGED <<run_phase, ipc, established, informed>>
    BY <1>5 DEF OnListen, mainVars
  <2>2. /\ Queued(io_cmd_q', "DIE") <=> Queued(io_cmd_q, "DIE")
        /\ AtMostOnce(io_cmd_q', "DIE")
    BY <1>0, <1>1, <2>1, QueuedTail
  <2> QED
    BY <1>0, <1>1, <2>1, <2>2
<1>6. CASE IoStart \/ IoWake \/ IoDrained \/ IoLeaveLoop \/ IoAnnounce
           \/ IoSend \/ Accept \/ PeerCloses
  BY <1>0, <1>1, <1>6
     DEF IoStart, IoWake, IoDrained, IoLeaveLoop, IoAnnounce, IoSend, Accept,
         PeerCloses, mainVars, ioQ
<1>7. CASE Main
  BY <1>0, <1>1, <1>7
     DEF Main, AppRun, DieSend, DiePy, AppWake, AppDrained, OnAppCmd,
         LeaveLoop, Join, FreeIo, FreeApp, ioVars, ioQ, PhaseInv
<1>8. CASE PyStart \/ ListenSend \/ PyRun \/ PyDie \/ PyAnnounce \/ PySend
           \/ PyQuit
  BY <1>0, <1>1, <1>8
     DEF PyStart, ListenSend, PyRun, PyDie, PyAnnounce, PySend, PyQuit,
         mainVars, ioVars, ioQ
<1>9. CASE UNCHANGED vars
  BY <1>0, <1>9 DEF vars, mainVars, ioVars, ioQ
<1> QED
  BY <1>2, <1>3, <1>4, <1>5, <1>6, <1>7, <1>8, <1>9 DEF Next, Io, Py

LEMMA PutOrDropType ==
  ASSUME NEW S, NEW s \in Seq(S), NEW e \in S
  PROVE  PutOrDrop(s, e) \in Seq(S)
  BY DEF PutOrDrop

LEMMA QueueTypeStep ==
  ASSUME TypeOK, [Next]_vars
  PROVE  /\ app_cmd_q' \in Seq(Exits)
         /\ io_cmd_q' \in Seq({"DIE", "LISTEN"})
         /\ py_cmd_q' \in Seq({"DIE"})
<1> DEFINE Goal == /\ app_cmd_q' \in Seq(Exits)
                   /\ io_cmd_q' \in Seq({"DIE", "LISTEN"})
                   /\ py_cmd_q' \in Seq({"DIE"})
<1>0. /\ app_cmd_q \in Seq(Exits)
      /\ io_cmd_q \in Seq({"DIE", "LISTEN"})
      /\ py_cmd_q \in Seq({"DIE"})
  BY DEF TypeOK
<1>1. CASE OnAppCmd
  <2>1. app_cmd_q # <<>> /\ app_cmd_q' = Tail(app_cmd_q)
        /\ UNCHANGED <<io_cmd_q, py_cmd_q>>
    BY <1>1 DEF OnAppCmd, ioQ
  <2> QED
    BY <1>0, <2>1
<1>2. CASE OnDie \/ OnListen
  <2>1. io_cmd_q # <<>> /\ io_cmd_q' = Tail(io_cmd_q)
        /\ UNCHANGED <<app_cmd_q, py_cmd_q>>
    BY <1>2 DEF OnDie, OnListen, appQ
  <2> QED
    BY <1>0, <2>1
<1>3. CASE PyDie
  <2>1. py_cmd_q # <<>> /\ py_cmd_q' = Tail(py_cmd_q)
        /\ UNCHANGED <<app_cmd_q, io_cmd_q>>
    BY <1>3 DEF PyDie, appQ, ioQ
  <2> QED
    BY <1>0, <2>1
<1>4. CASE DiePy
  <2>1. py_cmd_q' = Append(py_cmd_q, "DIE") /\ UNCHANGED <<app_cmd_q, io_cmd_q>>
    BY <1>4 DEF DiePy, appQ, ioQ
  <2> QED
    BY <1>0, <2>1
<1>5. CASE IoAnnounce \/ PyAnnounce
  <2>1. /\ \E c \in Exits : app_cmd_q' = PutOrDrop(app_cmd_q, c)
        /\ UNCHANGED <<io_cmd_q, py_cmd_q>>
    BY <1>5 DEF IoAnnounce, PyAnnounce, Exits, ioQ
  <2> QED
    BY <1>0, <2>1, PutOrDropType
<1>6. CASE Terminate \/ Listen
  <2>1. /\ \E c \in {"DIE", "LISTEN"} : io_cmd_q' = PutOrDrop(io_cmd_q, c)
        /\ UNCHANGED <<app_cmd_q, py_cmd_q>>
    BY <1>6 DEF Terminate, Listen, appQ
  <2> QED
    BY <1>0, <2>1, PutOrDropType
<1>7. CASE UNCHANGED <<app_cmd_q, io_cmd_q, py_cmd_q>>
  BY <1>0, <1>7
<1>8. CASE \/ AppRun \/ DieSend \/ AppWake \/ AppDrained \/ LeaveLoop \/ Join
           \/ FreeIo \/ FreeApp \/ IoStart \/ IoWake \/ IoDrained \/ Accept
           \/ PeerCloses \/ IoLeaveLoop \/ IoSend \/ PyStart \/ ListenSend
           \/ PyRun \/ PyQuit \/ PySend \/ UNCHANGED vars
  <2>1. UNCHANGED <<app_cmd_q, io_cmd_q, py_cmd_q>>
    BY <1>8
       DEF AppRun, DieSend, AppWake, AppDrained, LeaveLoop, Join, FreeIo,
           FreeApp, IoStart, IoWake, IoDrained, Accept, PeerCloses,
           IoLeaveLoop, IoSend, PyStart, ListenSend, PyRun, PyQuit, PySend,
           vars, appQ, ioQ
  <2> QED
    BY <2>1, <1>7
<1> QED
  BY <1>1, <1>2, <1>3, <1>4, <1>5, <1>6, <1>8 DEF Next, Main, Io, Py

LEMMA TypeStep == IInv /\ [Next]_vars => TypeOK'
<1> SUFFICES ASSUME IInv, [Next]_vars PROVE TypeOK'
  OBVIOUS
<1> DEFINE Rest ==
      /\ run_phase \in {"INIT", "RUN", "DYING", "EXIT"}
      /\ mpc \in {"ctor", "loop", "drain", "die_send", "die_py", "join",
                  "free_io", "free_app", "exited", "aborted"}
      /\ main_refs \in Int /\ io_refs \in Int
      /\ app_sent \in BOOLEAN /\ io_sent \in BOOLEAN
      /\ ipc \in {"new", "loop", "drain", "announce", "send", "done"}
      /\ listening \in Nat /\ established \in Nat
      /\ informed \in BOOLEAN
      /\ ppc \in {"new", "script", "listen_send", "run", "announce", "send",
                  "done"}
      /\ listens \in 0 .. MaxListens
<1>0. TypeOK /\ Rest
  BY DEF IInv, TypeOK
<1>1. ASSUME Main PROVE Rest'
  <2>1. ASSUME OnAppCmd PROVE Rest'
    BY <1>0, <2>1 DEF OnAppCmd, ioVars, pyVars, ioQ
  <2>2. ASSUME AppRun \/ DieSend \/ DiePy \/ AppWake \/ AppDrained PROVE Rest'
    BY <1>0, <2>2
       DEF AppRun, DieSend, DiePy, AppWake, AppDrained, ioVars, pyVars, appQ,
           ioQ
  <2>3. ASSUME LeaveLoop \/ Join \/ FreeIo \/ FreeApp PROVE Rest'
    BY <1>0, <2>3
       DEF LeaveLoop, Join, FreeIo, FreeApp, ioVars, pyVars, appQ, ioQ
  <2> QED
    BY <1>1, <2>1, <2>2, <2>3 DEF Main
<1>2. ASSUME Terminate PROVE Rest'
  BY <1>0, <1>2 DEF Terminate, Signals, ioVars, pyVars, appQ
<1>3. ASSUME Io \/ Accept \/ PeerCloses PROVE Rest'
  <2>1. ASSUME OnDie PROVE Rest'
    <3>1. listening' \in Nat /\ established' \in Nat
      BY <1>0, <2>1 DEF OnDie, LeftOpen
    <3> QED
      BY <1>0, <2>1, <3>1 DEF OnDie, mainVars, pyVars, appQ
  <2>2. ASSUME OnListen \/ Accept \/ PeerCloses PROVE Rest'
    BY <1>0, <2>2 DEF OnListen, Accept, PeerCloses, mainVars, pyVars, appQ, ioQ
  <2>3. ASSUME IoStart PROVE Rest'
    <3>1. io_refs' \in Int /\ ipc' = "loop"
      BY <1>0, <2>3 DEF IoStart
    <3>2. io_sent' \in BOOLEAN
      BY <2>3 DEF IoStart
    <3>3. UNCHANGED <<run_phase, mpc, main_refs, app_sent, listening,
                      established, informed, ppc, listens>>
      BY <2>3 DEF IoStart, mainVars, pyVars, appQ
    <3> QED
      BY <1>0, <3>1, <3>2, <3>3
  <2>4. ASSUME IoWake \/ IoDrained PROVE Rest'
    BY <1>0, <2>4 DEF IoWake, IoDrained, mainVars, pyVars, appQ, ioQ
  <2>5. ASSUME IoLeaveLoop \/ IoAnnounce \/ IoSend PROVE Rest'
    BY <1>0, <2>5
       DEF IoLeaveLoop, IoAnnounce, IoSend, mainVars, pyVars, appQ, ioQ
  <2> QED
    BY <1>3, <2>1, <2>2, <2>3, <2>4, <2>5 DEF Io
<1>4. ASSUME Py \/ PyQuit PROVE Rest'
  <2>1. listens' \in 0 .. MaxListens
    <3>1. MaxListens \in Nat
      BY AppAssumption
    <3> QED
      BY <1>0, <1>4, <3>1
         DEF Py, PyStart, Listen, ListenSend, PyRun, PyDie, PyAnnounce, PySend,
             PyQuit, pyVars
  <2> QED
    BY <1>0, <1>4, <2>1
       DEF Py, PyStart, Listen, ListenSend, PyRun, PyDie, PyAnnounce, PySend,
           PyQuit, mainVars, ioVars, appQ, ioQ
<1>5. ASSUME UNCHANGED vars PROVE Rest'
  BY <1>0, <1>5 DEF vars, mainVars, ioVars, pyVars, appQ, ioQ
<1>6. Rest'
  BY <1>1, <1>2, <1>3, <1>4, <1>5 DEF Next
<1> QED
  BY <1>0, <1>6, QueueTypeStep DEF TypeOK

-----------------------------------------------------------------------------
(* Theorems *)

THEOREM Invariance == Spec => []IInv
<1>1. IInv /\ [Next]_vars => IInv'
  BY TypeStep, PhaseStep, MainRefsStep, IoRefsStep DEF IInv
<1> QED
  BY InitIInv, <1>1, PTL DEF Spec

\* The control state stays within the code's phases and program points.
THEOREM TypeCorrect == Spec => []TypeOK
BY Invariance, PTL DEF IInv

\* Both references of the threads are held until their announcements have been
\* handled, so the main loop cannot end earlier, and none is dropped twice.
THEOREM ExitIsLast == Spec => []ExitOnlyAfterBoth
<1>1. IInv => ExitOnlyAfterBoth
  <2> SUFFICES ASSUME IInv PROVE ExitOnlyAfterBoth
    OBVIOUS
  <2>1. main_refs >= 0
    BY DEF IInv, MainRefsInv, Signals
  <2>2. ASSUME LoopLeft
        PROVE  /\ ipc \in {"send", "done"} /\ ppc \in {"send", "done"}
               /\ app_cmd_q = <<>>
    <3>1. /\ IoAnnounced /\ ~Queued(app_cmd_q, "IO_THREAD_EXIT")
          /\ PyAnnounced /\ ~Queued(app_cmd_q, "PY_THREAD_EXIT")
      BY <2>2 DEF IInv, MainRefsInv, Signals
    <3>2. app_cmd_q = <<>>
      <4>1. app_cmd_q \in Seq(Exits) /\ \A d \in Exits : AtMostOnce(app_cmd_q, d)
        BY DEF IInv, TypeOK, AnnounceInv
      <4>2. ASSUME app_cmd_q # <<>> PROVE FALSE
        BY <3>1, <4>1, <4>2, Handling DEF Exits
      <4> QED
        BY <4>2
    <3> QED
      BY <3>1, <3>2 DEF IoAnnounced, PyAnnounced
  <2> QED
    BY <2>1, <2>2 DEF ExitOnlyAfterBoth
<1> QED
  BY Invariance, <1>1, PTL

\* The IO thread's announcement never meets a phase other than DYING.
THEOREM AbortUnreachable == Spec => []NoAbort
BY Invariance, PTL DEF IInv

\* The IO loop's reference count is exactly its open sockets, so it cannot end
\* over one, whatever free() leaves in a socket's next pointer.
THEOREM SocketsAccounted == Spec => []NoSocketLeftBehind
<1>1. IInv => NoSocketLeftBehind
  BY DEF IInv, TypeOK, IoRefsInv, NoSocketLeftBehind
<1> QED
  BY Invariance, <1>1, PTL

\* io_thread_dtor runs when the Python thread is joined and the IO thread has
\* announced its exit: neither touches io_thread.cmd_q any more.
THEOREM IoQueueFreedSafely == Spec => []IoQueueFreedLast
<1>1. IInv => IoQueueFreedLast
  <2> SUFFICES ASSUME IInv, mpc \in {"free_app", "exited"}
               PROVE  ppc = "done" /\ ipc \in {"send", "done"}
    BY DEF IoQueueFreedLast
  <2>1. ppc = "done"
    BY DEF IInv, JoinInv
  <2>2. main_refs = 0
    BY DEF IInv, MainRefsInv, LoopLeft
  <2>3. IoAnnounced
    BY <2>2 DEF IInv, MainRefsInv, Signals
  <2> QED
    BY <2>1, <2>3 DEF IoAnnounced
<1> QED
  BY Invariance, <1>1, PTL

\* application_command: whatever the threads have announced, the main thread
\* does not sleep over it, under every schedule; both rings of its queue are
\* started before the threads run.
THEOREM ExitsAreHeard == Spec => []AppWokenForExits
<1>1. Init => AppWokenForExits
  BY DEF Init, AppWokenForExits
<1>2. AppWokenForExits /\ [Next]_vars => AppWokenForExits'
  <2> SUFFICES ASSUME AppWokenForExits, [Next]_vars,
                      app_cmd_q' # <<>>, mpc' \notin {"drain", "aborted"}
               PROVE  app_sent' \/ ipc' = "send" \/ ppc' = "send"
    BY DEF AppWokenForExits
  <2> USE DEF AppWokenForExits
  <2>1. CASE \/ Terminate \/ AppRun \/ DieSend \/ DiePy
             \/ LeaveLoop \/ Join \/ FreeIo \/ FreeApp
    BY <2>1
       DEF Terminate, AppRun, DieSend, DiePy, LeaveLoop, Join, FreeIo, FreeApp,
           ioVars, pyVars, appQ
  <2>2. CASE AppWake \/ AppDrained \/ OnAppCmd
    BY <2>2 DEF AppWake, AppDrained, OnAppCmd, appQ
  <2>3. CASE Io \/ Accept \/ PeerCloses
    BY <2>3
       DEF Io, IoStart, IoWake, IoDrained, OnDie, OnListen, IoLeaveLoop,
           IoAnnounce, IoSend, Accept, PeerCloses, mainVars, pyVars, appQ
  <2>4. CASE Py \/ PyQuit
    BY <2>4
       DEF Py, PyStart, Listen, ListenSend, PyRun, PyDie, PyAnnounce, PySend,
           PyQuit, mainVars, ioVars, appQ
  <2>5. CASE UNCHANGED vars
    BY <2>5 DEF vars, mainVars, ioVars, pyVars, appQ
  <2> QED
    BY <2>1, <2>2, <2>3, <2>4, <2>5 DEF Next, Main
<1> QED
  BY <1>1, <1>2, PTL DEF Spec

\* io_thread_listen and io_thread_die: a command put after the IO thread's
\* watcher_cmd_q_start is not slept over, whoever put it and whatever was in
\* the queue; one put before it may be, for as long as no other comes.
THEOREM CommandsAreHeard == Spec /\ IoUpBeforePuts => []IoWokenForCommands
<1> DEFINE Up == ipc = "new" => io_cmd_q = <<>>
<1>1. Init => IoWokenForCommands
  BY DEF Init, IoInit, IoWokenForCommands
<1>2. Up /\ IoWokenForCommands /\ [Next]_vars => IoWokenForCommands'
  <2> SUFFICES ASSUME Up, IoWokenForCommands, [Next]_vars,
                      io_cmd_q' # <<>>, ipc' = "loop"
               PROVE  io_sent' \/ mpc' = "die_send" \/ ppc' = "listen_send"
    BY DEF IoWokenForCommands
  <2> USE DEF IoWokenForCommands
  <2>1. CASE Terminate
    <3>1. CASE Len(io_cmd_q) < QCapacity
      BY <2>1, <3>1 DEF Terminate
    <3>2. CASE ~(Len(io_cmd_q) < QCapacity)
      BY <2>1, <3>2 DEF Terminate, PutOrDrop, ioVars, pyVars
    <3> QED
      BY <3>1, <3>2
  <2>2. CASE Main
    BY <2>2
       DEF Main, AppRun, DieSend, DiePy, AppWake, AppDrained, OnAppCmd,
           LeaveLoop, Join, FreeIo, FreeApp, ioVars, pyVars, ioQ
  <2>3. CASE Listen
    <3>1. CASE Len(io_cmd_q) < QCapacity
      BY <2>3, <3>1 DEF Listen
    <3>2. CASE ~(Len(io_cmd_q) < QCapacity)
      BY <2>3, <3>2 DEF Listen, PutOrDrop, mainVars, ioVars
    <3> QED
      BY <3>1, <3>2
  <2>4. CASE \/ PyStart \/ ListenSend \/ PyRun \/ PyDie
             \/ PyAnnounce \/ PySend \/ PyQuit
    BY <2>4
       DEF PyStart, ListenSend, PyRun, PyDie, PyAnnounce, PySend, PyQuit,
           mainVars, ioVars, ioQ
  <2>5. CASE IoStart
    BY <2>5 DEF IoStart
  <2>6. CASE IoWake \/ IoDrained \/ OnDie \/ OnListen
    BY <2>6 DEF IoWake, IoDrained, OnDie, OnListen, ioQ
  <2>7. CASE IoLeaveLoop \/ IoAnnounce \/ IoSend
    BY <2>7 DEF IoLeaveLoop, IoAnnounce, IoSend
  <2>8. CASE Accept \/ PeerCloses
    BY <2>8 DEF Accept, PeerCloses, mainVars, pyVars, ioQ
  <2>9. CASE UNCHANGED vars
    BY <2>9 DEF vars, mainVars, ioVars, pyVars, ioQ
  <2> QED
    BY <2>1, <2>2, <2>3, <2>4, <2>5, <2>6, <2>7, <2>8, <2>9 DEF Next, Io, Py
<1> QED
  BY <1>1, <1>2, PTL DEF Spec, IoUpBeforePuts

\* The condition of the last theorem is the schedule in which neither the
\* script nor a signal is faster than _io_thread_start.
THEOREM UpWithoutEarlyPuts == Spec /\ [](~EarlyPuts) => IoUpBeforePuts
<1> DEFINE Up == ipc = "new" => io_cmd_q = <<>>
<1>1. Init => Up
  BY DEF Init, IoInit
<1>2. ~EarlyPuts /\ Up /\ [Next]_vars => Up'
  <2> SUFFICES ASSUME ~EarlyPuts, Up, [Next]_vars, ipc' = "new"
               PROVE  io_cmd_q' = <<>>
    OBVIOUS
  <2>1. CASE Main
    BY <2>1
       DEF Main, AppRun, DieSend, DiePy, AppWake, AppDrained, OnAppCmd,
           LeaveLoop, Join, FreeIo, FreeApp, ioVars, ioQ
  <2>2. CASE Terminate \/ Listen
    BY <2>2 DEF Terminate, Listen, ioVars
  <2>3. CASE \/ PyStart \/ ListenSend \/ PyRun \/ PyDie
             \/ PyAnnounce \/ PySend \/ PyQuit
    BY <2>3
       DEF PyStart, ListenSend, PyRun, PyDie, PyAnnounce, PySend, PyQuit,
           ioVars, ioQ
  <2>4. CASE Io \/ Accept \/ PeerCloses
    BY <2>4
       DEF Io, IoStart, IoWake, IoDrained, OnDie, OnListen, IoLeaveLoop,
           IoAnnounce, IoSend, Accept, PeerCloses
  <2>5. CASE UNCHANGED vars
    BY <2>5 DEF vars, ioVars, ioQ
  <2> QED
    BY <2>1, <2>2, <2>3, <2>4, <2>5 DEF Next, Py
<1> QED
  BY <1>1, <1>2, PTL DEF Spec, IoUpBeforePuts

\* The announcements make a channel that always has room.
LEMMA RoomToAnnounce ==
  ASSUME IInv, NEW c \in Exits, ~Queued(app_cmd_q, c)
  PROVE  /\ Len(app_cmd_q) < QCapacity
         /\ Len(PutOrDrop(app_cmd_q, c)) = Len(app_cmd_q) + 1
<1>1. app_cmd_q \in Seq(Exits) /\ \A d \in Exits : AtMostOnce(app_cmd_q, d)
  BY DEF IInv, TypeOK, AnnounceInv
<1>2. PutOrDrop(app_cmd_q, c) = Append(app_cmd_q, c)
  BY <1>1, Announcing
<1>3. /\ Len(Append(app_cmd_q, c)) = Len(app_cmd_q) + 1
      /\ Len(app_cmd_q) \in Nat
  BY <1>1
<1> QED
  BY <1>2, <1>3 DEF PutOrDrop

LEMMA AppChannelStep ==
  ASSUME IInv, [Next]_vars
  PROVE  [AppChannel!Next]_(AppChannel!wokenVars)
<1>0. /\ app_cmd_q \in Seq(Exits) /\ Len(app_cmd_q) \in Nat
      /\ ipc = "announce" => ~Queued(app_cmd_q, "IO_THREAD_EXIT")
      /\ ppc = "announce" => ~Queued(app_cmd_q, "PY_THREAD_EXIT")
      /\ "IO_THREAD_EXIT" \in Exits /\ "PY_THREAD_EXIT" \in Exits
  BY DEF IInv, TypeOK, AnnounceInv, IoAnnounced, PyAnnounced, Exits
<1> USE DEF AppChannel!wokenVars, AppReader, AppOwing
<1>1. CASE IoAnnounce
  <2>1. AppOwing' = AppOwing \cup {"io"} /\ "io" \notin AppOwing
    BY <1>1 DEF IoAnnounce, pyVars
  <2>2. AppChannel!Put("io")
    BY <1>0, <1>1, <2>1, RoomToAnnounce DEF IoAnnounce, mainVars, AppChannel!Put
  <2> QED
    BY <2>2 DEF AppChannel!Next
<1>2. CASE PyAnnounce
  <2>1. AppOwing' = AppOwing \cup {"py"} /\ "py" \notin AppOwing
    BY <1>2 DEF PyAnnounce, ioVars
  <2>2. AppChannel!Put("py")
    BY <1>0, <1>2, <2>1, RoomToAnnounce DEF PyAnnounce, mainVars, AppChannel!Put
  <2> QED
    BY <2>2 DEF AppChannel!Next
<1>3. CASE IoSend
  <2>1. AppOwing' = AppOwing \ {"io"} /\ "io" \in AppOwing
    BY <1>3 DEF IoSend, pyVars
  <2>2. AppChannel!Send("io")
    BY <1>3, <2>1 DEF IoSend, mainVars, AppChannel!Send
  <2> QED
    BY <2>2 DEF AppChannel!Next
<1>4. CASE PySend
  <2>1. AppOwing' = AppOwing \ {"py"} /\ "py" \in AppOwing
    BY <1>4 DEF PySend, ioVars
  <2>2. AppChannel!Send("py")
    BY <1>4, <2>1 DEF PySend, mainVars, AppChannel!Send
  <2> QED
    BY <2>2 DEF AppChannel!Next
<1>5. CASE AppWake
  BY <1>5 DEF AppWake, ioVars, pyVars, AppChannel!Wake, AppChannel!Next
<1>6. CASE AppDrained
  <2>1. Len(app_cmd_q) = 0
    BY <1>6 DEF AppDrained
  <2> QED
    BY <1>6, <2>1
       DEF AppDrained, ioVars, pyVars, appQ, AppChannel!Sleep,
           AppChannel!MaySleep, AppChannel!Next
<1>7. CASE OnAppCmd
  <2>1. NoAbort'
    BY MainRefsStep
  <2>2. Len(app_cmd_q) > 0 /\ Len(app_cmd_q') = Len(app_cmd_q) - 1
    BY <1>0, <1>7 DEF OnAppCmd
  <2>3. mpc' = mpc /\ mpc = "drain" /\ app_sent' = app_sent
    BY <1>7, <2>1 DEF OnAppCmd, NoAbort
  <2>4. AppOwing' = AppOwing
    BY <1>7 DEF OnAppCmd, ioVars, pyVars
  <2> QED
    BY <2>2, <2>3, <2>4 DEF AppChannel!Take, AppChannel!Next
<1>8. CASE LeaveLoop
  BY <1>8 DEF LeaveLoop, ioVars, pyVars, appQ, AppChannel!Leave, AppChannel!Next
<1>9. CASE Terminate \/ AppRun \/ DieSend \/ DiePy \/ Join \/ FreeIo \/ FreeApp
  BY <1>9
     DEF Terminate, AppRun, DieSend, DiePy, Join, FreeIo, FreeApp, ioVars,
         pyVars, appQ
<1>10. CASE \/ IoStart \/ IoWake \/ IoDrained \/ OnDie \/ OnListen
            \/ IoLeaveLoop \/ Accept \/ PeerCloses
  BY <1>10
     DEF IoStart, IoWake, IoDrained, OnDie, OnListen, IoLeaveLoop, Accept,
         PeerCloses, mainVars, pyVars, appQ
<1>11. CASE \/ PyStart \/ Listen \/ ListenSend \/ PyRun \/ PyDie \/ PyQuit
  BY <1>11
     DEF PyStart, Listen, ListenSend, PyRun, PyDie, PyQuit, mainVars, ioVars,
         appQ
<1>12. CASE UNCHANGED vars
  BY <1>12 DEF vars, mainVars, ioVars, pyVars, appQ
<1> QED
  BY <1>1, <1>2, <1>3, <1>4, <1>5, <1>6, <1>7, <1>8, <1>9, <1>10, <1>11, <1>12
     DEF Next, Main, Io, Py

LEMMA IoChannelStep ==
  ASSUME IInv, [Next]_vars
  PROVE  [IoChannel!Next]_(IoChannel!wokenVars)
<1>0. io_cmd_q \in Seq({"DIE", "LISTEN"}) /\ Len(io_cmd_q) \in Nat
  BY DEF IInv, TypeOK
<1> USE DEF IoChannel!wokenVars, IoReader, IoOwing
<1>a. ASSUME NEW c \in {"DIE", "LISTEN"}, Len(io_cmd_q) < QCapacity
      PROVE  Len(PutOrDrop(io_cmd_q, c)) = Len(io_cmd_q) + 1
  BY <1>0, <1>a DEF PutOrDrop
<1>1. CASE Terminate
  <2>1. CASE Len(io_cmd_q) < QCapacity
    <3>1. IoOwing' = IoOwing \cup {"main"} /\ "main" \notin IoOwing
      BY <1>1, <2>1 DEF Terminate, pyVars
    <3>2. IoChannel!Put("main")
      BY <1>1, <1>a, <2>1, <3>1 DEF Terminate, ioVars, IoChannel!Put
    <3> QED
      BY <3>2 DEF IoChannel!Next
  <2>2. CASE ~ (Len(io_cmd_q) < QCapacity)
    BY <1>1, <2>2 DEF Terminate, PutOrDrop, ioVars, pyVars
  <2> QED
    BY <2>1, <2>2
<1>2. CASE Listen
  <2>1. CASE Len(io_cmd_q) < QCapacity
    <3>1. IoOwing' = IoOwing \cup {"py"} /\ "py" \notin IoOwing
      BY <1>2, <2>1 DEF Listen, mainVars
    <3>2. IoChannel!Put("py")
      BY <1>2, <1>a, <2>1, <3>1 DEF Listen, ioVars, IoChannel!Put
    <3> QED
      BY <3>2 DEF IoChannel!Next
  <2>2. CASE ~ (Len(io_cmd_q) < QCapacity)
    BY <1>2, <2>2 DEF Listen, PutOrDrop, mainVars, ioVars
  <2> QED
    BY <2>1, <2>2
<1>3. CASE DieSend
  <2>1. IoOwing' = IoOwing \ {"main"} /\ "main" \in IoOwing
    BY <1>3 DEF DieSend, pyVars
  <2>2. IoChannel!Send("main")
    BY <1>3, <2>1 DEF DieSend, ioVars, IoChannel!Send
  <2> QED
    BY <2>2 DEF IoChannel!Next
<1>4. CASE ListenSend
  <2>1. IoOwing' = IoOwing \ {"py"} /\ "py" \in IoOwing
    BY <1>4 DEF ListenSend, mainVars
  <2>2. IoChannel!Send("py")
    BY <1>4, <2>1 DEF ListenSend, ioVars, IoChannel!Send
  <2> QED
    BY <2>2 DEF IoChannel!Next
<1>5. CASE IoStart
  BY <1>5 DEF IoStart, mainVars, pyVars, IoChannel!Start, IoChannel!Next
<1>6. CASE IoWake
  BY <1>6 DEF IoWake, mainVars, pyVars, IoChannel!Wake, IoChannel!Next
<1>7. CASE IoDrained
  <2>1. Len(io_cmd_q) = 0
    BY <1>7 DEF IoDrained
  <2> QED
    BY <1>7, <2>1
       DEF IoDrained, mainVars, pyVars, ioQ, IoChannel!Sleep,
           IoChannel!MaySleep, IoChannel!Next
<1>8. CASE OnDie \/ OnListen
  <2>1. /\ io_cmd_q # <<>> /\ io_cmd_q' = Tail(io_cmd_q) /\ io_sent' = io_sent
        /\ ipc = "drain" /\ ipc' = ipc
    BY <1>8 DEF OnDie, OnListen
  <2>2. Len(io_cmd_q) > 0 /\ Len(io_cmd_q') = Len(io_cmd_q) - 1
    BY <1>0, <2>1
  <2>3. IoOwing' = IoOwing
    BY <1>8 DEF OnDie, OnListen, mainVars, pyVars
  <2> QED
    BY <2>1, <2>2, <2>3 DEF IoChannel!Take, IoChannel!Next
<1>9. CASE IoLeaveLoop
  BY <1>9
     DEF IoLeaveLoop, mainVars, pyVars, ioQ, IoChannel!Leave, IoChannel!Next
<1>10. CASE IoAnnounce \/ IoSend \/ Accept \/ PeerCloses
  BY <1>10 DEF IoAnnounce, IoSend, Accept, PeerCloses, mainVars, pyVars, ioQ
<1>11. CASE \/ AppRun \/ DiePy \/ AppWake \/ AppDrained \/ OnAppCmd
            \/ LeaveLoop \/ Join \/ FreeIo \/ FreeApp
  BY <1>11
     DEF AppRun, DiePy, AppWake, AppDrained, OnAppCmd, LeaveLoop, Join, FreeIo,
         FreeApp, ioVars, pyVars, ioQ
<1>12. CASE PyStart \/ PyRun \/ PyDie \/ PyAnnounce \/ PySend \/ PyQuit
  BY <1>12
     DEF PyStart, PyRun, PyDie, PyAnnounce, PySend, PyQuit, mainVars, ioVars,
         ioQ
<1>13. CASE UNCHANGED vars
  BY <1>13 DEF vars, mainVars, ioVars, pyVars, ioQ
<1> QED
  BY <1>1, <1>2, <1>3, <1>4, <1>5, <1>6, <1>7, <1>8, <1>9, <1>10, <1>11, <1>12,
     <1>13 DEF Next, Main, Io, Py

\* Both queues are used as WatcherCmdQ implements them, under every schedule:
\* io_thread_die, io_thread_listen and application_command never leave a
\* command without its wake-up, and neither loop goes to sleep over one.
THEOREM ImplementsWoken == Spec => ImplementsWokenChannels
<1>1. Init => AppChannel!Init /\ IoChannel!Init
  BY DEF Init, IoInit, PyInit, AppChannel!Init, IoChannel!Init, AppReader,
         AppOwing, IoReader, IoOwing
<1>2. IInv /\ [Next]_vars => /\ [AppChannel!Next]_(AppChannel!wokenVars)
                             /\ [IoChannel!Next]_(IoChannel!wokenVars)
  BY AppChannelStep, IoChannelStep
<1> QED
  BY <1>1, <1>2, Invariance, PTL
     DEF Spec, ImplementsWokenChannels, AppChannel!Spec, IoChannel!Spec
=============================================================================
