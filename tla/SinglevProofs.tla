---------------------------- MODULE SinglevProofs ----------------------------
(***************************************************************************)
(* singlev: its command queue (CmdQ, which pyglev shares) and its          *)
(* application (SinglevApp).                                               *)
(*                                                                         *)
(* CmdQ for every number of slots, producers and puts: a loop that trusts  *)
(* the size cmd_q_get told it never sleeps on a command, and the queue     *)
(* implements the bounded channel CmdChannel.                              *)
(*                                                                         *)
(* SinglevApp for every number of threads: which of them may call          *)
(* application.run() and which may be daemons without harm.                *)
(***************************************************************************)
EXTENDS CmdQ, SinglevApp, RingIndexProofs

-----------------------------------------------------------------------------
(* The queue *)

\* All steps of the thread that owns the loop.
LoopStep == Start \/ Wake \/ Drain \/ Stop \/ Delete

\* The size cmd_q_get computes is the number of commands in the ring.
LEMMA RemainingIsHeld ==
  ASSUME NEW h \in Slots, NEW t \in Slots
  PROVE  Remaining(h, t) = Held(h, t)
  BY QSizeAssumption DEF Slots, Remaining, Held

-----------------------------------------------------------------------------
(* The initial state *)

LEMMA InitIInv == Init => IInv
<1> SUFFICES ASSUME Init PROVE IInv
  OBVIOUS
<1> USE QSizeAssumption, CmdAssumption
<1>1. TypeOK
  <2>1. /\ head \in Slots /\ tail \in Slots /\ qsize \in -1 .. Capacity
        /\ queue \in [Slots -> Cmd \cup {NoCmd}]
    BY DEF Init, Slots, Capacity
  <2>2. active \in BOOLEAN /\ sent \in BOOLEAN
        /\ deleted \in BOOLEAN /\ warned \in BOOLEAN
    BY DEF Init
  <2>3. accepted \in Seq(Cmd) /\ delivered \in Seq(Cmd)
    BY DEF Init
  <2> QED
    BY <2>1, <2>2, <2>3 DEF Init, TypeOK
<1>2. ActiveInv /\ LastGetInv /\ DeletedInv /\ NoSleepOnWork
  BY DEF Init, ActiveInv, LastGetInv, DeletedInv, NoSleepOnWork
<1>3. FifoExact
  <2>1. HandedOut = <<>> /\ Held(0, 0) = 0
    BY DEF Init, HandedOut, Held
  <2> QED
    BY <2>1 DEF Init, FifoExact
<1> QED
  BY <1>1, <1>2, <1>3 DEF IInv

-----------------------------------------------------------------------------
(* Each part of IInv is preserved by every step *)

\* The command cmd_q_get hands out is one that a put has stored.
LEMMA GetFindsCommand ==
  ASSUME IInv, Get
  PROVE  /\ queue[tail] = accepted[Len(delivered) + 1]
         /\ queue[tail] \in Cmd
         /\ Held(head, tail) \in 1 .. Capacity
         /\ Len(accepted) = Len(delivered) + Held(head, tail)
<1> USE QSizeAssumption
<1>1. TypeOK /\ FifoExact
  BY DEF IInv
<1>2. head \in Slots /\ tail \in Slots /\ head # tail /\ HandedOut = delivered
  BY <1>1 DEF TypeOK, Get, HandedOut
<1>3. Held(head, tail) \in 1 .. Capacity /\ SlotAt(tail, 1) = tail
  BY <1>2, HeldRange, HeldAfterGet DEF Capacity
<1>4. Len(delivered) \in Nat /\ 1 \in 1 .. Held(head, tail)
  BY <1>1, <1>3 DEF TypeOK, Capacity
<1>5. /\ Len(accepted) = Len(delivered) + Held(head, tail)
      /\ queue[SlotAt(tail, 1)] = accepted[Len(delivered) + 1]
  BY <1>1, <1>2, <1>4 DEF FifoExact
<1>6. Len(delivered) + 1 \in 1 .. Len(accepted)
  BY <1>3, <1>4, <1>5 DEF Capacity
<1>7. accepted[Len(delivered) + 1] \in Cmd
  BY <1>1, <1>6 DEF TypeOK
<1> QED
  BY <1>3, <1>5, <1>7

LEMMA TypeStep == IInv /\ [Next]_vars => TypeOK'
<1> SUFFICES ASSUME IInv, [Next]_vars PROVE TypeOK'
  OBVIOUS
<1> USE QSizeAssumption, CmdAssumption
    DEF TypeOK, ringVars, locals, endVars, histVars, prodVars
<1>0. TypeOK /\ ActiveInv /\ LastGetInv
  BY DEF IInv
<1>a. NextSlot(head) \in Slots /\ NextSlot(tail) \in Slots
  BY <1>0, NextSlotInRing
<1>1. ASSUME NEW p \in Producers, PutCheck(p) PROVE TypeOK'
  BY <1>0, <1>1 DEF PutCheck
<1>2. ASSUME NEW p \in Producers, PutFull(p) \/ PutSend(p) PROVE TypeOK'
  BY <1>0, <1>2 DEF PutFull, PutSend
<1>3. ASSUME NEW p \in Producers, PutStore(p) PROVE TypeOK'
  <2>1. <<p, issued[p]>> \in Cmd
    BY <1>0, <1>3 DEF PutStore, ActiveInv, Cmd
  <2>2. accepted' \in Seq(Cmd)
    BY <1>0, <1>3, <2>1 DEF PutStore
  <2>3. queue' \in [Slots -> Cmd \cup {NoCmd}]
    BY <1>0, <1>3, <2>1 DEF PutStore
  <2> QED
    BY <1>0, <1>a, <1>3, <2>2, <2>3 DEF PutStore
<1>4. CASE Start \/ Wake \/ Stop
  BY <1>0, <1>4 DEF Start, Wake, Stop
<1>5. CASE GetEmpty
  BY <1>0, <1>5 DEF GetEmpty, Capacity
<1>6. CASE Get
  <2>1. tail' \in Slots /\ cmd' \in Cmd \cup {NoCmd}
    BY <1>0, <1>a, <1>6 DEF Get
  <2>2. qsize' = Held(head, tail')
    BY <1>0, <2>1, <1>6, RemainingIsHeld DEF Get
  <2>3. qsize' \in -1 .. Capacity
    BY <1>0, <2>1, <2>2, HeldRange DEF Capacity
  <2> QED
    BY <1>0, <1>6, <2>1, <2>3 DEF Get
<1>7. CASE Handle
  <2>1. delivered' \in Seq(Cmd)
    BY <1>0, <1>7 DEF Handle, LastGetInv
  <2>2. lpc' \in {"new", "poll", "get", "handle", "stopped"}
    BY <1>7 DEF Handle
  <2> QED
    BY <1>0, <1>7, <2>1, <2>2 DEF Handle
<1>8. CASE Delete
  BY <1>0, <1>8 DEF Delete
<1>9. CASE UNCHANGED vars
  BY <1>0, <1>9 DEF vars
<1> QED
  BY <1>1, <1>2, <1>3, <1>4, <1>5, <1>6, <1>7, <1>8, <1>9 DEF Next, Put, Drain

LEMMA ActiveStep == IInv /\ [Next]_vars => ActiveInv'
<1> SUFFICES ASSUME IInv, [Next]_vars PROVE ActiveInv'
  OBVIOUS
<1> USE DEF TypeOK, ActiveInv, ringVars, prodVars
<1>0. TypeOK /\ ActiveInv
  BY DEF IInv
<1>1. ASSUME NEW p \in Producers, Put(p) PROVE ActiveInv'
  <2>1. CASE PutCheck(p)
    <3>1. UNCHANGED <<active, lpc, head, tail>>
      BY <2>1 DEF PutCheck
    <3>2. lpc = "new" => pc'[p] = "idle"
      BY <1>0, <2>1 DEF PutCheck
    <3>3. \A x \in Producers \ {p} : pc'[x] = pc[x] /\ issued'[x] = issued[x]
      BY <1>0, <2>1 DEF PutCheck
    <3>4. issued'[p] >= 1
      BY <1>0, <2>1 DEF PutCheck
    <3> QED
      BY <1>0, <3>1, <3>2, <3>3, <3>4
  <2>2. CASE PutFull(p) \/ PutStore(p) \/ PutSend(p)
    <3>1. UNCHANGED <<active, lpc, issued>> /\ lpc # "new"
      BY <1>0, <2>2 DEF PutFull, PutStore, PutSend
    <3>2. \A x \in Producers : pc'[x] # "idle" => pc[x] # "idle"
      BY <1>0, <2>2 DEF PutFull, PutStore, PutSend
    <3> QED
      BY <1>0, <3>1, <3>2
  <2> QED
    BY <1>1, <2>1, <2>2 DEF Put
<1>2. CASE Start \/ Wake \/ Stop \/ Delete
  BY <1>0, <1>2 DEF Start, Wake, Stop, Delete
<1>3. CASE Drain
  BY <1>0, <1>3 DEF Drain, GetEmpty, Get, Handle
<1>4. CASE UNCHANGED vars
  BY <1>0, <1>4 DEF vars
<1> QED
  BY <1>1, <1>2, <1>3, <1>4 DEF Next

LEMMA LastGetStep == IInv /\ [Next]_vars => LastGetInv'
<1> SUFFICES ASSUME IInv, [Next]_vars PROVE LastGetInv'
  OBVIOUS
<1> USE DEF LastGetInv, ringVars, prodVars, locals
<1>0. TypeOK /\ LastGetInv
  BY DEF IInv
<1>1. ASSUME NEW p \in Producers, Put(p) PROVE LastGetInv'
  BY <1>0, <1>1 DEF TypeOK, Put, PutCheck, PutFull, PutStore, PutSend
<1>2. CASE Get
  <2>1. cmd' \in Cmd
    BY <1>2, GetFindsCommand DEF Get
  <2>2. NextSlot(tail) \in Slots /\ head \in Slots
    BY <1>0, NextSlotInRing DEF TypeOK
  <2>a. tail' = NextSlot(tail) /\ qsize' = Remaining(head, NextSlot(tail))
    BY <1>2 DEF Get
  <2>3. qsize' = 0 => head = tail'
    <3>1. Remaining(head, NextSlot(tail)) = Held(head, NextSlot(tail))
      BY <2>2, RemainingIsHeld
    <3>2. Held(head, NextSlot(tail)) = 0 <=> head = NextSlot(tail)
      BY <2>2, HeldRange
    <3> QED
      BY <2>a, <3>1, <3>2
  <2> QED
    BY <1>2, <2>1, <2>3 DEF Get
<1>3. CASE Start \/ Wake \/ GetEmpty \/ Handle \/ Stop \/ Delete
  BY <1>0, <1>3 DEF Start, Wake, GetEmpty, Handle, Stop, Delete
<1>4. CASE UNCHANGED vars
  BY <1>0, <1>4 DEF vars
<1> QED
  BY <1>1, <1>2, <1>3, <1>4 DEF Next, Drain

LEMMA DeletedStep == IInv /\ [Next]_vars => DeletedInv'
<1> SUFFICES ASSUME IInv, [Next]_vars PROVE DeletedInv'
  OBVIOUS
<1> USE DEF TypeOK, DeletedInv, ringVars, prodVars, endVars
<1>0. TypeOK /\ DeletedInv
  BY DEF IInv
<1>1. ASSUME NEW p \in Producers, Put(p) PROVE DeletedInv'
  BY <1>0, <1>1 DEF Put, PutCheck, PutFull, PutStore, PutSend
<1>2. CASE LoopStep
  BY <1>0, <1>2
     DEF LoopStep, Start, Wake, Drain, GetEmpty, Get, Handle, Stop, Delete
<1>3. CASE UNCHANGED vars
  BY <1>0, <1>3 DEF vars
<1> QED
  BY <1>1, <1>2, <1>3 DEF Next, LoopStep

LEMMA SleepStep == IInv /\ [Next]_vars => NoSleepOnWork'
<1> SUFFICES ASSUME IInv, [Next]_vars PROVE NoSleepOnWork'
  OBVIOUS
<1> USE DEF TypeOK, NoSleepOnWork, ringVars, prodVars
<1>0. TypeOK /\ NoSleepOnWork /\ LastGetInv /\ ActiveInv
  BY DEF IInv
<1>1. ASSUME NEW p \in Producers, Put(p) PROVE NoSleepOnWork'
  BY <1>0, <1>1 DEF Put, PutCheck, PutFull, PutStore, PutSend
<1>2. CASE Start
  BY <1>0, <1>2 DEF Start, ActiveInv
<1>3. CASE Handle
  BY <1>0, <1>3 DEF Handle, LastGetInv
<1>4. CASE Wake \/ GetEmpty \/ Get \/ Stop \/ Delete
  BY <1>0, <1>4 DEF Wake, GetEmpty, Get, Stop, Delete
<1>5. CASE UNCHANGED vars
  BY <1>0, <1>5 DEF vars
<1> QED
  BY <1>1, <1>2, <1>3, <1>4, <1>5 DEF Next, Drain

-----------------------------------------------------------------------------
(* The contents of the ring *)

\* A put that is not refused extends the contents by its command.
LEMMA FifoPutStore ==
  ASSUME IInv, NEW p \in Producers, PutStore(p)
  PROVE  /\ FifoExact'
         /\ HandedOut' = HandedOut
         /\ Len(accepted) - Len(HandedOut) < Capacity
<1> DEFINE n == Len(HandedOut)
           held == Held(head, tail)
           c == <<p, issued[p]>>
<1> USE QSizeAssumption
<1>1. TypeOK /\ FifoExact
  BY DEF IInv
<1>2. head \in Slots /\ tail \in Slots /\ NextSlot(head) # tail
  BY <1>1 DEF TypeOK, PutStore
<1>3. HandedOut' = HandedOut /\ tail' = tail /\ head' = NextSlot(head)
  BY DEF PutStore, HandedOut, locals
<1>4. n \in Nat /\ accepted \in Seq(Cmd) /\ Len(accepted) \in Nat
  BY <1>1 DEF TypeOK, HandedOut
<1>5. /\ held \in 0 .. Capacity
      /\ Held(NextSlot(head), tail) = held + 1
      /\ held + 1 \in 0 .. Capacity
      /\ SlotAt(tail, held + 1) = head
  BY <1>2, HeldRange, HeldAfterPut, NextSlotInRing
<1>6. /\ Len(accepted) = n + held
      /\ \A i \in 1 .. n : HandedOut[i] = accepted[i]
      /\ \A k \in 1 .. held : queue[SlotAt(tail, k)] = accepted[n + k]
  BY <1>1 DEF FifoExact
<1>7. /\ accepted' = Append(accepted, c)
      /\ Len(accepted') = Len(accepted) + 1
      /\ accepted'[Len(accepted) + 1] = c
      /\ \A i \in 1 .. Len(accepted) : accepted'[i] = accepted[i]
  BY <1>4 DEF PutStore
<1>8. queue' = [queue EXCEPT ![head] = c] /\ queue'[head] = c
  BY <1>1, <1>2 DEF PutStore, TypeOK
<1>9. ASSUME NEW i \in 1 .. n PROVE HandedOut[i] = accepted'[i]
  <2>1. i \in 1 .. Len(accepted)
    BY <1>4, <1>5, <1>6 DEF Capacity
  <2> QED
    BY <2>1, <1>6, <1>7
<1>10. ASSUME NEW k \in 1 .. held + 1
       PROVE  queue'[SlotAt(tail, k)] = accepted'[n + k]
  <2>1. CASE k = held + 1
    <3>1. n + k = Len(accepted) + 1
      BY <2>1, <1>4, <1>5, <1>6 DEF Capacity
    <3> QED
      BY <2>1, <3>1, <1>5, <1>7, <1>8
  <2>2. CASE k # held + 1
    <3>1. k \in 1 .. held
      BY <2>2, <1>5 DEF Capacity
    <3>2. SlotAt(tail, k) \in Slots /\ SlotAt(tail, k) # head
      BY <3>1, <1>2, HeldSlots
    <3>3. queue'[SlotAt(tail, k)] = queue[SlotAt(tail, k)]
      BY <3>2, <1>8, <1>1 DEF TypeOK
    <3>4. n + k \in 1 .. Len(accepted)
      BY <3>1, <1>4, <1>5, <1>6 DEF Capacity
    <3> QED
      BY <3>1, <3>3, <3>4, <1>6, <1>7
  <2> QED
    BY <2>1, <2>2
<1>11. Len(accepted') = n + (held + 1) /\ Len(accepted) - n < Capacity
  BY <1>4, <1>5, <1>6, <1>7 DEF Capacity
<1>12. FifoExact'
  BY <1>3, <1>5, <1>9, <1>10, <1>11 DEF FifoExact
<1> QED
  BY <1>3, <1>11, <1>12

\* A get hands out the oldest of the waiting commands.
LEMMA FifoGet ==
  ASSUME IInv, Get
  PROVE  /\ FifoExact'
         /\ accepted' = accepted
         /\ Len(HandedOut) < Len(accepted)
         /\ HandedOut' = Append(HandedOut, accepted[Len(HandedOut) + 1])
<1> DEFINE n == Len(delivered)
           m == Held(head, tail)
<1> USE QSizeAssumption
<1>1. TypeOK /\ FifoExact
  BY DEF IInv
<1>2. /\ head # tail /\ head \in Slots /\ tail \in Slots
      /\ head' = head /\ tail' = NextSlot(tail)
      /\ queue' = queue /\ accepted' = accepted /\ delivered' = delivered
  BY <1>1 DEF Get, TypeOK, histVars
<1>3. HandedOut = delivered /\ HandedOut' = Append(delivered, queue[tail])
  BY <1>2 DEF HandedOut, Get
<1>4. /\ m \in 1 .. Capacity
      /\ queue[tail] = accepted[n + 1]
      /\ Len(accepted) = n + m
  BY GetFindsCommand
<1>5. /\ n \in Nat
      /\ Len(HandedOut') = n + 1
      /\ HandedOut'[n + 1] = queue[tail]
      /\ \A i \in 1 .. n : HandedOut'[i] = delivered[i]
  BY <1>1, <1>3 DEF TypeOK
<1>6. Held(head, tail') = m - 1
  BY <1>2, HeldAfterGet
<1>7. /\ \A i \in 1 .. n : delivered[i] = accepted[i]
      /\ \A k \in 1 .. m : queue[SlotAt(tail, k)] = accepted[n + k]
  BY <1>1, <1>3 DEF FifoExact
<1>8. ASSUME NEW i \in 1 .. n + 1 PROVE HandedOut'[i] = accepted[i]
  <2>1. i = n + 1 \/ i \in 1 .. n
    BY <1>5
  <2> QED
    BY <2>1, <1>4, <1>5, <1>7
<1>9. ASSUME NEW k \in 1 .. m - 1
      PROVE  queue[SlotAt(tail', k)] = accepted[(n + 1) + k]
  <2>1. k \in 1 .. Capacity - 1 /\ k + 1 \in 1 .. m /\ n + (k + 1) = (n + 1) + k
    BY <1>4, <1>5 DEF Capacity
  <2>2. SlotAt(tail', k) = SlotAt(tail, k + 1)
    BY <2>1, <1>2, SlotAtShift
  <2> QED
    BY <2>1, <2>2, <1>7
<1>10. Len(accepted) = (n + 1) + (m - 1) /\ n < Len(accepted)
  BY <1>4, <1>5 DEF Capacity
<1>11. FifoExact'
  BY <1>2, <1>5, <1>6, <1>8, <1>9, <1>10 DEF FifoExact
<1> QED
  BY <1>2, <1>3, <1>4, <1>10, <1>11

\* Every other step leaves the contents, and what has left the ring, alone.
LEMMA QuietStep ==
  ASSUME IInv, [Next]_vars, ~ Get, ~ \E p \in Producers : PutStore(p)
  PROVE  UNCHANGED <<head, tail, queue, accepted, HandedOut>>
<1> USE DEF HandedOut, ringVars, locals, histVars
<1>1. ASSUME NEW p \in Producers, PutCheck(p) \/ PutFull(p) \/ PutSend(p)
      PROVE  UNCHANGED <<head, tail, queue, accepted, HandedOut>>
  BY <1>1 DEF PutCheck, PutFull, PutSend
<1>2. CASE Start \/ Wake \/ GetEmpty \/ Handle \/ Stop \/ Delete
  BY <1>2 DEF Start, Wake, GetEmpty, Handle, Stop, Delete
<1>3. CASE UNCHANGED vars
  BY <1>3 DEF vars
<1> QED
  BY <1>1, <1>2, <1>3 DEF Next, Put, Drain

LEMMA FifoStep == IInv /\ [Next]_vars => FifoExact'
<1> SUFFICES ASSUME IInv, [Next]_vars PROVE FifoExact'
  OBVIOUS
<1>1. CASE \E p \in Producers : PutStore(p)
  BY <1>1, FifoPutStore
<1>2. CASE Get
  BY <1>2, FifoGet
<1>3. CASE ~ Get /\ ~ \E p \in Producers : PutStore(p)
  BY <1>3, QuietStep DEF IInv, FifoExact
<1> QED
  BY <1>1, <1>2, <1>3

-----------------------------------------------------------------------------
(* Theorems *)

\* IInv is an inductive invariant of every queue of singlev and pyglev.
THEOREM Invariance == Spec => []IInv
<1>1. Init => IInv
  BY InitIInv
<1>2. IInv /\ [Next]_vars => IInv'
  BY TypeStep, ActiveStep, LastGetStep, DeletedStep, SleepStep, FifoStep
     DEF IInv
<1> QED
  BY <1>1, <1>2, PTL DEF Spec

\* No accepted command is lost, duplicated, reordered or read too early.
THEOREM FifoCorrect == Spec => []FifoExact
<1>1. IInv => FifoExact
  BY DEF IInv
<1> QED
  BY <1>1, Invariance, PTL

\* Leaving the loop on a size that is out of date loses no wake-up.
THEOREM WakeUpCorrect == Spec => []NoSleepOnWork
<1>1. IInv => NoSleepOnWork
  BY DEF IInv
<1> QED
  BY <1>1, Invariance, PTL

\* A deletion without the warning has dropped no command, also if some were
\* accepted after cmd_q_stop.
THEOREM DeleteCorrect == Spec => []NoSilentLoss
<1>1. ASSUME IInv, deleted, ~warned PROVE delivered = accepted
  <2>1. /\ TypeOK /\ FifoExact
        /\ lpc = "stopped" /\ head = tail
    BY <1>1 DEF IInv, DeletedInv
  <2>2. Held(head, tail) = 0 /\ HandedOut = delivered /\ Len(delivered) \in Nat
    BY <2>1, HeldRange DEF TypeOK, HandedOut
  <2>3. /\ Len(accepted) = Len(delivered)
        /\ \A i \in 1 .. Len(delivered) : delivered[i] = accepted[i]
    BY <2>1, <2>2 DEF FifoExact
  <2> QED
    BY <2>1, <2>3 DEF TypeOK
<1>2. IInv => NoSilentLoss
  BY <1>1 DEF NoSilentLoss
<1> QED
  BY <1>2, Invariance, PTL

\* cmd_q_get reports exactly what is left behind the command it returns.
THEOREM SizeCorrect == Spec => SizeIsExact
<1>1. ASSUME IInv, [Next]_vars, lpc = "get", lpc' = "handle"
      PROVE  qsize' = Len(accepted) - Len(delivered) - 1
  <2>1. Get
    BY <1>1
       DEF Next, Put, PutCheck, PutFull, PutStore, PutSend, Start, Wake, Drain,
           GetEmpty, Handle, Stop, Delete, vars
  <2>2. /\ head \in Slots /\ tail \in Slots /\ head # tail
        /\ NextSlot(tail) \in Slots
    BY <1>1, <2>1, NextSlotInRing DEF IInv, TypeOK, Get
  <2>3. qsize' = Held(head, tail) - 1
    BY <2>1, <2>2, RemainingIsHeld, HeldAfterGet DEF Get
  <2>4. Len(accepted) = Len(delivered) + Held(head, tail)
    BY <1>1, <2>1, GetFindsCommand
  <2>5. Len(delivered) \in Nat /\ Held(head, tail) \in Nat
    BY <1>1, <2>2, HeldRange, QSizeAssumption DEF IInv, TypeOK, Capacity
  <2> QED
    BY <2>3, <2>4, <2>5
<1>2. IInv /\ [Next]_vars =>
        [lpc = "get" /\ lpc' = "handle" =>
           qsize' = Len(accepted) - Len(delivered) - 1]_vars
  BY <1>1
<1> QED
  BY <1>2, Invariance, PTL DEF Spec, SizeIsExact

\* The queue implements the bounded channel.
THEOREM Implements == Spec => ImplementsChannel
<1>1. Init => Chan!Init
  BY DEF Init, Chan!Init, HandedOut
<1>2. IInv /\ [Next]_vars => [Chan!Next]_(Chan!chanVars)
  <2> SUFFICES ASSUME IInv, [Next]_vars PROVE [Chan!Next]_(Chan!chanVars)
    OBVIOUS
  <2>1. ASSUME NEW p \in Producers, PutStore(p) PROVE Chan!Next
    <3>1. <<p, issued[p]>> \in Cmd
      BY <2>1, CmdAssumption DEF IInv, TypeOK, ActiveInv, PutStore, Cmd
    <3>2. Chan!Accept(<<p, issued[p]>>)
      BY <2>1, FifoPutStore DEF Chan!Accept, Chan!Waiting, PutStore
    <3> QED
      BY <3>1, <3>2 DEF Chan!Next
  <2>2. CASE Get
    <3>1. Chan!HandOut
      BY <2>2, FifoGet DEF Chan!HandOut
    <3> QED
      BY <3>1 DEF Chan!Next
  <2>3. CASE ~ Get /\ ~ \E p \in Producers : PutStore(p)
    BY <2>3, QuietStep DEF Chan!chanVars
  <2> QED
    BY <2>1, <2>2, <2>3
<1> QED
  BY <1>1, <1>2, Invariance, PTL DEF Spec, ImplementsChannel, Chan!Spec

\* Every put is followed by its wake-up, and the callback, which stops at a
\* size that may be out of date, never leaves a command without one.
THEOREM ImplementsWoken == Spec => ImplementsWokenChannel
<1> DEFINE owing == {p \in Producers : pc[p] = "send"}
<1>1. Init => Woken!Init
  BY DEF Init, Held, Woken!Init, Reader
<1>2. IInv /\ [Next]_vars => [Woken!Next]_(Woken!wokenVars)
  <2> SUFFICES ASSUME IInv, [Next]_vars PROVE [Woken!Next]_(Woken!wokenVars)
    OBVIOUS
  <2> USE DEF ringVars, prodVars
  <2>0. TypeOK /\ LastGetInv /\ head \in Slots /\ tail \in Slots
    BY DEF IInv, TypeOK
  <2>a. Held(head, tail) \in 0 .. Capacity /\ Capacity \in Nat
    BY <2>0, HeldRange, QSizeAssumption DEF Capacity
  <2>1. ASSUME NEW p \in Producers, PutCheck(p) \/ PutFull(p)
        PROVE  UNCHANGED Woken!wokenVars
    <3>1. owing' = owing
      BY <2>0, <2>1 DEF PutCheck, PutFull, TypeOK
    <3> QED
      BY <2>1, <3>1 DEF PutCheck, PutFull, Reader, Woken!wokenVars
  <2>2. ASSUME NEW p \in Producers, PutStore(p) PROVE Woken!Put(p)
    <3>1. owing' = owing \cup {p} /\ p \notin owing
      BY <2>0, <2>2 DEF PutStore, TypeOK
    <3>2. /\ NextSlot(head) \in Slots /\ head' = NextSlot(head) /\ tail' = tail
          /\ Held(NextSlot(head), tail) = Held(head, tail) + 1
      BY <2>0, <2>2, NextSlotInRing, HeldAfterPut DEF PutStore
    <3>3. Held(NextSlot(head), tail) \in 0 .. Capacity
      BY <2>0, <3>2, HeldRange
    <3> QED
      BY <2>2, <2>a, <3>1, <3>2, <3>3 DEF PutStore, Reader, Woken!Put
  <2>3. ASSUME NEW p \in Producers, PutSend(p) PROVE Woken!Send(p)
    <3>1. owing' = owing \ {p} /\ p \in owing
      BY <2>0, <2>3 DEF PutSend, TypeOK
    <3> QED
      BY <2>3, <3>1 DEF PutSend, Reader, Woken!Send
  <2>4. CASE Start
    BY <2>4 DEF Start, Reader, Woken!Start, Woken!Next
  <2>5. CASE Wake
    BY <2>5 DEF Wake, Reader, Woken!Wake, Woken!Next
  <2>6. CASE GetEmpty
    <3>1. Held(head, tail) = 0
      BY <2>0, <2>6, HeldRange DEF GetEmpty
    <3> QED
      BY <2>6, <3>1
         DEF GetEmpty, Reader, Woken!Sleep, Woken!MaySleep, Woken!Next
  <2>7. CASE Get
    <3>1. /\ Held(head, NextSlot(tail)) = Held(head, tail) - 1
          /\ Held(head, tail) > 0
      BY <2>0, <2>7, <2>a, HeldAfterGet, HeldRange DEF Get, Capacity
    <3> QED
      BY <2>7, <3>1 DEF Get, Reader, Woken!Take, Woken!Next
  <2>8. CASE Handle
    <3>1. CASE qsize = 0
      <4>1. Held(head, tail) = 0 \/ sent \/ owing # {}
        BY <2>0, <2>8, <3>1, HeldRange DEF Handle, LastGetInv
      <4> QED
        BY <2>8, <3>1, <4>1
           DEF Handle, Reader, Woken!Sleep, Woken!MaySleep, Woken!Next
    <3>2. CASE qsize # 0
      BY <2>8, <3>2 DEF Handle, Reader, Woken!wokenVars
    <3> QED
      BY <3>1, <3>2
  <2>9. CASE Stop
    BY <2>9 DEF Stop, Reader, Woken!Leave, Woken!Next
  <2>10. CASE Delete \/ UNCHANGED vars
    BY <2>10 DEF Delete, vars, Reader, Woken!wokenVars
  <2> QED
    BY <2>1, <2>2, <2>3, <2>4, <2>5, <2>6, <2>7, <2>8, <2>9, <2>10
       DEF Next, Put, Drain, Woken!Next
<1> QED
  BY <1>1, <1>2, Invariance, PTL DEF Spec, ImplementsWokenChannel, Woken!Spec

-----------------------------------------------------------------------------
(* The application *)

\* The steps of the thread t that are not of the life of the application.
ThreadStep(t) ==
  Listen(t) \/ ListenPut(t) \/ RunEnter(t) \/ InLoop(t) \/ OnSignal(t)

LEMMA AppInitInv == AppInit => AppInv
<1> SUFFICES ASSUME AppInit PROVE AppInv
  OBVIOUS
<1> USE ThreadAssumption DEF AppInit
<1>1. Main \in Threads /\ \A t \in Threads : t = Main <=> t \notin Workers
  BY DEF Threads
<1>2. AppTypeOK
  <2>1. tpc \in [Threads -> Places]
    BY DEF Places
  <2>2. listens \in [Threads -> 0 .. MaxListens] /\ queued \in 0 .. QCapacity
    OBVIOUS
  <2> QED
    BY <2>1, <2>2 DEF AppTypeOK
<1>3. RunnersInv
  BY DEF RunnersInv, LoopPlaces
<1>4. MainInv /\ EndInv
  BY <1>1 DEF MainInv, EndInv
<1> QED
  BY <1>2, <1>3, <1>4 DEF AppInv

\* A step of a thread moves that thread, from a place to another, none of
\* which is of the end; only the loop's entry and exit touch the state kept.
LEMMA ThreadMoves ==
  ASSUME AppTypeOK, NEW t \in Threads, ThreadStep(t)
  PROVE  /\ tpc' = [tpc EXCEPT ![t] = tpc'[t]]
         /\ tpc[t] \in {"script", "check", "store", "send"} \cup LoopPlaces
         /\ tpc'[t] \in {"script", "check", "store", "send"} \cup LoopPlaces
         /\ tpc'[t] \in LoopPlaces => tpc[t] \in LoopPlaces \/ t \in Runners
         /\ \/ /\ python_thread_state' = python_thread_state
               /\ tpc[t] \in {"loop", "drain", "restore"}
                    => tpc'[t] \in {"loop", "drain", "restore"}
            \/ python_thread_state' = t /\ tpc'[t] = "loop"
            \/ python_thread_state' = NoThread
         /\ run_phase' \in {"INIT", "RUN", "DYING", "EXIT"}
         /\ listens' \in [Threads -> 0 .. MaxListens]
         /\ watching' = watching /\ queued' \in 0 .. QCapacity /\ woken' \in BOOLEAN
         /\ signalled' = signalled /\ freed' = freed
<1>0. /\ tpc \in [Threads -> Places]
      /\ listens \in [Threads -> 0 .. MaxListens]
      /\ queued \in 0 .. QCapacity /\ woken \in BOOLEAN
      /\ run_phase \in {"INIT", "RUN", "DYING", "EXIT"}
      /\ QCapacity \in Nat \ {0} /\ MaxListens \in Nat
  BY ThreadAssumption DEF AppTypeOK
<1> USE <1>0 DEF Goto, LoopPlaces, queueVars
<1>1. CASE Listen(t)
  BY <1>1 DEF Listen
<1>2. CASE ListenCheck(t) \/ ListenSend(t)
  BY <1>2 DEF ListenCheck, ListenSend
<1>3. CASE ListenStore(t)
  BY <1>3 DEF ListenStore
<1>4. CASE RunEnter(t) \/ RunAssign(t)
  BY <1>4 DEF RunEnter, RunAssign
<1>5. CASE RunWake(t) \/ LeaveLoop(t)
  BY <1>5 DEF RunWake, LeaveLoop
<1>6. CASE RunDrain(t)
  BY <1>6 DEF RunDrain
<1>7. CASE Restore(t) \/ OnSignal(t)
  BY <1>7 DEF Restore, OnSignal
<1> QED
  BY <1>1, <1>2, <1>3, <1>4, <1>5, <1>6, <1>7
     DEF ThreadStep, ListenPut, InLoop

LEMMA AppSplits ==
  ASSUME [AppNext]_appVars
  PROVE  \/ AppStart \/ Signal
         \/ ScriptEnds \/ Dtor \/ Finalize \/ AppDelete
         \/ ProcessExits
         \/ \E t \in Threads : ThreadStep(t)
         \/ \E w \in Workers : WorkerEnds(w)
         \/ UNCHANGED appVars
  BY DEF AppNext, Exit, ThreadStep

LEMMA AppTypeStep ==
  ASSUME AppTypeOK, [AppNext]_appVars
  PROVE  AppTypeOK'
<1>0. /\ tpc \in [Threads -> Places]
      /\ python_thread_state \in Threads \cup {NoThread}
      /\ run_phase \in {"INIT", "RUN", "DYING", "EXIT"}
      /\ listens \in [Threads -> 0 .. MaxListens]
      /\ watching \in BOOLEAN /\ queued \in 0 .. QCapacity /\ woken \in BOOLEAN
      /\ signalled \in BOOLEAN /\ freed \in BOOLEAN
  BY DEF AppTypeOK
<1> SUFFICES /\ tpc' \in [Threads -> Places]
             /\ python_thread_state' \in Threads \cup {NoThread}
             /\ run_phase' \in {"INIT", "RUN", "DYING", "EXIT"}
             /\ listens' \in [Threads -> 0 .. MaxListens]
             /\ watching' \in BOOLEAN /\ queued' \in 0 .. QCapacity
             /\ woken' \in BOOLEAN /\ signalled' \in BOOLEAN /\ freed' \in BOOLEAN
  BY DEF AppTypeOK
<1>1. ASSUME NEW t \in Threads, ThreadStep(t)
      PROVE  /\ tpc' \in [Threads -> Places]
             /\ python_thread_state' \in Threads \cup {NoThread}
             /\ run_phase' \in {"INIT", "RUN", "DYING", "EXIT"}
             /\ listens' \in [Threads -> 0 .. MaxListens]
             /\ watching' \in BOOLEAN /\ queued' \in 0 .. QCapacity
             /\ woken' \in BOOLEAN /\ signalled' \in BOOLEAN /\ freed' \in BOOLEAN
  <2>1. /\ tpc' = [tpc EXCEPT ![t] = tpc'[t]]
        /\ tpc'[t] \in {"script", "check", "store", "send"} \cup LoopPlaces
        /\ python_thread_state' \in {python_thread_state, t, NoThread}
        /\ run_phase' \in {"INIT", "RUN", "DYING", "EXIT"}
        /\ listens' \in [Threads -> 0 .. MaxListens]
        /\ watching' = watching /\ queued' \in 0 .. QCapacity /\ woken' \in BOOLEAN
        /\ signalled' = signalled /\ freed' = freed
    BY <1>1, ThreadMoves
  <2>2. tpc'[t] \in Places
    BY <2>1 DEF Places, LoopPlaces
  <2>3. tpc' \in [Threads -> Places]
    BY <1>0, <2>1, <2>2
  <2> QED
    BY <1>0, <2>1, <2>3
<1> USE <1>0 DEF Goto, EndAll, queueVars, Places
<1>2. CASE AppStart \/ Signal
  BY <1>2 DEF AppStart, Signal
<1>3. CASE ScriptEnds \/ Finalize \/ AppDelete
  BY <1>3 DEF ScriptEnds, Finalize, AppDelete
<1>4. CASE Dtor \/ ProcessExits
  BY <1>4 DEF Dtor, ProcessExits
<1>5. CASE \E w \in Workers : WorkerEnds(w)
  BY <1>5 DEF WorkerEnds
<1>6. CASE UNCHANGED appVars
  BY <1>6 DEF appVars
<1> QED
  BY <1>1, <1>2, <1>3, <1>4, <1>5, <1>6, AppSplits

\* What a step of the application's life does with the places of the threads.
LEMMA LifeMoves ==
  ASSUME AppTypeOK,
         \/ AppStart \/ Signal
         \/ ScriptEnds \/ Dtor \/ Finalize \/ AppDelete
         \/ ProcessExits
         \/ \E w \in Workers : WorkerEnds(w)
         \/ UNCHANGED appVars
  PROVE  /\ python_thread_state' = python_thread_state
         /\ \/ tpc' = tpc /\ freed' = freed
            \/ \E w \in Workers : /\ tpc[w] = "script" /\ freed' = freed
                                  /\ tpc' = [tpc EXCEPT ![w] = "over"]
            \/ /\ tpc[Main] = "ctor" /\ freed' = freed
               /\ tpc' = [tpc EXCEPT ![Main] = "script"]
            \/ /\ tpc[Main] = "script" /\ freed' = freed
               /\ tpc' = [tpc EXCEPT ![Main] = "dtor"]
            \/ /\ tpc[Main] = "dtor" /\ freed' = freed
               /\ python_thread_state = NoThread
               /\ tpc' = [tpc EXCEPT ![Main] = "finalize"]
            \/ /\ tpc[Main] = "dtor" /\ freed' = freed
               /\ python_thread_state # NoThread
               /\ tpc' = [t \in Threads |->
                            IF t = Main THEN "aborted" ELSE "over"]
            \/ /\ tpc[Main] = "finalize" /\ freed' = freed
               /\ \A w \in Workers \ Daemons : tpc[w] = "over"
               /\ tpc' = [tpc EXCEPT ![Main] = "delete"]
            \/ /\ tpc[Main] = "delete"
               /\ tpc' = [tpc EXCEPT ![Main] = "exit"]
            \/ /\ tpc[Main] = "exit" /\ freed' = freed
               /\ tpc' = [t \in Threads |->
                            IF t = Main THEN "exited" ELSE "over"]
<1> USE DEF Goto, EndAll
<1>1. CASE AppStart \/ Signal
  BY <1>1 DEF AppStart, Signal
<1>2. CASE ScriptEnds \/ Finalize \/ AppDelete
  BY <1>2 DEF ScriptEnds, Finalize, AppDelete
<1>3. CASE Dtor \/ ProcessExits
  BY <1>3 DEF Dtor, ProcessExits
<1>4. CASE \E w \in Workers : WorkerEnds(w)
  BY <1>4 DEF WorkerEnds
<1>5. CASE UNCHANGED appVars
  BY <1>5 DEF appVars
<1> QED
  BY <1>1, <1>2, <1>3, <1>4, <1>5

LEMMA RunnersStep ==
  ASSUME AppInv, [AppNext]_appVars
  PROVE  RunnersInv'
<1>0. /\ AppTypeOK /\ tpc \in [Threads -> Places]
      /\ Main \in Threads /\ Workers \subseteq Threads
      /\ \A t \in Threads : tpc[t] \in LoopPlaces => t \in Runners
  BY DEF AppInv, AppTypeOK, RunnersInv, Threads
<1> SUFFICES \A t \in Threads : tpc'[t] \in LoopPlaces => t \in Runners
  BY DEF RunnersInv, LoopPlaces
<1>1. ASSUME NEW t \in Threads, ThreadStep(t)
      PROVE  \A u \in Threads : tpc'[u] \in LoopPlaces => u \in Runners
  <2>1. /\ tpc' = [tpc EXCEPT ![t] = tpc'[t]]
        /\ tpc'[t] \in LoopPlaces => tpc[t] \in LoopPlaces \/ t \in Runners
    BY <1>0, <1>1, ThreadMoves
  <2>2. \A u \in Threads : u # t => tpc'[u] = tpc[u]
    BY <1>0, <2>1
  <2> QED
    BY <1>0, <2>1, <2>2
<1>2. CASE ~ \E t \in Threads : ThreadStep(t)
  BY <1>0, <1>2, LifeMoves, AppSplits DEF LoopPlaces
<1> QED
  BY <1>1, <1>2

LEMMA MainStep ==
  ASSUME AppInv, [AppNext]_appVars, Runners = {Main}
  PROVE  MainInv'
<1>0. /\ AppTypeOK /\ tpc \in [Threads -> Places]
      /\ Main \in Threads /\ Workers \subseteq Threads \ {Main}
      /\ python_thread_state # NoThread =>
           /\ python_thread_state = Main
           /\ tpc[Main] \in {"loop", "drain", "restore"}
      /\ tpc[Main] # "aborted"
  BY ThreadAssumption DEF AppInv, AppTypeOK, MainInv, Threads
<1> SUFFICES /\ python_thread_state' # NoThread =>
                  /\ python_thread_state' = Main
                  /\ tpc'[Main] \in {"loop", "drain", "restore"}
             /\ tpc'[Main] # "aborted"
  BY DEF MainInv
<1>1. ASSUME NEW t \in Threads, ThreadStep(t)
      PROVE  /\ python_thread_state' # NoThread =>
                  /\ python_thread_state' = Main
                  /\ tpc'[Main] \in {"loop", "drain", "restore"}
             /\ tpc'[Main] # "aborted"
  <2>1. /\ tpc' = [tpc EXCEPT ![t] = tpc'[t]]
        /\ tpc'[t] \in {"script", "check", "store", "send"} \cup LoopPlaces
        /\ \/ /\ python_thread_state' = python_thread_state
              /\ tpc[t] \in {"loop", "drain", "restore"}
                   => tpc'[t] \in {"loop", "drain", "restore"}
           \/ python_thread_state' = t /\ tpc'[t] = "loop"
           \/ python_thread_state' = NoThread
    BY <1>0, <1>1, ThreadMoves
  <2>2. tpc'[t] = "loop" => t = Main
    BY RunnersStep DEF RunnersInv, LoopPlaces
  <2>3. t # Main => tpc'[Main] = tpc[Main]
    BY <1>0, <2>1
  <2>4. tpc'[t] # "aborted"
    BY <2>1 DEF LoopPlaces
  <2> QED
    BY <1>0, <2>1, <2>2, <2>3, <2>4
<1>2. CASE ~ \E t \in Threads : ThreadStep(t)
  BY <1>0, <1>2, LifeMoves, AppSplits
<1> QED
  BY <1>1, <1>2

LEMMA EndStep ==
  ASSUME AppInv, [AppNext]_appVars, Daemons = {}
  PROVE  EndInv'
<1> DEFINE Ended == {"delete", "exit", "exited", "aborted"}
<1>0. /\ AppTypeOK /\ tpc \in [Threads -> Places]
      /\ Main \in Threads /\ Workers \subseteq Threads \ {Main}
      /\ \A t \in Threads : t # Main => t \in Workers
      /\ tpc[Main] \in Ended => \A w \in Workers : tpc[w] = "over"
      /\ freed => tpc[Main] \in {"exit", "exited"}
  BY ThreadAssumption DEF AppInv, AppTypeOK, EndInv, Threads
<1> SUFFICES /\ tpc'[Main] \in Ended => \A w \in Workers : tpc'[w] = "over"
             /\ freed' => tpc'[Main] \in {"exit", "exited"}
  BY DEF EndInv
<1>1. ASSUME NEW t \in Threads, ThreadStep(t)
      PROVE  /\ tpc'[Main] \in Ended => \A w \in Workers : tpc'[w] = "over"
             /\ freed' => tpc'[Main] \in {"exit", "exited"}
  <2>1. /\ tpc' = [tpc EXCEPT ![t] = tpc'[t]] /\ freed' = freed
        /\ tpc[t] \in {"script", "check", "store", "send"} \cup LoopPlaces
        /\ tpc'[t] \in {"script", "check", "store", "send"} \cup LoopPlaces
    BY <1>0, <1>1, ThreadMoves
  <2>2. tpc[t] # "over" /\ tpc[t] \notin Ended /\ tpc'[t] \notin Ended
    BY <2>1 DEF LoopPlaces
  <2>3. t # Main => tpc'[Main] = tpc[Main]
    BY <1>0, <2>1
  <2> QED
    BY <1>0, <2>1, <2>2, <2>3
<1>2. CASE ~ \E t \in Threads : ThreadStep(t)
  BY <1>0, <1>2, LifeMoves, AppSplits
<1> QED
  BY <1>1, <1>2

\* Every step keeps the places of the threads in order.
THEOREM AppInvariance == AppSpec => []AppInv
<1>1. AppInit => AppInv
  BY AppInitInv
<1>2. AppInv /\ [AppNext]_appVars => AppInv'
  <2> SUFFICES ASSUME AppInv, [AppNext]_appVars PROVE AppInv'
    OBVIOUS
  <2>1. AppTypeOK'
    BY AppTypeStep DEF AppInv
  <2>2. RunnersInv'
    BY RunnersStep
  <2>3. (Runners = {Main} => MainInv)'
    BY MainStep
  <2>4. (Daemons = {} => EndInv)'
    BY EndStep
  <2> QED
    BY <2>1, <2>2, <2>3, <2>4 DEF AppInv
<1> QED
  BY <1>1, <1>2, PTL DEF AppSpec

\* The assertion of application_dtor never fails if the main thread alone
\* calls application.run(), whatever other threads do.
THEOREM AppNoAbort ==
  ASSUME Runners = {Main}
  PROVE  AppSpec => []NoAbort
<1>1. AppInv => NoAbort
  BY DEF AppInv, MainInv, NoAbort
<1> QED
  BY <1>1, AppInvariance, PTL

\* The queue is deleted after the last put if no thread is a daemon: none is
\* in cmd_q_put when cmd_q_delete runs, and none enters it afterwards.
THEOREM AppQueueFreedLast ==
  ASSUME Daemons = {}
  PROVE  AppSpec => []QueueFreedLast
<1>1. AppInv => QueueFreedLast
  <2> SUFFICES ASSUME AppInv, freed, NEW t \in Threads
               PROVE  tpc[t] \notin {"check", "store", "send"}
    BY DEF QueueFreedLast
  <2>1. tpc[Main] \in {"exit", "exited"} /\ \A w \in Workers : tpc[w] = "over"
    BY DEF AppInv, EndInv
  <2> QED
    BY <2>1 DEF Threads
<1> QED
  BY <1>1, AppInvariance, PTL

LEMMA StartStep ==
  ASSUME AppInv, StartInv, [AppNext]_appVars
  PROVE  StartInv'
<1>0. /\ AppTypeOK /\ tpc \in [Threads -> Places]
      /\ Main \in Threads /\ Workers \subseteq Threads \ {Main}
      /\ \A t \in Threads : t # Main => t \in Workers
  BY ThreadAssumption DEF AppInv, AppTypeOK, Threads
<1>1. CASE tpc[Main] # "ctor"
  <2> SUFFICES tpc'[Main] # "ctor"
    BY DEF StartInv
  <2>1. ASSUME NEW t \in Threads, ThreadStep(t) PROVE tpc'[Main] # "ctor"
    BY <1>0, <1>1, <2>1, ThreadMoves DEF LoopPlaces
  <2> USE <1>0, <1>1 DEF Goto, EndAll
  <2>2. CASE AppStart \/ Signal
    BY <2>2 DEF AppStart, Signal
  <2>3. CASE ScriptEnds \/ Finalize \/ AppDelete
    BY <2>3 DEF ScriptEnds, Finalize, AppDelete
  <2>4. CASE Dtor \/ ProcessExits
    BY <2>4 DEF Dtor, ProcessExits
  <2>5. CASE \E w \in Workers : WorkerEnds(w)
    BY <2>5 DEF WorkerEnds
  <2>6. CASE UNCHANGED appVars
    BY <2>6 DEF appVars
  <2> QED
    BY <2>1, <2>2, <2>3, <2>4, <2>5, <2>6, AppSplits
<1>2. CASE tpc[Main] = "ctor"
  <2>0. /\ run_phase = "INIT" /\ queued = 0
        /\ \A t \in Threads : tpc[t] \in {"ctor", "script"}
    BY <1>0, <1>2 DEF StartInv
  <2>1. ASSUME NEW t \in Threads PROVE ~ThreadStep(t)
    BY <2>0
       DEF ThreadStep, Listen, ListenPut, ListenCheck, ListenStore,
           ListenSend, RunEnter, AppReady, InLoop, RunAssign,
           RunWake, RunDrain, LeaveLoop, Restore, OnSignal
  <2>2. CASE AppStart
    BY <1>0, <2>2 DEF AppStart, Goto, StartInv
  <2>3. CASE UNCHANGED appVars
    BY <2>0, <2>3, <1>0 DEF appVars, queueVars, StartInv
  <2>4. \/ AppStart \/ UNCHANGED appVars
    BY <1>2, <2>0, <2>1, AppSplits
       DEF Signal, ScriptEnds, Dtor, Finalize, AppDelete,
           ProcessExits, WorkerEnds
  <2> QED
    BY <2>2, <2>3, <2>4
<1> QED
  BY <1>1, <1>2

LEMMA WokenStep ==
  ASSUME AppInv, StartInv, WokenForCommands,
         [AppNext]_appVars
  PROVE  WokenForCommands'
<1>0. /\ AppTypeOK /\ tpc \in [Threads -> Places]
      /\ queued \in 0 .. QCapacity /\ QCapacity \in Nat
      /\ Main \in Threads /\ Workers \subseteq Threads \ {Main}
  BY ThreadAssumption DEF AppInv, AppTypeOK, Threads
<1> DEFINE Open == tpc[Main] \notin {"exited", "aborted"}
           Awake == woken \/ \E t \in Threads : tpc[t] \in {"send", "drain"}
<1> SUFFICES ASSUME queued' > 0, Open' PROVE Awake'
  BY DEF WokenForCommands
<1>1. ASSUME queued > 0, Open PROVE Awake
  BY <1>1 DEF WokenForCommands
<1>2. ASSUME NEW t \in Threads, ThreadStep(t) PROVE Awake'
  <2>1. /\ tpc' = [tpc EXCEPT ![t] = tpc'[t]]
        /\ tpc[t] \in {"script", "check", "store", "send"} \cup LoopPlaces
    BY <1>0, <1>2, ThreadMoves
  <2>2. /\ \A u \in Threads : u # t => tpc'[u] = tpc[u]
        /\ Open
    BY <1>0, <2>1 DEF LoopPlaces
  <2> USE <1>0, <1>1, <2>2 DEF Goto, queueVars
  <2>3. CASE Listen(t) \/ ListenCheck(t) \/ RunEnter(t) \/ RunAssign(t)
    BY <2>3 DEF Listen, ListenCheck, RunEnter, RunAssign
  <2>4. CASE ListenStore(t)
    BY <2>4 DEF ListenStore
  <2>5. CASE ListenSend(t)
    BY <2>5 DEF ListenSend
  <2>6. CASE RunWake(t)
    BY <2>6 DEF RunWake
  <2>7. CASE RunDrain(t)
    BY <2>7 DEF RunDrain
  <2>8. CASE LeaveLoop(t) \/ Restore(t) \/ OnSignal(t)
    BY <2>8 DEF LeaveLoop, Restore, OnSignal
  <2> QED
    BY <1>2, <2>3, <2>4, <2>5, <2>6, <2>7, <2>8
       DEF ThreadStep, ListenPut, InLoop
<1>3. CASE AppStart
  BY <1>3 DEF AppStart, StartInv
<1>4. CASE \/ ScriptEnds \/ Finalize \/ AppDelete
           \/ \E w \in Workers : WorkerEnds(w)
  BY <1>0, <1>1, <1>4
     DEF ScriptEnds, Finalize, AppDelete, WorkerEnds, Goto,
         queueVars
<1>5. CASE Dtor
  <2>1. python_thread_state = NoThread
    BY <1>0, <1>5 DEF Dtor, EndAll
  <2> QED
    BY <1>0, <1>1, <1>5, <2>1 DEF Dtor, Goto
<1>6. CASE ProcessExits
  BY <1>0, <1>6 DEF ProcessExits, EndAll
<1>7. CASE Signal \/ UNCHANGED appVars
  BY <1>1, <1>7 DEF Signal, appVars, queueVars
<1> QED
  BY <1>2, <1>3, <1>4, <1>5, <1>6, <1>7, AppSplits

\* What waits in singlev's queue is not slept over, whichever threads listen
\* and run the loop, until the process ends.
THEOREM AppNeverSleepsOnCommands == AppSpec => []WokenForCommands
<1>1. AppInit => StartInv /\ WokenForCommands
  BY ThreadAssumption DEF AppInit, StartInv, WokenForCommands, Threads
<1>2. StartInv /\ WokenForCommands /\ AppInv /\ [AppNext]_appVars
        => StartInv' /\ WokenForCommands'
  BY StartStep, WokenStep
<1> QED
  BY <1>1, <1>2, AppInvariance, PTL DEF AppSpec

\* The application uses its queue as CmdQ implements it, if the main thread
\* alone calls application.run(): every put is followed by its wake-up, and
\* the callback leaves no command behind without one.
THEOREM AppImplementsWoken ==
  ASSUME Runners = {Main}
  PROVE  AppSpec => AppImplementsWokenChannel
<1> DEFINE owing == {t \in Threads : tpc[t] = "send"}
<1>1. AppInit => AppWoken!Init
  BY ThreadAssumption DEF AppInit, AppWoken!Init, AppReader, Threads
<1>2. AppInv /\ [AppNext]_appVars => [AppWoken!Next]_(AppWoken!wokenVars)
  <2> SUFFICES ASSUME AppInv, [AppNext]_appVars
               PROVE  [AppWoken!Next]_(AppWoken!wokenVars)
    OBVIOUS
  <2>0. /\ tpc \in [Threads -> Places]
        /\ queued \in 0 .. QCapacity /\ QCapacity \in Nat
        /\ Main \in Threads /\ Workers \subseteq Threads \ {Main}
        /\ \A t \in Threads : tpc[t] \in LoopPlaces => t = Main
        /\ python_thread_state # NoThread => tpc[Main] # "dtor"
    BY ThreadAssumption
       DEF AppInv, AppTypeOK, RunnersInv, MainInv, Threads
  <2> USE <2>0 DEF Goto, queueVars
  <2>1. ASSUME NEW t \in Threads, ThreadStep(t)
        PROVE  [AppWoken!Next]_(AppWoken!wokenVars)
    <3>1. CASE \/ Listen(t) \/ ListenCheck(t) \/ RunEnter(t) \/ RunAssign(t)
               \/ LeaveLoop(t) \/ Restore(t) \/ OnSignal(t)
      <4>1. owing' = owing /\ AppReader' = AppReader
        BY <3>1
           DEF Listen, ListenCheck, RunEnter, RunAssign, LeaveLoop, Restore,
               OnSignal, AppReader
      <4>2. queued' = queued /\ woken' = woken
        BY <3>1
           DEF Listen, ListenCheck, RunEnter, RunAssign, LeaveLoop, Restore,
               OnSignal
      <4> QED
        BY <4>1, <4>2 DEF AppWoken!wokenVars
    <3>2. CASE ListenStore(t)
      <4>1. AppReader' = AppReader
        BY <3>2 DEF ListenStore, AppReader
      <4>2. CASE queued < QCapacity
        <5>1. owing' = owing \cup {t} /\ t \notin owing
          BY <3>2, <4>2 DEF ListenStore
        <5> QED
          BY <3>2, <4>1, <4>2, <5>1
             DEF ListenStore, AppWoken!Put, AppWoken!Next
      <4>3. CASE ~ (queued < QCapacity)
        <5>1. owing' = owing
          BY <3>2, <4>3 DEF ListenStore
        <5> QED
          BY <3>2, <4>1, <4>3, <5>1 DEF ListenStore, AppWoken!wokenVars
      <4> QED
        BY <4>2, <4>3
    <3>3. CASE ListenSend(t)
      <4>1. AppReader' = AppReader
        BY <3>3 DEF ListenSend, AppReader
      <4>2. owing' = owing \ {t} /\ t \in owing
        BY <3>3 DEF ListenSend
      <4> QED
        BY <3>3, <4>1, <4>2 DEF ListenSend, AppWoken!Send, AppWoken!Next
    <3>4. CASE RunWake(t)
      <4>1. t = Main
        BY <3>4 DEF RunWake, LoopPlaces
      <4>2. owing' = owing /\ AppReader = "asleep" /\ AppReader' = "awake"
        BY <3>4, <4>1 DEF RunWake, AppReader
      <4> QED
        BY <3>4, <4>2 DEF RunWake, AppWoken!Wake, AppWoken!Next
    <3>5. CASE RunDrain(t)
      <4>1. t = Main
        BY <3>5 DEF RunDrain, LoopPlaces
      <4>2. /\ owing' = owing /\ woken' = woken /\ AppReader = "awake"
            /\ AppReader' = IF queued <= 1 THEN "asleep" ELSE "awake"
            /\ queued' = IF queued = 0 THEN 0 ELSE queued - 1
        BY <3>5, <4>1 DEF RunDrain, AppReader
      <4>3. CASE queued = 0
        BY <4>2, <4>3 DEF AppWoken!Sleep, AppWoken!MaySleep, AppWoken!Next
      <4>4. CASE queued # 0
        <5>1. /\ queued > 0 /\ queued' = queued - 1
              /\ \/ AppReader' = "awake"
                 \/ AppReader' = "asleep" /\ queued' = 0
          BY <4>2, <4>4
        <5> QED
          BY <4>2, <5>1 DEF AppWoken!Take, AppWoken!MaySleep, AppWoken!Next
      <4> QED
        BY <4>3, <4>4
    <3> QED
      BY <2>1, <3>1, <3>2, <3>3, <3>4, <3>5 DEF ThreadStep, ListenPut, InLoop
  <2>2. CASE AppStart
    <3>1. owing' = owing /\ AppReader = "new" /\ AppReader' = "asleep"
      BY <2>2 DEF AppStart, AppReader
    <3> QED
      BY <2>2, <3>1 DEF AppStart, AppWoken!Start, AppWoken!Next
  <2>3. CASE \/ Signal \/ ScriptEnds \/ Finalize \/ AppDelete
             \/ \E w \in Workers : WorkerEnds(w)
    <3>1. owing' = owing /\ AppReader' = AppReader
      BY <2>3
         DEF Signal, ScriptEnds, Finalize, AppDelete, WorkerEnds, AppReader
    <3>2. queued' = queued /\ woken' = woken
      BY <2>3 DEF Signal, ScriptEnds, Finalize, AppDelete, WorkerEnds
    <3> QED
      BY <3>1, <3>2 DEF AppWoken!wokenVars
  <2>4. CASE Dtor
    <3>1. owing' = owing /\ AppReader = "asleep" /\ AppReader' = "gone"
      BY <2>4 DEF Dtor, AppReader
    <3> QED
      BY <2>4, <3>1 DEF Dtor, AppWoken!Leave, AppWoken!Next
  <2>5. CASE ProcessExits
    <3>1. owing' = {} /\ AppReader = "gone" /\ AppReader' = "gone"
      BY <2>5 DEF ProcessExits, EndAll, AppReader
    <3> QED
      BY <2>5, <3>1 DEF ProcessExits, AppWoken!End, AppWoken!Next
  <2>6. CASE UNCHANGED appVars
    BY <2>6 DEF appVars, AppReader, AppWoken!wokenVars
  <2> QED
    BY <2>1, <2>2, <2>3, <2>4, <2>5, <2>6, AppSplits
<1> QED
  BY <1>1, <1>2, AppInvariance, PTL
     DEF AppSpec, AppImplementsWokenChannel, AppWoken!Spec
==============================================================================
