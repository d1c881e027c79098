-------------------------- MODULE WatcherCmdQProofs --------------------------
(***************************************************************************)
(* WatcherCmdQ for every number of slots, producers and puts: the ring     *)
(* loses nothing, no wake-up is lost, and the whole of it implements the   *)
(* bounded channel CmdChannel.                                             *)
(***************************************************************************)
EXTENDS WatcherCmdQ, RingIndexProofs

\* All steps of the loop's thread.
LoopStep == Start \/ Wake \/ Drain \/ Stop \/ Delete

\* The head that other threads see is an index of the ring.
LEMMA StoredHeadInRing ==
  ASSUME TypeOK PROVE StoredHead \in Slots
  BY DEF TypeOK, StoredHead

-----------------------------------------------------------------------------
(* The initial state *)

LEMMA InitIInv == Init => IInv
<1> SUFFICES ASSUME Init PROVE IInv
  OBVIOUS
<1> USE QSizeAssumption, ThreadAssumption
<1>1. TypeOK
  BY DEF Init, TypeOK, Slots
<1>2. MutexInv /\ ReserveInv /\ TakeInv /\ DeletedInv /\ NoSleepOnWork
  BY DEF Init, MutexInv, ReserveInv, TakeInv, DeletedInv, NoSleepOnWork
<1>3. FifoExact
  <2>1. StoredHead = 0 /\ HandedOut = <<>> /\ Held(0, 0) = 0
    BY DEF Init, StoredHead, HandedOut, Held
  <2> QED
    BY <2>1 DEF Init, FifoExact
<1> QED
  BY <1>1, <1>2, <1>3 DEF IInv

-----------------------------------------------------------------------------
(* Each part of IInv is preserved by every step *)

LEMMA TypeStep == IInv /\ [Next]_vars => TypeOK'
<1> SUFFICES ASSUME IInv, [Next]_vars PROVE TypeOK'
  OBVIOUS
<1> USE QSizeAssumption, ThreadAssumption DEF TypeOK
<1>0. TypeOK /\ MutexInv /\ ReserveInv /\ TakeInv
  BY DEF IInv
<1>a. NextSlot(q_head) \in Slots /\ NextSlot(q_tail) \in Slots
  BY <1>0, NextSlotInRing
<1>1. ASSUME NEW p \in Producers, PutRefuse(p) PROVE TypeOK'
  BY <1>0, <1>1 DEF PutRefuse, PutEnter, endVars, histVars
<1>2. ASSUME NEW p \in Producers, PutReserve(p) PROVE TypeOK'
  BY <1>0, <1>a, <1>2 DEF PutReserve, PutEnter, endVars, histVars
<1>3. ASSUME NEW p \in Producers, PutStore(p) PROVE TypeOK'
  <2>1. <<p, issued[p]>> \in Cmd
    BY <1>0, <1>3 DEF PutStore, ReserveInv, Cmd
  <2>2. accepted' \in Seq(Cmd)
    BY <1>0, <1>3, <2>1 DEF PutStore
  <2>3. q' \in [Slots -> Cmd \cup {NoCmd}]
    BY <1>0, <1>3, <2>1 DEF PutStore
  <2> QED
    BY <1>0, <1>3, <2>2, <2>3 DEF PutStore, endVars
<1>4. ASSUME NEW p \in Producers, PutSend(p) PROVE TypeOK'
  BY <1>0, <1>4 DEF PutSend, endVars, histVars
<1>5. CASE Start
  <2>1. early' \in Nat
    BY <1>0, <1>5 DEF Start
  <2> QED
    BY <1>0, <1>5, <2>1 DEF Start, prodVars, endVars
<1>6. CASE Wake \/ DrainEmpty \/ Stop
  BY <1>0, <1>6 DEF Wake, DrainEmpty, Stop, prodVars, endVars, histVars
<1>7. CASE DrainTake
  BY <1>0, <1>7 DEF DrainTake, prodVars, endVars, histVars
<1>8. CASE DrainAdvance
  BY <1>0, <1>a, <1>8 DEF DrainAdvance, prodVars, endVars, histVars
<1>9. CASE Callback
  <2>1. delivered' \in Seq(Cmd)
    BY <1>0, <1>9 DEF Callback, TakeInv
  <2> QED
    BY <1>0, <1>9, <2>1 DEF Callback, prodVars, endVars
<1>10. CASE Delete
  BY <1>0, <1>10 DEF Delete, prodVars, histVars
<1>11. CASE UNCHANGED vars
  BY <1>0, <1>11 DEF vars, prodVars, endVars, histVars
<1> QED
  BY <1>1, <1>2, <1>3, <1>4, <1>5, <1>6, <1>7, <1>8, <1>9, <1>10, <1>11
     DEF Next, Put, Drain

LEMMA MutexStep == IInv /\ [Next]_vars => MutexInv'
<1> SUFFICES ASSUME IInv, [Next]_vars PROVE MutexInv'
  OBVIOUS
<1> USE ThreadAssumption DEF TypeOK, MutexInv
<1>0. TypeOK /\ MutexInv
  BY DEF IInv
<1>1. ASSUME NEW p \in Producers, Put(p) PROVE MutexInv'
  BY <1>0, <1>1
     DEF Put, PutRefuse, PutReserve, PutEnter, PutStore, PutSend
<1>2. CASE LoopStep
  BY <1>0, <1>2
     DEF LoopStep, Start, Wake, Drain, DrainEmpty, DrainTake, DrainAdvance,
         Callback, Stop, Delete, prodVars
<1>3. CASE UNCHANGED vars
  BY <1>0, <1>3 DEF vars, prodVars
<1> QED
  BY <1>1, <1>2, <1>3 DEF Next, LoopStep

LEMMA ReserveStep == IInv /\ [Next]_vars => ReserveInv'
<1> SUFFICES ASSUME IInv, [Next]_vars PROVE ReserveInv'
  OBVIOUS
<1> USE ThreadAssumption DEF TypeOK, MutexInv, ReserveInv
<1>0. TypeOK /\ MutexInv /\ ReserveInv
  BY DEF IInv
<1>1. ASSUME NEW p \in Producers, Put(p) PROVE ReserveInv'
  BY <1>0, <1>1
     DEF Put, PutRefuse, PutReserve, PutEnter, PutStore, PutSend
<1>2. CASE LoopStep
  BY <1>0, <1>2
     DEF LoopStep, Start, Wake, Drain, DrainEmpty, DrainTake, DrainAdvance,
         Callback, Stop, Delete, prodVars
<1>3. CASE UNCHANGED vars
  BY <1>0, <1>3 DEF vars, prodVars
<1> QED
  BY <1>1, <1>2, <1>3 DEF Next, LoopStep

LEMMA TakeStep == IInv /\ [Next]_vars => TakeInv'
<1> SUFFICES ASSUME IInv, [Next]_vars PROVE TakeInv'
  OBVIOUS
<1> USE ThreadAssumption DEF TypeOK, MutexInv, TakeInv
<1>0. TypeOK /\ MutexInv /\ TakeInv /\ FifoExact
  BY DEF IInv
<1>1. ASSUME NEW p \in Producers, Put(p) PROVE TakeInv'
  BY <1>0, <1>1
     DEF Put, PutRefuse, PutReserve, PutEnter, PutStore, PutSend
<1>2. CASE DrainAdvance
  <2> DEFINE n == Len(HandedOut)
  <2>1. q_head # q_tail /\ cmd = q[q_tail] /\ StoredHead = q_head
        /\ HandedOut = delivered
    BY <1>0, <1>2 DEF DrainAdvance, StoredHead, HandedOut
  <2>2. Held(q_head, q_tail) \in 1 .. Capacity /\ SlotAt(q_tail, 1) = q_tail
    BY <1>0, <2>1, HeldRange, HeldAfterGet, QSizeAssumption DEF Capacity
  <2>3. n \in Nat /\ 1 \in 1 .. Held(q_head, q_tail)
    BY <1>0, <2>1, <2>2, QSizeAssumption DEF Capacity
  <2>4. /\ Len(accepted) = n + Held(q_head, q_tail)
        /\ q[SlotAt(q_tail, 1)] = accepted[n + 1]
    BY <1>0, <2>1, <2>3 DEF FifoExact
  <2>5. n + 1 \in 1 .. Len(accepted)
    BY <2>3, <2>4, <2>2, QSizeAssumption DEF Capacity
  <2>6. cmd \in Cmd
    BY <1>0, <2>1, <2>2, <2>4, <2>5
  <2> QED
    BY <1>2, <2>6 DEF DrainAdvance
<1>3. CASE Start \/ Wake \/ DrainEmpty \/ DrainTake \/ Callback \/ Stop \/ Delete
  BY <1>0, <1>3
     DEF Start, Wake, DrainEmpty, DrainTake, Callback, Stop, Delete
<1>4. CASE UNCHANGED vars
  BY <1>0, <1>4 DEF vars
<1> QED
  BY <1>1, <1>2, <1>3, <1>4 DEF Next, Drain

LEMMA DeletedStep == IInv /\ [Next]_vars => DeletedInv'
<1> SUFFICES ASSUME IInv, [Next]_vars PROVE DeletedInv'
  OBVIOUS
<1> USE DEF TypeOK, DeletedInv
<1>0. TypeOK /\ DeletedInv
  BY DEF IInv
<1>1. ASSUME NEW p \in Producers, Put(p) PROVE DeletedInv'
  BY <1>0, <1>1
     DEF Put, PutRefuse, PutReserve, PutEnter, PutStore, PutSend, endVars
<1>2. CASE LoopStep
  BY <1>0, <1>2
     DEF LoopStep, Start, Wake, Drain, DrainEmpty, DrainTake, DrainAdvance,
         Callback, Stop, Delete, prodVars, endVars
<1>3. CASE UNCHANGED vars
  BY <1>0, <1>3 DEF vars, prodVars, endVars
<1> QED
  BY <1>1, <1>2, <1>3 DEF Next, LoopStep

LEMMA SleepStep == IInv /\ [Next]_vars => NoSleepOnWork'
<1> SUFFICES ASSUME IInv, [Next]_vars PROVE NoSleepOnWork'
  OBVIOUS
<1> USE DEF TypeOK, NoSleepOnWork
<1>0. TypeOK /\ NoSleepOnWork
  BY DEF IInv
<1>1. ASSUME NEW p \in Producers, Put(p) PROVE NoSleepOnWork'
  BY <1>0, <1>1
     DEF Put, PutRefuse, PutReserve, PutEnter, PutStore, PutSend, histVars
<1>2. CASE LoopStep
  BY <1>0, <1>2
     DEF LoopStep, Start, Wake, Drain, DrainEmpty, DrainTake, DrainAdvance,
         Callback, Stop, Delete, prodVars, histVars
<1>3. CASE UNCHANGED vars
  BY <1>0, <1>3 DEF vars, prodVars, histVars
<1> QED
  BY <1>1, <1>2, <1>3 DEF Next, LoopStep

-----------------------------------------------------------------------------
(* The contents of the ring *)

\* What a step must leave alone to leave the contents alone.
LEMMA FifoFrame ==
  ASSUME FifoExact, UNCHANGED <<StoredHead, q_tail, q, accepted, HandedOut>>
  PROVE  FifoExact'
  BY DEF FifoExact

\* The slot a put fills becomes visible together with its command.
LEMMA FifoPutStore ==
  ASSUME IInv, NEW p \in Producers, PutStore(p)
  PROVE  /\ FifoExact'
         /\ HandedOut' = HandedOut
         /\ Len(accepted) - Len(HandedOut) < Capacity
<1> DEFINE n == Len(HandedOut)
           h == q_pos[p]
           c == <<p, issued[p]>>
<1> USE QSizeAssumption, ThreadAssumption
<1>1. TypeOK /\ MutexInv /\ ReserveInv /\ FifoExact
  BY DEF IInv
<1>2. mtx = p /\ pc[p] = "store"
  BY <1>1 DEF PutStore, MutexInv
<1>3. h \in Slots /\ q_tail \in Slots /\ q_head = NextSlot(h) /\ q_head # q_tail
  BY <1>1, <1>2 DEF TypeOK, ReserveInv
<1>4. StoredHead = h /\ StoredHead' = NextSlot(h)
  BY <1>2, <1>3 DEF StoredHead, PutStore
<1>5. lpc' = lpc /\ cmd' = cmd /\ delivered' = delivered /\ q_tail' = q_tail
  BY DEF PutStore
<1>6. HandedOut' = HandedOut
  BY <1>5 DEF HandedOut
<1>7. /\ HandedOut \in Seq(Cmd \cup {NoCmd}) /\ n \in Nat
      /\ accepted \in Seq(Cmd) /\ Len(accepted) \in Nat
  BY <1>1 DEF TypeOK, HandedOut
<1>8. /\ Held(h, q_tail) \in 0 .. Capacity
      /\ Held(NextSlot(h), q_tail) = Held(h, q_tail) + 1
      /\ Held(NextSlot(h), q_tail) \in 0 .. Capacity
      /\ SlotAt(q_tail, Held(h, q_tail) + 1) = h
  BY <1>3, HeldRange, HeldAfterPut, NextSlotInRing
<1>9. /\ Len(accepted) = n + Held(h, q_tail)
      /\ \A i \in 1 .. n : HandedOut[i] = accepted[i]
      /\ \A k \in 1 .. Held(h, q_tail) : q[SlotAt(q_tail, k)] = accepted[n + k]
  BY <1>1, <1>4 DEF FifoExact
<1>10. /\ accepted' = Append(accepted, c)
       /\ Len(accepted') = Len(accepted) + 1
       /\ accepted'[Len(accepted) + 1] = c
       /\ \A i \in 1 .. Len(accepted) : accepted'[i] = accepted[i]
  BY <1>7 DEF PutStore
<1>11. q' = [q EXCEPT ![h] = c] /\ q'[h] = c
  BY <1>1, <1>3 DEF PutStore, TypeOK
<1>12. \A i \in 1 .. n : HandedOut[i] = accepted'[i]
  <2> SUFFICES ASSUME NEW i \in 1 .. n PROVE HandedOut[i] = accepted'[i]
    OBVIOUS
  <2>1. i \in 1 .. Len(accepted)
    BY <1>7, <1>8, <1>9 DEF Capacity
  <2> QED
    BY <2>1, <1>9, <1>10
<1>13. ASSUME NEW k \in 1 .. Held(h, q_tail) + 1
       PROVE  q'[SlotAt(q_tail, k)] = accepted'[n + k]
  <2>1. CASE k = Held(h, q_tail) + 1
    <3>1. n + k = Len(accepted) + 1
      BY <2>1, <1>7, <1>8, <1>9 DEF Capacity
    <3> QED
      BY <2>1, <3>1, <1>8, <1>10, <1>11
  <2>2. CASE k # Held(h, q_tail) + 1
    <3>1. k \in 1 .. Held(h, q_tail)
      BY <2>2, <1>8 DEF Capacity
    <3>2. SlotAt(q_tail, k) \in Slots /\ SlotAt(q_tail, k) # h
      BY <3>1, <1>3, HeldSlots
    <3>3. q'[SlotAt(q_tail, k)] = q[SlotAt(q_tail, k)]
      BY <3>2, <1>11, <1>1 DEF TypeOK
    <3>4. n + k \in 1 .. Len(accepted)
      BY <3>1, <1>7, <1>8, <1>9 DEF Capacity
    <3> QED
      BY <3>1, <3>3, <3>4, <1>9, <1>10
  <2> QED
    BY <2>1, <2>2
<1>14. Len(accepted') = n + (Held(h, q_tail) + 1)
  BY <1>7, <1>8, <1>9, <1>10 DEF Capacity
<1>15. FifoExact'
  BY <1>4, <1>5, <1>6, <1>8, <1>12, <1>13, <1>14 DEF FifoExact
<1>16. Len(accepted) - n < Capacity
  BY <1>7, <1>8, <1>9 DEF Capacity
<1> QED
  BY <1>6, <1>15, <1>16

\* The slot the loop releases is that of the oldest waiting command.
LEMMA FifoDrainAdvance ==
  ASSUME IInv, DrainAdvance
  PROVE  /\ FifoExact'
         /\ accepted' = accepted
         /\ Len(HandedOut) < Len(accepted)
         /\ HandedOut' = Append(HandedOut, accepted[Len(HandedOut) + 1])
<1> DEFINE n == Len(HandedOut)
           m == Held(q_head, q_tail)
<1> USE QSizeAssumption, ThreadAssumption
<1>1. TypeOK /\ MutexInv /\ TakeInv /\ FifoExact
  BY DEF IInv
<1>2. /\ mtx = Loop /\ lpc = "advance" /\ lpc' = "callback"
      /\ q_head # q_tail /\ cmd = q[q_tail]
      /\ q_head \in Slots /\ q_tail \in Slots
      /\ q_tail' = NextSlot(q_tail)
  BY <1>1 DEF DrainAdvance, MutexInv, TakeInv, TypeOK
<1>3. StoredHead = q_head /\ StoredHead' = q_head
  BY <1>2 DEF StoredHead, DrainAdvance
<1>4. HandedOut = delivered /\ HandedOut' = Append(delivered, cmd)
  BY <1>2 DEF HandedOut, DrainAdvance, histVars
<1>5. q' = q /\ accepted' = accepted
  BY DEF DrainAdvance, histVars
<1>6. /\ delivered \in Seq(Cmd) /\ n \in Nat /\ Len(accepted) \in Nat
      /\ Len(HandedOut') = n + 1
      /\ HandedOut'[n + 1] = cmd
      /\ \A i \in 1 .. n : HandedOut'[i] = HandedOut[i]
  BY <1>1, <1>4 DEF TypeOK
<1>7. /\ m \in 1 .. Capacity
      /\ Held(q_head, q_tail') = m - 1
      /\ SlotAt(q_tail, 1) = q_tail
  BY <1>2, HeldRange, HeldAfterGet DEF Capacity
<1>8. /\ Len(accepted) = n + m
      /\ \A i \in 1 .. n : HandedOut[i] = accepted[i]
      /\ \A k \in 1 .. m : q[SlotAt(q_tail, k)] = accepted[n + k]
  BY <1>1, <1>3 DEF FifoExact
<1>9. cmd = accepted[n + 1]
  <2>1. 1 \in 1 .. m
    BY <1>7 DEF Capacity
  <2> QED
    BY <1>2, <1>7, <1>8, <2>1
<1>10. ASSUME NEW i \in 1 .. n + 1 PROVE HandedOut'[i] = accepted[i]
  <2>1. i = n + 1 \/ i \in 1 .. n
    BY <1>6
  <2> QED
    BY <2>1, <1>6, <1>8, <1>9
<1>11. ASSUME NEW k \in 1 .. m - 1
       PROVE  q[SlotAt(q_tail', k)] = accepted[(n + 1) + k]
  <2>1. k \in 1 .. Capacity - 1 /\ k + 1 \in 1 .. m /\ n + (k + 1) = (n + 1) + k
    BY <1>6, <1>7 DEF Capacity
  <2>2. SlotAt(q_tail', k) = SlotAt(q_tail, k + 1)
    BY <2>1, <1>2, SlotAtShift
  <2> QED
    BY <2>1, <2>2, <1>8
<1>12. Len(accepted) = (n + 1) + (m - 1) /\ n < Len(accepted)
  BY <1>6, <1>7, <1>8 DEF Capacity
<1>13. FifoExact'
  BY <1>3, <1>5, <1>6, <1>7, <1>10, <1>11, <1>12 DEF FifoExact
<1> QED
  BY <1>4, <1>5, <1>9, <1>12, <1>13

\* Every other step leaves the contents, and what has left the ring, alone.
LEMMA QuietStep ==
  ASSUME IInv, [Next]_vars,
         ~ \E p \in Producers : PutStore(p),
         ~ DrainAdvance
  PROVE  UNCHANGED <<StoredHead, q_tail, q, accepted, HandedOut>>
<1> USE ThreadAssumption DEF StoredHead, HandedOut
<1>0. TypeOK /\ MutexInv
  BY DEF IInv
<1>1. ASSUME NEW p \in Producers, PutRefuse(p) \/ PutReserve(p) \/ PutSend(p)
      PROVE  UNCHANGED <<StoredHead, q_tail, q, accepted, HandedOut>>
  BY <1>0, <1>1
     DEF TypeOK, PutRefuse, PutReserve, PutEnter, PutSend, histVars
<1>2. CASE Start \/ Wake \/ DrainEmpty \/ DrainTake \/ Callback \/ Stop \/ Delete
  BY <1>0, <1>2
     DEF Start, Wake, DrainEmpty, DrainTake, Callback, Stop, Delete,
         prodVars, histVars
<1>3. CASE UNCHANGED vars
  BY <1>3 DEF vars, prodVars, histVars
<1> QED
  BY <1>1, <1>2, <1>3 DEF Next, Put, Drain

LEMMA FifoStep == IInv /\ [Next]_vars => FifoExact'
<1> SUFFICES ASSUME IInv, [Next]_vars PROVE FifoExact'
  OBVIOUS
<1>1. CASE \E p \in Producers : PutStore(p)
  BY <1>1, FifoPutStore
<1>2. CASE DrainAdvance
  BY <1>2, FifoDrainAdvance
<1>3. CASE ~ DrainAdvance /\ ~ \E p \in Producers : PutStore(p)
  BY <1>3, QuietStep, FifoFrame DEF IInv
<1> QED
  BY <1>1, <1>2, <1>3

-----------------------------------------------------------------------------
(* Theorems *)

\* IInv is an inductive invariant of every greenev watcher queue.
THEOREM Invariance == Spec => []IInv
<1>1. Init => IInv
  BY InitIInv
<1>2. IInv /\ [Next]_vars => IInv'
  BY TypeStep, MutexStep, ReserveStep, TakeStep, DeletedStep, SleepStep,
     FifoStep DEF IInv
<1> QED
  BY <1>1, <1>2, PTL DEF Spec

\* The indexes stay in the ring and every variable in its type.
THEOREM TypeCorrect == Spec => []TypeOK
<1>1. IInv => TypeOK
  BY DEF IInv
<1> QED
  BY <1>1, Invariance, PTL

\* No accepted command is lost, duplicated, reordered or read too early.
THEOREM FifoCorrect == Spec => []FifoExact
<1>1. IInv => FifoExact
  BY DEF IInv
<1> QED
  BY <1>1, Invariance, PTL

\* The loop never sleeps on a command put after watcher_cmd_q_start.
THEOREM WakeUpCorrect == Spec => []NoSleepOnWork
<1>1. IInv => NoSleepOnWork
  BY DEF IInv
<1> QED
  BY <1>1, Invariance, PTL

\* A deletion without the warning has dropped no command.
THEOREM DeleteCorrect == Spec => []NoSilentLoss
<1>1. ASSUME IInv, deleted, ~warned PROVE delivered = accepted
  <2>1. TypeOK /\ MutexInv /\ DeletedInv /\ FifoExact
    BY <1>1 DEF IInv
  <2>2. /\ lpc = "stopped" /\ q_head = q_tail
        /\ \A p \in Producers : pc[p] # "store"
    BY <1>1, <2>1 DEF DeletedInv, TypeOK
  <2>3. StoredHead = q_tail /\ HandedOut = delivered
    BY <2>1, <2>2 DEF MutexInv, StoredHead, HandedOut
  <2>4. Held(q_tail, q_tail) = 0 /\ Len(delivered) \in Nat
    BY <2>1, HeldRange DEF TypeOK
  <2>5. /\ Len(accepted) = Len(delivered)
        /\ \A i \in 1 .. Len(delivered) : delivered[i] = accepted[i]
    BY <2>1, <2>3, <2>4 DEF FifoExact
  <2> QED
    BY <2>1, <2>5 DEF TypeOK
<1>2. IInv => NoSilentLoss
  BY <1>1 DEF NoSilentLoss
<1> QED
  BY <1>2, Invariance, PTL

\* The queue, with its mutex, its split critical sections and its wake-ups,
\* implements the bounded channel.
THEOREM Implements == Spec => ImplementsChannel
<1>1. Init => Chan!Init
  BY DEF Init, Chan!Init, HandedOut
<1>2. IInv /\ [Next]_vars => [Chan!Next]_(Chan!chanVars)
  <2> SUFFICES ASSUME IInv, [Next]_vars PROVE [Chan!Next]_(Chan!chanVars)
    OBVIOUS
  <2>1. ASSUME NEW p \in Producers, PutStore(p) PROVE Chan!Next
    <3>1. <<p, issued[p]>> \in Cmd
      BY <2>1, ThreadAssumption DEF IInv, TypeOK, ReserveInv, PutStore, Cmd
    <3>2. Chan!Accept(<<p, issued[p]>>)
      BY <2>1, FifoPutStore DEF Chan!Accept, Chan!Waiting, PutStore
    <3> QED
      BY <3>1, <3>2 DEF Chan!Next
  <2>2. CASE DrainAdvance
    <3>1. Chan!HandOut
      BY <2>2, FifoDrainAdvance DEF Chan!HandOut
    <3> QED
      BY <3>1 DEF Chan!Next
  <2>3. CASE ~ DrainAdvance /\ ~ \E p \in Producers : PutStore(p)
    BY <2>3, QuietStep DEF Chan!chanVars
  <2> QED
    BY <2>1, <2>2, <2>3
<1> QED
  BY <1>1, <1>2, Invariance, PTL DEF Spec, ImplementsChannel, Chan!Spec

\* How many commands wait, as WokenChannel counts them.
LEMMA WaitingCounted ==
  ASSUME IInv
  PROVE  /\ Held(StoredHead, q_tail) \in 0 .. Capacity
         /\ Len(accepted) = Len(HandedOut) + Held(StoredHead, q_tail)
         /\ Len(accepted) \in Nat /\ Len(HandedOut) \in Nat
<1>1. TypeOK /\ FifoExact
  BY DEF IInv
<1>2. Held(StoredHead, q_tail) \in 0 .. Capacity
  BY <1>1, StoredHeadInRing, HeldRange DEF TypeOK
<1>3. HandedOut \in Seq(Cmd \cup {NoCmd})
  BY <1>1 DEF TypeOK, HandedOut
<1> QED
  BY <1>1, <1>2, <1>3 DEF FifoExact, TypeOK

\* A command comes to wait in PutStore and stops waiting in DrainAdvance.
LEMMA WaitingStep ==
  ASSUME IInv, [Next]_vars
  PROVE  /\ (\E p \in Producers : PutStore(p)) =>
              /\ Held(StoredHead, q_tail) < Capacity
              /\ Held(StoredHead, q_tail)' = Held(StoredHead, q_tail) + 1
         /\ DrainAdvance =>
              /\ Held(StoredHead, q_tail) > 0
              /\ Held(StoredHead, q_tail)' = Held(StoredHead, q_tail) - 1
         /\ ~ DrainAdvance /\ ~ (\E p \in Producers : PutStore(p)) =>
              UNCHANGED Held(StoredHead, q_tail)
<1> USE QSizeAssumption DEF Capacity
<1>1. IInv'
  BY TypeStep, MutexStep, ReserveStep, TakeStep, DeletedStep, SleepStep,
     FifoStep DEF IInv
<1>2. /\ Held(StoredHead, q_tail)' \in 0 .. Capacity
      /\ Len(accepted') = Len(HandedOut') + Held(StoredHead, q_tail)'
  <2>1. TypeOK' /\ FifoExact'
    BY <1>1 DEF IInv
  <2>2. StoredHead' \in Slots /\ q_tail' \in Slots
    BY <2>1 DEF TypeOK, StoredHead
  <2>3. Held(StoredHead', q_tail') \in 0 .. Capacity
    BY <2>2, HeldRange
  <2> QED
    BY <2>1, <2>3 DEF FifoExact, Held
<1>3. ASSUME NEW p \in Producers, PutStore(p)
      PROVE  /\ Held(StoredHead, q_tail) < Capacity
             /\ Held(StoredHead, q_tail)' = Held(StoredHead, q_tail) + 1
  <2>1. Len(accepted') = Len(accepted) + 1
    BY <1>3 DEF PutStore, IInv, TypeOK
  <2> QED
    BY <1>2, <1>3, <2>1, WaitingCounted, FifoPutStore
<1>4. ASSUME DrainAdvance
      PROVE  /\ Held(StoredHead, q_tail) > 0
             /\ Held(StoredHead, q_tail)' = Held(StoredHead, q_tail) - 1
  <2>1. HandedOut \in Seq(Cmd \cup {NoCmd})
    BY DEF IInv, TypeOK, HandedOut
  <2>2. Len(HandedOut') = Len(HandedOut) + 1
    BY <1>4, <2>1, FifoDrainAdvance
  <2> QED
    BY <1>2, <1>4, <2>2, WaitingCounted, FifoDrainAdvance
<1> QED
  BY <1>3, <1>4, QuietStep

\* Every put is followed by its wake-up, and the loop never sleeps over a
\* command that was put since the watcher was started.
THEOREM ImplementsWoken == Spec => ImplementsWokenChannel
<1> DEFINE held == Held(StoredHead, q_tail)
           owing == {p \in Producers : pc[p] = "send"}
<1>1. Init => Woken!Init
  <2> SUFFICES ASSUME Init PROVE Woken!Init
    OBVIOUS
  <2>1. held = 0
    BY ThreadAssumption DEF Init, StoredHead, Held
  <2> QED
    BY <2>1 DEF Init, Woken!Init, Reader
<1>2. IInv /\ [Next]_vars => [Woken!Next]_(Woken!wokenVars)
  <2> SUFFICES ASSUME IInv, [Next]_vars PROVE [Woken!Next]_(Woken!wokenVars)
    OBVIOUS
  <2>0. TypeOK /\ MutexInv /\ DeletedInv /\ held \in Nat
    BY WaitingCounted, QSizeAssumption DEF IInv, Capacity
  <2>1. ASSUME NEW p \in Producers, PutStore(p) PROVE Woken!Put(p)
    <3>1. held < Capacity /\ held' = held + 1
      BY <2>1, WaitingStep
    <3>2. owing' = owing \cup {p} /\ p \notin owing
      BY <2>0, <2>1 DEF PutStore, TypeOK
    <3>3. sent' = sent /\ Reader' = Reader
      BY <2>1 DEF PutStore, Reader
    <3> QED
      BY <3>1, <3>2, <3>3 DEF Woken!Put
  <2>2. CASE DrainAdvance
    <3>1. held > 0 /\ held' = held - 1
      BY <2>2, WaitingStep
    <3>2. owing' = owing /\ sent' = sent /\ Reader = "awake" /\ Reader' = "awake"
      BY <2>2 DEF DrainAdvance, prodVars, Reader
    <3> QED
      BY <3>1, <3>2 DEF Woken!Take, Woken!Next
  <2>3. CASE ~ DrainAdvance /\ ~ \E p \in Producers : PutStore(p)
    <3>0. held' = held
      BY <2>3, WaitingStep
    <3>1. ASSUME NEW p \in Producers, PutRefuse(p) \/ PutReserve(p)
          PROVE  UNCHANGED Woken!wokenVars
      <4>1. owing' = owing
        BY <2>0, <3>1 DEF PutRefuse, PutReserve, PutEnter, TypeOK
      <4> QED
        BY <3>0, <3>1, <4>1 DEF PutRefuse, PutReserve, Reader, Woken!wokenVars
    <3>2. ASSUME NEW p \in Producers, PutSend(p) PROVE Woken!Send(p)
      <4>1. owing' = owing \ {p} /\ p \in owing
        BY <2>0, <3>2 DEF PutSend, TypeOK
      <4> QED
        BY <3>0, <3>2, <4>1 DEF PutSend, Reader, Woken!Send
    <3>3. CASE Start
      BY <3>0, <3>3 DEF Start, prodVars, Reader, Woken!Start, Woken!Next
    <3>4. CASE Wake
      BY <3>0, <3>4 DEF Wake, prodVars, Reader, Woken!Wake, Woken!Next
    <3>5. CASE DrainEmpty
      <4>1. held = 0
        BY <2>0, <3>5, ThreadAssumption, HeldRange
           DEF DrainEmpty, StoredHead, TypeOK
      <4> QED
        BY <3>0, <3>5, <4>1
           DEF DrainEmpty, prodVars, Reader, Woken!Sleep, Woken!MaySleep,
               Woken!Next
    <3>6. CASE DrainTake \/ Callback
      BY <3>0, <3>6
         DEF DrainTake, Callback, prodVars, Reader, Woken!wokenVars
    <3>7. CASE Stop
      BY <3>0, <3>7 DEF Stop, prodVars, Reader, Woken!Leave, Woken!Next
    <3>8. CASE Delete
      BY <3>0, <3>8
         DEF Delete, prodVars, Reader, Woken!Leave, Woken!Next, Woken!wokenVars
    <3>9. CASE UNCHANGED vars
      BY <3>0, <3>9 DEF vars, prodVars, Reader, Woken!wokenVars
    <3> QED
      BY <2>3, <3>1, <3>2, <3>3, <3>4, <3>5, <3>6, <3>7, <3>8, <3>9
         DEF Next, Put, Drain, Woken!Next
  <2> QED
    BY <2>1, <2>2, <2>3 DEF Woken!Next
<1> QED
  BY <1>1, <1>2, Invariance, PTL DEF Spec, ImplementsWokenChannel, Woken!Spec

\* A put is refused exactly when Capacity commands wait.
THEOREM RefusalExact == Spec => RefusedOnlyWhenFull
<1>1. ASSUME IInv, [Next]_vars, NEW p \in Producers, issued'[p] # issued[p]
      PROVE  pc'[p] = "idle" <=> Held(q_head, q_tail) = Capacity
  <2>1. TypeOK
    BY <1>1 DEF IInv
  <2>2. PutRefuse(p) \/ PutReserve(p)
    BY <1>1, <2>1
       DEF Next, Put, PutRefuse, PutReserve, PutEnter, PutStore, PutSend,
           Start, Wake, Drain, DrainEmpty, DrainTake, DrainAdvance, Callback,
           Stop, Delete, vars, prodVars, TypeOK
  <2>3. NextSlot(q_head) = q_tail <=> Held(q_head, q_tail) = Capacity
    BY <2>1, FullIsCapacity DEF TypeOK
  <2> QED
    BY <2>1, <2>2, <2>3 DEF PutRefuse, PutReserve, PutEnter, TypeOK
<1>2. IInv /\ [Next]_vars =>
        [\A p \in Producers : issued'[p] # issued[p] =>
           (pc'[p] = "idle" <=> Held(q_head, q_tail) = Capacity)]_vars
  BY <1>1
<1> QED
  BY <1>2, Invariance, PTL DEF Spec, RefusedOnlyWhenFull
=============================================================================
