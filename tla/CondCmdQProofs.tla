--------------------------- MODULE CondCmdQProofs ---------------------------
(***************************************************************************)
(* What the questions a thread asks of the ring of cmdq_cv.c are worth,    *)
(* for every number of slots and every pair of indexes, and what the       *)
(* deadline of a timed wait is, for every moment and every timeout.  Then  *)
(* CondCmdQ for any number of slots, threads and puts: the queue           *)
(* implements the bounded channel CmdChannel, threads block only at its    *)
(* limits, and none of them is left asleep with its work at hand.          *)
(***************************************************************************)
EXTENDS CondCmdQ, RingIndexProofs, FiniteSetTheorems

\* cond_cmd_q_full, which is written differently from the test of the other
\* queues, answers yes exactly when the ring holds all it can hold, and
\* cond_cmd_q_empty exactly when it holds nothing: a put that finds `not
\* full' never overwrites a waiting command.
THEOREM FullAndEmptyAreExact ==
  ASSUME q_head \in Slots, q_tail \in Slots
  PROVE  /\ cond_cmd_q_full <=> Held(q_head, q_tail) = Capacity
         /\ cond_cmd_q_empty <=> Held(q_head, q_tail) = 0
  BY QSizeAssumption DEF Slots, Held, Capacity, cond_cmd_q_full,
     cond_cmd_q_empty

\* cond_cmd_q_size is the number of commands only while the ring is not
\* wrapped.  Once it is, the code returns a comparison where it meant a
\* difference: 1 for a full ring and 0 for any other.  It never reports more
\* commands than there are.
THEOREM SizeIsALowerBound ==
  ASSUME q_head \in Slots, q_tail \in Slots
  PROVE  /\ cond_cmd_q_size \in 0 .. Held(q_head, q_tail)
         /\ q_tail <= q_head => cond_cmd_q_size = Held(q_head, q_tail)
         /\ q_tail > q_head =>
              cond_cmd_q_size = IF cond_cmd_q_full THEN 1 ELSE 0
<1>1. CASE q_tail > q_head
  <2>1. Held(q_head, q_tail) = q_head + QSize - q_tail
    BY <1>1, QSizeAssumption DEF Slots, Held
  <2>2. cond_cmd_q_full <=> q_tail = q_head + 1
    BY <1>1, QSizeAssumption DEF Slots, cond_cmd_q_full
  <2>3. cond_cmd_q_size = IF q_tail = q_head + 1 THEN 1 ELSE 0
    BY <1>1 DEF cond_cmd_q_size
  <2> QED BY <1>1, <2>1, <2>2, <2>3, QSizeAssumption DEF Slots
<1>2. CASE q_tail <= q_head
  <2>1. cond_cmd_q_size = q_head - q_tail
    BY <1>2, QSizeAssumption DEF Slots, cond_cmd_q_size
  <2>2. Held(q_head, q_tail) = q_head - q_tail
    BY <1>2, QSizeAssumption DEF Slots, Held
  <2> QED BY <1>2, <2>1, <2>2, QSizeAssumption DEF Slots
<1> QED BY <1>1, <1>2, QSizeAssumption DEF Slots

\* A timed put or get waits until exactly timeout_ms milliseconds after the
\* moment it first found the queue full or empty, and what it hands to
\* pthread_cond_timedwait is a valid timespec: one carry is enough.
THEOREM DeadlineIsExact ==
  ASSUME NEW now \in [sec : Nat, usec : Nat], now.usec < 1000000,
         NEW timeout_ms \in Nat,
         NEW ts, ts = abstimeout(now, timeout_ms)
  PROVE  /\ ts.sec \in Nat
         /\ ts.nsec \in Nat /\ ts.nsec < 1000000000
         /\ 1000000000 * ts.sec + ts.nsec =
              1000000000 * now.sec + 1000 * now.usec + 1000000 * timeout_ms
<1> DEFINE s == now.sec + timeout_ms \div 1000
           n == now.usec * 1000 + (timeout_ms % 1000) * 1000000
<1>1. /\ timeout_ms \div 1000 \in Nat
      /\ timeout_ms % 1000 \in Nat /\ timeout_ms % 1000 < 1000
      /\ timeout_ms = 1000 * (timeout_ms \div 1000) + (timeout_ms % 1000)
  BY SMT
<1>2. /\ s \in Nat
      /\ n \in Nat /\ n < 1999000000
      /\ 1000000000 * s + n =
           1000000000 * now.sec + 1000 * now.usec + 1000000 * timeout_ms
  BY <1>1, SMT
<1>3. ts = IF n > 999999999 THEN [sec |-> s + 1, nsec |-> n % 1000000000]
                            ELSE [sec |-> s, nsec |-> n]
  BY SMT DEF abstimeout
<1> HIDE DEF s, n
<1>4. CASE n > 999999999
  <2>1. n % 1000000000 = n - 1000000000
    BY <1>2, <1>4, SMT
  <2>2. ts.sec = s + 1 /\ ts.nsec = n - 1000000000
    BY <1>3, <1>4, <2>1, SMT
  <2> QED BY <1>2, <1>4, <2>2, SMT
<1>5. CASE ~(n > 999999999)
  <2>1. ts.sec = s /\ ts.nsec = n
    BY <1>3, <1>5, SMT
  <2> QED BY <1>2, <1>5, <2>1, SMT
<1> QED BY <1>4, <1>5, SMT
-----------------------------------------------------------------------------
(* What signalling does *)

\* Whoever is signalled, the thread that leaves is idle, and another thread
\* either stays where it is or is taken off the condition of the group.
LEMMA SignalMoves ==
  ASSUME TypeOK, NEW t \in Threads, pc[t] = "lock",
         NEW group \in SUBSET Threads, LeaveAndSignal(t, group)
  PROVE  /\ pc' \in [Threads -> {"idle", "lock", "wait", "timedout"}]
         /\ pc'[t] = "idle"
         /\ \A x \in Threads \ {t} :
              \/ pc'[x] = pc[x]
              \/ x \in Asleep(group) /\ pc'[x] = "lock"
<1> DEFINE left == [pc EXCEPT ![t] = "idle"]
<1>1. /\ left \in [Threads -> {"idle", "lock", "wait", "timedout"}]
      /\ left[t] = "idle"
      /\ \A x \in Threads \ {t} : left[x] = pc[x]
  BY DEF TypeOK
<1>2. \/ pc' = left
      \/ \E u \in Asleep(group) : pc' = [left EXCEPT ![u] = "lock"]
  BY DEF LeaveAndSignal
<1>3. ASSUME NEW u \in Asleep(group), pc' = [left EXCEPT ![u] = "lock"]
      PROVE  /\ pc' \in [Threads -> {"idle", "lock", "wait", "timedout"}]
             /\ pc'[t] = "idle" /\ pc'[u] = "lock"
             /\ \A x \in Threads \ {t, u} : pc'[x] = pc[x]
  <2>1. u \in Threads /\ u # t
    BY DEF Asleep
  <2> HIDE DEF left
  <2> QED
    BY <1>1, <1>3, <2>1
<1> QED
  BY <1>1, <1>2, <1>3

\* No wait of the group that has timed out takes the signal of another: the
\* system does not let it, or there is no other, as in greenev.
SignalsReach(group) == LateSignals => \A t, u \in group : t = u

\* While a signal goes to a sleeping thread if there is one, a put or a get
\* that finds the other group asleep sends exactly one of it to the mutex.
LEMMA SignalWakesOne ==
  ASSUME TypeOK, NEW t \in Threads, pc[t] = "lock",
         NEW group \in SUBSET Threads, t \notin group, SignalsReach(group),
         LeaveAndSignal(t, group)
  PROVE  /\ Asleep(group)' \subseteq Asleep(group)
         /\ Asleep(group) = {} => AboutToLock(group)' = AboutToLock(group)
         /\ Asleep(group) # {} =>
              \E u : /\ u \notin AboutToLock(group)
                     /\ AboutToLock(group)' = AboutToLock(group) \cup {u}
<1> DEFINE left == [pc EXCEPT ![t] = "idle"]
<1>1. /\ left \in [Threads -> {"idle", "lock", "wait", "timedout"}]
      /\ \A x \in group : left[x] = pc[x]
  BY DEF TypeOK
<1>2. CASE Asleep(group) = {}
  <2>1. pc' = left
    BY <1>2 DEF LeaveAndSignal
  <2> QED
    BY <1>1, <1>2, <2>1 DEF Asleep, AboutToLock
<1>3. CASE Asleep(group) # {}
  <2>0. LateSignals => GaveUp(group) = {}
    BY <1>3 DEF SignalsReach, Asleep, GaveUp
  <2>1. PICK u \in Asleep(group) : pc' = [left EXCEPT ![u] = "lock"]
    BY <1>3, <2>0 DEF LeaveAndSignal
  <2>2. u \in group /\ pc[u] = "wait" /\ u \in Threads
    BY DEF Asleep
  <2> HIDE DEF left
  <2>3. pc'[u] = "lock" /\ \A x \in group \ {u} : pc'[x] = pc[x]
    BY <1>1, <2>1, <2>2
  <2>4. AboutToLock(group)' = AboutToLock(group) \cup {u}
    BY <2>2, <2>3 DEF AboutToLock
  <2>5. u \notin AboutToLock(group) /\ Asleep(group)' \subseteq Asleep(group)
    BY <2>2, <2>3 DEF AboutToLock, Asleep
  <2> QED
    BY <1>3, <2>4, <2>5
<1> QED
  BY <1>2, <1>3

\* The group of the thread that leaves: one less is about to lock.
LEMMA LeaverIsGone ==
  ASSUME TypeOK, NEW t \in Threads, pc[t] = "lock",
         NEW group \in SUBSET Threads, LeaveAndSignal(t, group),
         NEW own \in SUBSET Threads, t \in own, own \cap group = {}
  PROVE  /\ Asleep(own)' = Asleep(own)
         /\ AboutToLock(own)' = AboutToLock(own) \ {t}
         /\ t \in AboutToLock(own)
<1>1. pc'[t] = "idle" /\ \A x \in own \ {t} : pc'[x] = pc[x]
  BY SignalMoves DEF Asleep
<1> QED
  BY <1>1 DEF Asleep, AboutToLock

-----------------------------------------------------------------------------
(* The inductive invariant *)

LEMMA InitIInv == Init => IInv
<1> SUFFICES ASSUME Init PROVE IInv
  OBVIOUS
<1> USE QSizeAssumption, CondAssumption
<1>1. TypeOK
  <2>1. /\ q_head \in Slots /\ q_tail \in Slots
        /\ q \in [Slots -> Cmd \cup {NoCmd}]
    BY DEF Init, Slots
  <2>2. accepted \in Seq(Cmd) /\ taken \in Seq(Cmd)
    BY DEF Init
  <2> QED
    BY <2>1, <2>2 DEF Init, TypeOK
<1>2. IssuedInv
  BY DEF Init, IssuedInv, Threads
<1>3. FifoExact
  <2>1. Waiting = 0
    BY DEF Init, Waiting, Held
  <2> QED
    BY <2>1 DEF Init, FifoExact
<1> QED
  BY <1>1, <1>2, <1>3 DEF IInv

\* What a get takes off the ring is the oldest command nobody has taken.
LEMMA GetFindsCommand ==
  ASSUME IInv, ~cond_cmd_q_empty
  PROVE  /\ Waiting \in 1 .. Capacity
         /\ Len(accepted) = Len(taken) + Waiting
         /\ q[q_tail] = accepted[Len(taken) + 1]
         /\ q[q_tail] \in Cmd
<1> USE QSizeAssumption
<1>1. TypeOK /\ FifoExact
  BY DEF IInv
<1>2. q_head \in Slots /\ q_tail \in Slots /\ q_head # q_tail
  BY <1>1 DEF TypeOK, cond_cmd_q_empty
<1>3. Waiting \in 1 .. Capacity /\ SlotAt(q_tail, 1) = q_tail
  BY <1>2, HeldRange, HeldAfterGet DEF Waiting, Capacity
<1>4. Len(taken) \in Nat /\ 1 \in 1 .. Waiting
  BY <1>1, <1>3 DEF TypeOK, Capacity
<1>5. /\ Len(accepted) = Len(taken) + Waiting
      /\ q[SlotAt(q_tail, 1)] = accepted[Len(taken) + 1]
  BY <1>1, <1>4 DEF FifoExact
<1>6. Len(taken) + 1 \in 1 .. Len(accepted)
  BY <1>3, <1>4, <1>5 DEF Capacity
<1>7. accepted[Len(taken) + 1] \in Cmd
  BY <1>1, <1>6 DEF TypeOK
<1> QED
  BY <1>3, <1>5, <1>7

\* A producer that is inside put has a command of its own to insert.
LEMMA PutHasCommand ==
  ASSUME IInv, NEW p \in Producers, pc[p] = "lock"
  PROVE  <<p, issued[p]>> \in Cmd
  BY CondAssumption DEF IInv, TypeOK, IssuedInv, Cmd

\* Every step that is not an insertion or an extraction leaves the ring and
\* the two histories alone.
LEMMA QuietStep ==
  ASSUME [Next]_vars,
         ~ \E p \in Producers : PutInsert(p),
         ~ \E c \in Consumers : GetExtract(c)
  PROVE  UNCHANGED <<q_head, q_tail, q, accepted, taken>>
<1> USE DEF ringVars, histVars
<1>1. ASSUME NEW p \in Producers, Put(p)
      PROVE  UNCHANGED <<q_head, q_tail, q, accepted, taken>>
  BY <1>1 DEF Put, CallPut, PutWait
<1>2. ASSUME NEW c \in Consumers, Get(c)
      PROVE  UNCHANGED <<q_head, q_tail, q, accepted, taken>>
  BY <1>2 DEF Get, CallGet, GetWait
<1>3. ASSUME NEW t \in Threads, Wait(t)
      PROVE  UNCHANGED <<q_head, q_tail, q, accepted, taken>>
  BY <1>3 DEF Wait, Spurious, Timeout, GiveUp
<1>4. CASE UNCHANGED vars
  BY <1>4 DEF vars
<1> QED
  BY <1>1, <1>2, <1>3, <1>4 DEF Next

LEMMA TypeStep == IInv /\ [Next]_vars => TypeOK'
<1> SUFFICES ASSUME IInv, [Next]_vars PROVE TypeOK'
  OBVIOUS
<1> USE QSizeAssumption, CondAssumption DEF ringVars, histVars
<1>0. TypeOK /\ Producers \subseteq Threads /\ Consumers \subseteq Threads
  BY DEF IInv, Threads
<1>1. ASSUME NEW p \in Producers, CallPut(p) PROVE TypeOK'
  <2>1. issued' \in [Producers -> 0 .. MaxPuts]
    BY <1>0, <1>1 DEF TypeOK, CallPut
  <2> QED
    BY <1>0, <1>1, <2>1 DEF TypeOK, CallPut
<1>2. ASSUME NEW t \in Threads,
             PutWait(t) \/ CallGet(t) \/ GetWait(t) \/ Wait(t)
      PROVE  TypeOK'
  BY <1>0, <1>2
     DEF TypeOK, PutWait, CallGet, GetWait, Wait, Spurious, Timeout, GiveUp
<1>3. ASSUME NEW p \in Producers, PutInsert(p) PROVE TypeOK'
  <2>1. pc[p] = "lock" /\ LeaveAndSignal(p, Consumers)
    BY <1>3 DEF PutInsert
  <2>2. pc' \in [Threads -> {"idle", "lock", "wait", "timedout"}]
    BY <1>0, <2>1, SignalMoves
  <2>3. <<p, issued[p]>> \in Cmd
    BY <2>1, PutHasCommand
  <2>4. q_head' \in Slots /\ q' \in [Slots -> Cmd \cup {NoCmd}]
    BY <1>0, <1>3, <2>3, NextSlotInRing DEF TypeOK, PutInsert
  <2>5. accepted' \in Seq(Cmd)
    BY <1>0, <1>3, <2>3 DEF TypeOK, PutInsert
  <2> QED
    BY <1>0, <1>3, <2>2, <2>4, <2>5 DEF TypeOK, PutInsert
<1>4. ASSUME NEW c \in Consumers, GetExtract(c) PROVE TypeOK'
  <2>1. pc[c] = "lock" /\ LeaveAndSignal(c, Producers)
    BY <1>4 DEF GetExtract
  <2>2. pc' \in [Threads -> {"idle", "lock", "wait", "timedout"}]
    BY <1>0, <2>1, SignalMoves
  <2>3. q[q_tail] \in Cmd
    BY <1>4, GetFindsCommand DEF GetExtract
  <2>4. q_tail' \in Slots
    BY <1>0, <1>4, NextSlotInRing DEF TypeOK, GetExtract
  <2>5. taken' \in Seq(Cmd)
    BY <1>0, <1>4, <2>3 DEF TypeOK, GetExtract
  <2> QED
    BY <1>0, <1>4, <2>2, <2>4, <2>5 DEF TypeOK, GetExtract
<1>5. CASE UNCHANGED vars
  BY <1>0, <1>5 DEF TypeOK, vars
<1> QED
  BY <1>0, <1>1, <1>2, <1>3, <1>4, <1>5 DEF Next, Put, Get

LEMMA IssuedStep == IInv /\ [Next]_vars => IssuedInv'
<1> SUFFICES ASSUME IInv, [Next]_vars PROVE IssuedInv'
  OBVIOUS
<1>0. /\ TypeOK /\ IssuedInv
      /\ Producers \subseteq Threads /\ Consumers \subseteq Threads
      /\ Producers \cap Consumers = {}
  BY CondAssumption DEF IInv, Threads
<1>1. ASSUME NEW p \in Producers, CallPut(p) PROVE IssuedInv'
  <2>1. issued'[p] >= 1
    BY <1>0, <1>1 DEF TypeOK, CallPut
  <2>2. \A x \in Producers \ {p} : pc'[x] = pc[x] /\ issued'[x] = issued[x]
    BY <1>0, <1>1 DEF TypeOK, CallPut
  <2> QED
    BY <1>0, <2>1, <2>2 DEF IssuedInv
<1>2. ASSUME issued' = issued,
             \A x \in Producers : pc'[x] # "idle" => pc[x] # "idle"
      PROVE  IssuedInv'
  BY <1>0, <1>2 DEF IssuedInv
<1>3. ASSUME NEW t \in Threads, PutWait(t) \/ GetWait(t) \/ Wait(t)
      PROVE  IssuedInv'
  <2>1. issued' = issued /\ \A x \in Threads : pc'[x] # "idle" => pc[x] # "idle"
    BY <1>0, <1>3
       DEF TypeOK, PutWait, GetWait, Wait, Spurious, Timeout, GiveUp
  <2> QED
    BY <1>0, <1>2, <2>1
<1>4. ASSUME NEW c \in Consumers, CallGet(c) PROVE IssuedInv'
  <2>1. issued' = issued /\ \A x \in Producers : pc'[x] = pc[x]
    BY <1>0, <1>4 DEF TypeOK, CallGet
  <2> QED
    BY <1>2, <2>1
<1>5. ASSUME NEW t \in Threads, NEW group \in SUBSET Threads,
             pc[t] = "lock", LeaveAndSignal(t, group), issued' = issued
      PROVE  IssuedInv'
  <2>1. /\ pc'[t] = "idle"
        /\ \A x \in Threads \ {t} : pc'[x] = pc[x] \/ pc[x] = "wait"
    BY <1>0, <1>5, SignalMoves DEF Asleep
  <2> QED
    BY <1>0, <1>2, <1>5, <2>1
<1>6. ASSUME NEW p \in Producers, PutInsert(p) PROVE IssuedInv'
  BY <1>0, <1>5, <1>6 DEF PutInsert
<1>7. ASSUME NEW c \in Consumers, GetExtract(c) PROVE IssuedInv'
  BY <1>0, <1>5, <1>7 DEF GetExtract
<1>8. CASE UNCHANGED vars
  BY <1>2, <1>8 DEF vars
<1> QED
  BY <1>0, <1>1, <1>3, <1>4, <1>6, <1>7, <1>8 DEF Next, Put, Get

\* An insertion extends the contents by its command.
LEMMA FifoInsert ==
  ASSUME IInv, NEW p \in Producers, PutInsert(p)
  PROVE  /\ FifoExact'
         /\ Waiting' = Waiting + 1
         /\ Len(accepted) - Len(taken) < Capacity
<1> DEFINE n == Len(taken)
           c == <<p, issued[p]>>
<1> USE QSizeAssumption
<1>1. TypeOK /\ FifoExact
  BY DEF IInv
<1>2. q_head \in Slots /\ q_tail \in Slots /\ NextSlot(q_head) # q_tail
  <2>1. q_head \in Slots /\ q_tail \in Slots /\ ~cond_cmd_q_full
    BY <1>1 DEF TypeOK, PutInsert
  <2>2. Held(q_head, q_tail) # Capacity
    BY <2>1, FullAndEmptyAreExact
  <2> QED
    BY <2>1, <2>2, FullIsCapacity
<1>3. taken' = taken /\ q_tail' = q_tail /\ q_head' = NextSlot(q_head)
  BY DEF PutInsert
<1>4. n \in Nat /\ accepted \in Seq(Cmd) /\ Len(accepted) \in Nat
  BY <1>1 DEF TypeOK
<1>5. /\ Waiting \in 0 .. Capacity
      /\ Waiting' = Waiting + 1
      /\ Waiting + 1 \in 0 .. Capacity
      /\ SlotAt(q_tail, Waiting + 1) = q_head
  BY <1>2, <1>3, HeldRange, HeldAfterPut, NextSlotInRing DEF Waiting
<1>6. /\ Len(accepted) = n + Waiting
      /\ \A i \in 1 .. n : taken[i] = accepted[i]
      /\ \A k \in 1 .. Waiting : q[SlotAt(q_tail, k)] = accepted[n + k]
  BY <1>1 DEF FifoExact
<1>7. /\ accepted' = Append(accepted, c)
      /\ Len(accepted') = Len(accepted) + 1
      /\ accepted'[Len(accepted) + 1] = c
      /\ \A i \in 1 .. Len(accepted) : accepted'[i] = accepted[i]
  BY <1>4 DEF PutInsert
<1>8. q' = [q EXCEPT ![q_head] = c] /\ q'[q_head] = c
  BY <1>1, <1>2 DEF PutInsert, TypeOK
<1>9. ASSUME NEW i \in 1 .. n PROVE taken[i] = accepted'[i]
  <2>1. i \in 1 .. Len(accepted)
    BY <1>4, <1>5, <1>6 DEF Capacity
  <2> QED
    BY <2>1, <1>6, <1>7
<1>10. ASSUME NEW k \in 1 .. Waiting + 1
       PROVE  q'[SlotAt(q_tail, k)] = accepted'[n + k]
  <2>1. CASE k = Waiting + 1
    <3>1. n + k = Len(accepted) + 1
      BY <2>1, <1>4, <1>5, <1>6 DEF Capacity
    <3> QED
      BY <2>1, <3>1, <1>5, <1>7, <1>8
  <2>2. CASE k # Waiting + 1
    <3>1. k \in 1 .. Waiting
      BY <2>2, <1>5 DEF Capacity
    <3>2. SlotAt(q_tail, k) \in Slots /\ SlotAt(q_tail, k) # q_head
      BY <3>1, <1>2, HeldSlots DEF Waiting
    <3>3. q'[SlotAt(q_tail, k)] = q[SlotAt(q_tail, k)]
      BY <3>2, <1>8, <1>1 DEF TypeOK
    <3>4. n + k \in 1 .. Len(accepted)
      BY <3>1, <1>4, <1>5, <1>6 DEF Capacity
    <3> QED
      BY <3>1, <3>3, <3>4, <1>6, <1>7
  <2> QED
    BY <2>1, <2>2
<1>11. Len(accepted') = n + (Waiting + 1) /\ Len(accepted) - n < Capacity
  BY <1>4, <1>5, <1>6, <1>7 DEF Capacity
<1>12. FifoExact'
  BY <1>3, <1>5, <1>9, <1>10, <1>11 DEF FifoExact
<1> QED
  BY <1>5, <1>11, <1>12

\* An extraction takes the oldest of the waiting commands.
LEMMA FifoExtract ==
  ASSUME IInv, NEW c \in Consumers, GetExtract(c)
  PROVE  /\ FifoExact'
         /\ Waiting \in 1 .. Capacity /\ Waiting' = Waiting - 1
         /\ accepted' = accepted
         /\ Len(taken) < Len(accepted)
         /\ taken' = Append(taken, accepted[Len(taken) + 1])
<1> DEFINE n == Len(taken)
<1> USE QSizeAssumption
<1>1. TypeOK /\ FifoExact
  BY DEF IInv
<1>2. /\ q_head # q_tail /\ q_head \in Slots /\ q_tail \in Slots
      /\ q_head' = q_head /\ q_tail' = NextSlot(q_tail)
      /\ q' = q /\ accepted' = accepted
      /\ taken' = Append(taken, q[q_tail])
  BY <1>1 DEF GetExtract, TypeOK, cond_cmd_q_empty
<1>3. /\ Waiting \in 1 .. Capacity
      /\ q[q_tail] = accepted[n + 1]
      /\ Len(accepted) = n + Waiting
  BY GetFindsCommand DEF GetExtract
<1>4. /\ n \in Nat
      /\ Len(taken') = n + 1
      /\ taken'[n + 1] = q[q_tail]
      /\ \A i \in 1 .. n : taken'[i] = taken[i]
  BY <1>1, <1>2 DEF TypeOK
<1>5. Waiting' = Waiting - 1
  BY <1>2, HeldAfterGet DEF Waiting
<1>6. /\ \A i \in 1 .. n : taken[i] = accepted[i]
      /\ \A k \in 1 .. Waiting : q[SlotAt(q_tail, k)] = accepted[n + k]
  BY <1>1 DEF FifoExact
<1>7. ASSUME NEW i \in 1 .. n + 1 PROVE taken'[i] = accepted[i]
  <2>1. i = n + 1 \/ i \in 1 .. n
    BY <1>4
  <2> QED
    BY <2>1, <1>3, <1>4, <1>6
<1>8. ASSUME NEW k \in 1 .. Waiting - 1
      PROVE  q[SlotAt(q_tail', k)] = accepted[(n + 1) + k]
  <2>1. /\ k \in 1 .. Capacity - 1 /\ k + 1 \in 1 .. Waiting
        /\ n + (k + 1) = (n + 1) + k
    BY <1>3, <1>4 DEF Capacity
  <2>2. SlotAt(q_tail', k) = SlotAt(q_tail, k + 1)
    BY <2>1, <1>2, SlotAtShift
  <2> QED
    BY <2>1, <2>2, <1>6
<1>9. Len(accepted) = (n + 1) + (Waiting - 1) /\ n < Len(accepted)
  BY <1>3, <1>4 DEF Capacity
<1>10. FifoExact'
  BY <1>2, <1>4, <1>5, <1>7, <1>8, <1>9 DEF FifoExact
<1> QED
  BY <1>2, <1>3, <1>5, <1>9, <1>10

LEMMA FifoStep == IInv /\ [Next]_vars => FifoExact'
<1> SUFFICES ASSUME IInv, [Next]_vars PROVE FifoExact'
  OBVIOUS
<1>1. CASE \E p \in Producers : PutInsert(p)
  BY <1>1, FifoInsert
<1>2. CASE \E c \in Consumers : GetExtract(c)
  BY <1>2, FifoExtract
<1>3. CASE /\ ~ \E p \in Producers : PutInsert(p)
           /\ ~ \E c \in Consumers : GetExtract(c)
  BY <1>3, QuietStep DEF IInv, FifoExact, Waiting
<1> QED
  BY <1>1, <1>2, <1>3

-----------------------------------------------------------------------------
(* Theorems about every run *)

\* IInv is an inductive invariant of the queue, for any number of slots,
\* threads and puts, whatever happens to a signal.
THEOREM Invariance == Spec => []IInv
<1>1. Init => IInv
  BY InitIInv
<1>2. IInv /\ [Next]_vars => IInv'
  BY TypeStep, IssuedStep, FifoStep DEF IInv
<1> QED
  BY <1>1, <1>2, PTL DEF Spec

\* The variables keep their ranges: both indexes stay inside the ring, and
\* what is taken is always a command some put has inserted.
THEOREM TypeCorrect == Spec => []TypeOK
<1>1. IInv => TypeOK
  BY DEF IInv
<1> QED
  BY <1>1, Invariance, PTL

\* The ring, the mutex and the two conditions implement the bounded channel.
THEOREM Implements == Spec => ImplementsChannel
<1>1. Init => Chan!Init
  BY DEF Init, Chan!Init
<1>2. IInv /\ [Next]_vars => [Chan!Next]_(Chan!chanVars)
  <2> SUFFICES ASSUME IInv, [Next]_vars PROVE [Chan!Next]_(Chan!chanVars)
    OBVIOUS
  <2>1. ASSUME NEW p \in Producers, PutInsert(p) PROVE Chan!Next
    <3>1. <<p, issued[p]>> \in Cmd
      BY <2>1, PutHasCommand DEF PutInsert
    <3>2. Chan!Accept(<<p, issued[p]>>)
      BY <2>1, FifoInsert DEF Chan!Accept, Chan!Waiting, PutInsert
    <3> QED
      BY <3>1, <3>2 DEF Chan!Next
  <2>2. ASSUME NEW c \in Consumers, GetExtract(c) PROVE Chan!Next
    <3>1. Chan!HandOut
      BY <2>2, FifoExtract DEF Chan!HandOut
    <3> QED
      BY <3>1 DEF Chan!Next
  <2>3. CASE /\ ~ \E p \in Producers : PutInsert(p)
             /\ ~ \E c \in Consumers : GetExtract(c)
    BY <2>3, QuietStep DEF Chan!chanVars
  <2> QED
    BY <2>1, <2>2, <2>3
<1> QED
  BY <1>1, <1>2, Invariance, PTL DEF Spec, ImplementsChannel, Chan!Spec

\* A put blocks only on a full queue and a get only on an empty one.
THEOREM BlocksRightly == Spec => BlocksOnlyAtLimits
<1> DEFINE A == \A t \in Threads :
                  (pc[t] = "lock" /\ pc'[t] = "wait") =>
                    Len(accepted) - Len(taken) =
                      IF t \in Producers THEN Capacity ELSE 0
<1>1. ASSUME IInv, [Next]_vars, NEW t \in Threads,
             pc[t] = "lock", pc'[t] = "wait"
      PROVE  Len(accepted) - Len(taken) =
               IF t \in Producers THEN Capacity ELSE 0
  <2>0. /\ TypeOK
        /\ Producers \subseteq Threads /\ Consumers \subseteq Threads
        /\ Producers \cap Consumers = {}
    BY <1>1, CondAssumption DEF IInv, Threads
  <2>1. Len(accepted) - Len(taken) = Held(q_head, q_tail)
    <3>1. Len(accepted) = Len(taken) + Held(q_head, q_tail)
      BY <1>1 DEF IInv, FifoExact, Waiting
    <3>2. Len(taken) \in Nat /\ Held(q_head, q_tail) \in Int
      BY <2>0, HeldRange, QSizeAssumption DEF TypeOK, Capacity
    <3> QED
      BY <3>1, <3>2
  <2>2. ASSUME NEW x \in Threads, NEW group \in SUBSET Threads,
               pc[x] = "lock", LeaveAndSignal(x, group)
        PROVE  FALSE
    BY <1>1, <2>0, <2>2, SignalMoves
  <2>3. ASSUME NEW p \in Producers, Put(p)
        PROVE  t = p /\ cond_cmd_q_full
    <3>1. ~PutInsert(p)
      BY <2>0, <2>2 DEF PutInsert
    <3> QED
      BY <1>1, <2>0, <2>3, <3>1 DEF Put, CallPut, PutWait, TypeOK
  <2>4. ASSUME NEW c \in Consumers, Get(c)
        PROVE  t = c /\ cond_cmd_q_empty
    <3>1. ~GetExtract(c)
      BY <2>0, <2>2 DEF GetExtract
    <3> QED
      BY <1>1, <2>0, <2>4, <3>1 DEF Get, CallGet, GetWait, TypeOK
  <2>5. ASSUME NEW x \in Threads, Wait(x) PROVE FALSE
    BY <1>1, <2>0, <2>5 DEF Wait, Spurious, Timeout, GiveUp, TypeOK
  <2>6. ~ UNCHANGED vars
    BY <1>1 DEF vars
  <2>7. \/ t \in Producers /\ cond_cmd_q_full
        \/ t \in Consumers /\ cond_cmd_q_empty
    BY <1>1, <2>3, <2>4, <2>5, <2>6 DEF Next
  <2> QED
    BY <2>0, <2>1, <2>7, FullAndEmptyAreExact DEF TypeOK
<1>2. IInv /\ [Next]_vars => [A]_vars
  BY <1>1
<1> QED
  BY <1>2, Invariance, PTL DEF Spec, BlocksOnlyAtLimits

-----------------------------------------------------------------------------
(* Nobody is forgotten, as long as no wait that has timed out consumes a *)
(* signal meant for another thread (LateSignals; POSIX leaves it to the  *)
(* system).                                                              *)

\* The threads about to lock can be counted.
LEMMA LockersFinite ==
  ASSUME NEW group \in SUBSET Threads
  PROVE  /\ IsFiniteSet(AboutToLock(group))
         /\ Cardinality(AboutToLock(group)) \in Nat
  BY CondAssumption, FS_Subset, FS_CardinalityType DEF AboutToLock

\* The same after a step.
LEMMA LockersFinitePrime ==
  ASSUME NEW group \in SUBSET Threads
  PROVE  Cardinality(AboutToLock(group)') \in Nat
<1>1. IsFiniteSet(AboutToLock(group)')
  BY CondAssumption, FS_Subset DEF AboutToLock
<1> QED
  BY <1>1, FS_CardinalityType

\* A signal adds one to the threads about to lock, unless nobody sleeps.
LEMMA SignalCounts ==
  ASSUME TypeOK, NEW t \in Threads, pc[t] = "lock",
         NEW group \in SUBSET Threads, t \notin group, SignalsReach(group),
         LeaveAndSignal(t, group),
         Asleep(group)' # {}
  PROVE  /\ Asleep(group) # {}
         /\ Cardinality(AboutToLock(group)') =
              Cardinality(AboutToLock(group)) + 1
<1>1. Asleep(group) # {}
  BY SignalWakesOne
<1>2. PICK u : /\ u \notin AboutToLock(group)
               /\ AboutToLock(group)' = AboutToLock(group) \cup {u}
  BY <1>1, SignalWakesOne
<1> QED
  BY <1>1, <1>2, LockersFinite, FS_AddElement

\* The thread that leaves takes one away.
LEMMA LeaverCounts ==
  ASSUME TypeOK, NEW t \in Threads, pc[t] = "lock",
         NEW group \in SUBSET Threads, LeaveAndSignal(t, group),
         NEW own \in SUBSET Threads, t \in own, own \cap group = {}
  PROVE  /\ Asleep(own)' = Asleep(own)
         /\ Cardinality(AboutToLock(own)') = Cardinality(AboutToLock(own)) - 1
  BY LeaverIsGone, LockersFinite, FS_RemoveElement

\* In every other step a group that still has somebody asleep afterwards had
\* so before, and loses nobody on the way to the mutex.  (The wait of a thread
\* of the group itself is the exception.)
LEMMA QuietGroup ==
  ASSUME TypeOK, NEW group \in SUBSET Threads,
         \/ UNCHANGED pc
         \/ \E t \in Threads : CallPut(t) \/ CallGet(t) \/ Wait(t)
         \/ \E t \in Threads \ group : PutWait(t) \/ GetWait(t)
  PROVE  /\ Asleep(group)' \subseteq Asleep(group)
         /\ Cardinality(AboutToLock(group)') >= Cardinality(AboutToLock(group))
<1>1. /\ Asleep(group)' \subseteq Asleep(group)
      /\ AboutToLock(group) \subseteq AboutToLock(group)'
  <2>1. CASE UNCHANGED pc
    BY <2>1 DEF Asleep, AboutToLock
  <2>2. ASSUME NEW t \in Threads, CallPut(t) \/ CallGet(t)
        PROVE  \A x \in group : pc'[x] = pc[x] \/ (pc[x] = "idle" /\ pc'[x] = "lock")
    BY <2>2 DEF TypeOK, CallPut, CallGet
  <2>3. ASSUME NEW t \in Threads, Wait(t)
        PROVE  \A x \in group :
                 pc'[x] = pc[x] \/ (pc[x] # "lock" /\ pc'[x] # "wait")
    BY <2>3 DEF TypeOK, Wait, Spurious, Timeout, GiveUp
  <2>4. ASSUME NEW t \in Threads \ group, PutWait(t) \/ GetWait(t)
        PROVE  \A x \in group : pc'[x] = pc[x]
    BY <2>4 DEF TypeOK, PutWait, GetWait
  <2> QED
    BY <2>1, <2>2, <2>3, <2>4 DEF Asleep, AboutToLock
<1>2. IsFiniteSet(AboutToLock(group)')
  BY CondAssumption, FS_Subset DEF AboutToLock
<1> QED
  BY <1>1, <1>2, FS_Subset, LockersFinite, LockersFinitePrime

LEMMA WaitingRange ==
  ASSUME TypeOK
  PROVE  /\ Waiting \in 0 .. Capacity
         /\ cond_cmd_q_empty <=> Waiting = 0
         /\ cond_cmd_q_full <=> Waiting = Capacity
  BY HeldRange, FullAndEmptyAreExact DEF TypeOK, Waiting

LEMMA ConsumersStep ==
  ASSUME SignalsReach(Consumers)
  PROVE  IInv /\ NoConsumerForgotten /\ [Next]_vars => NoConsumerForgotten'
<1> SUFFICES ASSUME IInv, NoConsumerForgotten, [Next]_vars, Asleep(Consumers)' # {}
             PROVE  Waiting' <= Cardinality(AboutToLock(Consumers)')
  BY DEF NoConsumerForgotten
<1> DEFINE n == Cardinality(AboutToLock(Consumers))
           m == Cardinality(AboutToLock(Consumers)')
<1>0. /\ TypeOK
      /\ Producers \subseteq Threads /\ Consumers \subseteq Threads
      /\ Producers \cap Consumers = {}
  BY CondAssumption DEF IInv, Threads
<1>1. n \in Nat /\ m \in Nat /\ Waiting \in Int
  BY <1>0, LockersFinite, LockersFinitePrime, WaitingRange, QSizeAssumption
     DEF Capacity
<1>2. ASSUME NEW p \in Producers, PutInsert(p) PROVE Waiting' <= m
  <2>1. Asleep(Consumers) # {} /\ m = n + 1
    BY <1>0, <1>2, SignalCounts DEF PutInsert
  <2>2. Waiting' = Waiting + 1 /\ Waiting <= n
    BY <1>2, <2>1, FifoInsert DEF NoConsumerForgotten
  <2> HIDE DEF n, m
  <2> QED
    BY <1>1, <2>1, <2>2
<1>3. ASSUME NEW c \in Consumers, GetExtract(c) PROVE Waiting' <= m
  <2>1. Asleep(Consumers) # {} /\ m = n - 1
    BY <1>0, <1>3, LeaverCounts DEF GetExtract
  <2>2. Waiting' = Waiting - 1 /\ Waiting <= n
    BY <1>3, <2>1, FifoExtract DEF NoConsumerForgotten
  <2> HIDE DEF n, m
  <2> QED
    BY <1>1, <2>1, <2>2
<1>4. ASSUME NEW c \in Consumers, GetWait(c) PROVE Waiting' <= m
  <2>1. Waiting' = 0
    BY <1>0, <1>4, WaitingRange DEF GetWait, Waiting, ringVars
  <2> QED
    BY <1>1, <2>1
<1>5. ASSUME Waiting' = Waiting,
             \/ UNCHANGED pc
             \/ \E t \in Threads : CallPut(t) \/ CallGet(t) \/ Wait(t)
             \/ \E t \in Threads \ Consumers : PutWait(t) \/ GetWait(t)
      PROVE  Waiting' <= m
  <2>1. Asleep(Consumers) # {} /\ m >= n
    BY <1>0, <1>5, QuietGroup
  <2>2. Waiting <= n
    BY <2>1 DEF NoConsumerForgotten
  <2> HIDE DEF n, m
  <2> QED
    BY <1>1, <1>5, <2>1, <2>2
<1>6. CASE /\ ~ \E p \in Producers : PutInsert(p)
           /\ ~ \E c \in Consumers : GetExtract(c)
           /\ ~ \E c \in Consumers : GetWait(c)
  <2>1. Waiting' = Waiting
    BY <1>6, QuietStep DEF Waiting
  <2>2. \/ UNCHANGED pc
        \/ \E t \in Threads : CallPut(t) \/ CallGet(t) \/ Wait(t)
        \/ \E t \in Threads \ Consumers : PutWait(t) \/ GetWait(t)
    BY <1>0, <1>6 DEF Next, Put, Get, vars
  <2> QED
    BY <1>5, <2>1, <2>2
<1> QED
  BY <1>2, <1>3, <1>4, <1>6

LEMMA ProducersStep ==
  ASSUME SignalsReach(Producers)
  PROVE  IInv /\ NoProducerForgotten /\ [Next]_vars => NoProducerForgotten'
<1> SUFFICES ASSUME IInv, NoProducerForgotten, [Next]_vars, Asleep(Producers)' # {}
             PROVE  Capacity - Waiting' <= Cardinality(AboutToLock(Producers)')
  BY DEF NoProducerForgotten
<1> DEFINE n == Cardinality(AboutToLock(Producers))
           m == Cardinality(AboutToLock(Producers)')
<1>0. /\ TypeOK
      /\ Producers \subseteq Threads /\ Consumers \subseteq Threads
      /\ Producers \cap Consumers = {}
  BY CondAssumption DEF IInv, Threads
<1>1. n \in Nat /\ m \in Nat /\ Waiting \in Int /\ Capacity \in Int
  BY <1>0, LockersFinite, LockersFinitePrime, WaitingRange, QSizeAssumption
     DEF Capacity
<1>2. ASSUME NEW c \in Consumers, GetExtract(c) PROVE Capacity - Waiting' <= m
  <2>1. Asleep(Producers) # {} /\ m = n + 1
    BY <1>0, <1>2, SignalCounts DEF GetExtract
  <2>2. Waiting' = Waiting - 1 /\ Capacity - Waiting <= n
    BY <1>2, <2>1, FifoExtract DEF NoProducerForgotten
  <2> HIDE DEF n, m
  <2> QED
    BY <1>1, <2>1, <2>2
<1>3. ASSUME NEW p \in Producers, PutInsert(p) PROVE Capacity - Waiting' <= m
  <2>1. Asleep(Producers) # {} /\ m = n - 1
    BY <1>0, <1>3, LeaverCounts DEF PutInsert
  <2>2. Waiting' = Waiting + 1 /\ Capacity - Waiting <= n
    BY <1>3, <2>1, FifoInsert DEF NoProducerForgotten
  <2> HIDE DEF n, m
  <2> QED
    BY <1>1, <2>1, <2>2
<1>4. ASSUME NEW p \in Producers, PutWait(p) PROVE Capacity - Waiting' <= m
  <2>1. Waiting' = Capacity
    BY <1>0, <1>4, WaitingRange DEF PutWait, Waiting, ringVars
  <2> QED
    BY <1>1, <2>1
<1>5. ASSUME Waiting' = Waiting,
             \/ UNCHANGED pc
             \/ \E t \in Threads : CallPut(t) \/ CallGet(t) \/ Wait(t)
             \/ \E t \in Threads \ Producers : PutWait(t) \/ GetWait(t)
      PROVE  Capacity - Waiting' <= m
  <2>1. Asleep(Producers) # {} /\ m >= n
    BY <1>0, <1>5, QuietGroup
  <2>2. Capacity - Waiting <= n
    BY <2>1 DEF NoProducerForgotten
  <2> HIDE DEF n, m
  <2> QED
    BY <1>1, <1>5, <2>1, <2>2
<1>6. CASE /\ ~ \E c \in Consumers : GetExtract(c)
           /\ ~ \E p \in Producers : PutInsert(p)
           /\ ~ \E p \in Producers : PutWait(p)
  <2>1. Waiting' = Waiting
    BY <1>6, QuietStep DEF Waiting
  <2>2. \/ UNCHANGED pc
        \/ \E t \in Threads : CallPut(t) \/ CallGet(t) \/ Wait(t)
        \/ \E t \in Threads \ Producers : PutWait(t) \/ GetWait(t)
    BY <1>0, <1>6 DEF Next, Put, Get, vars
  <2> QED
    BY <1>5, <2>1, <2>2
<1> QED
  BY <1>2, <1>3, <1>4, <1>6

\* While a consumer sleeps, every waiting command has a consumer on its way
\* to fetch it: one signal for each put is enough for any number of threads.
\* (Of several, none may take the signal of another after its timeout.)
THEOREM ConsumersRemembered ==
  ASSUME SignalsReach(Consumers)
  PROVE  Spec => []NoConsumerForgotten
<1>1. Init => NoConsumerForgotten
  BY DEF Init, NoConsumerForgotten, Asleep, Threads
<1>2. IInv /\ NoConsumerForgotten /\ [Next]_vars => NoConsumerForgotten'
  BY ConsumersStep
<1> QED
  BY <1>1, <1>2, Invariance, PTL DEF Spec

\* While a producer sleeps, every free slot has a producer on its way to
\* fill it, under the same condition.
THEOREM ProducersRemembered ==
  ASSUME SignalsReach(Producers)
  PROVE  Spec => []NoProducerForgotten
<1>1. Init => NoProducerForgotten
  BY DEF Init, NoProducerForgotten, Asleep, Threads
<1>2. IInv /\ NoProducerForgotten /\ [Next]_vars => NoProducerForgotten'
  BY ProducersStep
<1> QED
  BY <1>1, <1>2, Invariance, PTL DEF Spec
=============================================================================
