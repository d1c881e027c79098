------------------------------ MODULE CondCmdQ -------------------------------
(***************************************************************************)
(* struct cond_cmd_q of greenev (cmdq_cv.c): a ring of commands guarded by *)
(* a mutex and two condition variables, with blocking and timed variants   *)
(* of put and get.                                                         *)
(*                                                                         *)
(* Every access to the ring is made with q_mtx held, so what a thread does *)
(* between taking the mutex and giving it back (by unlocking or by         *)
(* waiting) is one step.  The asserts on the indexes read them without the *)
(* mutex; each index is advanced by one store of its new value, so they    *)
(* see what TypeOK allows and nothing else.                                *)
(***************************************************************************)
EXTENDS RingIndex, FiniteSets

CONSTANTS Producers,   \* threads that call cond_cmd_q_put / timed_put
          Consumers,   \* threads that call cond_cmd_q_get / timed_get
          Timed,       \* those of them that use the timed variant
          MaxPuts,     \* bound: calls of put per producer
          NoCmd,       \* the indeterminate contents of a malloc'ed slot
          LateSignals  \* POSIX: a wait that has timed out "may consume a
                       \* condition signal directed concurrently" at it

Threads == Producers \cup Consumers
Cmd == Producers \X (1 .. MaxPuts)

ASSUME CondAssumption ==
  /\ IsFiniteSet(Threads)
  /\ Producers \cap Consumers = {}
  /\ Timed \subseteq Threads
  /\ MaxPuts \in Nat
  /\ NoCmd \notin Cmd
  /\ LateSignals \in BOOLEAN

VARIABLES
  q_head, q_tail, q,  \* the ring
  pc,        \* "idle" outside the queue, "lock" about to take the mutex
             \* (on entry or after a wake-up), "wait" asleep on a condition,
             \* "timedout" woken by the clock, about to take the mutex
  issued,    \* how many puts each producer has called
  accepted,  \* history: commands inserted, in order
  taken      \* history: commands retrieved, in order

ringVars == <<q_head, q_tail, q>>
histVars == <<accepted, taken>>
vars == <<ringVars, pc, issued, histVars>>

\* cond_cmd_q_new.
Init ==
  /\ q_head = 0 /\ q_tail = 0
  /\ q = [i \in Slots |-> NoCmd]
  /\ pc = [t \in Threads |-> "idle"]
  /\ issued = [p \in Producers |-> 0]
  /\ accepted = <<>> /\ taken = <<>>
-----------------------------------------------------------------------------
\* Mutant: the full queue whose head is in the last slot is not noticed.
full_unwrapped == q_tail = q_head + 1

\* Mutant: the last usable slot is not used while the tail is in slot 0.
full_early ==
  IF q_tail > 0 THEN q_tail = q_head + 1 ELSE q_head >= QSize - 2

cond_cmd_q_full ==
  IF q_tail > 0 THEN q_tail = q_head + 1 ELSE q_head = QSize - 1

cond_cmd_q_empty == q_tail = q_head

\* cond_cmd_q_size.  Nothing in the repository calls it; CondCmdQProofs says
\* when its answer is the number of commands.
cond_cmd_q_size ==
  IF q_tail > q_head THEN (IF q_tail = q_head + 1 THEN 1 ELSE 0)
                     ELSE q_head - q_tail

\* _cond_cmd_q_getabstimeout: the moment timeout_ms milliseconds after `now',
\* a struct timeval, as a struct timespec.
abstimeout(now, timeout_ms) ==
  LET sec  == now.sec + timeout_ms \div 1000
      nsec == now.usec * 1000 + (timeout_ms % 1000) * 1000000
  IN  IF nsec > 999999999 THEN [sec |-> sec + 1, nsec |-> nsec % 1000000000]
                          ELSE [sec |-> sec, nsec |-> nsec]

Asleep(group) == {t \in group : pc[t] = "wait"}
AboutToLock(group) == {t \in group : pc[t] = "lock"}
GaveUp(group) == {t \in group : pc[t] = "timedout"}

\* Thread t leaves the queue and signals the condition on which the threads
\* of the group wait: one of those it may reach is taken off the condition.
LeaveAndSignal(t, group) ==
  LET reach == Asleep(group) \cup (IF LateSignals THEN GaveUp(group) ELSE {})
      left == [pc EXCEPT ![t] = "idle"]
  IN  IF reach = {}
      THEN pc' = left
      ELSE \E u \in reach :
             pc' = IF u \in Asleep(group) THEN [left EXCEPT ![u] = "lock"]
                                          ELSE left
-----------------------------------------------------------------------------
(* cond_cmd_q_put and cond_cmd_q_timed_put *)

CallPut(p) ==
  /\ pc[p] = "idle"
  /\ issued[p] < MaxPuts
  /\ issued' = [issued EXCEPT ![p] = @ + 1]
  /\ pc' = [pc EXCEPT ![p] = "lock"]
  /\ UNCHANGED <<ringVars, histVars>>

PutWait(p) ==
  /\ pc[p] = "lock"
  /\ cond_cmd_q_full
  /\ pc' = [pc EXCEPT ![p] = "wait"]
  /\ UNCHANGED <<ringVars, issued, histVars>>

\* Mutant: the wrong condition is signalled.
PutInsertWrongCondition(p) ==
  /\ pc[p] = "lock"
  /\ ~cond_cmd_q_full
  /\ q' = [q EXCEPT ![q_head] = <<p, issued[p]>>]
  /\ q_head' = NextSlot(q_head)
  /\ accepted' = Append(accepted, <<p, issued[p]>>)
  /\ LeaveAndSignal(p, Producers)
  /\ UNCHANGED <<q_tail, issued, taken>>

\* _cond_cmd_q_put_internal and the unlock.
PutInsert(p) ==
  /\ pc[p] = "lock"
  /\ ~cond_cmd_q_full
  /\ q' = [q EXCEPT ![q_head] = <<p, issued[p]>>]
  /\ q_head' = NextSlot(q_head)
  /\ accepted' = Append(accepted, <<p, issued[p]>>)
  /\ LeaveAndSignal(p, Consumers)
  /\ UNCHANGED <<q_tail, issued, taken>>

(* cond_cmd_q_get and cond_cmd_q_timed_get *)

CallGet(c) ==
  /\ pc[c] = "idle"
  /\ pc' = [pc EXCEPT ![c] = "lock"]
  /\ UNCHANGED <<ringVars, issued, histVars>>

GetWait(c) ==
  /\ pc[c] = "lock"
  /\ cond_cmd_q_empty
  /\ pc' = [pc EXCEPT ![c] = "wait"]
  /\ UNCHANGED <<ringVars, issued, histVars>>

\* Mutant: `not full' is signalled only by the get that ends fullness.
GetExtractThrifty(c) ==
  /\ pc[c] = "lock"
  /\ ~cond_cmd_q_empty
  /\ taken' = Append(taken, q[q_tail])
  /\ q_tail' = NextSlot(q_tail)
  /\ LeaveAndSignal(c, IF cond_cmd_q_full THEN Producers ELSE {})
  /\ UNCHANGED <<q_head, q, issued, accepted>>

\* Mutant: `not full' is never signalled.
GetExtractSilent(c) ==
  /\ pc[c] = "lock"
  /\ ~cond_cmd_q_empty
  /\ taken' = Append(taken, q[q_tail])
  /\ q_tail' = NextSlot(q_tail)
  /\ pc' = [pc EXCEPT ![c] = "idle"]
  /\ UNCHANGED <<q_head, q, issued, accepted>>

\* _cond_cmd_q_get_internal and the unlock.
GetExtract(c) ==
  /\ pc[c] = "lock"
  /\ ~cond_cmd_q_empty
  /\ taken' = Append(taken, q[q_tail])
  /\ q_tail' = NextSlot(q_tail)
  /\ LeaveAndSignal(c, Producers)
  /\ UNCHANGED <<q_head, q, issued, accepted>>

(* pthread_cond_wait and pthread_cond_timedwait *)

Spurious(t) ==
  /\ pc[t] = "wait"
  /\ pc' = [pc EXCEPT ![t] = "lock"]
  /\ UNCHANGED <<ringVars, issued, histVars>>

Timeout(t) ==
  /\ t \in Timed
  /\ pc[t] = "wait"
  /\ pc' = [pc EXCEPT ![t] = "timedout"]
  /\ UNCHANGED <<ringVars, issued, histVars>>

\* ETIMEDOUT: 0 is returned without another look at the ring.
GiveUp(t) ==
  /\ pc[t] = "timedout"
  /\ pc' = [pc EXCEPT ![t] = "idle"]
  /\ UNCHANGED <<ringVars, issued, histVars>>

Put(p) == CallPut(p) \/ PutWait(p) \/ PutInsert(p)
Get(c) == CallGet(c) \/ GetWait(c) \/ GetExtract(c)
Wait(t) == Spurious(t) \/ Timeout(t) \/ GiveUp(t)

Next ==
  \/ \E p \in Producers : Put(p)
  \/ \E c \in Consumers : Get(c)
  \/ \E t \in Threads : Wait(t)

\* A thread inside a call goes on, a timeout passes, and a consumer calls
\* again (EventLoop.run in pyge/evloop.py); a producer need not put.
Fairness ==
  /\ \A p \in Producers : WF_vars(PutWait(p) \/ PutInsert(p))
  /\ \A c \in Consumers : WF_vars(Get(c))
  /\ \A t \in Threads : WF_vars(Timeout(t)) /\ WF_vars(GiveUp(t))

Spec == Init /\ [][Next]_vars /\ Fairness
-----------------------------------------------------------------------------
(* Properties *)

TypeOK ==
  /\ q_head \in Slots /\ q_tail \in Slots
  /\ q \in [Slots -> Cmd \cup {NoCmd}]
  /\ pc \in [Threads -> {"idle", "lock", "wait", "timedout"}]
  /\ issued \in [Producers -> 0 .. MaxPuts]
  /\ accepted \in Seq(Cmd)
  /\ taken \in Seq(Cmd)

Waiting == Held(q_head, q_tail)

\* A consumer that sleeps has not been forgotten: every waiting command has
\* a consumer on its way to the mutex to fetch it.  Each put signals once,
\* so this is where one lost or misdirected signal shows (put_internal's
\* pthread_cond_signal against the wait of get and timed_get).
NoConsumerForgotten ==
  Asleep(Consumers) # {} => Waiting <= Cardinality(AboutToLock(Consumers))

\* The same for producers: while one sleeps, every free slot has a producer
\* on its way to fill it.
NoProducerForgotten ==
  Asleep(Producers) # {} =>
    Capacity - Waiting <= Cardinality(AboutToLock(Producers))

\* Commands come out as they went in, none lost and none twice, through
\* blocked, woken and timed-out calls; a put waits only when Capacity
\* commands are in the queue (a bounded channel).
Chan == INSTANCE CmdChannel WITH
          Cmds <- Cmd, Bound <- Capacity, log <- accepted, out <- taken

ImplementsChannel == Chan!Spec

\* A put blocks only on a queue with Capacity commands, a get only on an
\* empty one: full and empty are never confused although both compare the
\* same two indexes (cond_cmd_q_full, cond_cmd_q_empty).
BlocksOnlyAtLimits ==
  [][\A t \in Threads :
       (pc[t] = "lock" /\ pc'[t] = "wait") =>
         Len(accepted) - Len(taken) = IF t \in Producers THEN Capacity ELSE 0
    ]_vars

Was(c, hist) == \E i \in DOMAIN hist : hist[i] = c

\* What a put inserts is retrieved, as long as the consumers keep calling.
PutIsTaken == \A c \in Cmd : Was(c, accepted) ~> Was(c, taken)

\* A blocked put returns once the consumers make room.
BlockedPutReturns ==
  \A p \in Producers : pc[p] = "wait" ~> pc[p] = "idle"
-----------------------------------------------------------------------------
(* An inductive invariant; the two wake-up properties rest on it. *)

\* What has been taken, followed by what the ring holds from tail to head, is
\* exactly the sequence of inserted commands.
FifoExact ==
  LET n == Len(taken)
  IN  /\ Len(accepted) = n + Waiting
      /\ \A i \in 1 .. n : taken[i] = accepted[i]
      /\ \A k \in 1 .. Waiting : q[SlotAt(q_tail, k)] = accepted[n + k]

\* A thread inside put has a command to insert.
IssuedInv == \A p \in Producers : pc[p] # "idle" => issued[p] >= 1

IInv == TypeOK /\ IssuedInv /\ FifoExact
=============================================================================
