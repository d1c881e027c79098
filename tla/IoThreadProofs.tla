---------------------------- MODULE IoThreadProofs ----------------------------
(***************************************************************************)
(* IoThread for any number of sockets, callers and slots: every descriptor *)
(* is in one place, and each goes along the road of SocketLife.            *)
(***************************************************************************)
EXTENDS IoThread, SequenceTheorems, FiniteSetTheorems, TLAPS

-----------------------------------------------------------------------------
(* Lists and what is in them *)

LEMMA EmptyList == SetOf(<<>>) = {} /\ IsInjective(<<>>)
  BY DEF SetOf, IsInjective

LEMMA AppendList ==
  ASSUME NEW S, NEW list \in Seq(S), NEW s \in S
  PROVE  /\ Append(list, s) \in Seq(S) /\ Append(list, s) # <<>>
         /\ SetOf(Append(list, s)) = SetOf(list) \cup {s}
         /\ IsInjective(list) /\ s \notin SetOf(list)
              => IsInjective(Append(list, s))
<1> DEFINE t == Append(list, s)
<1>1. /\ t \in Seq(S) /\ DOMAIN list = 1 .. Len(list) /\ Len(list) \in Nat
      /\ DOMAIN t = 1 .. Len(list) + 1 /\ t[Len(list) + 1] = s
      /\ \A i \in 1 .. Len(list) : t[i] = list[i]
  OBVIOUS
<1> HIDE DEF t
<1>2. t # <<>>
  BY <1>1
<1>3. SetOf(t) = SetOf(list) \cup {s}
  BY <1>1 DEF SetOf
<1>4. ASSUME IsInjective(list), s \notin SetOf(list) PROVE IsInjective(t)
  BY <1>1, <1>4 DEF SetOf, IsInjective
<1> QED
  BY <1>1, <1>2, <1>3, <1>4 DEF t

LEMMA TailList ==
  ASSUME NEW S, NEW list \in Seq(S), list # <<>>
  PROVE  /\ Head(list) \in S /\ Tail(list) \in Seq(S)
         /\ SetOf(list) = SetOf(Tail(list)) \cup {Head(list)}
         /\ IsInjective(list) => /\ IsInjective(Tail(list))
                                 /\ Head(list) \notin SetOf(Tail(list))
<1> DEFINE t == Tail(list)
<1>1. /\ t \in Seq(S) /\ DOMAIN list = 1 .. Len(list) /\ Len(list) \in Nat \ {0}
      /\ DOMAIN t = 1 .. Len(list) - 1 /\ Head(list) = list[1] /\ list[1] \in S
      /\ \A i \in 1 .. Len(list) - 1 : t[i] = list[i + 1]
  OBVIOUS
<1> HIDE DEF t
<1>2. \A i \in 2 .. Len(list) : i - 1 \in DOMAIN t /\ list[i] = t[i - 1]
  BY <1>1
<1>3. SetOf(list) = SetOf(t) \cup {list[1]}
  <2>1. ASSUME NEW i \in DOMAIN list, i # 1 PROVE list[i] \in SetOf(t)
    <3>1. i - 1 \in DOMAIN t /\ list[i] = t[i - 1]
      BY <1>1, <1>2, <2>1
    <3> QED
      BY <3>1 DEF SetOf
  <2>2. ASSUME NEW i \in DOMAIN t PROVE t[i] \in SetOf(list)
    <3>1. i + 1 \in DOMAIN list /\ t[i] = list[i + 1]
      BY <1>1
    <3> QED
      BY <3>1 DEF SetOf
  <2>3. list[1] \in SetOf(list)
    BY <1>1 DEF SetOf
  <2> QED
    BY <2>1, <2>2, <2>3 DEF SetOf
<1>4. ASSUME IsInjective(list)
      PROVE  IsInjective(t) /\ list[1] \notin SetOf(t)
  <2>1. \A i \in DOMAIN t : i + 1 \in DOMAIN list /\ t[i] = list[i + 1] /\ i + 1 # 1
    BY <1>1
  <2>2. \A i, j \in DOMAIN t : i + 1 = j + 1 => i = j
    BY <1>1
  <2> QED
    BY <1>1, <1>4, <2>1, <2>2 DEF IsInjective, SetOf
<1> QED
  BY <1>1, <1>3, <1>4 DEF t

LEMMA PrependList ==
  ASSUME NEW S, NEW list \in Seq(S), NEW s \in S
  PROVE  /\ <<s>> \o list \in Seq(S)
         /\ SetOf(<<s>> \o list) = SetOf(list) \cup {s}
         /\ IsInjective(list) /\ s \notin SetOf(list)
              => IsInjective(<<s>> \o list)
<1> DEFINE t == <<s>> \o list
<1>1. /\ t \in Seq(S) /\ DOMAIN list = 1 .. Len(list) /\ Len(list) \in Nat
      /\ DOMAIN t = 1 .. Len(list) + 1 /\ t[1] = s
      /\ \A i \in 2 .. Len(list) + 1 : t[i] = list[i - 1]
  OBVIOUS
<1> HIDE DEF t
<1>2. \A i \in DOMAIN list : i + 1 \in DOMAIN t /\ list[i] = t[i + 1]
  BY <1>1
<1>3. \A i \in DOMAIN t : i # 1 => i - 1 \in DOMAIN list /\ t[i] = list[i - 1]
  BY <1>1
<1>4. SetOf(t) = SetOf(list) \cup {s}
  <2>1. \A i \in DOMAIN t : t[i] \in SetOf(list) \cup {s}
    BY <1>1, <1>3 DEF SetOf
  <2>2. \A i \in DOMAIN list : list[i] \in SetOf(t)
    BY <1>2 DEF SetOf
  <2>3. s \in SetOf(t)
    BY <1>1 DEF SetOf
  <2> QED
    BY <2>1, <2>2, <2>3 DEF SetOf
<1>5. ASSUME IsInjective(list), s \notin SetOf(list) PROVE IsInjective(t)
  <2>1. \A i, j \in DOMAIN t : i - 1 = j - 1 => i = j
    BY <1>1
  <2> QED
    BY <1>1, <1>3, <1>5, <2>1 DEF SetOf, IsInjective
<1> QED
  BY <1>1, <1>4, <1>5 DEF t

LEMMA UnlinkList ==
  ASSUME NEW S, NEW list \in Seq(S), NEW k \in DOMAIN list, IsInjective(list)
  PROVE  /\ RemoveAt(list, k) \in Seq(S) /\ IsInjective(RemoveAt(list, k))
         /\ SetOf(RemoveAt(list, k)) = SetOf(list) \ {list[k]}
<1> DEFINE t == RemoveAt(list, k)
           old(i) == IF i < k THEN i ELSE i + 1
<1>1. /\ DOMAIN list = 1 .. Len(list) /\ Len(list) \in Nat
      /\ k \in 1 .. Len(list) /\ \A i \in 1 .. Len(list) : list[i] \in S
  OBVIOUS
<1>2. /\ t \in Seq(S) /\ DOMAIN t = 1 .. Len(list) - 1
      /\ \A i \in DOMAIN t : t[i] = list[old(i)]
  <2>1. /\ SubSeq(list, 1, k - 1) \in Seq(S)
        /\ Len(SubSeq(list, 1, k - 1)) = k - 1
        /\ \A i \in 1 .. k - 1 : SubSeq(list, 1, k - 1)[i] = list[i]
    BY <1>1
  <2>2. /\ SubSeq(list, k + 1, Len(list)) \in Seq(S)
        /\ Len(SubSeq(list, k + 1, Len(list))) = Len(list) - k
        /\ \A i \in 1 .. Len(list) - k :
             SubSeq(list, k + 1, Len(list))[i] = list[k + i]
    <3>1. k + 1 \in 1 .. Len(list) + 1 /\ Len(list) \in (k + 1) - 1 .. Len(list)
      BY <1>1
    <3>2. /\ SubSeq(list, k + 1, Len(list)) \in Seq(S)
          /\ Len(SubSeq(list, k + 1, Len(list))) = Len(list) - (k + 1) + 1
          /\ \A i \in 1 .. Len(list) - (k + 1) + 1 :
               SubSeq(list, k + 1, Len(list))[i] = list[(k + 1) + i - 1]
      BY <3>1, SubSeqProperties
    <3>3. Len(list) - (k + 1) + 1 = Len(list) - k
      BY <1>1
    <3>4. \A i \in 1 .. Len(list) - k : (k + 1) + i - 1 = k + i
      BY <1>1
    <3> QED
      BY <3>2, <3>3, <3>4
  <2> DEFINE a == SubSeq(list, 1, k - 1)
             b == SubSeq(list, k + 1, Len(list))
  <2>3. t = a \o b
    BY DEF RemoveAt
  <2> HIDE DEF t, a, b
  <2>4. /\ a \in Seq(S) /\ Len(a) = k - 1 /\ \A i \in 1 .. k - 1 : a[i] = list[i]
        /\ b \in Seq(S) /\ Len(b) = Len(list) - k
        /\ \A i \in 1 .. Len(list) - k : b[i] = list[k + i]
    BY <2>1, <2>2 DEF a, b
  <2>5. /\ t \in Seq(S) /\ Len(t) = Len(a) + Len(b)
        /\ \A i \in 1 .. Len(a) + Len(b) :
             t[i] = IF i <= Len(a) THEN a[i] ELSE b[i - Len(a)]
    BY <2>3, <2>4, ConcatProperties
  <2>6. Len(t) = Len(list) - 1 /\ DOMAIN t = 1 .. Len(list) - 1
    BY <1>1, <2>4, <2>5
  <2>7. ASSUME NEW i \in DOMAIN t PROVE t[i] = list[old(i)]
    <3>1. CASE i < k
      BY <1>1, <2>4, <2>5, <2>6, <3>1
    <3>2. CASE i >= k
      <4>1. i \in 1 .. Len(a) + Len(b) /\ ~(i <= Len(a))
        BY <1>1, <2>4, <2>6, <3>2
      <4>2. t[i] = b[i - (k - 1)]
        BY <2>4, <2>5, <4>1
      <4>3. i - (k - 1) \in 1 .. Len(list) - k /\ k + (i - (k - 1)) = i + 1
        BY <1>1, <2>6, <3>2
      <4>4. b[i - (k - 1)] = list[i + 1]
        BY <2>4, <4>3
      <4> QED
        BY <1>1, <2>6, <3>2, <4>2, <4>4
    <3> QED
      BY <1>1, <2>6, <3>1, <3>2
  <2> QED
    BY <2>5, <2>6, <2>7
<1> HIDE DEF t
<1>3. \A i \in DOMAIN t : old(i) \in DOMAIN list /\ old(i) # k
  BY <1>1, <1>2
<1>4. \A i, j \in DOMAIN t : old(i) = old(j) => i = j
  BY <1>1, <1>2
<1>5. \A j \in DOMAIN list : j # k => \E i \in DOMAIN t : old(i) = j
  <2> SUFFICES ASSUME NEW j \in DOMAIN list, j # k
               PROVE  \E i \in DOMAIN t : old(i) = j
    OBVIOUS
  <2>1. CASE j < k
    BY <1>1, <1>2, <2>1
  <2>2. CASE j > k
    <3>1. j - 1 \in DOMAIN t /\ old(j - 1) = j
      BY <1>1, <1>2, <2>2
    <3> QED
      BY <3>1
  <2> QED
    BY <1>1, <2>1, <2>2
<1> HIDE DEF old
<1>6. IsInjective(t)
  BY <1>2, <1>3, <1>4 DEF IsInjective
<1>7. SetOf(t) = SetOf(list) \ {list[k]}
  <2>1. \A i \in DOMAIN t : t[i] \in SetOf(list) /\ t[i] # list[k]
    BY <1>2, <1>3 DEF SetOf, IsInjective
  <2>2. \A j \in DOMAIN list : list[j] # list[k] => list[j] \in SetOf(t)
    BY <1>2, <1>5 DEF SetOf
  <2> QED
    BY <2>1, <2>2 DEF SetOf
<1> QED
  BY <1>2, <1>6, <1>7 DEF t

LEMMA SuffixList ==
  ASSUME NEW S, NEW list \in Seq(S), NEW rest \in LeftOpen(list), IsInjective(list)
  PROVE  /\ rest \in Seq(S) /\ IsInjective(rest)
         /\ SetOf(rest) \subseteq SetOf(list)
<1>1. CASE rest = <<>>
  <2>1. <<>> \in Seq(S)
    OBVIOUS
  <2> QED
    BY <1>1, <2>1, EmptyList
<1>2. ASSUME NEW k \in 2 .. Len(list), rest = SubSeq(list, k, Len(list))
      PROVE  /\ rest \in Seq(S) /\ IsInjective(rest)
             /\ SetOf(rest) \subseteq SetOf(list)
  <2>1. DOMAIN list = 1 .. Len(list) /\ Len(list) \in Nat
    OBVIOUS
  <2>2. /\ SubSeq(list, k, Len(list)) \in Seq(S)
        /\ Len(SubSeq(list, k, Len(list))) = Len(list) - k + 1
        /\ \A i \in 1 .. Len(list) - k + 1 :
             SubSeq(list, k, Len(list))[i] = list[k + i - 1]
    BY <2>1
  <2>3. /\ rest \in Seq(S) /\ DOMAIN rest = 1 .. Len(list) - k + 1
        /\ \A i \in DOMAIN rest : rest[i] = list[k + i - 1]
    BY <1>2, <2>2
  <2>4. \A i \in DOMAIN rest : k + i - 1 \in DOMAIN list
    BY <2>1, <2>3
  <2>5. \A i, j \in DOMAIN rest : k + i - 1 = k + j - 1 => i = j
    BY <2>3
  <2> QED
    BY <2>3, <2>4, <2>5 DEF IsInjective, SetOf
<1> QED
  BY <1>1, <1>2 DEF LeftOpen

-----------------------------------------------------------------------------
(* The queue, and the sockets it hands over *)

ArgsOf(q) == {q[i].arg : i \in DOMAIN q} \ {NoSocket}

OnceInQueue(q) ==
  \A i, j \in DOMAIN q : q[i].arg = q[j].arg /\ q[i].arg # NoSocket => i = j

LEMMA AppendQueue ==
  ASSUME NEW q \in Seq(Commands), NEW cmd \in Commands
  PROVE  /\ Append(q, cmd) \in Seq(Commands)
         /\ Len(Append(q, cmd)) = Len(q) + 1
         /\ ArgsOf(Append(q, cmd)) = ArgsOf(q) \cup ({cmd.arg} \ {NoSocket})
         /\ OnceInQueue(q) /\ cmd.arg \notin ArgsOf(q)
              => OnceInQueue(Append(q, cmd))
<1> DEFINE t == Append(q, cmd)
<1>1. /\ t \in Seq(Commands) /\ DOMAIN q = 1 .. Len(q) /\ Len(q) \in Nat
      /\ Len(t) = Len(q) + 1
      /\ DOMAIN t = 1 .. Len(q) + 1 /\ t[Len(q) + 1] = cmd
      /\ \A i \in 1 .. Len(q) : t[i] = q[i]
  OBVIOUS
<1> HIDE DEF t
<1>2. ArgsOf(t) = ArgsOf(q) \cup ({cmd.arg} \ {NoSocket})
  <2>1. \A i \in DOMAIN t : i \in DOMAIN q \/ i = Len(q) + 1
    BY <1>1
  <2>2. DOMAIN q \subseteq DOMAIN t /\ Len(q) + 1 \in DOMAIN t
    BY <1>1
  <2> QED
    BY <1>1, <2>1, <2>2 DEF ArgsOf
<1>3. ASSUME OnceInQueue(q), cmd.arg \notin ArgsOf(q) PROVE OnceInQueue(t)
  BY <1>1, <1>3 DEF ArgsOf, OnceInQueue
<1> QED
  BY <1>1, <1>2, <1>3 DEF t

LEMMA TailQueue ==
  ASSUME NEW q \in Seq(Commands), q # <<>>
  PROVE  /\ Head(q) \in Commands /\ Tail(q) \in Seq(Commands)
         /\ Len(Tail(q)) = Len(q) - 1
         /\ ArgsOf(q) = ArgsOf(Tail(q)) \cup ({Head(q).arg} \ {NoSocket})
         /\ OnceInQueue(q) => /\ OnceInQueue(Tail(q))
                              /\ Head(q).arg \notin ArgsOf(Tail(q))
<1> DEFINE t == Tail(q)
<1>1. /\ t \in Seq(Commands) /\ DOMAIN q = 1 .. Len(q) /\ Len(q) \in Nat \ {0}
      /\ Len(t) = Len(q) - 1 /\ DOMAIN t = 1 .. Len(q) - 1
      /\ Head(q) = q[1] /\ q[1] \in Commands
      /\ \A i \in 1 .. Len(q) - 1 : t[i] = q[i + 1]
  OBVIOUS
<1> HIDE DEF t
<1>2. \A i \in DOMAIN q : i # 1 => i - 1 \in DOMAIN t /\ q[i] = t[i - 1]
  BY <1>1
<1>3. \A i \in DOMAIN t : i + 1 \in DOMAIN q /\ t[i] = q[i + 1] /\ i + 1 # 1
  BY <1>1
<1>4. ArgsOf(q) = ArgsOf(t) \cup ({q[1].arg} \ {NoSocket})
  <2>1. \A i \in DOMAIN q : i # 1 => q[i].arg \in {t[j].arg : j \in DOMAIN t}
    BY <1>2
  <2>2. \A i \in DOMAIN t : t[i].arg \in {q[j].arg : j \in DOMAIN q}
    BY <1>3
  <2>3. 1 \in DOMAIN q
    BY <1>1
  <2> QED
    BY <2>1, <2>2, <2>3 DEF ArgsOf
<1>5. ASSUME OnceInQueue(q) PROVE OnceInQueue(t) /\ q[1].arg \notin ArgsOf(t)
  <2>1. \A i, j \in DOMAIN t : i + 1 = j + 1 => i = j
    BY <1>1
  <2>2. 1 \in DOMAIN q
    BY <1>1
  <2> QED
    BY <1>3, <1>5, <2>1, <2>2 DEF OnceInQueue, ArgsOf
<1> QED
  BY <1>1, <1>4, <1>5 DEF t

\* The invariants in these terms.
LEMMA QueueForm ==
  /\ Handed = ArgsOf(cmd_q) /\ Handed' = ArgsOf(cmd_q')
  /\ DistinctInv <=> /\ \A c \in Callers : IsInjective(listen_socket[c])
                     /\ OnceInQueue(cmd_q)
                     /\ IsInjective(listening) /\ IsInjective(established)
  /\ DistinctInv' <=> /\ \A c \in Callers : IsInjective(listen_socket'[c])
                      /\ OnceInQueue(cmd_q')
                      /\ IsInjective(listening') /\ IsInjective(established')
  BY DEF Handed, ArgsOf, DistinctInv, OnceInQueue, IsInjective

LEMMA InPreparing ==
  /\ \A s : s \in Preparing <=> \E c \in Callers : s \in SetOf(listen_socket[c])
  /\ \A s : s \in Preparing' <=> \E c \in Callers : s \in SetOf(listen_socket'[c])
  BY DEF Preparing, SetOf

-----------------------------------------------------------------------------
(* The slots *)

\* A get takes at most as many slots as are asked for.
LEMMA GotRange ==
  ASSUME TypeOK
  PROVE  Got(WantedIov) \in 0 .. WantedIov
<1> DEFINE n == WantedIov
           N == SlotCount
           t == free_slots_tail
<1>1. /\ n \in Nat \ {0} /\ N \in Nat \ {0} /\ n <= N /\ t \in 0 .. N - 1
  BY IoThreadAssumption DEF TypeOK, Slots
<1>2. \A k \in 0 .. N - 1 : (t + k) % N = IF t + k < N THEN t + k ELSE t + k - N
  BY <1>1
<1>3. \E k \in 0 .. n : /\ \A j \in 0 .. k - 1 : ~io_buffer_empty(j)
                        /\ k = n \/ io_buffer_empty(k)
  <2>1. CASE \A j \in 0 .. n - 1 : ~io_buffer_empty(j)
    BY <1>1, <2>1
  <2>2. ASSUME NEW k \in 0 .. n - 1, io_buffer_empty(k)
        PROVE  \A j \in 0 .. k - 1 : ~io_buffer_empty(j)
    <3> SUFFICES ASSUME NEW j \in 0 .. k - 1, io_buffer_empty(j) PROVE FALSE
      OBVIOUS
    <3>1. (t + k) % N = (t + j) % N
      BY <2>2 DEF io_buffer_empty, TailAfter
    <3>2. k \in 0 .. N - 1 /\ j \in 0 .. N - 1 /\ j < k
      BY <1>1
    <3> QED
      BY <1>1, <1>2, <3>1, <3>2
  <2> QED
    BY <1>1, <2>1, <2>2
<1> QED
  BY <1>3 DEF Got

-----------------------------------------------------------------------------
(* What each action does with the places of the sockets *)

\* What the actions in this group do concerns no descriptor and no place.
Quiet ==
  \/ \E c \in Callers : Listen(c)
  \/ Start \/ Wake \/ Drained \/ Return \/ Leave
  \/ UNCHANGED vars

LEMMA QuietFacts ==
  ASSUME IInv, Quiet
  PROVE  /\ UNCHANGED <<fd, listen_socket, cmd_q, refused, listening,
                        established, watching>>
         /\ Preparing' = Preparing /\ Handed' = Handed /\ Listed' = Listed
<1> USE DEF callerVars, queueVars, listVars, ioVars
<1>1. UNCHANGED <<fd, listen_socket, cmd_q, refused, listening, established,
                  watching>>
  <2>1. CASE \E c \in Callers : Listen(c)
    BY <2>1 DEF Listen
  <2>2. CASE Start \/ Wake \/ Drained \/ Return \/ Leave
    BY <2>2 DEF Start, Wake, Drained, Return, Leave
  <2>3. CASE UNCHANGED vars
    BY <2>3 DEF vars
  <2> QED
    BY <2>1, <2>2, <2>3 DEF Quiet
<1> QED
  BY <1>1 DEF Preparing, Handed, Listed

\* io_thread_listen has opened s.
LEMMA OpenFacts ==
  ASSUME IInv, NEW c \in Callers, NEW s \in Sockets, Open(c, s)
  PROVE  /\ fd[s] = "none" /\ fd' = [fd EXCEPT ![s] = "open"]
         /\ Preparing' = Preparing \cup {s} /\ s \notin Preparing
         /\ SetOf(listen_socket'[c]) = SetOf(listen_socket[c]) \cup {s}
         /\ IsInjective(listen_socket'[c]) /\ listen_socket'[c] # <<>>
         /\ listen_socket'[c] \in Seq(Sockets)
         /\ listen_socket' = [listen_socket EXCEPT ![c] = listen_socket'[c]]
         /\ UNCHANGED <<cmd_q, refused, listening, established, watching>>
         /\ Handed' = Handed /\ Listed' = Listed
<1>1. /\ fd[s] = "none" /\ fd' = [fd EXCEPT ![s] = "open"]
      /\ listen_socket' = [listen_socket EXCEPT ![c] = Append(@, s)]
      /\ UNCHANGED <<cmd_q, refused, listening, established, watching>>
  BY DEF Open, queueVars, ioVars, listVars
<1>2. /\ listen_socket \in [Callers -> Seq(Sockets)]
      /\ IsInjective(listen_socket[c]) /\ s \notin Preparing
  BY <1>1 DEF IInv, TypeOK, DistinctInv, PlacesInv
<1>3. s \notin SetOf(listen_socket[c])
  BY <1>2, InPreparing
<1>4. /\ listen_socket'[c] = Append(listen_socket[c], s)
      /\ \A d \in Callers : d # c => listen_socket'[d] = listen_socket[d]
      /\ listen_socket' = [listen_socket EXCEPT ![c] = listen_socket'[c]]
  BY <1>1, <1>2
<1>5. /\ SetOf(listen_socket'[c]) = SetOf(listen_socket[c]) \cup {s}
      /\ IsInjective(listen_socket'[c]) /\ listen_socket'[c] # <<>>
      /\ listen_socket'[c] \in Seq(Sockets)
  BY <1>2, <1>3, <1>4, AppendList
<1>6. Preparing' = Preparing \cup {s}
  BY <1>4, <1>5, InPreparing
<1> QED
  BY <1>1, <1>2, <1>4, <1>5, <1>6 DEF Handed, Listed

\* One of its calls has failed.
LEMMA OpenFailsFacts ==
  ASSUME IInv, NEW c \in Callers, OpenFails(c)
  PROVE  /\ \E S \in SUBSET {s \in Sockets : fd[s] = "none"} :
              fd' = CloseIn(S \cup SetOf(listen_socket[c]))
         /\ Preparing' = Preparing \ SetOf(listen_socket[c])
         /\ listen_socket' = [listen_socket EXCEPT ![c] = <<>>]
         /\ UNCHANGED <<cmd_q, refused, listening, established, watching>>
         /\ Handed' = Handed /\ Listed' = Listed
<1>1. /\ \E S \in SUBSET {s \in Sockets : fd[s] = "none"} :
           fd' = CloseIn(S \cup SetOf(listen_socket[c]))
      /\ listen_socket' = [listen_socket EXCEPT ![c] = <<>>]
      /\ UNCHANGED <<cmd_q, refused, listening, established, watching>>
  BY DEF OpenFails, queueVars, ioVars, listVars
<1>2. /\ listen_socket \in [Callers -> Seq(Sockets)]
      /\ \A d \in Callers : d # c =>
           SetOf(listen_socket[c]) \cap SetOf(listen_socket[d]) = {}
  BY DEF IInv, TypeOK, PlacesInv
<1>3. /\ listen_socket'[c] = <<>>
      /\ \A d \in Callers : d # c => listen_socket'[d] = listen_socket[d]
  BY <1>1, <1>2
<1>4. SetOf(listen_socket'[c]) = {}
  BY <1>3, EmptyList
<1>5. Preparing' = Preparing \ SetOf(listen_socket[c])
  BY <1>2, <1>3, <1>4, InPreparing
<1> QED
  BY <1>1, <1>5 DEF Handed, Listed

\* io_thread_connect has connected s, after the sockets of S.
LEMMA ConnectFacts ==
  ASSUME IInv, NEW c \in Callers, NEW s \in Sockets, NEW S \in SUBSET Sockets,
         Connect(c, s, S)
  PROVE  /\ \A t \in S \cup {s} : fd[t] = "none"
         /\ s \notin S /\ fd' = [CloseIn(S) EXCEPT ![s] = "open"]
         /\ Preparing' = Preparing \cup {s}
         /\ listen_socket' = [listen_socket EXCEPT ![c] = <<s>>]
         /\ SetOf(listen_socket[c]) = {} /\ SetOf(listen_socket'[c]) = {s}
         /\ IsInjective(listen_socket'[c]) /\ listen_socket'[c] # <<>>
         /\ UNCHANGED <<cmd_q, refused, listening, established, watching>>
         /\ Handed' = Handed /\ Listed' = Listed
<1>1. /\ \A t \in S \cup {s} : fd[t] = "none"
      /\ s \notin S /\ fd' = [CloseIn(S) EXCEPT ![s] = "open"]
      /\ listen_socket' = [listen_socket EXCEPT ![c] = <<s>>]
      /\ pc[c] = "idle"
      /\ UNCHANGED <<cmd_q, refused, listening, established, watching>>
  BY DEF Connect, queueVars, ioVars, listVars
<1>2. listen_socket \in [Callers -> Seq(Sockets)] /\ listen_socket[c] = <<>>
  BY <1>1 DEF IInv, TypeOK, CallerInv
<1>3. /\ listen_socket'[c] = <<s>>
      /\ \A d \in Callers : d # c => listen_socket'[d] = listen_socket[d]
  BY <1>1, <1>2
<1>4. SetOf(listen_socket[c]) = {}
  BY <1>2, EmptyList
<1>5. SetOf(<<s>>) = {s} /\ IsInjective(<<s>>) /\ <<s>> # <<>>
  BY DEF SetOf, IsInjective
<1>6. Preparing' = Preparing \cup {s}
  BY <1>3, <1>4, <1>5, InPreparing
<1> QED
  BY <1>1, <1>3, <1>4, <1>5, <1>6 DEF Handed, Listed

\* One put: the socket goes into the queue, unless that is full.
LEMMA PutSocketFacts ==
  ASSUME IInv, NEW c \in Callers, PutSocket(c)
  PROVE  \E s \in Sockets :
           /\ s \in SetOf(listen_socket[c])
           /\ SetOf(listen_socket'[c]) = SetOf(listen_socket[c]) \ {s}
           /\ IsInjective(listen_socket'[c])
           /\ listen_socket'[c] \in Seq(Sockets)
           /\ listen_socket' = [listen_socket EXCEPT ![c] = listen_socket'[c]]
           /\ Preparing' = Preparing \ {s}
           /\ OnceInQueue(cmd_q')
           /\ cmd_q' \in Seq(Commands) /\ Len(cmd_q') <= QCapacity
           /\ \/ Handed' = Handed \cup {s} /\ refused' = refused
              \/ Handed' = Handed /\ refused' = refused \cup {s}
           /\ UNCHANGED <<fd, listening, established, watching>>
           /\ Listed' = Listed
<1> DEFINE s == Head(listen_socket[c])
           cmd == [id |-> IF pc[c] = "listen" THEN "LISTEN" ELSE "ESTABLISH",
                   arg |-> s]
<1>1. /\ pc[c] \in {"listen", "connect"} /\ Put(cmd)
      /\ listen_socket' = [listen_socket EXCEPT ![c] = Tail(@)]
      /\ UNCHANGED <<fd, listening, established, watching>>
  BY DEF PutSocket, ioVars, listVars
<1>2. /\ listen_socket \in [Callers -> Seq(Sockets)] /\ listen_socket[c] # <<>>
      /\ IsInjective(listen_socket[c])
      /\ cmd_q \in Seq(Commands) /\ Len(cmd_q) <= QCapacity /\ QCapacity \in Nat
      /\ NoSocket \notin Sockets
  BY <1>1, IoThreadAssumption DEF IInv, TypeOK, DistinctInv
<1>3. /\ listen_socket'[c] = Tail(listen_socket[c])
      /\ \A d \in Callers : d # c => listen_socket'[d] = listen_socket[d]
      /\ listen_socket' = [listen_socket EXCEPT ![c] = listen_socket'[c]]
  BY <1>1, <1>2
<1>4. /\ s \in Sockets /\ listen_socket'[c] \in Seq(Sockets)
      /\ s \in SetOf(listen_socket[c])
      /\ SetOf(listen_socket'[c]) = SetOf(listen_socket[c]) \ {s}
      /\ IsInjective(listen_socket'[c])
  BY <1>2, <1>3, TailList
<1>5. \A d \in Callers : d # c => s \notin SetOf(listen_socket[d])
  BY <1>4 DEF IInv, PlacesInv
<1>6. Preparing' = Preparing \ {s}
  BY <1>3, <1>4, <1>5, InPreparing
<1>7. s \in Preparing
  BY <1>4, InPreparing
<1>8. s \notin Handed
  BY <1>7 DEF IInv, PlacesInv
<1>9. cmd \in Commands /\ cmd.arg = s
  BY <1>4 DEF Commands
<1> HIDE DEF s, cmd
<1>10. CASE Len(cmd_q) < QCapacity
  <2>1. cmd_q' = Append(cmd_q, cmd) /\ refused' = refused
    BY <1>1, <1>10 DEF Put
  <2>2. OnceInQueue(cmd_q)
    BY QueueForm DEF IInv
  <2>3. /\ cmd_q' \in Seq(Commands) /\ Len(cmd_q') = Len(cmd_q) + 1
        /\ ArgsOf(cmd_q') = ArgsOf(cmd_q) \cup {s}
        /\ OnceInQueue(cmd_q')
    BY <1>2, <1>4, <1>8, <1>9, <2>1, <2>2, AppendQueue, QueueForm
  <2>4. Len(cmd_q') <= QCapacity
    BY <1>2, <1>10, <2>3
  <2> QED
    BY <1>1, <1>3, <1>4, <1>6, <2>1, <2>3, <2>4, QueueForm DEF Listed
<1>11. CASE ~(Len(cmd_q) < QCapacity)
  <2>1. cmd_q' = cmd_q /\ refused' = refused \cup {s}
    BY <1>1, <1>2, <1>4, <1>9, <1>11 DEF Put
  <2>2. OnceInQueue(cmd_q)
    BY QueueForm DEF IInv
  <2> QED
    BY <1>1, <1>2, <1>3, <1>4, <1>6, <2>1, <2>2, QueueForm DEF Listed
<1> QED
  BY <1>10, <1>11

\* The command DIE concerns no socket.
LEMMA DieFacts ==
  ASSUME IInv, Die
  PROVE  /\ UNCHANGED <<fd, listen_socket, refused, listening, established,
                        watching>>
         /\ cmd_q' \in Seq(Commands) /\ Len(cmd_q') <= QCapacity
         /\ OnceInQueue(cmd_q')
         /\ Preparing' = Preparing /\ Handed' = Handed /\ Listed' = Listed
<1> DEFINE cmd == [id |-> "DIE", arg |-> NoSocket]
<1>1. /\ Put(cmd)
      /\ UNCHANGED <<fd, listen_socket, listening, established, watching>>
  BY DEF Die, callerVars, ioVars, listVars
<1>2. /\ cmd_q \in Seq(Commands) /\ Len(cmd_q) <= QCapacity /\ QCapacity \in Nat
      /\ OnceInQueue(cmd_q)
  BY IoThreadAssumption, QueueForm DEF IInv, TypeOK
<1>3. cmd \in Commands /\ cmd.arg = NoSocket
  BY DEF Commands
<1> HIDE DEF cmd
<1>4. NoSocket \notin ArgsOf(cmd_q)
  BY DEF ArgsOf
<1>5. refused' = refused
  BY <1>1, <1>3 DEF Put
<1>6. CASE Len(cmd_q) < QCapacity
  <2>1. cmd_q' = Append(cmd_q, cmd)
    BY <1>1, <1>6 DEF Put
  <2>2. /\ cmd_q' \in Seq(Commands) /\ Len(cmd_q') = Len(cmd_q) + 1
        /\ ArgsOf(cmd_q') = ArgsOf(cmd_q) \cup ({cmd.arg} \ {NoSocket})
        /\ cmd.arg \notin ArgsOf(cmd_q) => OnceInQueue(cmd_q')
    BY <1>2, <1>3, <2>1, AppendQueue
  <2>3. ArgsOf(cmd_q') = ArgsOf(cmd_q) /\ OnceInQueue(cmd_q')
    BY <1>3, <1>4, <2>2
  <2>4. Len(cmd_q') <= QCapacity
    BY <1>2, <1>6, <2>2
  <2> QED
    BY <1>1, <1>5, <2>2, <2>3, <2>4, QueueForm DEF Preparing, Listed
<1>7. CASE ~(Len(cmd_q) < QCapacity)
  <2>1. cmd_q' = cmd_q
    BY <1>1, <1>7 DEF Put
  <2> QED
    BY <1>1, <1>2, <1>5, <2>1, QueueForm DEF Preparing, Listed
<1> QED
  BY <1>6, <1>7

\* DIE is handled: what leaves the lists is closed.
LEMMA OnDieFacts ==
  ASSUME IInv, OnDie
  PROVE  /\ listening' \in Seq(Sockets) /\ IsInjective(listening')
         /\ established' \in Seq(Sockets) /\ IsInjective(established')
         /\ SetOf(listening') \subseteq SetOf(listening)
         /\ SetOf(established') \subseteq SetOf(established)
         /\ fd' = CloseIn(Listed \ Listed') /\ watching' = Listed'
         /\ cmd_q' \in Seq(Commands) /\ Len(cmd_q') <= QCapacity
         /\ OnceInQueue(cmd_q') /\ Handed' = Handed
         /\ UNCHANGED <<listen_socket, refused>> /\ Preparing' = Preparing
<1>1. /\ ipc = "drain" /\ cmd_q # <<>> /\ Head(cmd_q).id = "DIE"
      /\ cmd_q' = Tail(cmd_q)
      /\ listening' \in LeftOpen(listening)
      /\ established' \in LeftOpen(established)
      /\ fd' = CloseIn(watching \ Listed') /\ watching' = watching \cap Listed'
      /\ UNCHANGED <<listen_socket, refused>>
  BY DEF OnDie, Command, callerVars, Listed
<1>2. /\ listening \in Seq(Sockets) /\ established \in Seq(Sockets)
      /\ IsInjective(listening) /\ IsInjective(established)
      /\ watching = Listed
      /\ cmd_q \in Seq(Commands) /\ Len(cmd_q) <= QCapacity /\ QCapacity \in Nat
      /\ OnceInQueue(cmd_q)
  BY IoThreadAssumption, QueueForm DEF IInv, TypeOK, DistinctInv, WatchInv
<1>3. /\ listening' \in Seq(Sockets) /\ IsInjective(listening')
      /\ SetOf(listening') \subseteq SetOf(listening)
  BY <1>1, <1>2, SuffixList
<1>4. /\ established' \in Seq(Sockets) /\ IsInjective(established')
      /\ SetOf(established') \subseteq SetOf(established)
  BY <1>1, <1>2, SuffixList
<1>5. Listed' \subseteq Listed
  BY <1>3, <1>4 DEF Listed
<1>6. watching' = Listed' /\ fd' = CloseIn(Listed \ Listed')
  BY <1>1, <1>2, <1>5
<1>7. /\ Head(cmd_q) \in Commands /\ cmd_q' \in Seq(Commands)
      /\ Len(cmd_q') = Len(cmd_q) - 1 /\ OnceInQueue(cmd_q')
      /\ ArgsOf(cmd_q) = ArgsOf(cmd_q') \cup ({Head(cmd_q).arg} \ {NoSocket})
  BY <1>1, <1>2, TailQueue
<1>8. Head(cmd_q).arg = NoSocket
  BY <1>1, <1>7 DEF Commands
<1>9. Handed' = Handed
  BY <1>7, <1>8, QueueForm
<1>10. Len(cmd_q') <= QCapacity
  <2>1. Len(cmd_q) \in Nat
    BY <1>2
  <2> QED
    BY <1>2, <1>7, <2>1
<1> QED
  BY <1>1, <1>3, <1>4, <1>6, <1>7, <1>9, <1>10 DEF Preparing

\* A socket goes from the queue to a list.
LEMMA HandOverFacts ==
  ASSUME IInv, OnListen \/ OnEstablish
  PROVE  \E s \in Sockets :
           /\ s \in Handed /\ Handed' = Handed \ {s}
           /\ Listed' = Listed \cup {s} /\ watching' = watching \cup {s}
           /\ \/ /\ SetOf(listening') = SetOf(listening) \cup {s}
                 /\ SetOf(established') = SetOf(established)
              \/ /\ SetOf(listening') = SetOf(listening)
                 /\ SetOf(established') = SetOf(established) \cup {s}
           /\ listening' \in Seq(Sockets) /\ IsInjective(listening')
           /\ established' \in Seq(Sockets) /\ IsInjective(established')
           /\ cmd_q' \in Seq(Commands) /\ Len(cmd_q') <= QCapacity
           /\ OnceInQueue(cmd_q')
           /\ UNCHANGED <<fd, listen_socket, refused>> /\ Preparing' = Preparing
<1> DEFINE s == Head(cmd_q).arg
<1>1. /\ cmd_q # <<>> /\ Head(cmd_q).id \in {"LISTEN", "ESTABLISH"}
      /\ cmd_q' = Tail(cmd_q) /\ watching' = watching \cup {s}
      /\ \/ listening' = <<s>> \o listening /\ established' = established
         \/ established' = <<s>> \o established /\ listening' = listening
      /\ UNCHANGED <<fd, listen_socket, refused>>
  BY DEF OnListen, OnEstablish, Command, callerVars
<1>2. /\ listening \in Seq(Sockets) /\ established \in Seq(Sockets)
      /\ IsInjective(listening) /\ IsInjective(established)
      /\ cmd_q \in Seq(Commands) /\ Len(cmd_q) <= QCapacity /\ QCapacity \in Nat
      /\ OnceInQueue(cmd_q) /\ NoSocket \notin Sockets
  BY IoThreadAssumption, QueueForm DEF IInv, TypeOK, DistinctInv
<1>3. /\ Head(cmd_q) \in Commands /\ cmd_q' \in Seq(Commands)
      /\ Len(cmd_q') = Len(cmd_q) - 1 /\ OnceInQueue(cmd_q')
      /\ ArgsOf(cmd_q) = ArgsOf(cmd_q') \cup ({s} \ {NoSocket})
      /\ s \notin ArgsOf(cmd_q')
  BY <1>1, <1>2, TailQueue
<1>4. s \in Sockets
  BY <1>1, <1>3 DEF Commands
<1> HIDE DEF s
<1>5. s \in Handed /\ Handed' = Handed \ {s}
  BY <1>2, <1>3, <1>4, QueueForm
<1>6. s \notin SetOf(listening) /\ s \notin SetOf(established)
  BY <1>5 DEF IInv, PlacesInv, Listed
<1>7. Len(cmd_q') <= QCapacity
  <2>1. Len(cmd_q) \in Nat
    BY <1>2
  <2> QED
    BY <1>2, <1>3, <2>1
<1>8. CASE listening' = <<s>> \o listening /\ established' = established
  <2>1. /\ listening' \in Seq(Sockets) /\ IsInjective(listening')
        /\ SetOf(listening') = SetOf(listening) \cup {s}
    BY <1>2, <1>4, <1>6, <1>8, PrependList
  <2>2. Listed' = Listed \cup {s}
    BY <1>8, <2>1 DEF Listed
  <2> QED
    BY <1>1, <1>2, <1>3, <1>4, <1>5, <1>7, <1>8, <2>1, <2>2 DEF Preparing
<1>9. CASE established' = <<s>> \o established /\ listening' = listening
  <2>1. /\ established' \in Seq(Sockets) /\ IsInjective(established')
        /\ SetOf(established') = SetOf(established) \cup {s}
    BY <1>2, <1>4, <1>6, <1>9, PrependList
  <2>2. Listed' = Listed \cup {s}
    BY <1>9, <2>1 DEF Listed
  <2> QED
    BY <1>1, <1>2, <1>3, <1>4, <1>5, <1>7, <1>9, <2>1, <2>2 DEF Preparing
<1> QED
  BY <1>1, <1>8, <1>9

\* A connection is accepted.
LEMMA AcceptFacts ==
  ASSUME IInv, NEW l \in Sockets, NEW s \in Sockets, Accept(l, s)
  PROVE  /\ fd[s] = "none" /\ fd' = [fd EXCEPT ![s] = "open"]
         /\ Listed' = Listed \cup {s} /\ watching' = watching \cup {s}
         /\ listening' = listening
         /\ SetOf(established') = SetOf(established) \cup {s}
         /\ established' \in Seq(Sockets) /\ IsInjective(established')
         /\ UNCHANGED <<listen_socket, cmd_q, refused>>
         /\ Preparing' = Preparing /\ Handed' = Handed
<1>1. /\ fd[s] = "none" /\ fd' = [fd EXCEPT ![s] = "open"]
      /\ established' = <<s>> \o established /\ listening' = listening
      /\ watching' = watching \cup {s}
      /\ UNCHANGED <<listen_socket, cmd_q, refused>>
  BY DEF Accept, callerVars, queueVars
<1>2. /\ established \in Seq(Sockets) /\ IsInjective(established)
      /\ s \notin SetOf(established)
  BY <1>1 DEF IInv, TypeOK, DistinctInv, PlacesInv, Listed
<1>3. /\ established' \in Seq(Sockets) /\ IsInjective(established')
      /\ SetOf(established') = SetOf(established) \cup {s}
  BY <1>1, <1>2, PrependList
<1>4. Listed' = Listed \cup {s}
  BY <1>1, <1>3 DEF Listed
<1> QED
  BY <1>1, <1>3, <1>4 DEF Preparing, Handed

\* A read closes its socket, or leaves everything where it is.
LEMMA ReadFacts ==
  ASSUME IInv, NEW s \in Sockets, Read(s)
  PROVE  /\ UNCHANGED <<listen_socket, cmd_q, refused, listening>>
         /\ Preparing' = Preparing /\ Handed' = Handed
         /\ established' \in Seq(Sockets) /\ IsInjective(established')
         /\ \/ /\ s \in SetOf(established)
               /\ fd' = [fd EXCEPT ![s] = "closed"]
               /\ Listed' = Listed \ {s} /\ watching' = watching \ {s}
               /\ SetOf(established') = SetOf(established) \ {s}
            \/ UNCHANGED <<fd, watching, established>> /\ Listed' = Listed
<1>1. /\ s \in SetOf(established)
      /\ Close(s) \/ UNCHANGED <<fd, watching, established>>
      /\ UNCHANGED <<listen_socket, cmd_q, refused, listening>>
  BY DEF Read, callerVars, queueVars
<1>2. /\ established \in Seq(Sockets) /\ IsInjective(established)
      /\ SetOf(listening) \cap SetOf(established) = {}
  BY DEF IInv, TypeOK, DistinctInv, PlacesInv
<1>3. CASE Close(s)
  <2>1. PICK k \in DOMAIN established :
               established[k] = s /\ established' = RemoveAt(established, k)
    BY <1>3 DEF Close
  <2>2. /\ established' \in Seq(Sockets) /\ IsInjective(established')
        /\ SetOf(established') = SetOf(established) \ {s}
    BY <1>2, <2>1, UnlinkList
  <2>3. Listed' = Listed \ {s}
    BY <1>1, <1>2, <2>2 DEF Listed
  <2>4. fd' = [fd EXCEPT ![s] = "closed"] /\ watching' = watching \ {s}
    BY <1>3 DEF Close
  <2> QED
    BY <1>1, <2>2, <2>3, <2>4 DEF Preparing, Handed
<1>4. CASE UNCHANGED <<fd, watching, established>>
  BY <1>1, <1>2, <1>4 DEF Preparing, Handed, Listed
<1> QED
  BY <1>1, <1>3, <1>4

-----------------------------------------------------------------------------
(* The inductive invariant *)

LEMMA InitIInv == Init => IInv
<1> SUFFICES ASSUME Init PROVE IInv
  OBVIOUS
<1>1. /\ cmd_q = <<>> /\ listening = <<>> /\ established = <<>>
      /\ refused = {} /\ watching = {} /\ iovec = <<>> /\ ipc = "new"
      /\ \A s \in Sockets : fd[s] = "none"
      /\ \A c \in Callers : listen_socket[c] = <<>> /\ pc[c] = "idle"
  BY DEF Init
<1>2. Preparing = {} /\ Handed = {} /\ Listed = {}
  <2>1. Preparing = {}
    BY <1>1, EmptyList, InPreparing
  <2>2. Handed = {}
    BY <1>1 DEF Handed
  <2> QED
    BY <1>1, <2>1, <2>2, EmptyList DEF Listed
<1>3. TypeOK
  <2>1. /\ <<>> \in Seq(Sockets) /\ <<>> \in Seq(Commands) /\ <<>> \in Seq(Slots)
        /\ Len(<<>>) = 0
    OBVIOUS
  <2>2. /\ QCapacity \in Nat /\ 0 \in 0 .. MaxAddrs /\ SlotCount \in Nat \ {0}
    BY IoThreadAssumption
  <2>3. /\ free_slots_head \in Int /\ free_slots_tail \in Slots
        /\ free_slots \in [Slots -> Slots] /\ stray \in BOOLEAN
    <3>1. 0 \in Slots /\ SlotCount \in Int
      BY <2>2 DEF Slots
    <3> QED
      BY <3>1 DEF Init, BufferInit
  <2>4. sent \in BOOLEAN /\ dying \in BOOLEAN /\ held \in BOOLEAN
    BY DEF Init
  <2>5. Len(cmd_q) <= QCapacity
    BY <1>1, <2>1, <2>2
  <2> QED
    BY <1>1, <2>1, <2>2, <2>3, <2>4, <2>5 DEF Init, TypeOK
<1>4. PlacesInv
  BY <1>1, <1>2, EmptyList DEF PlacesInv
<1>5. DistinctInv
  BY <1>1, EmptyList DEF DistinctInv
<1>6. WatchInv /\ CallerInv /\ IovecInv
  BY <1>1, <1>2 DEF WatchInv, CallerInv, IovecInv
<1> QED
  BY <1>3, <1>4, <1>5, <1>6 DEF IInv

\* The actions by what they do with sockets.
LEMMA NextSplits ==
  ASSUME [Next]_vars
  PROVE  \/ Quiet \/ Die \/ OnDie \/ OnListen \/ OnEstablish
         \/ \E c \in Callers, s \in Sockets : Open(c, s)
         \/ \E c \in Callers : OpenFails(c) \/ PutSocket(c)
         \/ \E c \in Callers, s \in Sockets, S \in SUBSET Sockets :
              Connect(c, s, S)
         \/ \E l, s \in Sockets : Accept(l, s)
         \/ \E s \in Sockets : Read(s)
  BY DEF Next, Prepare, Call, Io, Quiet

LEMMA PlacesStep == ASSUME IInv, [Next]_vars PROVE PlacesInv'
<1>0. /\ PlacesInv /\ fd \in [Sockets -> {"none", "open", "closed"}]
      /\ listen_socket \in [Callers -> Seq(Sockets)]
      /\ \A c \in Callers : SetOf(listen_socket[c]) \subseteq Preparing
  BY InPreparing DEF IInv, TypeOK
<1> USE <1>0 DEF PlacesInv
<1>1. CASE Quiet \/ Die
  BY <1>1, QuietFacts, DieFacts
<1>2. CASE OnDie
  <2>1. /\ fd' = CloseIn(Listed \ Listed')
        /\ Preparing' = Preparing /\ Handed' = Handed /\ refused' = refused
        /\ listen_socket' = listen_socket
        /\ SetOf(listening') \subseteq SetOf(listening)
        /\ SetOf(established') \subseteq SetOf(established)
    BY <1>2, OnDieFacts
  <2>2. Listed' \subseteq Listed
    BY <2>1 DEF Listed
  <2>3. \A s \in Sockets :
          fd'[s] = "open" <=> fd[s] = "open" /\ s \notin Listed \ Listed'
    BY <2>1 DEF CloseIn
  <2> QED
    BY <2>1, <2>2, <2>3
<1>3. CASE OnListen \/ OnEstablish
  BY <1>3, HandOverFacts DEF Listed
<1>4. ASSUME NEW c \in Callers, NEW s \in Sockets, Open(c, s)
      PROVE  PlacesInv'
  <2>1. /\ fd[s] = "none" /\ fd' = [fd EXCEPT ![s] = "open"]
        /\ Preparing' = Preparing \cup {s}
        /\ SetOf(listen_socket'[c]) = SetOf(listen_socket[c]) \cup {s}
        /\ \A d \in Callers : d # c => listen_socket'[d] = listen_socket[d]
        /\ UNCHANGED <<refused, listening, established>>
        /\ Handed' = Handed /\ Listed' = Listed
    BY <1>4, OpenFacts
  <2>2. \A t \in Sockets : fd'[t] = "open" <=> fd[t] = "open" \/ t = s
    BY <2>1
  <2>3. s \notin Preparing /\ s \notin Handed /\ s \notin Listed /\ s \notin refused
    BY <2>1
  <2>4. \A d, e \in Callers :
          d # e => SetOf(listen_socket'[d]) \cap SetOf(listen_socket'[e]) = {}
    <3>1. \A d \in Callers : s \notin SetOf(listen_socket[d])
      BY <2>3
    <3>2. ASSUME NEW d \in Callers, NEW e \in Callers, d # e
          PROVE  SetOf(listen_socket'[d]) \cap SetOf(listen_socket'[e]) = {}
      <4>1. SetOf(listen_socket[d]) \cap SetOf(listen_socket[e]) = {}
        BY <3>2
      <4>2. CASE d # c /\ e # c
        BY <2>1, <4>1, <4>2
      <4>3. CASE d = c
        BY <2>1, <3>1, <3>2, <4>1, <4>3
      <4>4. CASE e = c
        BY <2>1, <3>1, <3>2, <4>1, <4>4
      <4> QED
        BY <4>2, <4>3, <4>4
    <3> QED
      BY <3>2
  <2>5. {t \in Sockets : fd'[t] = "open"} =
          Preparing' \cup Handed' \cup Listed' \cup refused'
    BY <2>1, <2>2
  <2> QED
    BY <2>1, <2>3, <2>4, <2>5
<1>5. ASSUME NEW c \in Callers, OpenFails(c)
      PROVE  PlacesInv'
  <2>1. PICK S \in SUBSET {s \in Sockets : fd[s] = "none"} :
               fd' = CloseIn(S \cup SetOf(listen_socket[c]))
    BY <1>5, OpenFailsFacts
  <2>2. /\ Preparing' = Preparing \ SetOf(listen_socket[c])
        /\ listen_socket'[c] = <<>>
        /\ \A d \in Callers : d # c => listen_socket'[d] = listen_socket[d]
        /\ UNCHANGED <<refused, listening, established>>
        /\ Handed' = Handed /\ Listed' = Listed
    BY <1>5, OpenFailsFacts
  <2>3. SetOf(listen_socket'[c]) = {}
    BY <2>2, EmptyList
  <2>4. \A t \in Sockets : fd'[t] = "open" <=>
                             fd[t] = "open" /\ t \notin SetOf(listen_socket[c])
    BY <2>1 DEF CloseIn
  <2>5. \A d, e \in Callers :
          d # e => SetOf(listen_socket'[d]) \cap SetOf(listen_socket'[e]) = {}
    BY <2>2, <2>3
  <2>6. SetOf(listen_socket[c]) \cap (Handed \cup Listed \cup refused) = {}
    OBVIOUS
  <2>7. {t \in Sockets : fd'[t] = "open"} =
          Preparing' \cup Handed' \cup Listed' \cup refused'
    BY <2>2, <2>4, <2>6
  <2> QED
    BY <2>2, <2>5, <2>7
<1>6. ASSUME NEW c \in Callers, NEW s \in Sockets, NEW S \in SUBSET Sockets,
             Connect(c, s, S)
      PROVE  PlacesInv'
  <2>1. /\ \A t \in S \cup {s} : fd[t] = "none"
        /\ s \notin S /\ fd' = [CloseIn(S) EXCEPT ![s] = "open"]
        /\ Preparing' = Preparing \cup {s}
        /\ SetOf(listen_socket'[c]) = {s}
        /\ listen_socket' = [listen_socket EXCEPT ![c] = <<s>>]
        /\ UNCHANGED <<refused, listening, established>>
        /\ Handed' = Handed /\ Listed' = Listed
    BY <1>6, ConnectFacts
  <2>2. \A t \in Sockets : fd'[t] = "open" <=> fd[t] = "open" \/ t = s
    BY <2>1 DEF CloseIn
  <2>3. s \notin Preparing /\ s \notin Handed /\ s \notin Listed /\ s \notin refused
    BY <2>1
  <2>4. \A d \in Callers : d # c => listen_socket'[d] = listen_socket[d]
    BY <2>1
  <2>5. \A d, e \in Callers :
          d # e => SetOf(listen_socket'[d]) \cap SetOf(listen_socket'[e]) = {}
    BY <2>1, <2>3, <2>4
  <2>6. {t \in Sockets : fd'[t] = "open"} =
          Preparing' \cup Handed' \cup Listed' \cup refused'
    BY <2>1, <2>2
  <2> QED
    BY <2>1, <2>3, <2>5, <2>6
<1>7. ASSUME NEW c \in Callers, PutSocket(c)
      PROVE  PlacesInv'
  <2>1. PICK s \in Sockets :
           /\ s \in SetOf(listen_socket[c])
           /\ SetOf(listen_socket'[c]) = SetOf(listen_socket[c]) \ {s}
           /\ listen_socket' = [listen_socket EXCEPT ![c] = listen_socket'[c]]
           /\ Preparing' = Preparing \ {s}
           /\ \/ Handed' = Handed \cup {s} /\ refused' = refused
              \/ Handed' = Handed /\ refused' = refused \cup {s}
           /\ UNCHANGED <<fd, listening, established>> /\ Listed' = Listed
    BY <1>7, PutSocketFacts
  <2>2. \A d \in Callers : d # c => listen_socket'[d] = listen_socket[d]
    BY <2>1
  <2>3. s \in Preparing /\ s \notin Handed /\ s \notin Listed /\ s \notin refused
    BY <2>1
  <2>4. \A d, e \in Callers :
          d # e => SetOf(listen_socket'[d]) \cap SetOf(listen_socket'[e]) = {}
    BY <2>1, <2>2
  <2>5. {t \in Sockets : fd'[t] = "open"} =
          Preparing' \cup Handed' \cup Listed' \cup refused'
    BY <2>1, <2>3
  <2> QED
    BY <2>1, <2>3, <2>4, <2>5
<1>8. ASSUME NEW l \in Sockets, NEW s \in Sockets, Accept(l, s)
      PROVE  PlacesInv'
  <2>1. /\ fd[s] = "none" /\ fd' = [fd EXCEPT ![s] = "open"]
        /\ Listed' = Listed \cup {s} /\ listening' = listening
        /\ SetOf(established') = SetOf(established) \cup {s}
        /\ UNCHANGED <<listen_socket, refused>>
        /\ Preparing' = Preparing /\ Handed' = Handed
    BY <1>8, AcceptFacts
  <2>2. \A t \in Sockets : fd'[t] = "open" <=> fd[t] = "open" \/ t = s
    BY <2>1
  <2>3. s \notin Preparing /\ s \notin Handed /\ s \notin Listed /\ s \notin refused
    BY <2>1
  <2>4. s \notin SetOf(listening)
    BY <2>3 DEF Listed
  <2> QED
    BY <2>1, <2>2, <2>3, <2>4
<1>9. ASSUME NEW s \in Sockets, Read(s)
      PROVE  PlacesInv'
  <2>1. /\ UNCHANGED <<listen_socket, refused, listening>>
        /\ Preparing' = Preparing /\ Handed' = Handed
        /\ \/ /\ s \in SetOf(established)
              /\ fd' = [fd EXCEPT ![s] = "closed"]
              /\ Listed' = Listed \ {s}
              /\ SetOf(established') = SetOf(established) \ {s}
           \/ UNCHANGED <<fd, established>> /\ Listed' = Listed
    BY <1>9, ReadFacts
  <2>2. CASE UNCHANGED <<fd, established>> /\ Listed' = Listed
    BY <2>1, <2>2
  <2>3. CASE /\ s \in SetOf(established)
             /\ fd' = [fd EXCEPT ![s] = "closed"]
             /\ Listed' = Listed \ {s}
             /\ SetOf(established') = SetOf(established) \ {s}
    <3>1. \A t \in Sockets : fd'[t] = "open" <=> fd[t] = "open" /\ t # s
      BY <2>3
    <3>2. s \in Listed
      BY <2>3 DEF Listed
    <3> QED
      BY <2>1, <2>3, <3>1, <3>2
  <2> QED
    BY <2>1, <2>2, <2>3
<1> QED
  BY <1>1, <1>2, <1>3, <1>4, <1>5, <1>6, <1>7, <1>8, <1>9, NextSplits

LEMMA DistinctStep == ASSUME IInv, [Next]_vars PROVE DistinctInv'
<1>0. /\ \A c \in Callers : IsInjective(listen_socket[c])
      /\ OnceInQueue(cmd_q)
      /\ IsInjective(listening) /\ IsInjective(established)
      /\ listen_socket \in [Callers -> Seq(Sockets)]
  BY QueueForm DEF IInv, TypeOK
<1> SUFFICES /\ \A c \in Callers : IsInjective(listen_socket'[c])
             /\ OnceInQueue(cmd_q')
             /\ IsInjective(listening') /\ IsInjective(established')
  BY QueueForm
<1> USE <1>0
<1>1. CASE Quiet \/ Die
  BY <1>1, QuietFacts, DieFacts
<1>2. CASE OnDie
  BY <1>2, OnDieFacts
<1>3. CASE OnListen \/ OnEstablish
  BY <1>3, HandOverFacts
<1>4. CASE \/ \E c \in Callers, s \in Sockets : Open(c, s)
           \/ \E c \in Callers, s \in Sockets, S \in SUBSET Sockets :
                Connect(c, s, S)
           \/ \E c \in Callers : OpenFails(c) \/ PutSocket(c)
  <2>1. PICK c \in Callers :
               /\ IsInjective(listen_socket'[c])
               /\ \A d \in Callers : d # c => listen_socket'[d] = listen_socket[d]
               /\ OnceInQueue(cmd_q')
               /\ UNCHANGED <<listening, established>>
    <3>1. ASSUME NEW c \in Callers, NEW s \in Sockets, Open(c, s)
          PROVE  /\ IsInjective(listen_socket'[c])
                 /\ \A d \in Callers : d # c => listen_socket'[d] = listen_socket[d]
                 /\ UNCHANGED <<cmd_q, listening, established>>
      BY <3>1, OpenFacts
    <3>2. ASSUME NEW c \in Callers, NEW s \in Sockets, NEW S \in SUBSET Sockets,
                 Connect(c, s, S)
          PROVE  /\ IsInjective(listen_socket'[c])
                 /\ \A d \in Callers : d # c => listen_socket'[d] = listen_socket[d]
                 /\ UNCHANGED <<cmd_q, listening, established>>
      <4>1. /\ IsInjective(listen_socket'[c])
            /\ listen_socket' = [listen_socket EXCEPT ![c] = <<s>>]
            /\ UNCHANGED <<cmd_q, listening, established>>
        BY <3>2, ConnectFacts
      <4> QED
        BY <4>1
    <3>3. ASSUME NEW c \in Callers, OpenFails(c)
          PROVE  /\ IsInjective(listen_socket'[c])
                 /\ \A d \in Callers : d # c => listen_socket'[d] = listen_socket[d]
                 /\ UNCHANGED <<cmd_q, listening, established>>
      <4>1. /\ listen_socket' = [listen_socket EXCEPT ![c] = <<>>]
            /\ UNCHANGED <<cmd_q, listening, established>>
        BY <3>3, OpenFailsFacts
      <4>2. listen_socket'[c] = <<>>
        BY <4>1
      <4> QED
        BY <4>1, <4>2, EmptyList
    <3>4. ASSUME NEW c \in Callers, PutSocket(c)
          PROVE  /\ IsInjective(listen_socket'[c])
                 /\ \A d \in Callers : d # c => listen_socket'[d] = listen_socket[d]
                 /\ OnceInQueue(cmd_q')
                 /\ UNCHANGED <<listening, established>>
      <4>1. /\ IsInjective(listen_socket'[c])
            /\ listen_socket' = [listen_socket EXCEPT ![c] = listen_socket'[c]]
            /\ OnceInQueue(cmd_q')
            /\ UNCHANGED <<listening, established>>
        BY <3>4, PutSocketFacts
      <4> QED
        BY <4>1
    <3> QED
      BY <1>4, <3>1, <3>2, <3>3, <3>4
  <2> QED
    BY <2>1
<1>5. ASSUME NEW l \in Sockets, NEW s \in Sockets, Accept(l, s)
      PROVE  /\ UNCHANGED <<listen_socket, cmd_q, listening>>
             /\ IsInjective(established')
  BY <1>5, AcceptFacts
<1>6. ASSUME NEW s \in Sockets, Read(s)
      PROVE  /\ UNCHANGED <<listen_socket, cmd_q, listening>>
             /\ IsInjective(established')
  BY <1>6, ReadFacts
<1> QED
  BY <1>1, <1>2, <1>3, <1>4, <1>5, <1>6, NextSplits

LEMMA WatchStep == ASSUME IInv, [Next]_vars PROVE WatchInv'
<1>0. watching = Listed
  BY DEF IInv, WatchInv
<1> SUFFICES watching' = Listed'
  BY DEF WatchInv
<1> USE <1>0
<1>1. CASE Quiet \/ Die
  BY <1>1, QuietFacts, DieFacts
<1>2. CASE OnDie \/ OnListen \/ OnEstablish
  BY <1>2, OnDieFacts, HandOverFacts
<1>3. CASE \/ \E c \in Callers, s \in Sockets : Open(c, s)
           \/ \E c \in Callers, s \in Sockets, S \in SUBSET Sockets :
                Connect(c, s, S)
  BY <1>3, OpenFacts, ConnectFacts
<1>4. CASE \E c \in Callers : OpenFails(c) \/ PutSocket(c)
  BY <1>4, OpenFailsFacts, PutSocketFacts
<1>5. CASE \E l, s \in Sockets : Accept(l, s)
  BY <1>5, AcceptFacts
<1>6. CASE \E s \in Sockets : Read(s)
  BY <1>6, ReadFacts
<1> QED
  BY <1>1, <1>2, <1>3, <1>4, <1>5, <1>6, NextSplits

\* What the IO thread and DIE do leaves the callers where they are.
LEMMA CallersStay ==
  ASSUME \/ Die \/ OnDie \/ OnListen \/ OnEstablish
         \/ Start \/ Wake \/ Drained \/ Return \/ Leave
         \/ UNCHANGED vars
         \/ \E l, s \in Sockets : Accept(l, s)
         \/ \E s \in Sockets : Read(s)
  PROVE  UNCHANGED callerVars
<1>1. CASE Die \/ OnDie \/ OnListen \/ OnEstablish
  BY <1>1 DEF Die, OnDie, OnListen, OnEstablish
<1>2. CASE Start \/ Wake \/ Drained \/ Return \/ Leave
  BY <1>2 DEF Start, Wake, Drained, Return, Leave
<1>3. CASE UNCHANGED vars
  BY <1>3 DEF vars
<1>4. CASE \/ \E l, s \in Sockets : Accept(l, s)
           \/ \E s \in Sockets : Read(s)
  BY <1>4 DEF Accept, Read
<1> QED
  BY <1>1, <1>2, <1>3, <1>4

CallerTypes ==
  /\ pc \in [Callers -> {"idle", "open", "listen", "connect"}]
  /\ addrs \in [Callers -> 0 .. MaxAddrs]
  /\ listen_socket \in [Callers -> Seq(Sockets)]
  /\ \A c \in Callers :
       pc[c] \in {"listen", "connect"} => listen_socket[c] # <<>>

LEMMA CallerStep ==
  ASSUME IInv, [Next]_vars
  PROVE  CallerTypes' /\ CallerInv'
<1>0. CallerTypes /\ CallerInv /\ MaxAddrs \in Nat \ {0}
  BY IoThreadAssumption DEF IInv, TypeOK, CallerTypes
<1>a. <<>> \in Seq(Sockets)
  OBVIOUS
<1> USE <1>0 DEF CallerTypes, CallerInv
<1>1. ASSUME NEW c \in Callers, Listen(c)
      PROVE  CallerTypes' /\ CallerInv'
  <2>1. PICK n \in 1 .. MaxAddrs : addrs' = [addrs EXCEPT ![c] = n]
    BY <1>1 DEF Listen
  <2>2. pc' = [pc EXCEPT ![c] = "open"] /\ listen_socket' = listen_socket
    BY <1>1 DEF Listen
  <2> QED
    BY <2>1, <2>2
<1>2. ASSUME NEW c \in Callers, NEW s \in Sockets, Open(c, s)
      PROVE  CallerTypes' /\ CallerInv'
  <2>1. /\ pc[c] = "open" /\ addrs' = [addrs EXCEPT ![c] = @ - 1]
        /\ pc' = IF addrs[c] = 1 THEN [pc EXCEPT ![c] = "listen"] ELSE pc
    BY <1>2 DEF Open
  <2>2. /\ listen_socket'[c] # <<>> /\ listen_socket'[c] \in Seq(Sockets)
        /\ listen_socket' = [listen_socket EXCEPT ![c] = listen_socket'[c]]
    BY <1>2, OpenFacts
  <2>3. \A d \in Callers : d # c => listen_socket'[d] = listen_socket[d]
    BY <2>2
  <2>4. listen_socket' \in [Callers -> Seq(Sockets)]
    BY <2>2
  <2>5. addrs[c] \in 1 .. MaxAddrs
    BY <2>1
  <2>6. addrs' \in [Callers -> 0 .. MaxAddrs]
    BY <2>1, <2>5
  <2>7. \A d \in Callers : d # c => pc'[d] = pc[d] /\ addrs'[d] = addrs[d]
    BY <2>1
  <2>8. pc'[c] = "listen" \/ (pc'[c] = "open" /\ addrs'[c] > 0)
    BY <2>1, <2>5
  <2> QED
    BY <2>1, <2>2, <2>3, <2>4, <2>6, <2>7, <2>8
<1>3. ASSUME NEW c \in Callers, OpenFails(c)
      PROVE  CallerTypes' /\ CallerInv'
  <2>1. /\ pc' = [pc EXCEPT ![c] = "idle"] /\ addrs' = [addrs EXCEPT ![c] = 0]
        /\ listen_socket' = [listen_socket EXCEPT ![c] = <<>>]
    BY <1>3 DEF OpenFails
  <2> QED
    BY <1>a, <2>1
<1>4. ASSUME NEW c \in Callers, NEW s \in Sockets, NEW S \in SUBSET Sockets,
             Connect(c, s, S)
      PROVE  CallerTypes' /\ CallerInv'
  <2>1. /\ pc' = [pc EXCEPT ![c] = "connect"] /\ addrs' = addrs
        /\ listen_socket' = [listen_socket EXCEPT ![c] = <<s>>]
    BY <1>4 DEF Connect
  <2>2. <<s>> \in Seq(Sockets) /\ <<s>> # <<>>
    OBVIOUS
  <2> QED
    BY <2>1, <2>2
<1>5. ASSUME NEW c \in Callers, PutSocket(c)
      PROVE  CallerTypes' /\ CallerInv'
  <2>1. /\ pc[c] \in {"listen", "connect"} /\ addrs' = addrs
        /\ pc' = IF listen_socket'[c] = <<>> THEN [pc EXCEPT ![c] = "idle"] ELSE pc
    BY <1>5 DEF PutSocket
  <2>2. /\ listen_socket'[c] \in Seq(Sockets)
        /\ listen_socket' = [listen_socket EXCEPT ![c] = listen_socket'[c]]
    BY <1>5, PutSocketFacts
  <2>3. \A d \in Callers : d # c => listen_socket'[d] = listen_socket[d]
    BY <2>2
  <2>4. listen_socket' \in [Callers -> Seq(Sockets)]
    BY <2>2
  <2> QED
    BY <2>1, <2>3, <2>4
<1>6. CASE UNCHANGED callerVars
  BY <1>6 DEF callerVars
<1> QED
  BY <1>1, <1>2, <1>3, <1>4, <1>5, <1>6, NextSplits, CallersStay DEF Quiet

\* The pool and the slots at hand.
BufferTypes ==
  /\ ipc \in {"new", "loop", "drain", "return", "done"}
  /\ iovec \in Seq(Slots)
  /\ free_slots_head \in Int /\ free_slots_tail \in Slots
  /\ free_slots \in [Slots -> Slots] /\ stray \in BOOLEAN

LEMMA IovecType ==
  ASSUME TypeOK
  PROVE  /\ Iovec(WantedIov) \in Seq(Slots)
         /\ Len(Iovec(WantedIov)) = Got(WantedIov)
         /\ TailAfter(Got(WantedIov)) \in Slots
<1> DEFINE g == Got(WantedIov)
<1>1. /\ g \in Nat /\ SlotCount \in Nat \ {0} /\ free_slots_tail \in Nat
      /\ free_slots \in [Slots -> Slots]
  <2>1. SlotCount \in Nat \ {0} /\ g \in Nat
    BY GotRange, IoThreadAssumption
  <2>2. free_slots_tail \in Slots /\ free_slots \in [Slots -> Slots]
    BY DEF TypeOK
  <2>3. free_slots_tail \in Nat
    BY <2>2 DEF Slots
  <2> QED
    BY <2>1, <2>2, <2>3
<1> HIDE DEF g
<1>2. \A k \in Nat : TailAfter(k) \in Slots
  BY <1>1 DEF TailAfter, Slots
<1>3. \A k \in 1 .. g : free_slots[TailAfter(k - 1)] \in Slots
  <2> SUFFICES ASSUME NEW k \in 1 .. g
               PROVE  free_slots[TailAfter(k - 1)] \in Slots
    OBVIOUS
  <2>1. k - 1 \in Nat
    BY <1>1
  <2> QED
    BY <1>1, <1>2, <2>1
<1>4. Iovec(WantedIov) = [k \in 1 .. g |-> free_slots[TailAfter(k - 1)]]
  BY DEF Iovec, g
<1>5. Iovec(WantedIov) \in [1 .. g -> Slots]
  BY <1>3, <1>4
<1>6. Iovec(WantedIov) \in Seq(Slots) /\ Len(Iovec(WantedIov)) = g
  BY <1>1, <1>5, IsASeq, LenProperties
<1> QED
  BY <1>1, <1>2, <1>6 DEF g

LEMMA BufferStep ==
  ASSUME IInv, [Next]_vars
  PROVE  BufferTypes' /\ IovecInv'
<1>0. BufferTypes /\ IovecInv
  BY DEF IInv, TypeOK, BufferTypes
<1> USE <1>0 DEF BufferTypes, IovecInv, bufferVars
<1>1. CASE \/ Die \/ UNCHANGED vars
           \/ \E c \in Callers :
                Listen(c) \/ OpenFails(c) \/ PutSocket(c)
           \/ \E c \in Callers, s \in Sockets : Open(c, s)
           \/ \E c \in Callers, s \in Sockets, S \in SUBSET Sockets :
                Connect(c, s, S)
  <2>1. UNCHANGED ioVars
    BY <1>1 DEF Die, Listen, OpenFails, PutSocket, Open, Connect, vars
  <2> QED
    BY <2>1 DEF ioVars
<1>2. CASE Start \/ Wake \/ Drained \/ Leave
  BY <1>2 DEF Start, Wake, Drained, Leave
<1>3. CASE OnDie \/ OnListen \/ OnEstablish
  BY <1>3 DEF OnDie, OnListen, OnEstablish
<1>4. ASSUME NEW l \in Sockets, NEW s \in Sockets, Accept(l, s)
      PROVE  BufferTypes' /\ IovecInv'
  BY <1>4 DEF Accept
<1>5. ASSUME NEW s \in Sockets, Read(s)
      PROVE  BufferTypes' /\ IovecInv'
  <2>1. /\ free_slots_tail' = TailAfter(Got(WantedIov))
        /\ UNCHANGED <<free_slots_head, free_slots, stray>>
        /\ ipc' = IF iovec' = <<>> THEN "loop" ELSE "return"
    BY <1>5 DEF Read, Get
  <2>2. /\ Iovec(WantedIov) \in Seq(Slots)
        /\ Len(Iovec(WantedIov)) = Got(WantedIov)
        /\ Got(WantedIov) \in Nat /\ TailAfter(Got(WantedIov)) \in Slots
    BY IovecType, GotRange, IoThreadAssumption DEF IInv
  <2>3. \/ iovec' = Iovec(WantedIov)
        \/ \E used \in 1 .. Got(WantedIov) :
             iovec' = SubSeq(Iovec(WantedIov), used + 1, Got(WantedIov))
    BY <1>5 DEF Read
  <2>4. ASSUME NEW used \in 1 .. Got(WantedIov)
        PROVE  SubSeq(Iovec(WantedIov), used + 1, Got(WantedIov)) \in Seq(Slots)
    <3>1. \A i \in used + 1 .. Got(WantedIov) : Iovec(WantedIov)[i] \in Slots
      BY <2>2
    <3> QED
      BY <2>2, <3>1, SubSeqProperties
  <2>5. iovec' \in Seq(Slots)
    BY <2>2, <2>3, <2>4
  <2> QED
    BY <2>1, <2>2, <2>5
<1>6. CASE Return
  <2>1. /\ ipc = "return" /\ PutSlot(Head(iovec)) /\ iovec' = Tail(iovec)
        /\ ipc' = IF iovec' = <<>> THEN "loop" ELSE ipc
    BY <1>6 DEF Return
  <2>2. Head(iovec) \in Slots /\ iovec' \in Seq(Slots)
    BY <2>1
  <2>3. /\ free_slots' = [i \in Slots |-> IF i = free_slots_head' THEN Head(iovec)
                                          ELSE free_slots[i]]
        /\ free_slots_head' \in Int /\ stray' \in BOOLEAN
        /\ free_slots_tail' = free_slots_tail
    BY <2>1, IoThreadAssumption DEF PutSlot
  <2>4. free_slots' \in [Slots -> Slots]
    BY <2>2, <2>3
  <2> QED
    BY <2>1, <2>2, <2>3, <2>4
<1> QED
  BY <1>1, <1>2, <1>3, <1>4, <1>5, <1>6, NextSplits DEF Quiet

\* The descriptors and the lists.
ListTypes ==
  /\ fd \in [Sockets -> {"none", "open", "closed"}]
  /\ listening \in Seq(Sockets) /\ established \in Seq(Sockets)
  /\ watching \subseteq Sockets

LEMMA ListStep == ASSUME IInv, [Next]_vars PROVE ListTypes'
<1>0. ListTypes
  BY DEF IInv, TypeOK, ListTypes
<1>a. \A S : CloseIn(S) \in [Sockets -> {"none", "open", "closed"}]
  BY <1>0 DEF ListTypes, CloseIn
<1>b. Listed' \subseteq Sockets
  <2>1. PlacesInv'
    BY PlacesStep
  <2>2. Listed' \subseteq {s \in Sockets : fd'[s] = "open"}
    BY <2>1 DEF PlacesInv
  <2> QED
    BY <2>2
<1>c. watching' \subseteq Sockets
  BY <1>b, WatchStep DEF WatchInv
<1> USE <1>0, <1>c DEF ListTypes
<1>1. CASE Quiet \/ Die
  BY <1>1, QuietFacts, DieFacts
<1>2. CASE OnDie
  BY <1>2, <1>a, OnDieFacts
<1>3. CASE OnListen \/ OnEstablish
  BY <1>3, HandOverFacts
<1>4. CASE \E c \in Callers, s \in Sockets : Open(c, s)
  <2>1. PICK s \in Sockets : fd' = [fd EXCEPT ![s] = "open"]
    BY <1>4, OpenFacts
  <2>2. listening' = listening /\ established' = established
    BY <1>4, OpenFacts
  <2> QED
    BY <2>1, <2>2
<1>5. CASE \E c \in Callers : OpenFails(c) \/ PutSocket(c)
  <2>1. ASSUME NEW c \in Callers, OpenFails(c) PROVE ListTypes'
    <3>1. /\ \E S : fd' = CloseIn(S)
          /\ listening' = listening /\ established' = established
      BY <2>1, OpenFailsFacts
    <3> QED
      BY <1>a, <3>1
  <2>2. ASSUME NEW c \in Callers, PutSocket(c) PROVE ListTypes'
    BY <2>2, PutSocketFacts
  <2> QED
    BY <1>5, <2>1, <2>2
<1>6. ASSUME NEW c \in Callers, NEW s \in Sockets, NEW S \in SUBSET Sockets,
             Connect(c, s, S)
      PROVE  ListTypes'
  <2>1. /\ fd' = [CloseIn(S) EXCEPT ![s] = "open"]
        /\ listening' = listening /\ established' = established
    BY <1>6, ConnectFacts
  <2> QED
    BY <1>a, <2>1
<1>7. ASSUME NEW l \in Sockets, NEW s \in Sockets, Accept(l, s)
      PROVE  ListTypes'
  <2>1. /\ fd' = [fd EXCEPT ![s] = "open"]
        /\ listening' = listening /\ established' \in Seq(Sockets)
    BY <1>7, AcceptFacts
  <2> QED
    BY <2>1
<1>8. ASSUME NEW s \in Sockets, Read(s)
      PROVE  ListTypes'
  <2>1. /\ fd' = [fd EXCEPT ![s] = "closed"] \/ fd' = fd
        /\ listening' = listening /\ established' \in Seq(Sockets)
    BY <1>8, ReadFacts
  <2> QED
    BY <2>1
<1> QED
  BY <1>1, <1>2, <1>3, <1>4, <1>5, <1>6, <1>7, <1>8, NextSplits

QueueTypes ==
  /\ cmd_q \in Seq(Commands) /\ Len(cmd_q) <= QCapacity
  /\ sent \in BOOLEAN /\ refused \subseteq Sockets
  /\ dying \in BOOLEAN /\ held \in BOOLEAN

LEMMA QueueStep == ASSUME IInv, [Next]_vars PROVE QueueTypes'
<1>0. QueueTypes
  BY DEF IInv, TypeOK, QueueTypes
<1>1. cmd_q' \in Seq(Commands) /\ Len(cmd_q') <= QCapacity
  <2> USE <1>0 DEF QueueTypes
  <2>1. CASE Quiet \/ Die \/ OnDie \/ OnListen \/ OnEstablish
    BY <2>1, QuietFacts, DieFacts, OnDieFacts, HandOverFacts
  <2>2. CASE \/ \E c \in Callers, s \in Sockets : Open(c, s)
             \/ \E c \in Callers, s \in Sockets, S \in SUBSET Sockets :
                  Connect(c, s, S)
             \/ \E c \in Callers : OpenFails(c) \/ PutSocket(c)
    BY <2>2, OpenFacts, ConnectFacts, OpenFailsFacts, PutSocketFacts
  <2>3. CASE \/ \E l, s \in Sockets : Accept(l, s)
             \/ \E s \in Sockets : Read(s)
    BY <2>3, AcceptFacts, ReadFacts
  <2> QED
    BY <2>1, <2>2, <2>3, NextSplits
<1>2. refused' \subseteq Sockets
  <2>1. PlacesInv'
    BY PlacesStep
  <2>2. refused' \subseteq {s \in Sockets : fd'[s] = "open"}
    BY <2>1 DEF PlacesInv
  <2> QED
    BY <2>2
<1>3. sent' \in {sent, TRUE, FALSE}
  <2>1. CASE \/ Die \/ \E c \in Callers : PutSocket(c)
    BY <2>1 DEF Die, PutSocket, Put
  <2>2. CASE \/ \E c \in Callers : Listen(c) \/ OpenFails(c)
             \/ \E c \in Callers, s \in Sockets : Open(c, s)
             \/ \E c \in Callers, s \in Sockets, S \in SUBSET Sockets :
                  Connect(c, s, S)
    BY <2>2 DEF Listen, OpenFails, Open, Connect, queueVars
  <2>3. CASE Start \/ Wake \/ Drained \/ Return \/ Leave \/ UNCHANGED vars
    BY <2>3 DEF Start, Wake, Drained, Return, Leave, vars, queueVars
  <2>4. CASE \/ OnDie \/ OnListen \/ OnEstablish
             \/ \E l, s \in Sockets : Accept(l, s)
             \/ \E s \in Sockets : Read(s)
    BY <2>4 DEF OnDie, OnListen, OnEstablish, Accept, Read, queueVars
  <2> QED
    BY <2>1, <2>2, <2>3, <2>4, NextSplits DEF Quiet
<1>4. dying' \in {dying, TRUE} /\ held' \in {held, TRUE, FALSE}
  <2>1. CASE \/ Die
             \/ \E c \in Callers : Listen(c) \/ OpenFails(c) \/ PutSocket(c)
             \/ \E c \in Callers, s \in Sockets : Open(c, s)
             \/ \E c \in Callers, s \in Sockets, S \in SUBSET Sockets :
                  Connect(c, s, S)
    BY <2>1 DEF Die, Listen, OpenFails, PutSocket, Open, Connect, ioVars
  <2>2. CASE Start \/ Wake \/ Drained \/ Return \/ Leave \/ UNCHANGED vars
    BY <2>2 DEF Start, Wake, Drained, Return, Leave, vars, ioVars
  <2>3. CASE \/ OnDie \/ OnListen \/ OnEstablish
             \/ \E l, s \in Sockets : Accept(l, s)
             \/ \E s \in Sockets : Read(s)
    BY <2>3 DEF OnDie, OnListen, OnEstablish, Accept, Read
  <2> QED
    BY <2>1, <2>2, <2>3, NextSplits DEF Quiet
<1>5. sent' \in BOOLEAN /\ dying' \in BOOLEAN /\ held' \in BOOLEAN
  BY <1>0, <1>3, <1>4 DEF QueueTypes
<1> QED
  BY <1>1, <1>2, <1>5 DEF QueueTypes

LEMMA InductiveStep == IInv /\ [Next]_vars => IInv'
<1> SUFFICES ASSUME IInv, [Next]_vars PROVE IInv'
  OBVIOUS
<1>1. TypeOK'
  BY CallerStep, BufferStep, ListStep, QueueStep
     DEF TypeOK, CallerTypes, BufferTypes, ListTypes, QueueTypes
<1> QED
  BY <1>1, PlacesStep, DistinctStep, WatchStep, CallerStep, BufferStep DEF IInv

-----------------------------------------------------------------------------
(* One place for each open descriptor *)

LEMMA OneIndex ==
  ASSUME NEW S, NEW list \in Seq(S), IsInjective(list), NEW s
  PROVE  Times(s, list) = IF s \in SetOf(list) THEN 1 ELSE 0
<1> DEFINE I == {i \in DOMAIN list : list[i] = s}
<1>1. CASE s \in SetOf(list)
  <2>1. PICK k \in DOMAIN list : list[k] = s
    BY <1>1 DEF SetOf
  <2>2. I = {k}
    BY <2>1 DEF IsInjective
  <2> QED
    BY <1>1, <2>2, FS_Singleton DEF Times
<1>2. CASE s \notin SetOf(list)
  <2>1. I = {}
    BY <1>2 DEF SetOf
  <2> QED
    BY <1>2, <2>1, FS_EmptySet DEF Times
<1> QED
  BY <1>1, <1>2

LEMMA OneCommand ==
  ASSUME IInv, NEW s \in Sockets
  PROVE  InQueue(s) = IF s \in Handed THEN 1 ELSE 0
<1> DEFINE I == {i \in DOMAIN cmd_q : cmd_q[i].arg = s}
<1>0. OnceInQueue(cmd_q) /\ Handed = ArgsOf(cmd_q) /\ s # NoSocket
  BY QueueForm, IoThreadAssumption DEF IInv
<1>1. CASE s \in Handed
  <2>1. PICK k \in DOMAIN cmd_q : cmd_q[k].arg = s
    BY <1>0, <1>1 DEF ArgsOf
  <2>2. I = {k}
    BY <1>0, <2>1 DEF OnceInQueue
  <2> QED
    BY <1>1, <2>2, FS_Singleton DEF InQueue
<1>2. CASE s \notin Handed
  <2>1. I = {}
    BY <1>0, <1>2 DEF ArgsOf
  <2> QED
    BY <1>2, <2>1, FS_EmptySet DEF InQueue
<1> QED
  BY <1>1, <1>2

LEMMA OneCaller ==
  ASSUME IInv, NEW s
  PROVE  Cardinality(InCaller(s)) = IF s \in Preparing THEN 1 ELSE 0
<1>1. CASE s \in Preparing
  <2>1. PICK c \in Callers : s \in SetOf(listen_socket[c])
    BY <1>1, InPreparing
  <2>2. InCaller(s) = {c}
    BY <2>1 DEF InCaller, IInv, PlacesInv
  <2> QED
    BY <1>1, <2>2, FS_Singleton
<1>2. CASE s \notin Preparing
  <2>1. InCaller(s) = {}
    BY <1>2, InPreparing DEF InCaller
  <2> QED
    BY <1>2, <2>1, FS_EmptySet
<1> QED
  BY <1>1, <1>2

LEMMA HeldOnceLemma == IInv => HeldOnce
<1> SUFFICES ASSUME IInv, NEW s \in Sockets
             PROVE  Cardinality(InCaller(s)) + InQueue(s) + Times(s, listening)
                      + Times(s, established) + (IF s \in refused THEN 1 ELSE 0)
                    = IF fd[s] = "open" THEN 1 ELSE 0
  BY DEF HeldOnce
<1>1. /\ Times(s, listening) = (IF s \in SetOf(listening) THEN 1 ELSE 0)
      /\ Times(s, established) = (IF s \in SetOf(established) THEN 1 ELSE 0)
  BY OneIndex DEF IInv, TypeOK, DistinctInv
<1>2. fd[s] = "open" <=> \/ s \in Preparing \/ s \in Handed
                         \/ s \in SetOf(listening) \/ s \in SetOf(established)
                         \/ s \in refused
  BY DEF IInv, PlacesInv, Listed
<1>3. /\ s \in Preparing => /\ s \notin Handed /\ s \notin SetOf(listening)
                            /\ s \notin SetOf(established) /\ s \notin refused
      /\ s \in Handed => /\ s \notin SetOf(listening)
                         /\ s \notin SetOf(established) /\ s \notin refused
      /\ s \in SetOf(listening) => s \notin SetOf(established) /\ s \notin refused
      /\ s \in SetOf(established) => s \notin refused
  BY DEF IInv, PlacesInv, Listed
<1> QED
  BY <1>1, <1>2, <1>3, OneCommand, OneCaller

-----------------------------------------------------------------------------
(* The road of a socket *)

\* The stage of every socket is the name of its place.
StageInv ==
  \A s \in Sockets :
    /\ s \in Preparing => stage[s] = "preparing"
    /\ s \in Handed => stage[s] = "handed"
    /\ s \in Listed => stage[s] = "watched"
    /\ s \in refused => stage[s] = "refused"
    /\ fd[s] # "open" => stage[s] = fd[s]
    /\ fd[s] = "open" => s \in Preparing \cup Handed \cup Listed \cup refused

LEMMA StageLemma == IInv => StageInv
<1> SUFFICES ASSUME IInv, NEW s \in Sockets
             PROVE  /\ s \in Preparing => stage[s] = "preparing"
                    /\ s \in Handed => stage[s] = "handed"
                    /\ s \in Listed => stage[s] = "watched"
                    /\ s \in refused => stage[s] = "refused"
                    /\ fd[s] # "open" => stage[s] = fd[s]
                    /\ fd[s] = "open" =>
                         s \in Preparing \cup Handed \cup Listed \cup refused
  BY DEF StageInv
<1>1. stage[s] = CASE fd[s] # "open"   -> fd[s]
                   [] s \in refused    -> "refused"
                   [] s \in watching   -> "watched"
                   [] InQueue(s) > 0   -> "handed"
                   [] InCaller(s) # {} -> "preparing"
                   [] OTHER            -> "lost"
  BY DEF stage
<1>2. InQueue(s) > 0 <=> s \in Handed
  BY OneCommand
<1>3. InCaller(s) # {} <=> s \in Preparing
  BY InPreparing DEF InCaller
<1>4. watching = Listed
  BY DEF IInv, WatchInv
<1>5. /\ fd[s] = "open" <=>
           s \in Preparing \/ s \in Handed \/ s \in Listed \/ s \in refused
      /\ s \in Preparing => s \notin Handed /\ s \notin Listed /\ s \notin refused
      /\ s \in Handed => s \notin Listed /\ s \notin refused
      /\ s \in Listed => s \notin refused
  BY DEF IInv, PlacesInv
<1> QED
  BY <1>1, <1>2, <1>3, <1>4, <1>5

LEMMA StageNext == IInv' => StageInv'
  BY StageLemma, PTL

\* No open descriptor is lost.
LEMMA StageRange == IInv => stage \in [Sockets -> Life!Stages]
<1> SUFFICES ASSUME IInv, NEW s \in Sockets PROVE stage[s] \in Life!Stages
  BY DEF stage
<1>1. CASE fd[s] = "open"
  BY <1>1, StageLemma DEF StageInv, Life!Stages
<1>2. CASE fd[s] # "open"
  BY <1>2, StageLemma DEF StageInv, Life!Stages, IInv, TypeOK
<1> QED
  BY <1>1, <1>2

LEMMA StageRangeNext == IInv' => (stage \in [Sockets -> Life!Stages])'
  BY StageRange, PTL

LEMMA InitStages == Init => Life!Init
<1> SUFFICES ASSUME Init PROVE \A s \in Sockets : stage[s] = "none"
  BY DEF Life!Init, stage
<1>1. IInv /\ \A s \in Sockets : fd[s] = "none"
  BY InitIInv DEF Init
<1> QED
  BY <1>1, StageLemma DEF StageInv

\* A socket that is in no new place, and was not closed, is where it was.
Stays(s) ==
  /\ s \in Preparing' <=> s \in Preparing
  /\ s \in Handed' <=> s \in Handed
  /\ s \in Listed' <=> s \in Listed
  /\ s \in refused' <=> s \in refused
  /\ fd'[s] = fd[s]

LEMMA StayStage ==
  ASSUME StageInv, StageInv', NEW s \in Sockets, Stays(s)
  PROVE  stage'[s] = stage[s]
<1>0. /\ s \in Preparing => stage[s] = "preparing"
      /\ s \in Handed => stage[s] = "handed"
      /\ s \in Listed => stage[s] = "watched"
      /\ s \in refused => stage[s] = "refused"
      /\ fd[s] # "open" => stage[s] = fd[s]
      /\ fd[s] = "open" => s \in Preparing \cup Handed \cup Listed \cup refused
      /\ s \in Preparing' => stage'[s] = "preparing"
      /\ s \in Handed' => stage'[s] = "handed"
      /\ s \in Listed' => stage'[s] = "watched"
      /\ s \in refused' => stage'[s] = "refused"
      /\ fd'[s] # "open" => stage'[s] = fd'[s]
  BY DEF StageInv
<1> QED
  BY <1>0 DEF Stays

\* Every step takes each socket along the road, or leaves it where it is.
LEMMA RoadStep ==
  ASSUME IInv, [Next]_vars, NEW s \in Sockets
  PROVE  stage'[s] = stage[s] \/ <<stage[s], stage'[s]>> \in Life!Road
<1>1. StageInv /\ StageInv'
  BY InductiveStep, StageLemma, StageNext
<1>2. ASSUME Stays(s) PROVE stage'[s] = stage[s]
  BY <1>1, <1>2, StayStage
<1>3. /\ s \in Preparing => stage[s] = "preparing"
      /\ s \in Handed => stage[s] = "handed"
      /\ s \in Listed => stage[s] = "watched"
      /\ fd[s] # "open" => stage[s] = fd[s]
      /\ s \in Preparing' => stage'[s] = "preparing"
      /\ s \in Handed' => stage'[s] = "handed"
      /\ s \in Listed' => stage'[s] = "watched"
      /\ s \in refused' => stage'[s] = "refused"
      /\ fd'[s] # "open" => stage'[s] = fd'[s]
  BY <1>1 DEF StageInv
<1>4. /\ fd \in [Sockets -> {"none", "open", "closed"}]
      /\ listen_socket \in [Callers -> Seq(Sockets)]
  BY DEF IInv, TypeOK
<1>5. fd[s] = "open" <=>
        s \in Preparing \/ s \in Handed \/ s \in Listed \/ s \in refused
  BY DEF IInv, PlacesInv
<1>6. CASE Quiet \/ Die
  BY <1>2, <1>6, QuietFacts, DieFacts DEF Stays
<1>7. CASE OnDie
  <2>1. /\ fd' = CloseIn(Listed \ Listed') /\ Handed' = Handed
        /\ refused' = refused /\ Preparing' = Preparing
        /\ Listed' \subseteq Listed
    BY <1>7, OnDieFacts DEF Listed
  <2>2. CASE s \in Listed \ Listed'
    <3>1. fd'[s] = "closed"
      BY <2>1, <2>2 DEF CloseIn
    <3> QED
      BY <1>3, <2>2, <3>1 DEF Life!Road
  <2>3. CASE s \notin Listed \ Listed'
    <3>1. fd'[s] = fd[s]
      BY <2>1, <2>3 DEF CloseIn
    <3> QED
      BY <1>2, <2>1, <2>3, <3>1 DEF Stays
  <2> QED
    BY <2>2, <2>3
<1>8. CASE OnListen \/ OnEstablish
  <2>1. PICK t \in Sockets :
               /\ t \in Handed /\ Handed' = Handed \ {t}
               /\ Listed' = Listed \cup {t}
               /\ UNCHANGED <<fd, refused>> /\ Preparing' = Preparing
    BY <1>8, HandOverFacts
  <2>2. CASE s = t
    BY <1>3, <2>1, <2>2 DEF Life!Road
  <2>3. CASE s # t
    BY <1>2, <2>1, <2>3 DEF Stays
  <2> QED
    BY <2>2, <2>3
<1>9. ASSUME NEW c \in Callers, NEW t \in Sockets, Open(c, t)
      PROVE  stage'[s] = stage[s] \/ <<stage[s], stage'[s]>> \in Life!Road
  <2>1. /\ fd[t] = "none" /\ fd' = [fd EXCEPT ![t] = "open"]
        /\ Preparing' = Preparing \cup {t} /\ refused' = refused
        /\ Handed' = Handed /\ Listed' = Listed
    BY <1>9, OpenFacts
  <2>2. CASE s = t
    BY <1>3, <2>1, <2>2 DEF Life!Road
  <2>3. CASE s # t
    BY <1>2, <2>1, <2>3 DEF Stays
  <2> QED
    BY <2>2, <2>3
<1>10. ASSUME NEW c \in Callers, OpenFails(c)
       PROVE  stage'[s] = stage[s] \/ <<stage[s], stage'[s]>> \in Life!Road
  <2>1. PICK S \in SUBSET {t \in Sockets : fd[t] = "none"} :
               fd' = CloseIn(S \cup SetOf(listen_socket[c]))
    BY <1>10, OpenFailsFacts
  <2>2. /\ Preparing' = Preparing \ SetOf(listen_socket[c])
        /\ refused' = refused /\ Handed' = Handed /\ Listed' = Listed
    BY <1>10, OpenFailsFacts
  <2>3. CASE s \in S \cup SetOf(listen_socket[c])
    <3>1. stage'[s] = "closed"
      BY <1>3, <2>1, <2>3 DEF CloseIn
    <3>2. stage[s] \in {"none", "preparing"}
      BY <1>3, <2>3, InPreparing
    <3> QED
      BY <3>1, <3>2 DEF Life!Road
  <2>4. CASE s \notin S \cup SetOf(listen_socket[c])
    <3>1. fd'[s] = fd[s]
      BY <2>1, <2>4 DEF CloseIn
    <3> QED
      BY <1>2, <2>2, <2>4, <3>1 DEF Stays
  <2> QED
    BY <2>3, <2>4
<1>11. ASSUME NEW c \in Callers, NEW t \in Sockets, NEW S \in SUBSET Sockets,
              Connect(c, t, S)
       PROVE  stage'[s] = stage[s] \/ <<stage[s], stage'[s]>> \in Life!Road
  <2>1. /\ \A r \in S \cup {t} : fd[r] = "none"
        /\ t \notin S /\ fd' = [CloseIn(S) EXCEPT ![t] = "open"]
        /\ Preparing' = Preparing \cup {t}
        /\ refused' = refused /\ Handed' = Handed /\ Listed' = Listed
    BY <1>11, ConnectFacts
  <2>2. CASE s = t
    BY <1>3, <2>1, <2>2 DEF Life!Road
  <2>3. CASE s \in S
    <3>1. fd[s] = "none" /\ fd'[s] = "closed"
      BY <2>1, <2>3 DEF CloseIn
    <3> QED
      BY <1>3, <3>1 DEF Life!Road
  <2>4. CASE s # t /\ s \notin S
    <3>1. fd'[s] = fd[s]
      BY <2>1, <2>4 DEF CloseIn
    <3> QED
      BY <1>2, <2>1, <2>4, <3>1 DEF Stays
  <2> QED
    BY <2>2, <2>3, <2>4
<1>12. ASSUME NEW c \in Callers, PutSocket(c)
       PROVE  stage'[s] = stage[s] \/ <<stage[s], stage'[s]>> \in Life!Road
  <2>1. PICK t \in Sockets :
               /\ t \in SetOf(listen_socket[c]) /\ Preparing' = Preparing \ {t}
               /\ \/ Handed' = Handed \cup {t} /\ refused' = refused
                  \/ Handed' = Handed /\ refused' = refused \cup {t}
               /\ fd' = fd /\ Listed' = Listed
    BY <1>12, PutSocketFacts
  <2>2. CASE s = t
    <3>1. stage[s] = "preparing"
      BY <1>3, <2>1, <2>2, InPreparing
    <3>2. stage'[s] \in {"handed", "refused"}
      BY <1>3, <2>1, <2>2
    <3> QED
      BY <3>1, <3>2 DEF Life!Road
  <2>3. CASE s # t
    BY <1>2, <2>1, <2>3 DEF Stays
  <2> QED
    BY <2>2, <2>3
<1>13. ASSUME NEW l \in Sockets, NEW t \in Sockets, Accept(l, t)
       PROVE  stage'[s] = stage[s] \/ <<stage[s], stage'[s]>> \in Life!Road
  <2>1. /\ fd[t] = "none" /\ fd' = [fd EXCEPT ![t] = "open"]
        /\ Listed' = Listed \cup {t} /\ refused' = refused
        /\ Preparing' = Preparing /\ Handed' = Handed
    BY <1>13, AcceptFacts
  <2>2. CASE s = t
    BY <1>3, <2>1, <2>2 DEF Life!Road
  <2>3. CASE s # t
    BY <1>2, <2>1, <2>3 DEF Stays
  <2> QED
    BY <2>2, <2>3
<1>14. ASSUME NEW t \in Sockets, Read(t)
       PROVE  stage'[s] = stage[s] \/ <<stage[s], stage'[s]>> \in Life!Road
  <2>1. /\ refused' = refused /\ Preparing' = Preparing /\ Handed' = Handed
        /\ \/ /\ t \in SetOf(established)
              /\ fd' = [fd EXCEPT ![t] = "closed"]
              /\ Listed' = Listed \ {t}
           \/ fd' = fd /\ Listed' = Listed
    BY <1>14, ReadFacts
  <2>2. CASE fd' = fd /\ Listed' = Listed
    BY <1>2, <2>1, <2>2 DEF Stays
  <2>3. CASE /\ t \in SetOf(established)
             /\ fd' = [fd EXCEPT ![t] = "closed"]
             /\ Listed' = Listed \ {t}
    <3>1. CASE s = t
      <4>1. s \in Listed /\ fd'[s] = "closed"
        BY <1>4, <2>3, <3>1 DEF Listed
      <4> QED
        BY <1>3, <4>1 DEF Life!Road
    <3>2. CASE s # t
      BY <1>2, <2>1, <2>3, <3>2 DEF Stays
    <3> QED
      BY <3>1, <3>2
  <2> QED
    BY <2>1, <2>2, <2>3
<1> QED
  BY <1>6, <1>7, <1>8, <1>9, <1>10, <1>11, <1>12, <1>13, <1>14, NextSplits

LEMMA LifeStep ==
  ASSUME IInv, [Next]_vars
  PROVE  [Life!Next]_stage
<1>1. stage' \in [Sockets -> Life!Stages]
  BY InductiveStep, StageRangeNext
<1> QED
  BY <1>1, RoadStep DEF Life!Next

-----------------------------------------------------------------------------
(* Theorems *)

\* The places of the sockets are disjoint and hold every open descriptor, at
\* every step of any number of callers, of the IO thread and of its peers.
THEOREM Invariance == Spec => []IInv
  BY InitIInv, InductiveStep, PTL DEF Spec

\* The variables have their types: a call that still has sockets to hand over
\* has one in its list, and the IO thread's queue never exceeds its ring.
THEOREM TypeCorrect == Spec => []TypeOK
<1>1. IInv => TypeOK
  BY DEF IInv
<1> QED
  BY <1>1, Invariance, PTL

\* An open descriptor is known in exactly one place (to one call, one command
\* or one list) unless a full queue has refused it, and one that is closed is
\* known nowhere: io_thread_listen, io_thread_connect and the IO thread lose
\* none on a failure and close none twice.
THEOREM EachHeldOnce == Spec => []HeldOnce
  BY Invariance, HeldOnceLemma, PTL

\* Every socket goes along the road of SocketLife.
THEOREM Implements == Spec => ImplementsSocketLife
<1>1. Init => Life!Init
  BY InitStages
<1>2. IInv /\ [Next]_vars => [Life!Next]_stage
  BY LifeStep
<1> QED
  BY <1>1, <1>2, Invariance, PTL DEF Spec, ImplementsSocketLife, Life!Spec

\* If the IO thread is up before the first put, it never sleeps on a command:
\* whatever waits in its queue while it is in the loop has a wake-up on its
\* way, which watcher_cmd_q_put sends and only _on_iot_cmd, which then empties
\* the queue, uses up.
THEOREM NeverSleepsOnCommands ==
  Spec /\ []UpBeforePuts => []WokenForCommands
<1>1. Init => WokenForCommands
  BY DEF Init, WokenForCommands
<1>2. UpBeforePuts /\ WokenForCommands /\ [Next]_vars => WokenForCommands'
  <2> SUFFICES ASSUME UpBeforePuts, WokenForCommands, [Next]_vars,
                      ipc' \in {"loop", "return"}, cmd_q' # <<>>
               PROVE  sent'
    BY DEF WokenForCommands
  <2> USE DEF WokenForCommands
  <2>1. CASE UNCHANGED <<ipc, queueVars>>
    BY <2>1 DEF queueVars
  <2>2. ASSUME NEW cmd, Put(cmd), ipc' = ipc PROVE sent'
    BY <2>2 DEF Put
  <2>3. CASE Start
    BY <2>3 DEF Start, UpBeforePuts
  <2>4. CASE Wake \/ Drained
    BY <2>4 DEF Wake, Drained, queueVars
  <2>5. CASE OnDie \/ OnListen \/ OnEstablish
    BY <2>5 DEF OnDie, OnListen, OnEstablish, Command
  <2>6. CASE Return \/ Leave
    BY <2>6 DEF Return, Leave, queueVars
  <2>7. CASE Die
    BY <2>2, <2>7 DEF Die, ioVars
  <2>8. ASSUME NEW c \in Callers, Prepare(c) \/ Call(c) PROVE sent'
    <3>1. CASE PutSocket(c)
      BY <2>2, <3>1 DEF PutSocket, ioVars
    <3>2. CASE OpenFails(c) \/ Listen(c)
      BY <2>1, <3>2 DEF OpenFails, Listen, ioVars
    <3>3. ASSUME NEW s \in Sockets, Open(c, s) PROVE sent'
      BY <2>1, <3>3 DEF Open, ioVars
    <3>4. ASSUME NEW s \in Sockets, NEW S \in SUBSET Sockets, Connect(c, s, S)
          PROVE  sent'
      BY <2>1, <3>4 DEF Connect, ioVars
    <3> QED
      BY <2>8, <3>1, <3>2, <3>3, <3>4 DEF Prepare, Call
  <2>9. ASSUME NEW l \in Sockets, NEW s \in Sockets, Accept(l, s) PROVE sent'
    BY <2>1, <2>9 DEF Accept
  <2>10. ASSUME NEW s \in Sockets, Read(s) PROVE sent'
    BY <2>10 DEF Read, queueVars
  <2>11. CASE UNCHANGED vars
    BY <2>1, <2>11 DEF vars, ioVars
  <2> QED
    BY <2>3, <2>4, <2>5, <2>6, <2>7, <2>8, <2>9, <2>10, <2>11 DEF Next, Io
<1> QED
  BY <1>1, <1>2, PTL DEF Spec

\* Every command that is put sends its wake-up in the same step, and the IO
\* thread goes back to its loop only from an empty queue.
THEOREM ImplementsWoken == Spec => ImplementsWokenChannel
<1>1. Init => Woken!Init
  BY DEF Init, Woken!Init, Reader
<1>2. TypeOK /\ [Next]_vars => [Woken!Next]_(Woken!wokenVars)
  <2> SUFFICES ASSUME TypeOK, [Next]_vars
               PROVE  [Woken!Next]_(Woken!wokenVars)
    OBVIOUS
  <2>0. cmd_q \in Seq(Commands) /\ Len(cmd_q) \in Nat
    BY DEF TypeOK
  <2>1. ASSUME UNCHANGED queueVars, Reader' = Reader
        PROVE  UNCHANGED Woken!wokenVars
    BY <2>1 DEF queueVars, Woken!wokenVars
  <2>2. ASSUME NEW cmd, Put(cmd), ipc' = ipc
        PROVE  [Woken!PutAndSend]_(Woken!wokenVars)
    <3>1. Reader' = Reader
      BY <2>2 DEF Reader
    <3>2. CASE Len(cmd_q) < QCapacity
      <4>1. Len(cmd_q') = Len(cmd_q) + 1 /\ sent' = TRUE
        BY <2>0, <2>2, <3>2 DEF Put
      <4> QED
        BY <3>1, <3>2, <4>1 DEF Woken!PutAndSend
    <3>3. CASE ~ (Len(cmd_q) < QCapacity)
      BY <2>2, <3>1, <3>3 DEF Put, Woken!wokenVars
    <3> QED
      BY <3>2, <3>3
  <2>3. CASE Start
    BY <2>3 DEF Start, Reader, Woken!Start, Woken!Next
  <2>4. CASE Wake
    BY <2>4 DEF Wake, Reader, Woken!Wake, Woken!Next
  <2>5. CASE Drained
    <3>1. Len(cmd_q) = 0
      BY <2>5 DEF Drained
    <3> QED
      BY <2>5, <3>1
         DEF Drained, queueVars, Reader, Woken!Sleep, Woken!MaySleep, Woken!Next
  <2>6. CASE OnDie \/ OnListen \/ OnEstablish
    <3>1. /\ cmd_q # <<>> /\ cmd_q' = Tail(cmd_q)
          /\ ipc = "drain" /\ ipc' = "drain" /\ sent' = sent
      BY <2>6 DEF OnDie, OnListen, OnEstablish, Command
    <3>2. Len(cmd_q) > 0 /\ Len(cmd_q') = Len(cmd_q) - 1
      BY <2>0, <3>1
    <3> QED
      BY <3>1, <3>2 DEF Reader, Woken!Take, Woken!Next
  <2>7. CASE Return
    BY <2>1, <2>7 DEF Return, Reader
  <2>8. CASE Leave
    BY <2>8 DEF Leave, queueVars, Reader, Woken!Leave, Woken!Next
  <2>9. CASE Die
    BY <2>2, <2>9 DEF Die, ioVars, Woken!Next
  <2>10. ASSUME NEW c \in Callers, Prepare(c) \/ Call(c)
         PROVE  [Woken!Next]_(Woken!wokenVars)
    <3>1. CASE PutSocket(c)
      BY <2>2, <3>1 DEF PutSocket, ioVars, Woken!Next
    <3>2. CASE ~ PutSocket(c)
      <4>1. UNCHANGED <<queueVars, ipc>>
        BY <2>10, <3>2 DEF Prepare, Call, OpenFails, Listen, Open, Connect, ioVars
      <4> QED
        BY <2>1, <4>1 DEF Reader
    <3> QED
      BY <3>1, <3>2
  <2>11. ASSUME NEW l \in Sockets, NEW s \in Sockets, Accept(l, s)
         PROVE  UNCHANGED Woken!wokenVars
    BY <2>1, <2>11 DEF Accept, Reader
  <2>12. ASSUME NEW s \in Sockets, Read(s) PROVE UNCHANGED Woken!wokenVars
    BY <2>1, <2>12 DEF Read, Reader
  <2>13. CASE UNCHANGED vars
    BY <2>1, <2>13 DEF vars, ioVars, Reader
  <2> QED
    BY <2>3, <2>4, <2>5, <2>6, <2>7, <2>8, <2>9, <2>10, <2>11, <2>12, <2>13
       DEF Next, Io
<1> QED
  BY <1>1, <1>2, TypeCorrect, PTL DEF Spec, ImplementsWokenChannel, Woken!Spec
===============================================================================
