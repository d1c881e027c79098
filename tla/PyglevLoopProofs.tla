--------------------------- MODULE PyglevLoopProofs ---------------------------
(***************************************************************************)
(* PyglevLoop for any number of objects, threads, connections and puts:    *)
(* the reference counts, what they protect, and what a signal closes.      *)
(* No theorem has a hypothesis: collector, late listens and freed memory   *)
(* are part of every one, and each says what they leave of the promise.    *)
(***************************************************************************)
EXTENDS PyglevLoop, FiniteSetTheorems, SequenceTheorems, TLAPS

-----------------------------------------------------------------------------
(* Counting in sequences *)

Places(o, s) == {i \in DOMAIN s : s[i] = o}

LEMMA CountType ==
  ASSUME NEW S, NEW s \in Seq(S), NEW o
  PROVE  /\ IsFiniteSet(Places(o, s))
         /\ Count(o, s) \in Nat /\ Count(o, s) = Cardinality(Places(o, s))
         /\ Count(o, s) > 0 <=> In(o, s)
<1>1. Places(o, s) \in SUBSET (1 .. Len(s)) /\ Len(s) \in Nat
  BY DEF Places
<1>2. IsFiniteSet(Places(o, s))
  <2>1. IsFiniteSet(1 .. Len(s))
    BY <1>1, FS_Interval
  <2> QED
    BY <1>1, <2>1, FS_Subset
<1>3. Count(o, s) = Cardinality(Places(o, s))
  BY DEF Count, Places
<1>4. Count(o, s) \in Nat
  BY <1>2, <1>3, FS_CardinalityType
<1>5. Count(o, s) = 0 <=> Places(o, s) = {}
  BY <1>2, <1>3, FS_EmptySet
<1>6. Places(o, s) # {} <=> In(o, s)
  BY DEF Places, In
<1> QED
  BY <1>2, <1>3, <1>4, <1>5, <1>6

LEMMA CountEmpty == \A o : Count(o, <<>>) = 0 /\ ~In(o, <<>>)
<1>1. \A o : {i \in DOMAIN <<>> : <<>>[i] = o} = {}
  OBVIOUS
<1> QED
  BY <1>1, FS_EmptySet DEF Count, In

LEMMA CountAppend ==
  ASSUME NEW S, NEW s \in Seq(S), NEW x \in S, NEW o
  PROVE  Count(o, Append(s, x)) = Count(o, s) + (IF x = o THEN 1 ELSE 0)
<1> DEFINE t == Append(s, x)
<1>1. t \in Seq(S) /\ Len(s) \in Nat
  OBVIOUS
<1>a. /\ Count(o, t) = Cardinality(Places(o, t))
      /\ Count(o, s) = Cardinality(Places(o, s)) /\ IsFiniteSet(Places(o, s))
      /\ Count(o, s) \in Nat
  BY <1>1, CountType
<1>2. Len(s) + 1 \notin Places(o, s)
  BY <1>1 DEF Places
<1>3. CASE x = o
  <2>1. Places(o, t) = Places(o, s) \cup {Len(s) + 1}
    BY <1>3 DEF Places
  <2>2. Cardinality(Places(o, s) \cup {Len(s) + 1}) =
          Cardinality(Places(o, s)) + 1
    BY <1>2, <1>a, FS_AddElement
  <2> QED
    BY <1>a, <1>3, <2>1, <2>2
<1>4. CASE x # o
  <2>1. Places(o, t) = Places(o, s)
    BY <1>4 DEF Places
  <2> QED
    BY <1>a, <1>4, <2>1
<1> QED
  BY <1>3, <1>4

\* Moving a finite set of numbers up by one keeps its size.
LEMMA ShiftCounts ==
  ASSUME NEW T \in SUBSET Nat, IsFiniteSet(T)
  PROVE  Cardinality({i + 1 : i \in T}) = Cardinality(T)
<1> DEFINE U == {i + 1 : i \in T}
           f == [i \in T |-> i + 1]
<1>1. f \in Surjection(T, U) /\ f \in Injection(T, U)
  BY DEF Surjection, Injection, IsInjective
<1>2. f \in Bijection(T, U)
  BY <1>1 DEF Bijection
<1>3. ExistsBijection(T, U)
  BY <1>2 DEF ExistsBijection
<1> QED
  BY <1>3, FS_Bijection

LEMMA CountTail ==
  ASSUME NEW S, NEW s \in Seq(S), s # <<>>, NEW o
  PROVE  /\ Head(s) \in S /\ Tail(s) \in Seq(S)
         /\ Count(o, s) = Count(o, Tail(s)) + (IF Head(s) = o THEN 1 ELSE 0)
<1> DEFINE up == {i + 1 : i \in Places(o, Tail(s))}
<1>1. /\ Head(s) \in S /\ Head(s) = s[1] /\ Tail(s) \in Seq(S)
      /\ Len(s) \in Nat \ {0} /\ Len(Tail(s)) = Len(s) - 1
      /\ \A i \in 1 .. Len(s) - 1 : Tail(s)[i] = s[i + 1]
  OBVIOUS
<1>2. Places(o, Tail(s)) = {i \in 1 .. Len(s) - 1 : s[i + 1] = o}
  BY <1>1 DEF Places
<1>3. Places(o, s) = up \cup (IF s[1] = o THEN {1} ELSE {})
  <2>1. ASSUME NEW i \in 1 .. Len(s), s[i] = o, i # 1 PROVE i \in up
    <3>1. i - 1 \in Places(o, Tail(s)) /\ i = (i - 1) + 1
      BY <1>1, <1>2, <2>1
    <3> QED
      BY <3>1
  <2>2. ASSUME NEW i \in up PROVE i \in 1 .. Len(s) /\ s[i] = o
    BY <1>1, <1>2, <2>2
  <2>3. 1 \in 1 .. Len(s)
    BY <1>1
  <2> QED
    BY <2>1, <2>2, <2>3 DEF Places
<1>4. 1 \notin up
  BY <1>2
<1>5. /\ IsFiniteSet(Places(o, s)) /\ IsFiniteSet(Places(o, Tail(s)))
      /\ Count(o, s) = Cardinality(Places(o, s))
      /\ Count(o, Tail(s)) = Cardinality(Places(o, Tail(s)))
      /\ Count(o, Tail(s)) \in Nat
  BY <1>1, CountType
<1>6. Cardinality(up) = Count(o, Tail(s))
  <2>1. Places(o, Tail(s)) \in SUBSET Nat
    BY <1>1, <1>2
  <2> QED
    BY <1>5, <2>1, ShiftCounts
<1>7. IsFiniteSet(up)
  <2>1. up \in SUBSET Places(o, s)
    BY <1>3
  <2> QED
    BY <1>5, <2>1, FS_Subset
<1> HIDE DEF up
<1>8. CASE s[1] = o
  <2>1. Places(o, s) = up \cup {1}
    BY <1>3, <1>8
  <2>2. Cardinality(up \cup {1}) = Cardinality(up) + 1
    BY <1>4, <1>7, FS_AddElement
  <2> QED
    BY <1>1, <1>5, <1>6, <1>8, <2>1, <2>2
<1>9. CASE s[1] # o
  <2>1. Places(o, s) = up
    BY <1>3, <1>9
  <2> QED
    BY <1>1, <1>5, <1>6, <1>9, <2>1
<1> QED
  BY <1>8, <1>9

LEMMA CountPrepend ==
  ASSUME NEW S, NEW s \in Seq(S), NEW x \in S, NEW o
  PROVE  /\ <<x>> \o s \in Seq(S)
         /\ Count(o, <<x>> \o s) = Count(o, s) + (IF x = o THEN 1 ELSE 0)
<1> DEFINE t == <<x>> \o s
<1>1. /\ t \in Seq(S) /\ t # <<>> /\ Head(t) = x /\ Tail(t) = s
  OBVIOUS
<1> HIDE DEF t
<1>2. Count(o, t) = Count(o, Tail(t)) + (IF Head(t) = o THEN 1 ELSE 0)
  BY <1>1, CountTail
<1> QED
  BY <1>1, <1>2 DEF t

-----------------------------------------------------------------------------
(* What the steps do, in groups *)

\* Steps of the loop that only move it on.
Move == Run \/ Wake \/ GetEmpty \/ ListenFails \/ CallBegin \/ Leave \/ Finish

\* Steps that concern neither references nor the list.
Aside == PutSend \/ Signal \/ Sockets \/ UNCHANGED vars

\* Steps of the break that only go from one place of its walk to another.
Walk == BreakBegin \/ BreakFault \/ BreakEnd

LEMMA NextSplits ==
  ASSUME [Next]_vars
  PROVE  \/ Move \/ Aside
         \/ \E t \in Scripts : Collect(t)
         \/ \E t \in Scripts, o \in Objects :
              Create(t, o) \/ Drop(t, o) \/ Put(t, o)
         \/ PutIncref \/ Get \/ Link \/ Listening \/ CallEnd
         \/ BreakClose \/ BreakNext \/ Walk
  BY DEF Next, Script, Drain, Move, Aside, Break, Walk

LEMMA MoveFrame ==
  ASSUME Move
  PROVE  /\ UNCHANGED <<gil, ppc, putting, refs, created, kept, puts, cmd_q,
                        cmd, last, listen_commands, status, fds, signalled,
                        signals, conns, unlisted, late>>
         /\ sent' \in {sent, FALSE}
         /\ lpc' \in {"poll", "get", "python", "left", "done", "crashed"}
         /\ lpc' = "python" => lpc = "call"
         /\ lpc # "link" /\ ~Walking /\ ~Walking'
         /\ InHand' = InHand /\ Released = {} /\ Released' = {}
<1> USE DEF putVars, objVars, qVars, locals, listVars, sigVars, histVars, InHand,
            Released, Walking
<1>1. CASE Run \/ Wake \/ GetEmpty
  BY <1>1 DEF Run, Wake, GetEmpty
<1>2. CASE ListenFails \/ CallBegin
  BY <1>2 DEF ListenFails, CallBegin, NextCmd
<1>3. CASE Leave \/ Finish
  BY <1>3 DEF Leave, Finish
<1> QED
  BY <1>1, <1>2, <1>3 DEF Move

LEMMA AsideFrame ==
  ASSUME Aside
  PROVE  /\ UNCHANGED <<gil, putting, refs, created, kept, puts, cmd_q, lpc,
                        cmd, last, listen_commands, status, fds, signals,
                        unlisted, late>>
         /\ ppc' = ppc \/ (ppc = "send" /\ ppc' = "incref")
         /\ sent' \in {sent, TRUE}
         /\ signalled' \in {signalled, TRUE}
         /\ Walking' = Walking
         /\ InHand' = InHand /\ Released' = Released
<1> USE DEF putVars, objVars, qVars, locals, listVars, sigVars, histVars, InHand,
            Released, Walking
<1>1. CASE PutSend \/ Signal
  BY <1>1 DEF PutSend, Signal
<1>2. CASE Sockets
  BY <1>2 DEF Sockets, Accept, ProtocolEnds, PeerCloses
<1>3. CASE UNCHANGED vars
  BY <1>3 DEF vars
<1> QED
  BY <1>1, <1>2, <1>3 DEF Aside

LEMMA AsideConns ==
  ASSUME TypeOK, Aside
  PROVE  conns' \in [Conns -> {"none", "open", "finished", "closed"}]
<1>1. CASE PutSend \/ Signal \/ UNCHANGED vars
  BY <1>1 DEF TypeOK, PutSend, Signal, vars
<1>2. CASE Sockets
  BY <1>2 DEF TypeOK, Sockets, Accept, Establish, ProtocolEnds, PeerCloses
<1> QED
  BY <1>1, <1>2 DEF Aside

LEMMA WalkFrame ==
  ASSUME Walk
  PROVE  /\ UNCHANGED <<ppc, putting, refs, created, kept, puts, cmd_q, sent,
                        cmd, last, listen_commands, status, fds, signalled,
                        conns, unlisted, late>>
         /\ InHand = {} /\ InHand' = {} /\ Released' = Released
         /\ \/ lpc = "poll" /\ lpc' = "close" /\ gil = NoThread /\ gil' = Main
               /\ signals' = FALSE
            \/ lpc = "next" /\ lpc' = "faulted" /\ gil' = gil
               /\ signals' = signals
            \/ lpc = "close" /\ lpc' = "poll" /\ gil' = NoThread
               /\ listen_commands = <<>> /\ signals' = signals
<1> USE DEF putVars, objVars, qVars, locals, listVars, sigVars, histVars, InHand,
            Released
<1>1. CASE BreakBegin
  BY <1>1 DEF BreakBegin
<1>2. CASE BreakFault
  BY <1>2 DEF BreakFault
<1>3. CASE BreakEnd
  BY <1>3 DEF BreakEnd
<1> QED
  BY <1>1, <1>2, <1>3 DEF Walk

\* Who holds a reference to an object keeps it allocated, whenever nobody is
\* inside schedule().
LEMMA HoldersCount ==
  ASSUME IInv, NEW o \in Objects
  PROVE  /\ refs[o] \in Nat /\ Count(o, cmd_q) \in Nat
         /\ gil = NoThread => ppc = "idle" /\ ~Walking
         /\ ppc = "idle" => putting = NoObject /\ o # putting
         /\ (o \in kept /\ ppc = "idle") => refs[o] >= 1
         /\ (o \in InHand /\ ppc = "idle") => refs[o] >= 1
         /\ (o \in ListenCmds /\ Listed(o) = 1 /\ ppc = "idle") => refs[o] >= 1
<1>1. refs[o] \in Nat /\ cmd_q \in Seq(Objects)
  BY DEF IInv, TypeOK
<1>2. Count(o, cmd_q) \in Nat
  BY <1>1, CountType
<1>3. /\ gil = NoThread => ppc = "idle" /\ ~Walking
      /\ ppc = "idle" => putting = NoObject /\ o # putting
  BY LoopAssumption DEF IInv, PutInv
<1>4. RefsOf(o)
  BY DEF IInv, RefsInv
<1>5. o \in ListenCmds => Listed(o) \in {0, 1}
  BY DEF Listed
<1> QED
  BY <1>1, <1>2, <1>3, <1>4, <1>5 DEF RefsOf

\* What the walk of the break finds at the head of the list.
LEMMA HeadFacts ==
  ASSUME IInv, listen_commands # <<>>
  PROVE  LET h == Head(listen_commands)
         IN  /\ h \in ListenCmds /\ h \in Objects
             /\ Tail(listen_commands) \in Seq(ListenCmds)
             /\ \A c \in ListenCmds :
                  /\ Count(c, Tail(listen_commands)) \in Nat
                  /\ Count(c, listen_commands) =
                       Count(c, Tail(listen_commands)) + (IF h = c THEN 1 ELSE 0)
             /\ Released = {} => Listed(h) = 1 /\ status[h] # "I"
<1> DEFINE h == Head(listen_commands)
<1>1. listen_commands \in Seq(ListenCmds)
  BY DEF IInv, TypeOK
<1>2. /\ h \in ListenCmds /\ Tail(listen_commands) \in Seq(ListenCmds)
      /\ \A c : Count(c, listen_commands) =
                  Count(c, Tail(listen_commands)) + (IF h = c THEN 1 ELSE 0)
  BY <1>1, CountTail
<1>3. \A c : Count(c, Tail(listen_commands)) \in Nat
  BY <1>2, CountType
<1>4. ASSUME Released = {} PROVE Listed(h) = 1 /\ status[h] # "I"
  <2>1. Count(h, listen_commands) + (IF h \in unlisted THEN 1 ELSE 0) = Listed(h)
    BY <1>2, <1>4 DEF IInv, ListInv, Listed
  <2>2. Count(h, listen_commands) >= 1
    BY <1>2, <1>3
  <2>3. Count(h, listen_commands) \in Nat
    BY <1>1, CountType
  <2> QED
    BY <2>1, <2>2, <2>3 DEF Listed
<1> QED
  BY <1>2, <1>3, <1>4 DEF Objects

-----------------------------------------------------------------------------
(* The inductive invariant *)

LEMMA InitIInv == Init => IInv
<1> SUFFICES ASSUME Init PROVE IInv
  OBVIOUS
<1>1. /\ cmd_q = <<>> /\ listen_commands = <<>> /\ putting = NoObject
      /\ lpc = "script" /\ created = {} /\ kept = {} /\ InHand = {}
      /\ \A o \in Objects : refs[o] = 0 /\ puts[o] = 0 /\ o # putting
      /\ \A c \in ListenCmds : status[c] = "I" /\ fds[c] = 0 /\ Listed(c) = 0
      /\ Released = {} /\ ~Walking /\ unlisted = {} /\ late = {}
  BY LoopAssumption DEF Init, InHand, Released, Walking, Listed, Objects
<1>2. \A o : Count(o, cmd_q) = 0 /\ Count(o, listen_commands) = 0 /\ ~In(o, cmd_q)
  BY <1>1, CountEmpty
<1>3. TypeOK
  <2>1. 0 \in 0 .. MaxPuts /\ 0 \in 0 .. MaxAddrs /\ QCapacity \in Nat
    BY LoopAssumption
  <2>2. /\ <<>> \in Seq(Objects) /\ <<>> \in Seq(ListenCmds)
        /\ Len(<<>>) = 0
    OBVIOUS
  <2>3. /\ sent \in BOOLEAN /\ last \in BOOLEAN
        /\ signalled \in BOOLEAN /\ signals \in BOOLEAN
    BY DEF Init
  <2>4. Len(cmd_q) <= QCapacity
    BY <1>1, <2>1, <2>2
  <2> QED
    BY <1>1, <2>1, <2>2, <2>3, <2>4 DEF Init, TypeOK
<1>4. PutInv
  BY <1>1 DEF Init, PutInv
<1>5. CreatedInv /\ HandInv /\ FdsInv
  BY <1>1, <1>2 DEF CreatedInv, HandInv, FdsInv
<1>6. OnceInv /\ ListInv
  BY <1>1, <1>2 DEF OnceInv, ListInv, Objects
<1>7. RefsInv
  BY <1>1, <1>2 DEF RefsInv, RefsOf
<1> QED
  BY <1>3, <1>4, <1>5, <1>6, <1>7 DEF IInv

LEMMA MoveStep == ASSUME IInv, Move PROVE IInv'
<1> USE MoveFrame DEF IInv
<1>1. TypeOK'
  <2>1. sent' \in BOOLEAN
    BY DEF TypeOK
  <2> QED
    BY <2>1 DEF TypeOK
<1>2. PutInv'
  BY DEF PutInv
<1>3. CreatedInv'
  BY DEF CreatedInv
<1>4. HandInv'
  BY DEF HandInv
<1>5. OnceInv'
  BY DEF OnceInv
<1>6. RefsInv'
  BY DEF RefsInv, RefsOf, Listed
<1>7. ListInv'
  BY DEF ListInv, Listed
<1>8. FdsInv'
  BY DEF FdsInv
<1> QED
  BY <1>1, <1>2, <1>3, <1>4, <1>5, <1>6, <1>7, <1>8

LEMMA AsideStep == ASSUME IInv, Aside PROVE IInv'
<1> USE AsideFrame DEF IInv
<1>1. TypeOK'
  <2>1. sent' \in BOOLEAN /\ signalled' \in BOOLEAN
    BY DEF TypeOK
  <2> QED
    BY <2>1, AsideConns DEF TypeOK
<1>2. PutInv'
  BY DEF PutInv
<1>3. CreatedInv'
  BY DEF CreatedInv
<1>4. HandInv'
  BY DEF HandInv
<1>5. OnceInv'
  BY DEF OnceInv
<1>6. RefsInv'
  BY DEF RefsInv, RefsOf, Listed
<1>7. ListInv'
  BY DEF ListInv, Listed
<1>8. FdsInv'
  BY DEF FdsInv
<1> QED
  BY <1>1, <1>2, <1>3, <1>4, <1>5, <1>6, <1>7, <1>8

\* The collector only empties the list, and never during the walk.
LEMMA CollectStep ==
  ASSUME IInv, NEW t \in Scripts, Collect(t)
  PROVE  IInv'
<1>0. /\ UNCHANGED <<gil, ppc, putting, refs, created, kept, puts, cmd_q, sent,
                     lpc, cmd, last, status, fds, signalled, signals, conns,
                     late>>
      /\ listen_commands' = <<>> /\ InHand' = InHand /\ Walking' = Walking
      /\ unlisted' = unlisted \cup
                       {listen_commands[i] : i \in DOMAIN listen_commands}
      /\ gil = NoThread
  BY DEF Collect, RunsPython, putVars, objVars, qVars, locals, sigVars, InHand,
         Walking
<1>a. /\ ~Walking /\ Released = {} /\ Released' = {}
      /\ listen_commands \in Seq(ListenCmds)
  BY <1>0 DEF IInv, PutInv, TypeOK, Walking, Released
<1>b. unlisted' = unlisted \cup {c \in ListenCmds : In(c, listen_commands)}
  BY <1>0, <1>a DEF In
<1>1. TypeOK'
  <2>1. <<>> \in Seq(ListenCmds) /\ unlisted' \subseteq ListenCmds
    BY <1>b DEF IInv, TypeOK
  <2> QED
    BY <1>0, <2>1 DEF IInv, TypeOK
<1>2. PutInv' /\ CreatedInv' /\ HandInv' /\ OnceInv' /\ FdsInv'
  BY <1>0 DEF IInv, PutInv, CreatedInv, HandInv, OnceInv, FdsInv
<1>3. RefsInv'
  BY <1>0 DEF IInv, RefsInv, RefsOf, Listed
<1>4. ListInv'
  <2> SUFFICES ASSUME NEW c \in ListenCmds
               PROVE  (IF c \in unlisted' THEN 1 ELSE 0) = Listed(c)
    BY <1>0, <1>a, CountEmpty DEF ListInv, Listed, Walking
  <2>1. Count(c, listen_commands) + (IF c \in unlisted THEN 1 ELSE 0) = Listed(c)
    BY <1>a DEF IInv, ListInv, Listed
  <2>2. /\ Count(c, listen_commands) \in Nat
        /\ Count(c, listen_commands) > 0 <=> In(c, listen_commands)
    BY <1>a, CountType
  <2>3. Listed(c) \in {0, 1}
    BY DEF Listed
  <2>4. c \in unlisted' <=> c \in unlisted \/ In(c, listen_commands)
    BY <1>b
  <2> QED
    BY <2>1, <2>2, <2>3, <2>4
<1> QED
  BY <1>1, <1>2, <1>3, <1>4 DEF IInv

LEMMA CreateStep ==
  ASSUME IInv, NEW t \in Scripts, NEW o \in Objects, Create(t, o)
  PROVE  IInv'
<1>0. /\ UNCHANGED <<gil, ppc, putting, puts, cmd_q, sent, lpc, cmd, last,
                     listen_commands, status, fds, signalled, signals, conns,
                     unlisted, late>>
      /\ InHand' = InHand /\ Released' = Released /\ Walking' = Walking
      /\ gil = NoThread /\ o \notin created
      /\ created' = created \cup {o} /\ kept' = kept \cup {o}
      /\ refs' = [refs EXCEPT ![o] = 1]
  BY DEF Create, RunsPython, putVars, qVars, locals, listVars, sigVars,
         histVars, InHand, Released, Walking
<1>1. TypeOK'
  BY <1>0 DEF IInv, TypeOK
<1>2. PutInv' /\ CreatedInv' /\ HandInv' /\ OnceInv' /\ FdsInv'
  BY <1>0 DEF IInv, PutInv, CreatedInv, HandInv, OnceInv, FdsInv
<1>3. RefsInv'
  <2> SUFFICES ASSUME NEW x \in Objects PROVE RefsOf(x)'
    BY DEF RefsInv
  <2>1. RefsOf(x) /\ refs \in [Objects -> Nat] /\ kept \subseteq created
    BY DEF IInv, RefsInv, TypeOK
  <2>2. CASE x # o
    BY <1>0, <2>1, <2>2 DEF RefsOf, Listed
  <2>3. CASE x = o
    <3>1. ~In(o, cmd_q) /\ o \notin InHand /\ o \notin kept
      BY <1>0, <2>1 DEF IInv, CreatedInv
    <3>2. Count(o, cmd_q) = 0
      BY <3>1, CountType DEF IInv, TypeOK
    <3>3. o \in ListenCmds => Listed(o) = 0
      BY <1>0 DEF IInv, CreatedInv, Listed
    <3>4. o # putting
      BY <1>0, HoldersCount
    <3>5. refs'[o] = 1 /\ o \in kept'
      BY <1>0, <2>1
    <3>6. Listed(o)' = Listed(o)
      BY <1>0 DEF Listed
    <3> QED
      BY <1>0, <2>3, <3>1, <3>2, <3>3, <3>4, <3>5, <3>6 DEF RefsOf
  <2> QED
    BY <2>2, <2>3
<1>4. ListInv'
  BY <1>0 DEF IInv, ListInv, Listed
<1> QED
  BY <1>1, <1>2, <1>3, <1>4 DEF IInv

LEMMA DropStep ==
  ASSUME IInv, NEW t \in Scripts, NEW o \in Objects, Drop(t, o)
  PROVE  IInv'
<1>0. /\ UNCHANGED <<gil, ppc, putting, created, puts, cmd_q, sent, lpc, cmd,
                     last, listen_commands, status, fds, signalled, signals,
                     conns, unlisted, late>>
      /\ InHand' = InHand /\ Released' = Released /\ Walking' = Walking
      /\ gil = NoThread /\ o \in kept
      /\ kept' = kept \ {o} /\ refs' = [refs EXCEPT ![o] = @ - 1]
  BY DEF Drop, RunsPython, putVars, qVars, locals, listVars, sigVars, histVars,
         InHand, Released, Walking
<1>a. refs \in [Objects -> Nat] /\ refs[o] >= 1 /\ putting = NoObject
  BY <1>0, HoldersCount DEF IInv, TypeOK
<1>b. refs' \in [Objects -> Nat]
  BY <1>0, <1>a
<1>1. TypeOK'
  BY <1>0, <1>b DEF IInv, TypeOK
<1>2. PutInv' /\ CreatedInv' /\ HandInv' /\ OnceInv' /\ FdsInv'
  BY <1>0, <1>a DEF IInv, PutInv, CreatedInv, HandInv, OnceInv, FdsInv
<1>3. RefsInv'
  <2> SUFFICES ASSUME NEW x \in Objects PROVE RefsOf(x)'
    BY DEF RefsInv
  <2>1. RefsOf(x) /\ Count(x, cmd_q) \in Nat
    BY HoldersCount DEF IInv, RefsInv
  <2> QED
    BY <1>0, <1>a, <2>1 DEF RefsOf, Listed
<1>4. ListInv'
  BY <1>0 DEF IInv, ListInv, Listed
<1> QED
  BY <1>1, <1>2, <1>3, <1>4 DEF IInv

LEMMA PutStep ==
  ASSUME IInv, NEW t \in Scripts, NEW o \in Objects, Put(t, o)
  PROVE  IInv'
<1>0. /\ UNCHANGED <<refs, created, kept, sent, lpc, cmd, last,
                     listen_commands, status, fds, signalled, signals, conns,
                     unlisted, late>>
      /\ InHand' = InHand /\ Released' = Released /\ Walking' = Walking
      /\ gil = NoThread /\ o \in kept
      /\ gil' = t /\ ppc' = "send" /\ putting' = o
      /\ cmd_q' = Append(cmd_q, o) /\ Len(cmd_q) < QCapacity
      /\ puts' = [puts EXCEPT ![o] = @ + 1]
      /\ IF o \in ListenCmds THEN puts[o] = 0 ELSE puts[o] < MaxPuts
  BY DEF Put, MayPut, RunsPython, locals, listVars, sigVars, histVars, InHand,
         Released, Walking
<1>a. /\ puts \in [Objects -> 0 .. MaxPuts] /\ cmd_q \in Seq(Objects)
      /\ putting = NoObject /\ kept \subseteq created
      /\ MaxPuts \in Nat \ {0} /\ QCapacity \in Nat
      /\ NoThread \notin Scripts /\ NoObject \notin Objects
      /\ ListenCmds \subseteq Objects
  BY <1>0, HoldersCount, LoopAssumption DEF IInv, TypeOK, Objects
<1>b. \A x : Count(x, cmd_q') = Count(x, cmd_q) + (IF o = x THEN 1 ELSE 0)
  BY <1>0, <1>a, CountAppend
<1>c. \A x : Count(x, cmd_q) \in Nat
  BY <1>a, CountType
<1>d. \A x : In(x, cmd_q') => In(x, cmd_q) \/ x = o
  BY <1>0, <1>a DEF In
<1>1. TypeOK'
  <2>1. cmd_q' \in Seq(Objects) /\ Len(cmd_q') <= QCapacity
    BY <1>0, <1>a
  <2>2. puts' \in [Objects -> 0 .. MaxPuts]
    BY <1>0, <1>a
  <2> QED
    BY <1>0, <2>1, <2>2 DEF IInv, TypeOK
<1>2. PutInv'
  BY <1>0, <1>a DEF IInv, PutInv
<1>3. CreatedInv' /\ HandInv' /\ FdsInv'
  BY <1>0, <1>a, <1>d DEF IInv, CreatedInv, HandInv, FdsInv
<1>4. OnceInv'
  <2> SUFFICES ASSUME NEW c \in ListenCmds
               PROVE  /\ puts'[c] <= 1
                      /\ Count(c, cmd_q')
                           + (IF lpc' = "link" /\ cmd' = c THEN 1 ELSE 0)
                           + (IF status'[c] # "I" THEN 1 ELSE 0) <= puts'[c]
    BY DEF OnceInv
  <2>1. /\ puts[c] <= 1
        /\ Count(c, cmd_q) + (IF lpc = "link" /\ cmd = c THEN 1 ELSE 0)
             + (IF status[c] # "I" THEN 1 ELSE 0) <= puts[c]
    BY DEF IInv, OnceInv
  <2>2. puts'[c] = puts[c] + (IF o = c THEN 1 ELSE 0)
    BY <1>0, <1>a
  <2>3. o = c => puts[c] = 0
    BY <1>0
  <2> QED
    BY <1>0, <1>a, <1>b, <1>c, <2>1, <2>2, <2>3
<1>5. RefsInv'
  <2> SUFFICES ASSUME NEW x \in Objects PROVE RefsOf(x)'
    BY DEF RefsInv
  <2>1. RefsOf(x) /\ Count(x, cmd_q) \in Nat /\ refs[x] \in Nat
    BY HoldersCount DEF IInv, RefsInv
  <2>2. Count(x, cmd_q') = Count(x, cmd_q) + (IF o = x THEN 1 ELSE 0)
    BY <1>b
  <2>3. Listed(x)' = Listed(x) /\ Listed(x) \in {0, 1}
    BY <1>0 DEF Listed
  <2> QED
    BY <1>0, <1>a, <2>1, <2>2, <2>3 DEF RefsOf
<1>6. ListInv'
  BY <1>0 DEF IInv, ListInv, Listed
<1> QED
  BY <1>1, <1>2, <1>3, <1>4, <1>5, <1>6 DEF IInv

LEMMA PutIncrefStep == ASSUME IInv, PutIncref PROVE IInv'
<1>0. /\ UNCHANGED <<created, kept, puts, cmd_q, sent, lpc, cmd, last,
                     listen_commands, status, fds, signalled, signals, conns,
                     unlisted, late>>
      /\ InHand' = InHand /\ Released' = Released /\ Walking' = Walking
      /\ ppc = "incref"
      /\ gil' = NoThread /\ ppc' = "idle" /\ putting' = NoObject
      /\ refs' = [refs EXCEPT ![putting] = @ + 1]
  BY DEF PutIncref, qVars, locals, listVars, sigVars, histVars, InHand,
         Released, Walking
<1>a. refs \in [Objects -> Nat] /\ putting \in Objects
  BY <1>0 DEF IInv, TypeOK, PutInv
<1>b. refs' \in [Objects -> Nat] /\ NoObject \notin Objects
  BY <1>0, <1>a, LoopAssumption
<1>1. TypeOK'
  BY <1>0, <1>b DEF IInv, TypeOK
<1>2. PutInv' /\ CreatedInv' /\ HandInv' /\ OnceInv' /\ FdsInv'
  BY <1>0 DEF IInv, PutInv, CreatedInv, HandInv, OnceInv, FdsInv
<1>3. RefsInv'
  <2> SUFFICES ASSUME NEW x \in Objects PROVE RefsOf(x)'
    BY DEF RefsInv
  <2>1. RefsOf(x) /\ x # NoObject
    BY <1>b DEF IInv, RefsInv
  <2> QED
    BY <1>0, <1>a, <2>1 DEF RefsOf, Listed
<1>4. ListInv'
  BY <1>0 DEF IInv, ListInv, Listed
<1> QED
  BY <1>1, <1>2, <1>3, <1>4 DEF IInv

LEMMA GetStep == ASSUME IInv, Get PROVE IInv'
<1>0. /\ UNCHANGED <<gil, ppc, putting, refs, created, kept, puts, sent,
                     listen_commands, status, fds, signalled, signals, conns,
                     unlisted, late>>
      /\ lpc = "get" /\ cmd_q # <<>> /\ InHand = {}
      /\ Released' = Released /\ ~Walking /\ ~Walking'
      /\ cmd' = Head(cmd_q) /\ cmd_q' = Tail(cmd_q) /\ last' \in BOOLEAN
      /\ lpc' = IF cmd' \in ListenCmds THEN "link" ELSE "call"
      /\ InHand' = {cmd'}
  BY DEF Get, putVars, objVars, listVars, sigVars, histVars, InHand, Released,
         Walking
<1>a. cmd_q \in Seq(Objects) /\ Len(cmd_q) <= QCapacity /\ QCapacity \in Nat
  BY LoopAssumption DEF IInv, TypeOK
<1>b. /\ cmd' \in Objects /\ cmd_q' \in Seq(Objects)
      /\ \A x : Count(x, cmd_q) = Count(x, cmd_q') + (IF cmd' = x THEN 1 ELSE 0)
  BY <1>0, <1>a, CountTail
<1>c. \A x : /\ Count(x, cmd_q') \in Nat /\ Count(x, cmd_q) \in Nat
             /\ Count(x, cmd_q') > 0 <=> In(x, cmd_q')
             /\ Count(x, cmd_q) > 0 <=> In(x, cmd_q)
  BY <1>a, <1>b, CountType
<1>1. TypeOK'
  <2>1. Len(cmd_q') <= QCapacity
    BY <1>0, <1>a
  <2>2. lpc' \in {"link", "call"}
    BY <1>0
  <2> QED
    BY <1>0, <1>b, <2>1, <2>2 DEF IInv, TypeOK
<1>2. PutInv' /\ FdsInv'
  BY <1>0 DEF IInv, PutInv, FdsInv
<1>3. CreatedInv'
  <2>1. \A x : In(x, cmd_q') \/ x \in InHand' => In(x, cmd_q)
    BY <1>0, <1>b, <1>c
  <2> QED
    BY <1>0, <2>1 DEF IInv, CreatedInv
<1>4. HandInv'
  BY <1>0, <1>b DEF HandInv, Objects
<1>5. OnceInv'
  <2> SUFFICES ASSUME NEW c \in ListenCmds
               PROVE  /\ puts'[c] <= 1
                      /\ Count(c, cmd_q')
                           + (IF lpc' = "link" /\ cmd' = c THEN 1 ELSE 0)
                           + (IF status'[c] # "I" THEN 1 ELSE 0) <= puts'[c]
    BY DEF OnceInv
  <2>1. /\ puts[c] <= 1
        /\ Count(c, cmd_q) + (IF status[c] # "I" THEN 1 ELSE 0) <= puts[c]
    BY <1>0, <1>c DEF IInv, OnceInv
  <2>2. lpc' = "link" /\ cmd' = c <=> cmd' = c
    BY <1>0
  <2> QED
    BY <1>0, <1>b, <1>c, <2>1, <2>2
<1>6. RefsInv'
  <2> SUFFICES ASSUME NEW x \in Objects PROVE RefsOf(x)'
    BY DEF RefsInv
  <2>1. RefsOf(x) /\ refs[x] \in Nat
    BY HoldersCount DEF IInv, RefsInv
  <2>2. Listed(x)' = Listed(x) /\ Listed(x) \in {0, 1}
    BY <1>0 DEF Listed
  <2> QED
    BY <1>0, <1>b, <1>c, <2>1, <2>2 DEF RefsOf
<1>7. ListInv'
  BY <1>0 DEF IInv, ListInv, Listed
<1> QED
  BY <1>1, <1>2, <1>3, <1>4, <1>5, <1>6, <1>7 DEF IInv

\* What the loop links was not in the list before.
LEMMA LinkFacts ==
  ASSUME IInv, Link
  PROVE  /\ UNCHANGED <<gil, ppc, putting, refs, created, kept, puts, cmd_q,
                        sent, cmd, last, fds, signalled, signals, conns,
                        unlisted>>
         /\ lpc = "link" /\ lpc' = "resolve"
         /\ Released = {} /\ Released' = {} /\ ~Walking /\ ~Walking'
         /\ late' = IF signals THEN late ELSE late \cup {cmd}
         /\ InHand = {cmd} /\ InHand' = {}
         /\ cmd \in ListenCmds /\ status[cmd] = "I" /\ cmd \in created
         /\ listen_commands' \in Seq(ListenCmds)
         /\ status' = [status EXCEPT ![cmd] = "R"]
         /\ \A x : Count(x, listen_commands') =
                     Count(x, listen_commands) + (IF cmd = x THEN 1 ELSE 0)
         /\ \A x : Count(x, listen_commands) \in Nat /\ Count(x, cmd_q) \in Nat
<1>0. /\ UNCHANGED <<gil, ppc, putting, refs, created, kept, puts, cmd_q,
                     sent, cmd, last, fds, signalled, signals, conns,
                     unlisted>>
      /\ lpc = "link" /\ lpc' = "resolve"
      /\ Released = {} /\ Released' = {} /\ ~Walking /\ ~Walking'
      /\ late' = IF signals THEN late ELSE late \cup {cmd}
      /\ InHand = {cmd} /\ InHand' = {}
      /\ status' = [status EXCEPT ![cmd] = "R"]
      /\ listen_commands' = <<cmd>> \o listen_commands
  BY DEF Link, putVars, objVars, qVars, locals, sigVars, InHand, Released, Walking
<1>1. cmd \in ListenCmds
  BY <1>0 DEF IInv, HandInv
<1>2. cmd \in created
  BY <1>0, <1>1 DEF IInv, CreatedInv, Objects
<1>3. /\ listen_commands \in Seq(ListenCmds) /\ cmd_q \in Seq(Objects)
      /\ puts \in [Objects -> 0 .. MaxPuts]
  BY DEF IInv, TypeOK
<1>4. \A x : Count(x, listen_commands) \in Nat /\ Count(x, cmd_q) \in Nat
  BY <1>3, CountType
<1>5. status[cmd] = "I"
  <2>1. /\ puts[cmd] <= 1 /\ puts[cmd] \in Nat
        /\ Count(cmd, cmd_q) + 1 + (IF status[cmd] # "I" THEN 1 ELSE 0)
             <= puts[cmd]
    <3>1. puts[cmd] \in 0 .. MaxPuts
      BY <1>1, <1>3 DEF Objects
    <3> QED
      BY <1>0, <1>1, <3>1, LoopAssumption DEF IInv, OnceInv
  <2> QED
    BY <1>4, <2>1
<1>6. /\ listen_commands' \in Seq(ListenCmds)
      /\ \A x : Count(x, listen_commands') =
                  Count(x, listen_commands) + (IF cmd = x THEN 1 ELSE 0)
  BY <1>0, <1>1, <1>3, CountPrepend
<1> QED
  BY <1>0, <1>1, <1>2, <1>4, <1>5, <1>6

LEMMA LinkStep == ASSUME IInv, Link PROVE IInv'
<1> USE LinkFacts
<1>a. status \in [ListenCmds -> {"I", "R", "L", "C"}]
  BY DEF IInv, TypeOK
<1>b. \A c \in ListenCmds : /\ c = cmd => Listed(c) = 0 /\ Listed(c)' = 1
                            /\ c # cmd => Listed(c)' = Listed(c)
                            /\ Listed(c) \in {0, 1}
  BY <1>a DEF Listed
<1>1. TypeOK'
  BY DEF IInv, TypeOK
<1>2. PutInv'
  BY DEF IInv, PutInv
<1>3. CreatedInv'
  BY <1>a DEF IInv, CreatedInv
<1>4. HandInv'
  BY <1>a DEF HandInv
<1>5. OnceInv'
  <2> SUFFICES ASSUME NEW c \in ListenCmds
               PROVE  /\ puts'[c] <= 1
                      /\ Count(c, cmd_q')
                           + (IF lpc' = "link" /\ cmd' = c THEN 1 ELSE 0)
                           + (IF status'[c] # "I" THEN 1 ELSE 0) <= puts'[c]
    BY DEF OnceInv
  <2>1. /\ puts[c] <= 1
        /\ Count(c, cmd_q) + (IF cmd = c THEN 1 ELSE 0)
             + (IF status[c] # "I" THEN 1 ELSE 0) <= puts[c]
    BY DEF IInv, OnceInv
  <2>2. c = cmd => status[c] = "I" /\ status'[c] = "R"
    BY <1>a
  <2>3. c # cmd => status'[c] = status[c]
    BY <1>a
  <2> QED
    BY <2>1, <2>2, <2>3
<1>6. RefsInv'
  <2> SUFFICES ASSUME NEW x \in Objects PROVE RefsOf(x)'
    BY DEF RefsInv
  <2>1. RefsOf(x) /\ refs[x] \in Nat
    BY HoldersCount DEF IInv, RefsInv
  <2> QED
    BY <1>b, <2>1 DEF RefsOf
<1>7. ListInv'
  <2> SUFFICES ASSUME NEW c \in ListenCmds
               PROVE  Count(c, listen_commands')
                        + (IF c \in unlisted' THEN 1 ELSE 0) = Listed(c)'
    BY DEF ListInv
  <2>1. Count(c, listen_commands) + (IF c \in unlisted THEN 1 ELSE 0) = Listed(c)
    BY DEF IInv, ListInv, Listed
  <2> QED
    BY <1>b, <2>1
<1>8. FdsInv'
  BY <1>a DEF IInv, FdsInv
<1> QED
  BY <1>1, <1>2, <1>3, <1>4, <1>5, <1>6, <1>7, <1>8 DEF IInv

LEMMA ListeningStep == ASSUME IInv, Listening PROVE IInv'
<1>0. /\ UNCHANGED <<gil, ppc, putting, refs, created, kept, puts, cmd_q, sent,
                     cmd, last, listen_commands, signalled, signals, conns,
                     unlisted, late>>
      /\ Released' = Released /\ ~Walking /\ ~Walking'
      /\ lpc = "resolve" /\ lpc' \in {"poll", "get"}
      /\ InHand = {} /\ InHand' = {}
      /\ status' = [status EXCEPT ![cmd] = "L"]
      /\ \E n \in 1 .. MaxAddrs : fds' = [fds EXCEPT ![cmd] = n]
  BY DEF Listening, NextCmd, putVars, objVars, qVars, locals, sigVars, histVars,
         InHand, Released, Walking
<1>a. /\ cmd \in ListenCmds /\ status[cmd] = "R"
      /\ status \in [ListenCmds -> {"I", "R", "L", "C"}]
      /\ fds \in [ListenCmds -> 0 .. MaxAddrs]
  BY <1>0 DEF IInv, HandInv, TypeOK
<1>b. \A c \in ListenCmds : Listed(c)' = Listed(c)
  BY <1>0, <1>a DEF Listed
<1>c. \A c \in ListenCmds : status'[c] # "I" <=> status[c] # "I"
  BY <1>0, <1>a
<1>1. TypeOK'
  <2>1. fds' \in [ListenCmds -> 0 .. MaxAddrs]
    BY <1>0, <1>a
  <2>2. status' \in [ListenCmds -> {"I", "R", "L", "C"}]
    BY <1>0, <1>a
  <2> QED
    BY <1>0, <2>1, <2>2 DEF IInv, TypeOK
<1>2. PutInv' /\ HandInv'
  BY <1>0 DEF IInv, PutInv, HandInv
<1>3. CreatedInv'
  BY <1>0, <1>c DEF IInv, CreatedInv
<1>4. OnceInv'
  <2> SUFFICES ASSUME NEW c \in ListenCmds
               PROVE  /\ puts'[c] <= 1
                      /\ Count(c, cmd_q')
                           + (IF lpc' = "link" /\ cmd' = c THEN 1 ELSE 0)
                           + (IF status'[c] # "I" THEN 1 ELSE 0) <= puts'[c]
    BY DEF OnceInv
  <2>1. /\ puts[c] <= 1
        /\ Count(c, cmd_q) + (IF lpc = "link" /\ cmd = c THEN 1 ELSE 0)
             + (IF status[c] # "I" THEN 1 ELSE 0) <= puts[c]
    BY DEF IInv, OnceInv
  <2> QED
    BY <1>0, <1>c, <2>1
<1>5. RefsInv'
  BY <1>0, <1>b DEF IInv, RefsInv, RefsOf
<1>6. ListInv'
  BY <1>0, <1>b DEF IInv, ListInv
<1>7. FdsInv'
  <2>1. \A c \in ListenCmds : c # cmd => fds'[c] = fds[c] /\ status'[c] = status[c]
    BY <1>0, <1>a
  <2>2. status'[cmd] = "L"
    BY <1>0, <1>a
  <2> QED
    BY <2>1, <2>2 DEF IInv, FdsInv
<1> QED
  BY <1>1, <1>2, <1>3, <1>4, <1>5, <1>6, <1>7 DEF IInv

LEMMA CallEndStep == ASSUME IInv, CallEnd PROVE IInv'
<1>0. /\ UNCHANGED <<gil, ppc, putting, created, kept, puts, cmd_q, sent, cmd,
                     last, listen_commands, status, fds, signalled, signals,
                     conns, unlisted, late>>
      /\ Released' = Released /\ ~Walking /\ ~Walking'
      /\ lpc = "python" /\ lpc' \in {"poll", "get"} /\ gil = NoThread
      /\ InHand = {cmd} /\ InHand' = {}
      /\ refs' = [refs EXCEPT ![cmd] = @ - 1]
  BY DEF CallEnd, NextCmd, putVars, qVars, locals, listVars, sigVars, histVars,
         InHand, Released, Walking
<1>a. cmd \in Objects /\ refs \in [Objects -> Nat]
  BY <1>0 DEF IInv, HandInv, TypeOK, Objects
<1>b. refs[cmd] >= 1
  BY <1>0, <1>a, HoldersCount
<1>c. refs' \in [Objects -> Nat]
  BY <1>0, <1>a, <1>b
<1>1. TypeOK'
  BY <1>0, <1>c DEF IInv, TypeOK
<1>2. PutInv' /\ CreatedInv' /\ HandInv' /\ FdsInv'
  BY <1>0 DEF IInv, PutInv, CreatedInv, HandInv, FdsInv
<1>3. OnceInv'
  <2>1. \A c : ~(lpc = "link" /\ cmd = c) /\ ~(lpc' = "link" /\ cmd' = c)
    BY <1>0
  <2> QED
    BY <1>0, <2>1 DEF IInv, OnceInv
<1>4. RefsInv'
  <2> SUFFICES ASSUME NEW x \in Objects PROVE RefsOf(x)'
    BY DEF RefsInv
  <2>1. RefsOf(x) /\ Count(x, cmd_q) \in Nat
    BY HoldersCount DEF IInv, RefsInv
  <2>2. Listed(x)' = Listed(x) /\ Listed(x) \in {0, 1}
    BY <1>0 DEF Listed
  <2> QED
    BY <1>0, <1>a, <2>1, <2>2 DEF RefsOf
<1>5. ListInv'
  BY <1>0 DEF IInv, ListInv, Listed
<1> QED
  BY <1>1, <1>2, <1>3, <1>4, <1>5 DEF IInv

LEMMA WalkStep == ASSUME IInv, Walk PROVE IInv'
<1> USE WalkFrame DEF IInv
<1>1. TypeOK'
  <2>1. /\ gil' \in Scripts \cup {NoThread} /\ signals' \in BOOLEAN
        /\ lpc' \in {"close", "faulted", "poll"}
    BY LoopAssumption DEF TypeOK
  <2> QED
    BY <2>1 DEF TypeOK
<1>2. PutInv'
  BY LoopAssumption DEF PutInv, Walking
<1>3. CreatedInv' /\ HandInv' /\ OnceInv' /\ FdsInv'
  BY DEF CreatedInv, HandInv, OnceInv, FdsInv
<1>4. RefsInv'
  BY DEF RefsInv, RefsOf, Listed
<1>5. ListInv'
  BY DEF ListInv, Listed
<1> QED
  BY <1>1, <1>2, <1>3, <1>4, <1>5

\* The first command of the list is closed: its status and its reference go
\* together, and the list names it for one more step.
LEMMA CloseStep == ASSUME IInv, BreakClose PROVE IInv'
<1> DEFINE h == Head(listen_commands)
<1>0. /\ UNCHANGED <<gil, ppc, putting, created, kept, puts, cmd_q, sent, cmd,
                     last, listen_commands, signalled, signals, conns, unlisted,
                     late>>
      /\ lpc = "close" /\ lpc' = "next" /\ listen_commands # <<>>
      /\ InHand = {} /\ InHand' = {} /\ Released = {} /\ Released' = {h}
      /\ Walking /\ Walking'
      /\ status' = [status EXCEPT ![h] = "C"] /\ fds' = [fds EXCEPT ![h] = 0]
      /\ refs' = [refs EXCEPT ![h] = @ - 1]
  BY DEF BreakClose, putVars, qVars, locals, sigVars, histVars, InHand, Released,
         Walking
<1>a. /\ h \in ListenCmds /\ h \in Objects
      /\ Listed(h) = 1 /\ status[h] # "I"
  BY <1>0, HeadFacts
<1> HIDE DEF h
<1>b. /\ status \in [ListenCmds -> {"I", "R", "L", "C"}]
      /\ refs \in [Objects -> Nat] /\ fds \in [ListenCmds -> 0 .. MaxAddrs]
      /\ ppc = "idle" /\ 0 \in 0 .. MaxAddrs
  BY <1>0, LoopAssumption DEF IInv, TypeOK, PutInv
<1>c. refs[h] >= 1
  BY <1>a, <1>b, HoldersCount
<1>d. \A c \in ListenCmds : /\ Listed(c)' = IF c = h THEN 0 ELSE Listed(c)
                            /\ status'[c] # "I" <=> status[c] # "I"
  BY <1>0, <1>a, <1>b DEF Listed
<1>1. TypeOK'
  <2>1. refs' \in [Objects -> Nat]
    BY <1>0, <1>a, <1>b, <1>c
  <2>2. status' \in [ListenCmds -> {"I", "R", "L", "C"}]
    BY <1>0, <1>b
  <2>3. fds' \in [ListenCmds -> 0 .. MaxAddrs]
    BY <1>0, <1>b
  <2> QED
    BY <1>0, <2>1, <2>2, <2>3 DEF IInv, TypeOK
<1>2. PutInv' /\ HandInv'
  BY <1>0 DEF IInv, PutInv, HandInv
<1>3. CreatedInv'
  BY <1>0, <1>d DEF IInv, CreatedInv
<1>4. OnceInv'
  <2> SUFFICES ASSUME NEW c \in ListenCmds
               PROVE  /\ puts'[c] <= 1
                      /\ Count(c, cmd_q')
                           + (IF lpc' = "link" /\ cmd' = c THEN 1 ELSE 0)
                           + (IF status'[c] # "I" THEN 1 ELSE 0) <= puts'[c]
    BY DEF OnceInv
  <2>1. /\ puts[c] <= 1
        /\ Count(c, cmd_q) + (IF lpc = "link" /\ cmd = c THEN 1 ELSE 0)
             + (IF status[c] # "I" THEN 1 ELSE 0) <= puts[c]
    BY DEF IInv, OnceInv
  <2> QED
    BY <1>0, <1>d, <2>1
<1>5. RefsInv'
  <2> SUFFICES ASSUME NEW x \in Objects PROVE RefsOf(x)'
    BY DEF RefsInv
  <2>1. RefsOf(x) /\ Count(x, cmd_q) \in Nat /\ refs[x] \in Nat
    BY HoldersCount DEF IInv, RefsInv
  <2>2. refs'[x] = IF x = h THEN refs[h] - 1 ELSE refs[x]
    BY <1>0, <1>b
  <2>3. CASE x = h
    BY <1>0, <1>a, <1>d, <2>1, <2>2, <2>3 DEF RefsOf
  <2>4. CASE x # h
    BY <1>0, <1>d, <2>1, <2>2, <2>4 DEF RefsOf
  <2> QED
    BY <2>3, <2>4
<1>6. ListInv'
  <2> SUFFICES ASSUME NEW c \in ListenCmds
               PROVE  Count(c, listen_commands)
                        + (IF c \in unlisted THEN 1 ELSE 0) =
                          Listed(c)' + (IF c = h THEN 1 ELSE 0)
    BY <1>0 DEF ListInv
  <2>1. Count(c, listen_commands) + (IF c \in unlisted THEN 1 ELSE 0) = Listed(c)
    BY <1>0 DEF IInv, ListInv, Listed
  <2> QED
    BY <1>a, <1>d, <2>1 DEF Listed
<1>7. FdsInv'
  BY <1>0, <1>b DEF IInv, FdsInv
<1> QED
  BY <1>1, <1>2, <1>3, <1>4, <1>5, <1>6, <1>7 DEF IInv

\* The released command leaves the list.
LEMMA NextStep == ASSUME IInv, BreakNext PROVE IInv'
<1> DEFINE h == Head(listen_commands)
<1>0. /\ UNCHANGED <<gil, ppc, putting, refs, created, kept, puts, cmd_q, sent,
                     cmd, last, status, fds, signalled, signals, conns, unlisted,
                     late>>
      /\ lpc = "next" /\ lpc' = "close"
      /\ listen_commands' = Tail(listen_commands)
      /\ InHand = {} /\ InHand' = {} /\ Released = {h} /\ Released' = {}
      /\ Walking /\ Walking'
  BY DEF BreakNext, putVars, objVars, qVars, locals, sigVars, histVars, InHand,
         Released, Walking
<1>a. /\ listen_commands' \in Seq(ListenCmds)
      /\ \A c \in ListenCmds :
           /\ Count(c, listen_commands') \in Nat
           /\ Count(c, listen_commands) =
                Count(c, listen_commands') + (IF h = c THEN 1 ELSE 0)
  <2>1. listen_commands # <<>>
    BY <1>0 DEF IInv, ListInv
  <2> QED
    BY <1>0, <2>1, HeadFacts
<1> HIDE DEF h
<1>1. TypeOK'
  BY <1>0, <1>a DEF IInv, TypeOK
<1>2. PutInv' /\ CreatedInv' /\ HandInv' /\ OnceInv' /\ FdsInv'
  BY <1>0 DEF IInv, PutInv, CreatedInv, HandInv, OnceInv, FdsInv
<1>3. RefsInv'
  BY <1>0 DEF IInv, RefsInv, RefsOf, Listed
<1>4. ListInv'
  <2> SUFFICES ASSUME NEW c \in ListenCmds
               PROVE  Count(c, listen_commands')
                        + (IF c \in unlisted THEN 1 ELSE 0) = Listed(c)
    BY <1>0 DEF ListInv, Listed
  <2>1. Count(c, listen_commands) + (IF c \in unlisted THEN 1 ELSE 0) =
          Listed(c) + (IF c = h THEN 1 ELSE 0)
    BY <1>0 DEF IInv, ListInv
  <2> QED
    BY <1>a, <2>1 DEF Listed
<1> QED
  BY <1>1, <1>2, <1>3, <1>4 DEF IInv

LEMMA InductiveStep == IInv /\ [Next]_vars => IInv'
<1> SUFFICES ASSUME IInv, [Next]_vars PROVE IInv'
  OBVIOUS
<1>1. CASE Move \/ Aside
  BY <1>1, MoveStep, AsideStep
<1>2. CASE \E t \in Scripts : Collect(t)
  BY <1>2, CollectStep
<1>3. CASE \E t \in Scripts, o \in Objects :
             Create(t, o) \/ Drop(t, o) \/ Put(t, o)
  BY <1>3, CreateStep, DropStep, PutStep
<1>4. CASE PutIncref \/ Get \/ Link \/ Listening \/ CallEnd
  BY <1>4, PutIncrefStep, GetStep, LinkStep, ListeningStep, CallEndStep
<1>5. CASE BreakClose \/ BreakNext \/ Walk
  BY <1>5, CloseStep, NextStep, WalkStep
<1> QED
  BY <1>1, <1>2, <1>3, <1>4, <1>5, NextSplits

-----------------------------------------------------------------------------
(* What the invariant says of memory *)

LEMMA UsedIsAllocated == IInv => OnlyBreakUsesFreed
<1> SUFFICES ASSUME IInv PROVE OnlyBreakUsesFreed
  OBVIOUS
<1>0. cmd_q \in Seq(Objects) /\ listen_commands \in Seq(ListenCmds)
  BY DEF IInv, TypeOK
<1>1. ASSUME NEW o \in Objects, refs[o] = 0
      PROVE  /\ ~In(o, cmd_q) /\ o \notin InHand
             /\ o \in ListenCmds => Listed(o) = 0
  <2>1. RefsOf(o) /\ Count(o, cmd_q) \in Nat
    BY HoldersCount DEF IInv, RefsInv
  <2>2. o = putting => o \in kept
    BY LoopAssumption DEF IInv, PutInv
  <2>3. Listed(o) \in {0, 1}
    BY DEF Listed
  <2>4. Count(o, cmd_q) = 0 /\ o \notin InHand /\ (o \in ListenCmds => Listed(o) = 0)
    BY <1>1, <2>1, <2>2, <2>3 DEF RefsOf
  <2>5. Count(o, cmd_q) > 0 <=> In(o, cmd_q)
    BY <1>0, CountType
  <2> QED
    BY <2>4, <2>5
<1>2. ASSUME NEW o \in Objects, In(o, cmd_q) \/ o \in Working
      PROVE  refs[o] > 0
  <2>1. refs[o] \in Nat
    BY DEF IInv, TypeOK
  <2>2. CASE In(o, cmd_q) \/ o \in InHand
    BY <1>1, <2>1, <2>2
  <2>3. CASE lpc = "resolve" /\ o = cmd
    <3>1. o \in ListenCmds /\ Listed(o) = 1
      BY <2>3 DEF IInv, HandInv, Listed
    <3> QED
      BY <1>1, <2>1, <3>1
  <2> QED
    BY <1>2, <2>2, <2>3 DEF Working, InHand
<1>3. ASSUME NEW i \in DOMAIN listen_commands, refs[listen_commands[i]] = 0
      PROVE  i = 1 /\ lpc \in {"next", "faulted"}
  <2> DEFINE o == listen_commands[i]
  <2>1. /\ o \in ListenCmds /\ o \in Objects /\ In(o, listen_commands)
        /\ listen_commands # <<>>
    BY <1>0 DEF In, Objects
  <2>2. Listed(o) = 0
    BY <1>1, <1>3, <2>1
  <2>3. Count(o, listen_commands) \in Nat /\ Count(o, listen_commands) > 0
    BY <1>0, <2>1, CountType
  <2>4. Count(o, listen_commands) + (IF o \in unlisted THEN 1 ELSE 0) =
          Listed(o) + (IF o \in Released THEN 1 ELSE 0)
    BY <2>1 DEF IInv, ListInv
  <2>5. o \in Released /\ Count(o, listen_commands) = 1
    BY <2>2, <2>3, <2>4
  <2>6. lpc \in {"next", "faulted"} /\ o = Head(listen_commands)
    BY <2>5 DEF Released
  <2>7. Count(o, Tail(listen_commands)) = 0
    BY <2>1, <2>5, <2>6, HeadFacts
  <2>8. ~In(o, Tail(listen_commands))
    <3>1. Tail(listen_commands) \in Seq(ListenCmds)
      BY <2>1, HeadFacts
    <3>2. Count(o, Tail(listen_commands)) > 0 <=> In(o, Tail(listen_commands))
      BY <3>1, CountType
    <3> QED
      BY <2>7, <3>2
  <2>9. CASE i # 1
    <3>1. /\ i - 1 \in DOMAIN Tail(listen_commands)
          /\ Tail(listen_commands)[i - 1] = o
      BY <1>0, <2>1, <2>9
    <3> QED
      BY <2>8, <3>1 DEF In
  <2> QED
    BY <2>6, <2>9
<1> QED
  BY <1>2, <1>3 DEF OnlyBreakUsesFreed

LEMMA FreedIsInactive == IInv => DestructsInactive
<1> SUFFICES ASSUME IInv, NEW c \in ListenCmds, refs[c] = 0
             PROVE  fds[c] = 0
  BY DEF DestructsInactive
<1>1. RefsOf(c) /\ Count(c, cmd_q) \in Nat
  BY HoldersCount DEF IInv, RefsInv, Objects
<1>2. c = putting => c \in kept
  BY LoopAssumption DEF IInv, PutInv, Objects
<1>3. Listed(c) = 0
  BY <1>1, <1>2 DEF RefsOf, Listed
<1>4. ~(fds[c] > 0)
  BY <1>3 DEF IInv, FdsInv, Listed
<1>5. fds[c] \in Nat
  BY LoopAssumption DEF IInv, TypeOK
<1> QED
  BY <1>4, <1>5

LEMMA CountsAreExact == IInv => RefsExact
<1> SUFFICES ASSUME IInv, NEW o \in Objects
             PROVE  refs[o] + (IF o = putting THEN 1 ELSE 0)
                      + (IF o \in Released THEN 1 ELSE 0) =
                      Owned(o) + (IF o \in kept THEN 1 ELSE 0)
                        + (IF o \in unlisted THEN 1 ELSE 0)
  BY DEF RefsExact
<1>1. RefsOf(o) /\ Count(o, cmd_q) \in Nat /\ refs[o] \in Nat
  BY HoldersCount DEF IInv, RefsInv
<1>2. listen_commands \in Seq(ListenCmds) /\ unlisted \subseteq ListenCmds
  BY DEF IInv, TypeOK
<1>3. Count(o, listen_commands) \in Nat
  BY <1>2, CountType
<1>4. CASE o \in ListenCmds
  <2>1. Count(o, listen_commands) + (IF o \in unlisted THEN 1 ELSE 0) =
          Listed(o) + (IF o \in Released THEN 1 ELSE 0)
    BY <1>4 DEF IInv, ListInv
  <2>2. Listed(o) \in {0, 1}
    BY DEF Listed
  <2> QED
    BY <1>1, <1>3, <1>4, <2>1, <2>2 DEF RefsOf, Owned
<1>5. CASE o \notin ListenCmds
  <2>1. Count(o, listen_commands) = 0
    <3>1. ~In(o, listen_commands)
      BY <1>2, <1>5 DEF In
    <3> QED
      BY <1>2, <1>3, <3>1, CountType
  <2>2. o \notin Released
    <3>1. CASE lpc \in {"next", "faulted"}
      <4>1. listen_commands # <<>>
        BY <3>1 DEF IInv, ListInv
      <4> QED
        BY <1>5, <4>1, HeadFacts DEF Released
    <3> QED
      BY <3>1 DEF Released
  <2> QED
    BY <1>1, <1>2, <1>5, <2>1, <2>2 DEF RefsOf, Owned
<1> QED
  BY <1>4, <1>5

-----------------------------------------------------------------------------
(* What the break misses *)

\* Steps of scripts and of the queue concern neither the list nor the break.
LEMMA ListFrame ==
  ASSUME \/ \E t \in Scripts, o \in Objects :
              Create(t, o) \/ Drop(t, o) \/ Put(t, o)
         \/ PutIncref \/ Get \/ CallEnd
  PROVE  UNCHANGED <<status, signals, unlisted, late>> /\ Walking' = Walking
<1> USE DEF listVars, sigVars, histVars, Walking
<1>1. CASE \E t \in Scripts, o \in Objects :
             Create(t, o) \/ Drop(t, o) \/ Put(t, o)
  BY <1>1 DEF Create, Drop, Put
<1>2. CASE PutIncref \/ Get \/ CallEnd
  BY <1>2 DEF PutIncref, Get, CallEnd, NextCmd
<1> QED
  BY <1>1, <1>2

LEMMA MissedStep ==
  ASSUME IInv, MissedInv, [Next]_vars
  PROVE  MissedInv'
<1> USE DEF MissedInv
<1>1. CASE Move
  BY <1>1, MoveFrame DEF Listed
<1>2. CASE Aside
  BY <1>2, AsideFrame DEF Listed
<1>3. CASE \E t \in Scripts : Collect(t)
  <2>1. /\ UNCHANGED <<lpc, status, signals, late>>
        /\ unlisted \subseteq unlisted'
    BY <1>3 DEF Collect, sigVars
  <2> QED
    BY <2>1 DEF Listed, Walking
<1>4. CASE \/ \E t \in Scripts, o \in Objects :
                Create(t, o) \/ Drop(t, o) \/ Put(t, o)
           \/ PutIncref \/ Get \/ CallEnd
  BY <1>4, ListFrame DEF Listed
<1>5. CASE Link
  <2>1. /\ signals' = signals /\ unlisted' = unlisted /\ ~Walking
        /\ status' = [status EXCEPT ![cmd] = "R"]
        /\ late' = IF signals THEN late ELSE late \cup {cmd}
    BY <1>5, LinkFacts
  <2>2. \A c \in ListenCmds : c # cmd => Listed(c)' = Listed(c)
    BY <2>1 DEF Listed, IInv, TypeOK
  <2> QED
    BY <2>1, <2>2
<1>6. CASE Listening
  <2>1. /\ UNCHANGED <<signals, unlisted, late>> /\ ~Walking
        /\ lpc = "resolve" /\ status' = [status EXCEPT ![cmd] = "L"]
    BY <1>6 DEF Listening, sigVars, histVars, Walking
  <2>2. status[cmd] = "R"
    BY <2>1 DEF IInv, HandInv
  <2>3. \A c \in ListenCmds : Listed(c)' = Listed(c)
    BY <2>1, <2>2 DEF Listed, IInv, TypeOK
  <2> QED
    BY <2>1, <2>3
<1>7. CASE BreakClose \/ BreakNext
  BY <1>7 DEF BreakClose, BreakNext, Walking
<1>8. CASE Walk
  <2> SUFFICES ASSUME ~Walking', NEW c \in ListenCmds, Listed(c)' = 1
               PROVE  c \in unlisted' \cup late'
    OBVIOUS
  <2>1. /\ lpc = "close" /\ listen_commands = <<>>
        /\ unlisted' = unlisted /\ status' = status
    BY <1>8, WalkFrame DEF Walking
  <2>2. Count(c, listen_commands) = 0 /\ Released = {} /\ Listed(c) = 1
    BY <2>1, CountEmpty DEF Released, Listed
  <2>3. Count(c, listen_commands) + (IF c \in unlisted THEN 1 ELSE 0) =
          Listed(c) + (IF c \in Released THEN 1 ELSE 0)
    BY DEF IInv, ListInv
  <2> QED
    BY <2>1, <2>2, <2>3
<1> QED
  BY <1>1, <1>2, <1>3, <1>4, <1>5, <1>6, <1>7, <1>8, NextSplits

LEMMA MissedOpen == IInv /\ MissedInv => BreakMissesOnly
  BY DEF IInv, FdsInv, MissedInv, BreakMissesOnly, Listed

-----------------------------------------------------------------------------
(* Theorems *)

\* IInv is an inductive invariant, whatever signals, collector and memory do.
THEOREM Invariance == Spec => []IInv
<1> QED
  BY InitIInv, InductiveStep, PTL DEF Spec

\* The variables of the loop stay in their types; in particular no reference
\* count falls below zero and the queue never exceeds its capacity.
THEOREM TypeCorrect == Spec => []TypeOK
<1>1. IInv => TypeOK
  BY DEF IInv
<1> QED
  BY <1>1, Invariance, PTL

\* What the queue or the loop's hand refers to is allocated: schedule() can take
\* its reference after the loop has run the command, because the GIL keeps the
\* script from dropping its own meanwhile.  So is what the list refers to, but
\* for its head in the walk of _event_loop_break, which reads the next field of
\* a command that may just have been deallocated.
THEOREM AllocatedWhileUsed == Spec => []OnlyBreakUsesFreed
<1> QED
  BY UsedIsAllocated, Invariance, PTL

\* No listening command is deallocated with active watchers, not even when
\* the collector has taken it off the list.
THEOREM InactiveWhenFreed == Spec => []DestructsInactive
<1> QED
  BY FreedIsInactive, Invariance, PTL

\* Every reference count is at every moment what script, queue, list and loop
\* hold and the collector has leaked, less what a put has not taken yet or the
\* walk of the break has just dropped.
THEOREM CountsExact == Spec => []RefsExact
<1> QED
  BY CountsAreExact, Invariance, PTL

\* After a signal only those commands listen that the collector had taken off
\* the list or that came into it after the break, whatever the schedule, if
\* the walk of the break gets to its end.
THEOREM BreakMisses == Spec => []BreakMissesOnly
<1>1. Init => MissedInv
  BY DEF Init, MissedInv
<1>2. IInv /\ MissedInv /\ [Next]_vars => MissedInv'
  BY MissedStep
<1> QED
  BY <1>1, <1>2, MissedOpen, Invariance, PTL DEF Spec

\* What waits in the queue is not slept over: the loop stops taking commands
\* only when it was told that the one in hand is the last, and whatever comes
\* after that sends a wake-up that the loop has not used up.
THEOREM NeverSleepsOnCommands == Spec => []WokenForCommands
<1>1. Init => WokenForCommands
  BY DEF Init, WokenForCommands
<1>2. WokenForCommands /\ [Next]_vars => WokenForCommands'
  <2> SUFFICES ASSUME WokenForCommands, [Next]_vars, cmd_q' # <<>>
               PROVE  sent' \/ ppc' = "send" \/ WillGet'
    BY DEF WokenForCommands
  <2> USE DEF WokenForCommands, WillGet
  <2>1. ASSUME NEW t \in Scripts, NEW o \in Objects, Put(t, o)
        PROVE  ppc' = "send"
    BY <2>1 DEF Put
  <2>2. ASSUME NEW t \in Scripts, NEW o \in Objects, Create(t, o) \/ Drop(t, o)
        PROVE  sent' \/ ppc' = "send" \/ WillGet'
    BY <2>2 DEF Create, Drop, putVars, qVars, locals
  <2>3. CASE (\E t \in Scripts : Collect(t)) \/ Signal
    BY <2>3 DEF Collect, Signal, putVars, qVars, locals
  <2>4. CASE PutSend
    BY <2>4 DEF PutSend
  <2>5. CASE PutIncref
    BY <2>5 DEF PutIncref, qVars, locals
  <2>6. CASE Run \/ Leave \/ Finish
    BY <2>6 DEF Run, Leave, Finish, putVars, qVars
  <2>7. CASE Wake \/ GetEmpty
    BY <2>7 DEF Wake, GetEmpty, qVars
  <2>8. CASE Get
    BY <2>8 DEF Get
  <2>9. CASE Link \/ CallBegin
    BY <2>9 DEF Link, CallBegin, putVars, qVars, locals
  <2>10. CASE Listening \/ ListenFails \/ CallEnd
    BY <2>10 DEF Listening, ListenFails, CallEnd, NextCmd, putVars, qVars, locals
  <2>11. CASE Sockets
    BY <2>11
       DEF Sockets, Accept, ProtocolEnds, PeerCloses, putVars, qVars, locals
  <2>12. CASE Break
    BY <2>12
       DEF Break, BreakBegin, BreakClose, BreakNext, BreakFault, BreakEnd,
           putVars, qVars, locals
  <2>13. CASE UNCHANGED vars
    BY <2>13 DEF vars, putVars, qVars, locals
  <2> QED
    BY <2>1, <2>2, <2>3, <2>4, <2>5, <2>6, <2>7, <2>8, <2>9, <2>10, <2>11,
       <2>12, <2>13 DEF Next, Script, Drain
<1> QED
  BY <1>1, <1>2, PTL DEF Spec

\* schedule(), from any thread, and the loop use the queue as CmdQ implements
\* it: every put is followed by its wake-up, and the loop goes to sleep only
\* over an empty queue, or one for which a wake-up is still to be used.
THEOREM ImplementsWoken == Spec => ImplementsWokenChannel
<1> DEFINE owing == IF ppc = "send" THEN {gil} ELSE {}
<1>1. Init => Woken!Init
  BY DEF Init, Woken!Init, Reader
<1>2. IInv /\ WokenForCommands /\ [Next]_vars
        => [Woken!Next]_(Woken!wokenVars)
  <2> SUFFICES ASSUME IInv, WokenForCommands, [Next]_vars
               PROVE  [Woken!Next]_(Woken!wokenVars)
    OBVIOUS
  <2>0. /\ cmd_q \in Seq(Objects) /\ Len(cmd_q) \in Nat
        /\ gil \in Scripts \cup {NoThread}
        /\ gil = NoThread => ppc = "idle"
        /\ Walking => ppc = "idle"
    BY DEF IInv, TypeOK, PutInv
  <2>1. ASSUME UNCHANGED <<gil, ppc, cmd_q, sent>>, Reader' = Reader
        PROVE  UNCHANGED Woken!wokenVars
    BY <2>1 DEF Woken!wokenVars
  <2>2. ASSUME NEW t \in Scripts, NEW o \in Objects, Put(t, o)
        PROVE  Woken!Put(t)
    <3>1. owing = {} /\ owing' = {t}
      BY <2>0, <2>2 DEF Put, RunsPython
    <3>2. Len(cmd_q) < QCapacity /\ Len(cmd_q') = Len(cmd_q) + 1
      BY <2>0, <2>2 DEF Put
    <3> QED
      BY <2>2, <3>1, <3>2 DEF Put, Reader, Woken!Put
  <2>3. CASE PutSend
    <3>1. owing = {gil} /\ owing' = {} /\ gil \in Scripts
      BY <2>0, <2>3 DEF PutSend
    <3>2. Woken!Send(gil)
      BY <2>3, <3>1 DEF PutSend, Reader, Woken!Send
    <3> QED
      BY <3>1, <3>2 DEF Woken!Next
  <2>4. CASE PutIncref
    BY <2>4 DEF PutIncref, qVars, Reader, Woken!wokenVars
  <2>5. ASSUME NEW t \in Scripts, NEW o \in Objects,
               Create(t, o) \/ Drop(t, o)
        PROVE  UNCHANGED Woken!wokenVars
    BY <2>1, <2>5 DEF Create, Drop, putVars, qVars, Reader
  <2>6. CASE Signal \/ Run
    BY <2>1, <2>6 DEF Signal, Run, putVars, qVars, Reader
  <2>7. CASE Wake
    BY <2>7 DEF Wake, putVars, Reader, Woken!Wake, Woken!Next
  <2>8. CASE GetEmpty
    <3>1. Len(cmd_q) = 0
      BY <2>8 DEF GetEmpty
    <3> QED
      BY <2>8, <3>1
         DEF GetEmpty, putVars, qVars, Reader, Woken!Sleep, Woken!MaySleep,
             Woken!Next
  <2>9. CASE Get
    <3>1. Len(cmd_q) > 0 /\ Len(cmd_q') = Len(cmd_q) - 1
      BY <2>0, <2>9 DEF Get
    <3>2. Reader = "awake" /\ Reader' = "awake"
      BY <2>9 DEF Get, Reader
    <3> QED
      BY <2>9, <3>1, <3>2 DEF Get, putVars, Woken!Take, Woken!Next
  <2>10. CASE Link \/ CallBegin
    BY <2>1, <2>10 DEF Link, CallBegin, putVars, qVars, Reader
  <2>11. CASE Listening \/ ListenFails \/ CallEnd
    <3>1. /\ lpc \in {"resolve", "python"} /\ lpc' = NextCmd
          /\ UNCHANGED <<gil, ppc, cmd_q, sent>>
      BY <2>11 DEF Listening, ListenFails, CallEnd, putVars, qVars
    <3>2. CASE last
      <4>1. Reader = "awake" /\ Reader' = "asleep"
        BY <3>1, <3>2 DEF NextCmd, Reader
      <4>2. Len(cmd_q) = 0 \/ sent \/ owing # {}
        BY <3>1, <3>2 DEF WokenForCommands, WillGet
      <4>3. Woken!Sleep
        BY <3>1, <4>1, <4>2 DEF Woken!Sleep, Woken!MaySleep
      <4> QED
        BY <4>3 DEF Woken!Next
    <3>3. CASE ~last
      BY <2>1, <3>1, <3>3 DEF NextCmd, Reader
    <3> QED
      BY <3>2, <3>3
  <2>12. CASE Sockets
    BY <2>1, <2>12
       DEF Sockets, Accept, ProtocolEnds, PeerCloses, putVars, qVars, Reader
  <2>13. CASE BreakBegin \/ BreakClose \/ BreakNext \/ BreakEnd
    <3>1. /\ ppc = "idle" /\ UNCHANGED <<ppc, cmd_q, sent>>
          /\ Reader = "asleep" /\ Reader' = "asleep"
      BY <2>0, <2>13
         DEF BreakBegin, BreakClose, BreakNext, BreakEnd, putVars, qVars, Reader,
             Walking
    <3> QED
      BY <3>1 DEF Woken!wokenVars
  <2>14. CASE BreakFault \/ Leave
    <3>1. /\ lpc \in {"poll", "next"} /\ lpc' \in {"left", "faulted"}
          /\ UNCHANGED <<gil, ppc, cmd_q, sent>>
      BY <2>14 DEF BreakFault, Leave, putVars, qVars
    <3> QED
      BY <3>1 DEF Reader, Woken!Leave, Woken!Next
  <2>15. CASE Finish
    BY <2>1, <2>15 DEF Finish, putVars, qVars, Reader
  <2>16. CASE UNCHANGED vars
    BY <2>1, <2>16 DEF vars, putVars, qVars, Reader
  <2>17. CASE \E t \in Scripts : Script(t)
    <3>1. PICK t \in Scripts : Script(t)
      BY <2>17
    <3>2. CASE \E o \in Objects : Put(t, o)
      <4>1. Woken!Put(t)
        BY <2>2, <3>2
      <4> QED
        BY <4>1 DEF Woken!Next
    <3>3. ASSUME NEW o \in Objects, Create(t, o) \/ Drop(t, o)
          PROVE  UNCHANGED Woken!wokenVars
      BY <2>5, <3>3
    <3>4. CASE Collect(t)
      <4>1. UNCHANGED <<gil, ppc, cmd_q, sent>> /\ Reader' = Reader
        BY <3>4 DEF Collect, putVars, qVars, Reader
      <4> QED
        BY <2>1, <4>1
    <3> QED
      BY <3>1, <3>2, <3>3, <3>4 DEF Script
  <2>18. CASE Drain
    BY <2>8, <2>9, <2>10, <2>11, <2>18 DEF Drain
  <2> QED
    BY <2>3, <2>4, <2>6, <2>7, <2>12, <2>13, <2>14, <2>15, <2>16, <2>17, <2>18
       DEF Next, Break
<1> QED
  BY <1>1, <1>2, Invariance, NeverSleepsOnCommands, PTL
     DEF Spec, ImplementsWokenChannel, Woken!Spec
=============================================================================
