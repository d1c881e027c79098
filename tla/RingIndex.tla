------------------------------ MODULE RingIndex ------------------------------
(***************************************************************************)
(* The index arithmetic shared by every command queue of the repository:   *)
(* greenev's watcher_cmd_q and cond_cmd_q, and the cmd_q of singlev and    *)
(* pyglev.  A queue is an array of QSize slots with an index `head' where  *)
(* the next command is written and an index `tail' from which the next one *)
(* is read.  head = tail means empty, so one slot always stays unused and  *)
(* a queue of QSize slots holds at most QSize - 1 commands.                *)
(***************************************************************************)
EXTENDS Integers, Sequences

CONSTANT QSize  \* number of slots (q_size, size)

\* assert(size > 0) in every constructor.
ASSUME QSizeAssumption == QSize \in Nat \ {0}

Slots == 0 .. QSize - 1

\* Mutant: the wrap is tested one slot too late.
NextSlotLateWrap(i) == IF i = QSize THEN 0 ELSE i + 1

\* head += 1; if (head == size) head = 0  -- and the same for tail.
NextSlot(i) == IF i + 1 = QSize THEN 0 ELSE i + 1

\* The most commands a queue can hold.
Capacity == QSize - 1

\* How many commands lie between tail and head.
Held(head, tail) == IF head >= tail THEN head - tail ELSE head + QSize - tail

\* The slot of the k-th oldest command, for k in 1 .. Held(head, tail).
SlotAt(tail, k) ==
  IF tail + k - 1 < QSize THEN tail + k - 1 ELSE tail + k - 1 - QSize
=============================================================================
