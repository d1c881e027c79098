------------------------------ MODULE IoBuffer ------------------------------
(***************************************************************************)
(* The pool of slots for scattered reads of greenev (iobuffer.c): a table  *)
(* of free slots and two indexes, meant as a ring.  The loops of get and   *)
(* put run under the pool's mutex, and one thread uses the pool.           *)
(*                                                                         *)
(* The head starts behind the table and wraps only when it is exactly      *)
(* there, which it never is after an increment: every slot that is put     *)
(* back is stored behind the table, in the memory of the slots themselves, *)
(* and the tail goes round a table that never changes.                     *)
(***************************************************************************)
EXTENDS Integers

CONSTANTS
  SlotCount   \* slots of the pool (8192 in the code)

VARIABLES
  free_slots_head, free_slots_tail,
  free_slots, \* the table: a slot is named by its place in the data area
  stray       \* history: has a slot been stored behind the table?

bufferVars == <<free_slots_head, free_slots_tail, free_slots, stray>>

Slots == 0 .. SlotCount - 1

\* io_buffer_new.
BufferInit ==
  /\ free_slots_head = SlotCount
  /\ free_slots_tail = 0
  /\ free_slots = [i \in Slots |-> i]
  /\ stray = FALSE

\* Mutant: the tail wraps one slot late.
TailAfterLate(k) == (free_slots_tail + k) % (SlotCount + 1)

TailAfter(k) == (free_slots_tail + k) % SlotCount

\* io_buffer_empty, inside a get that has taken k slots.
io_buffer_empty(k) == TailAfter(k) = free_slots_head

\* How many slots a get of n takes.
Got(n) ==
  CHOOSE k \in 0 .. n :
    /\ \A j \in 0 .. k - 1 : ~io_buffer_empty(j)
    /\ k = n \/ io_buffer_empty(k)

\* io_buffer_get: the iovec of a get of n slots, and the tail after it.
Iovec(n) == [k \in 1 .. Got(n) |-> free_slots[TailAfter(k - 1)]]

Get(n) ==
  /\ free_slots_tail' = TailAfter(Got(n))
  /\ UNCHANGED <<free_slots_head, free_slots, stray>>

\* One round of the loop in io_buffer_put.
PutSlot(slot) ==
  /\ free_slots_head' =
       IF free_slots_head + 1 = SlotCount THEN 0 ELSE free_slots_head + 1
  /\ free_slots' = [i \in Slots |->
                      IF i = free_slots_head' THEN slot ELSE free_slots[i]]
  /\ stray' = (stray \/ free_slots_head' \notin Slots)
  /\ UNCHANGED free_slots_tail
=============================================================================
