--------------------------- MODULE RingIndexProofs ---------------------------
(* Facts about the ring arithmetic that hold for every number of slots. *)
EXTENDS RingIndex, TLAPS

\* Advancing an index keeps it inside the array (the asserts of cmdq_cv.c on
\* q_head and q_tail).
LEMMA NextSlotInRing == ASSUME NEW i \in Slots PROVE NextSlot(i) \in Slots
  BY QSizeAssumption DEF Slots, NextSlot

\* A ring never holds more than Capacity commands.
LEMMA HeldRange ==
  ASSUME NEW h \in Slots, NEW t \in Slots
  PROVE  /\ Held(h, t) \in 0 .. Capacity
         /\ Held(h, t) = 0 <=> h = t
  BY QSizeAssumption DEF Slots, Held, Capacity

\* The full test of every put: the advanced head meets the tail exactly when
\* Capacity commands are in the ring.
LEMMA FullIsCapacity ==
  ASSUME NEW h \in Slots, NEW t \in Slots
  PROVE  NextSlot(h) = t <=> Held(h, t) = Capacity
  BY QSizeAssumption DEF Slots, NextSlot, Held, Capacity

\* A put that is not refused adds one command, in the slot of the old head.
LEMMA HeldAfterPut ==
  ASSUME NEW h \in Slots, NEW t \in Slots, NextSlot(h) # t
  PROVE  /\ Held(NextSlot(h), t) = Held(h, t) + 1
         /\ SlotAt(t, Held(h, t) + 1) = h
  BY QSizeAssumption DEF Slots, NextSlot, Held, SlotAt

\* A get removes one command, the one in the slot of the old tail.
LEMMA HeldAfterGet ==
  ASSUME NEW h \in Slots, NEW t \in Slots, h # t
  PROVE  /\ Held(h, NextSlot(t)) = Held(h, t) - 1
         /\ SlotAt(t, 1) = t
  BY QSizeAssumption DEF Slots, NextSlot, Held, SlotAt

\* The slots of the waiting commands exclude the one a put writes next.
LEMMA HeldSlots ==
  ASSUME NEW h \in Slots, NEW t \in Slots, NEW k \in 1 .. Held(h, t)
  PROVE  SlotAt(t, k) \in Slots /\ SlotAt(t, k) # h
  BY QSizeAssumption DEF Slots, Held, SlotAt

\* After a get the k-th waiting command is the one that was (k+1)-th.
LEMMA SlotAtShift ==
  ASSUME NEW t \in Slots, NEW k \in 1 .. Capacity - 1
  PROVE  SlotAt(NextSlot(t), k) = SlotAt(t, k + 1)
  BY QSizeAssumption DEF Slots, NextSlot, SlotAt, Capacity
=============================================================================
