-------------------------- MODULE RingBufferProofs --------------------------
(***************************************************************************)
(* Theorems about RingBuffer for every size, every priority order and any   *)
(* interleaving: the indexes stay in the ring; a ring whose producer only   *)
(* calls insertChecked() is a bounded FIFO; and what remains of that when   *)
(* the producer overruns the ring or discards.                              *)
(***************************************************************************)
EXTENDS RingBuffer, SequenceTheorems, TLAPS

USE SizeAssumption, BurstAssumption, MaxItemAssumption, OpsAssumption

(* The producer never runs past the bound on elements made, and a started   *)
(* insert() has at least one element left to store.                         *)
LeftOK ==
    /\ pPc = "store" => pLeft >= 1 /\ sent + pLeft <= MaxItem
    /\ pPc = "publish" => pLeft >= 1 /\ sent + (pLeft - 1) <= MaxItem /\ sent >= 1
    /\ pPc = "count" => sent + Burst <= MaxItem

LEMMA WrapSlot == ASSUME NEW i \in Slot PROVE Wrap(i) \in Slot
  BY DEF Wrap, Slot

LEMMA TypesStep == TypeOK /\ LeftOK /\ [Next]_vars => TypeOK' /\ LeftOK'
<1> SUFFICES ASSUME TypeOK, LeftOK, [Next]_vars PROVE TypeOK' /\ LeftOK'
  OBVIOUS
<1> USE DEF TypeOK, LeftOK, shared, producer, consumer, AllOps
<1>1. CASE Insert BY <1>1 DEF Insert
<1>2. CASE InsertChecked BY <1>2 DEF InsertChecked
<1>3. CASE ReserveRead BY <1>3 DEF ReserveRead
<1>4. CASE ReserveDecide BY <1>4 DEF ReserveDecide
<1>5. CASE StoreSlot BY <1>5 DEF StoreSlot, Item
<1>6. CASE PublishTail BY <1>6, WrapSlot DEF PublishTail
<1>7. CASE DiscardLoad BY <1>7 DEF DiscardLoad
<1>8. CASE DiscardStore BY <1>8 DEF DiscardStore
<1>9. CASE DiscardRecheck BY <1>9 DEF DiscardRecheck
<1>10. CASE CountRead BY <1>10 DEF CountRead
<1>11. CASE CountDecide BY <1>11 DEF CountDecide
<1>12. CASE ReadSlot BY <1>12 DEF ReadSlot
<1>13. CASE AdvanceHead BY <1>13, WrapSlot DEF AdvanceHead
<1>14. CASE FlushRead BY <1>14 DEF FlushRead
<1>15. CASE FlushStore BY <1>15 DEF FlushStore
<1>16. CASE UNCHANGED vars BY <1>16 DEF vars
<1>17. QED
  BY <1>1, <1>2, <1>3, <1>4, <1>5, <1>6, <1>7, <1>8, <1>9, <1>10, <1>11,
     <1>12, <1>13, <1>14, <1>15, <1>16 DEF Next

(* Both indexes stay inside the ring and every word keeps its type, for     *)
(* every Size and every combination of entry points.                        *)
THEOREM RingTypes == Spec => []TypeOK
<1>1. Init => TypeOK /\ LeftOK
  BY DEF Init, TypeOK, LeftOK, Slot, Item, NoItem, AllOps
<1>2. QED
  BY <1>1, TypesStep, PTL DEF Spec

-----------------------------------------------------------------------------
(***************************************************************************)
(* The refinement.  CheckedOnly says that the producer never calls the      *)
(* unchecked insert(), hasRoomFor() or discardAllFromProducer().            *)
(***************************************************************************)
CheckedOnly == Ops \subseteq {"insertChecked", "remove", "discardConsumer"}

(* What each control point knows.  A started insertChecked() still has its  *)
(* slot: the consumer only frees space.  A stored element sits at tail.  A  *)
(* copy of tail the consumer made is never behind head, so a count that     *)
(* comes out positive means an element to read, and the slot read stays     *)
(* untouched until head moves.                                              *)
ProducerKnows ==
    /\ pPc \in {"idle", "store", "publish"}
    /\ pPc # "idle" => pLeft = 1 /\ Between(head, tail) < Size - 1
    /\ pPc = "store" => sent < MaxItem
    /\ pPc = "publish" => buf[tail] = sent /\ sent \in Item

ConsumerKnows ==
    /\ cPc \in {"count", "flush"} => Between(head, cTail) <= Between(head, tail)
    /\ cPc \in {"read", "advance"} => head # tail
    /\ cPc = "advance" => cItem = buf[head]

RingInv == TypeOK /\ ProducerKnows /\ ConsumerKnows

(* Index arithmetic. *)
LEMMA BetweenRange ==
  ASSUME NEW h \in Slot, NEW t \in Slot
  PROVE  /\ Between(h, t) \in 0 .. Size - 1
         /\ Between(h, t) = 0 <=> h = t
         /\ ~IsFull(h, t) => Between(h, t) < Size - 1
  BY DEF Between, Slot, IsFull

LEMMA BetweenWrap ==
  ASSUME NEW h \in Slot, NEW t \in Slot
  PROVE  /\ Between(h, t) < Size - 1 => Between(h, Wrap(t)) = Between(h, t) + 1
         /\ h # t => Between(Wrap(h), t) = Between(h, t) - 1
  BY DEF Between, Slot, Wrap

LEMMA SlotAtFacts ==
  ASSUME NEW h \in Slot, NEW t \in Slot
  PROVE  /\ \A i \in 0 .. Size - 1 : SlotAt(h, i) \in Slot
         /\ \A i \in 0 .. Between(h, t) - 1 : SlotAt(h, i) # t
         /\ SlotAt(h, Between(h, t)) = t
         /\ SlotAt(h, 0) = h
         /\ \A i \in 0 .. Size - 2 : SlotAt(Wrap(h), i) = SlotAt(h, i + 1)
  BY DEF Between, Slot, SlotAt, Wrap

(* A copy of tail that is not behind head bounds the distance left to tail. *)
LEMMA BetweenSplit ==
  ASSUME NEW h \in Slot, NEW c \in Slot, NEW t \in Slot,
         Between(h, c) <= Between(h, t)
  PROVE  Between(c, t) <= Between(h, t)
  BY DEF Between, Slot

LEMMA RingInvInit == Init => RingInv
  BY DEF Init, RingInv, TypeOK, ProducerKnows, ConsumerKnows, Slot, Item, NoItem, AllOps

LEMMA RingInvStep == CheckedOnly /\ RingInv /\ [Next]_vars => RingInv'
<1> SUFFICES ASSUME CheckedOnly, RingInv, [Next]_vars PROVE RingInv'
  OBVIOUS
<1> USE DEF RingInv, ProducerKnows, ConsumerKnows, shared, producer, consumer
<1>t. TypeOK'
  <2>1. LeftOK
    BY DEF LeftOK, TypeOK, Item
  <2>2. QED
    BY <2>1, TypesStep
<1>1. CASE InsertChecked
  BY <1>1, <1>t, BetweenRange DEF InsertChecked, TypeOK
<1>2. CASE StoreSlot
  <2>1. head # tail => buf'[head] = buf[head]
    BY <1>2 DEF StoreSlot, TypeOK
  <2>2. buf'[tail] = sent'
    BY <1>2 DEF StoreSlot, TypeOK
  <2>3. QED
    BY <1>2, <1>t, <2>1, <2>2 DEF StoreSlot, TypeOK, Item
<1>3. CASE PublishTail
  BY <1>3, <1>t, BetweenWrap, BetweenRange, WrapSlot DEF PublishTail, TypeOK
<1>4. CASE CountRead
  BY <1>4, <1>t, BetweenRange DEF CountRead, TypeOK
<1>5. CASE CountDecide
  <2>1. CountOf(head, cTail, head, tail) > 0 => head # tail
    BY <1>5 DEF CountDecide, CountOf, Between, TypeOK, Slot
  <2>2. QED
    BY <1>5, <1>t, <2>1 DEF CountDecide, TypeOK
<1>6. CASE ReadSlot
  BY <1>6, <1>t DEF ReadSlot, TypeOK
<1>7. CASE AdvanceHead
  <2>1. Between(Wrap(head), tail) < Between(head, tail)
    BY <1>7, BetweenWrap, BetweenRange, WrapSlot DEF AdvanceHead, TypeOK
  <2>2. QED
    BY <1>7, <1>t, <2>1, BetweenRange, WrapSlot DEF AdvanceHead, TypeOK
<1>8. CASE FlushRead
  BY <1>8, <1>t, BetweenRange DEF FlushRead, TypeOK
<1>9. CASE FlushStore
  <2>1. Between(cTail, tail) <= Between(head, tail)
    BY <1>9, BetweenSplit DEF FlushStore, TypeOK
  <2>2. QED
    BY <1>9, <1>t, <2>1, BetweenRange DEF FlushStore, TypeOK
<1>10. CASE UNCHANGED vars
  BY <1>10, <1>t DEF vars
<1>11. CASE Insert \/ ReserveRead \/ ReserveDecide \/ DiscardLoad \/ DiscardStore \/ DiscardRecheck
  BY <1>11 DEF CheckedOnly, Insert, ReserveRead, ReserveDecide, DiscardLoad, DiscardStore, DiscardRecheck
<1>12. QED
  BY <1>1, <1>2, <1>3, <1>4, <1>5, <1>6, <1>7, <1>8, <1>9, <1>10, <1>11 DEF Next

(* What the two moves of the indexes, and a store at tail, do to the        *)
(* content of the ring.                                                     *)
Buffers == [Slot -> Item \cup {NoItem}]

LEMMA ContentSeq ==
  ASSUME NEW b \in Buffers, NEW h \in Slot, NEW t \in Slot
  PROVE  /\ Content(b, h, t) \in Seq(Item \cup {NoItem})
         /\ Len(Content(b, h, t)) = Between(h, t)
<1>1. \A i \in 1 .. Between(h, t) : b[SlotAt(h, i - 1)] \in Item \cup {NoItem}
  <2> SUFFICES ASSUME NEW i \in 1 .. Between(h, t)
               PROVE  b[SlotAt(h, i - 1)] \in Item \cup {NoItem}
    OBVIOUS
  <2>1. i - 1 \in 0 .. Size - 1
    BY BetweenRange
  <2>2. QED
    BY <2>1, SlotAtFacts DEF Buffers
<1>2. Between(h, t) \in Nat
  BY BetweenRange
<1>3. QED
  BY <1>1, <1>2 DEF Content

LEMMA ContentEmpty == ASSUME NEW b, NEW t \in Slot PROVE Content(b, t, t) = <<>>
  BY BetweenRange DEF Content

LEMMA ContentAppend ==
  ASSUME NEW b \in Buffers, NEW h \in Slot, NEW t \in Slot, Between(h, t) < Size - 1
  PROVE  Content(b, h, Wrap(t)) = Append(Content(b, h, t), b[t])
<1> DEFINE n == Between(h, t)
           old == Content(b, h, t)
<1>1. n \in Nat /\ Between(h, Wrap(t)) = n + 1 /\ SlotAt(h, n) = t
  BY BetweenRange, BetweenWrap, SlotAtFacts
<1>2. old \in Seq(Item \cup {NoItem}) /\ Len(old) = n
  BY ContentSeq
<1>3. Append(old, b[t]) = [i \in 1 .. n + 1 |-> IF i = n + 1 THEN b[t] ELSE old[i]]
  BY <1>2
<1>4. \A i \in 1 .. n + 1 : b[SlotAt(h, i - 1)] = IF i = n + 1 THEN b[t] ELSE old[i]
  BY <1>1 DEF Content
<1>5. QED
  BY <1>1, <1>3, <1>4 DEF Content

LEMMA ContentTail ==
  ASSUME NEW b \in Buffers, NEW h \in Slot, NEW t \in Slot, h # t
  PROVE  /\ Content(b, h, t) # <<>>
         /\ Head(Content(b, h, t)) = b[h]
         /\ Tail(Content(b, h, t)) = Content(b, Wrap(h), t)
<1> DEFINE n == Between(h, t)
           old == Content(b, h, t)
<1>1. n \in 1 .. Size - 1 /\ Between(Wrap(h), t) = n - 1
  BY BetweenRange, BetweenWrap
<1>2. old \in Seq(Item \cup {NoItem}) /\ Len(old) = n
  BY ContentSeq
<1>3. old # <<>>
  BY <1>1, <1>2
<1>4. Head(old) = b[h]
  BY <1>1, <1>2, <1>3, SlotAtFacts DEF Content
<1>5. /\ Tail(old) \in Seq(Item \cup {NoItem}) /\ Len(Tail(old)) = n - 1
      /\ \A i \in 1 .. n - 1 : Tail(old)[i] = old[i + 1]
  BY <1>1, <1>2, <1>3, HeadTailProperties
<1>6. \A i \in 1 .. n - 1 : old[i + 1] = b[SlotAt(Wrap(h), i - 1)]
  <2> SUFFICES ASSUME NEW i \in 1 .. n - 1 PROVE old[i + 1] = b[SlotAt(Wrap(h), i - 1)]
    OBVIOUS
  <2>1. old[i + 1] = b[SlotAt(h, i)]
    BY <1>1 DEF Content
  <2>2. SlotAt(Wrap(h), i - 1) = SlotAt(h, i)
    BY <1>1, SlotAtFacts
  <2>3. QED
    BY <2>1, <2>2
<1>7. /\ Content(b, Wrap(h), t) \in Seq(Item \cup {NoItem})
      /\ Len(Content(b, Wrap(h), t)) = n - 1
      /\ \A i \in 1 .. n - 1 : Content(b, Wrap(h), t)[i] = b[SlotAt(Wrap(h), i - 1)]
  BY <1>1, WrapSlot, ContentSeq DEF Content
<1>8. Tail(old) = Content(b, Wrap(h), t)
  BY <1>5, <1>6, <1>7, SeqEqual
<1>9. QED
  BY <1>3, <1>4, <1>8

LEMMA ContentStore ==
  ASSUME NEW b \in Buffers, NEW h \in Slot, NEW t \in Slot, NEW x
  PROVE  Content([b EXCEPT ![t] = x], h, t) = Content(b, h, t)
<1>1. \A i \in 1 .. Between(h, t) : SlotAt(h, i - 1) # t /\ SlotAt(h, i - 1) \in Slot
  <2> SUFFICES ASSUME NEW i \in 1 .. Between(h, t)
               PROVE  SlotAt(h, i - 1) # t /\ SlotAt(h, i - 1) \in Slot
    OBVIOUS
  <2>1. i - 1 \in 0 .. Size - 1 /\ i - 1 \in 0 .. Between(h, t) - 1
    BY BetweenRange
  <2>2. QED
    BY <2>1, SlotAtFacts
<1>2. QED
  BY <1>1 DEF Content, Buffers

(* Every step of the ring is a step of the queue or leaves it alone.        *)
LEMMA FifoStep == CheckedOnly /\ RingInv /\ [Next]_vars => [Abstract!Next]_(Abstract!vars)
<1> SUFFICES ASSUME CheckedOnly, RingInv, [Next]_vars
             PROVE  [Abstract!Next]_(Abstract!vars)
  OBVIOUS
<1> USE DEF RingInv, shared, producer, consumer, Abstract!vars
<1> DEFINE queue == Content(buf, EffectiveHead, tail)
<1>t. buf \in Buffers /\ EffectiveHead \in Slot /\ head \in Slot /\ tail \in Slot
  BY DEF TypeOK, Buffers, EffectiveHead
<1>1. CASE StoreSlot
  <2>1. UNCHANGED <<EffectiveHead, tail, taken>>
    BY <1>1 DEF StoreSlot, EffectiveHead
  <2>2. buf' = [buf EXCEPT ![tail] = sent + 1]
    BY <1>1 DEF StoreSlot
  <2>3. queue' = queue
    BY <1>t, <2>1, <2>2, ContentStore
  <2>4. QED
    BY <2>1, <2>3
<1>2. CASE PublishTail
  <2>1. UNCHANGED <<EffectiveHead, buf, taken>> /\ tail' = Wrap(tail)
    BY <1>2 DEF PublishTail, EffectiveHead
  <2>2. Between(head, tail) < Size - 1 /\ buf[tail] \in Item
    BY <1>2 DEF PublishTail, ProducerKnows
  <2>3. Between(EffectiveHead, tail) <= Between(head, tail)
    BY <1>t, BetweenSplit, BetweenRange DEF EffectiveHead, ConsumerKnows, TypeOK
  <2>4. Between(EffectiveHead, tail) < Size - 1
    BY <1>t, <2>2, <2>3, BetweenRange
  <2>5. queue' = Append(queue, buf[tail]) /\ Len(queue) < Size - 1
    BY <1>t, <2>1, <2>4, ContentAppend, ContentSeq
  <2>6. Abstract!Put(buf[tail])
    BY <2>1, <2>5 DEF Abstract!Put
  <2>7. QED
    BY <2>2, <2>6 DEF Abstract!Next
<1>3. CASE AdvanceHead
  <2>1. EffectiveHead = head /\ EffectiveHead' = Wrap(head) /\ UNCHANGED <<buf, tail>>
    BY <1>3 DEF AdvanceHead, EffectiveHead
  <2>2. head # tail /\ taken' = buf[head]
    BY <1>3 DEF AdvanceHead, ConsumerKnows
  <2>3. queue # <<>> /\ Head(queue) = buf[head] /\ queue' = Tail(queue)
    BY <1>t, <2>1, <2>2, ContentTail
  <2>4. Abstract!Take
    BY <2>2, <2>3 DEF Abstract!Take
  <2>5. QED
    BY <2>4 DEF Abstract!Next
<1>4. CASE FlushRead
  <2>1. EffectiveHead' = tail /\ UNCHANGED <<buf, tail, taken>>
    BY <1>4 DEF FlushRead, EffectiveHead
  <2>2. queue' = <<>>
    BY <1>t, <2>1, ContentEmpty
  <2>3. Abstract!Flush
    BY <2>1, <2>2 DEF Abstract!Flush
  <2>4. QED
    BY <2>3 DEF Abstract!Next
<1>5. ASSUME UNCHANGED <<EffectiveHead, buf, tail, taken>>
      PROVE  [Abstract!Next]_(Abstract!vars)
  <2>1. queue' = queue
    BY <1>5
  <2>2. QED
    BY <1>5, <2>1
<1>6. CASE InsertChecked BY <1>5, <1>6 DEF InsertChecked, EffectiveHead
<1>7. CASE CountRead BY <1>5, <1>7 DEF CountRead, EffectiveHead
<1>8. CASE CountDecide BY <1>5, <1>8 DEF CountDecide, EffectiveHead
<1>9. CASE ReadSlot BY <1>5, <1>9 DEF ReadSlot, EffectiveHead
<1>10. CASE FlushStore BY <1>5, <1>10 DEF FlushStore, EffectiveHead
<1>11. CASE UNCHANGED vars BY <1>5, <1>11 DEF vars, EffectiveHead
<1>12. CASE Insert \/ ReserveRead \/ ReserveDecide \/ DiscardLoad \/ DiscardStore \/ DiscardRecheck
  BY <1>12 DEF CheckedOnly, ProducerKnows, Insert, ReserveRead, ReserveDecide,
     DiscardLoad, DiscardStore, DiscardRecheck
<1>13. QED
  BY <1>1, <1>2, <1>3, <1>4, <1>6, <1>7, <1>8, <1>9, <1>10, <1>11, <1>12 DEF Next

(* A ring whose producer only calls insertChecked() implements a bounded    *)
(* first-in first-out queue, for every size and at every interleaving of    *)
(* the two users: nothing is lost, repeated, reordered or read before it is *)
(* stored, and a discard by the consumer takes effect at its read of tail.  *)
THEOREM RingImplementsFifo == CheckedOnly => (Spec => ImplementsFifo)
<1> SUFFICES ASSUME CheckedOnly PROVE Spec => ImplementsFifo
  OBVIOUS
<1>1. Init => Abstract!Init
  <2>1. Init => Content(buf, EffectiveHead, tail) = <<>>
    BY ContentEmpty DEF Init, EffectiveHead, Slot
  <2>2. QED
    BY <2>1 DEF Init, Abstract!Init
<1>2. CheckedOnly /\ RingInv /\ [Next]_vars => RingInv' /\ [Abstract!Next]_(Abstract!vars)
  BY RingInvStep, FifoStep
<1>3. QED
  BY <1>1, <1>2, RingInvInit, PTL DEF Spec, ImplementsFifo, Abstract!Spec

-----------------------------------------------------------------------------
(***************************************************************************)
(* Rings whose producer also calls the unchecked insert(), hasRoomFor() and *)
(* discardAllFromProducer().  Such a ring may lose elements, and is no      *)
(* queue; what it still promises is that remove() returns ever newer ones.  *)
(***************************************************************************)

(* The slots from h up to t. *)
Unread(h, t) == {s \in Slot : Between(h, s) < Between(h, t)}

LEMMA UnreadGrows ==
  ASSUME NEW h \in Slot, NEW t \in Slot
  PROVE  /\ t \notin Unread(h, t)
         /\ \A s \in Unread(h, Wrap(t)) : s = t \/ s \in Unread(h, t)
         /\ Wrap(t) = h => \A s \in Slot : s = t \/ s \in Unread(h, t)
         /\ Unread(t, t) = {}
  BY DEF Unread, Between, Slot, Wrap

LEMMA UnreadShrinks ==
  ASSUME NEW h \in Slot, NEW t \in Slot
  PROVE  /\ h # t => h \in Unread(h, t)
         /\ \A s \in Unread(Wrap(h), t) : s # h /\ (h # t => s \in Unread(h, t))
         /\ \A s \in Slot \ {h} : Between(h, h) < Between(h, s)
         /\ \A r \in Slot \ {h}, s \in Slot \ {h} :
              Between(Wrap(h), r) < Between(Wrap(h), s) => Between(h, r) < Between(h, s)
  BY DEF Unread, Between, Slot, Wrap

(* Seen from t, what is unread from h on comes after h.                     *)
LEMMA UnreadFollows ==
  ASSUME NEW h \in Slot, NEW t \in Slot, NEW s \in Slot, s # h, h = t \/ s \in Unread(h, t)
  PROVE  Between(t, h) < Between(t, s)
  BY DEF Unread, Between, Slot

(* Nothing in the ring is newer than the last element made, and what the    *)
(* producer knows at its control points, whoever may interrupt it.          *)
Known ==
    /\ \A s \in Slot : buf[s] <= sent
    /\ taken <= sent /\ cItem <= sent
    /\ pPc = "publish" => buf[tail] = sent
    /\ pPc = "recheck" => tail = pHead
    /\ pPc \in {"drop", "recheck", "reload"} => pOp = "discardProducer"
    /\ pPc \in {"count", "store", "publish"} => pOp # "discardProducer"

KnownInv == TypeOK /\ LeftOK /\ Known

LEMMA KnownInit == Init => KnownInv
  BY DEF Init, KnownInv, Known, TypeOK, LeftOK, Slot, Item, NoItem, AllOps

LEMMA KnownStep == KnownInv /\ [Next]_vars => KnownInv'
<1> SUFFICES ASSUME KnownInv, [Next]_vars PROVE KnownInv'
  OBVIOUS
<1>t. TypeOK' /\ LeftOK' /\ TypeOK /\ LeftOK
  BY TypesStep DEF KnownInv
<1> SUFFICES Known'
  BY <1>t DEF KnownInv
<1> USE DEF KnownInv, Known, shared, producer, consumer
<1>n. sent \in Nat /\ \A s \in Slot : buf[s] \in Nat
  BY <1>t DEF TypeOK, Item, NoItem
<1>1. CASE StoreSlot
  <2>1. buf'[tail] = sent + 1 /\ \A s \in Slot : s # tail => buf'[s] = buf[s]
    BY <1>1, <1>t DEF StoreSlot, TypeOK
  <2>2. \A s \in Slot : buf'[s] <= sent'
    BY <1>1, <1>n, <2>1 DEF StoreSlot
  <2>3. QED
    BY <1>1, <1>t, <1>n, <2>1, <2>2 DEF StoreSlot, TypeOK, Item, NoItem
<1>2. CASE InsertChecked
  BY <1>2, <1>t, <1>n DEF InsertChecked, TypeOK, Item, NoItem
<1>3. CASE Insert \/ ReserveRead \/ ReserveDecide \/ PublishTail
  BY <1>3, <1>t DEF Insert, ReserveRead, ReserveDecide, PublishTail, TypeOK
<1>4. CASE DiscardLoad \/ DiscardStore \/ DiscardRecheck
  BY <1>4, <1>t DEF DiscardLoad, DiscardStore, DiscardRecheck, TypeOK
<1>5. CASE CountRead \/ CountDecide \/ FlushRead \/ FlushStore
  BY <1>5, <1>t DEF CountRead, CountDecide, FlushRead, FlushStore
<1>6. CASE ReadSlot \/ AdvanceHead
  BY <1>6, <1>t DEF ReadSlot, AdvanceHead, TypeOK
<1>7. CASE UNCHANGED vars
  BY <1>7 DEF vars
<1>8. QED
  BY <1>1, <1>2, <1>3, <1>4, <1>5, <1>6, <1>7 DEF Next

(* discardAllFromProducer() returns only when nothing is left to read: tail *)
(* still is where it was stored, and head has come no further than that.    *)
(* For every size, mix of entry points and priority.                        *)
THEOREM RingDiscardLeavesEmpty == Spec => DiscardLeavesEmpty
<1>1. KnownInv /\ [Next]_vars => [DiscardRecheck /\ pPc' = "idle" => Between(head, tail) = 0]_vars
  <2> SUFFICES ASSUME KnownInv, DiscardRecheck, pPc' = "idle" PROVE Between(head, tail) = 0
    OBVIOUS
  <2>1. head = tail
    BY DEF DiscardRecheck, KnownInv, Known
  <2>2. QED
    BY <2>1, BetweenRange DEF KnownInv, TypeOK
<1>2. QED
  BY <1>1, KnownInit, KnownStep, PTL DEF Spec, DiscardLeavesEmpty

(* The consumer is the interrupt, so that the producer stands still while   *)
(* it runs.  Outside a discard the unread elements rise, and are newer than *)
(* the one returned last.                                                   *)
Rises ==
    \A r \in Unread(head, tail), s \in Unread(head, tail) :
        Between(head, r) < Between(head, s) => buf[r] < buf[s]

DrainInv ==
    /\ KnownInv
    /\ cPc \in {"count", "flush"} => cTail = tail
    /\ cPc \in {"read", "advance"} => head # tail
    /\ cPc = "advance" => cItem = buf[head]
    /\ ~Discarding =>
         /\ Rises
         /\ \A s \in Unread(head, tail) : buf[s] > taken
         /\ pPc = "publish" => sent > taken /\ \A s \in Unread(head, tail) : buf[s] < sent

LEMMA DrainStep == Urgent = "consumer" /\ DrainInv /\ [Next]_vars => DrainInv'
<1> SUFFICES ASSUME Urgent = "consumer", DrainInv, [Next]_vars PROVE DrainInv'
  OBVIOUS
<1>k. KnownInv /\ KnownInv'
  BY KnownStep DEF DrainInv
<1>t. /\ head \in Slot /\ tail \in Slot /\ buf \in [Slot -> Nat] /\ sent \in Nat /\ taken \in Nat
      /\ cTail \in Slot /\ cItem \in Nat
  BY <1>k DEF KnownInv, TypeOK, Item, NoItem
<1>u. \A h \in Slot : Unread(h, tail) \subseteq Slot
  BY DEF Unread
<1> USE DEF DrainInv, shared, producer, consumer
<1>1. CASE Insert \/ InsertChecked \/ ReserveRead \/ ReserveDecide
  <2>1. ~Discarding
    BY <1>1, <1>k DEF Insert, InsertChecked, ReserveRead, ReserveDecide, KnownInv, Known, Discarding
  <2>2. /\ cPc = "idle" /\ UNCHANGED <<head, tail, buf, taken, cPc>> /\ pPc' # "publish"
    BY <1>1 DEF Insert, InsertChecked, ReserveRead, ReserveDecide, ProducerRuns
  <2>3. Rises'
    BY <2>1, <2>2 DEF Rises
  <2>4. QED
    BY <1>k, <2>1, <2>2, <2>3
<1>2. CASE StoreSlot
  <2>1. cPc = "idle" /\ UNCHANGED <<head, tail, pOp, taken, cPc>> /\ ~Discarding /\ sent' = sent + 1
    BY <1>2, <1>k DEF StoreSlot, ProducerRuns, KnownInv, Known, Discarding
  <2>2. \A s \in Unread(head, tail) : buf'[s] = buf[s]
    BY <1>2, <1>t, <1>u, UnreadGrows DEF StoreSlot
  <2>3. \A s \in Unread(head, tail) : buf[s] <= sent
    BY <1>k, <1>t, <1>u DEF KnownInv, Known
  <2>4. Rises'
    BY <2>1, <2>2 DEF Rises
  <2>5. \A s \in Unread(head, tail) : buf'[s] > taken /\ buf'[s] < sent'
    BY <1>t, <1>u, <2>1, <2>2, <2>3
  <2>6. sent' > taken
    BY <1>k, <1>t, <2>1 DEF KnownInv, Known
  <2>7. QED
    BY <1>k, <2>1, <2>4, <2>5, <2>6
<1>3. CASE PublishTail
  <2>1. /\ cPc = "idle" /\ UNCHANGED <<head, buf, pOp, taken, cPc>> /\ ~Discarding
        /\ tail' = Wrap(tail) /\ pPc' # "publish" /\ buf[tail] = sent
    BY <1>3, <1>k DEF PublishTail, ProducerRuns, KnownInv, Known, Discarding
  <2>2. \A s \in Unread(head, tail') : s = tail \/ s \in Unread(head, tail)
    BY <1>t, <2>1, UnreadGrows
  <2>3. sent > taken /\ \A s \in Unread(head, tail) : buf[s] < sent /\ buf[s] > taken
    BY <1>3, <2>1 DEF PublishTail
  <2>4. \A s \in Unread(head, tail') : buf[s] > taken
    BY <2>1, <2>2, <2>3
  <2>5. ASSUME NEW r \in Unread(head, tail'), NEW s \in Unread(head, tail'),
               Between(head, r) < Between(head, s)
        PROVE  buf[r] < buf[s]
    <3>1. CASE s = tail
      <4>1. r \in Unread(head, tail)
        BY <1>t, <2>2, <2>5, <3>1, BetweenRange
      <4>2. QED
        BY <2>1, <2>3, <3>1, <4>1
    <3>2. CASE r = tail /\ s # tail
      <4>1. s \in Unread(head, tail)
        BY <2>2, <3>2
      <4>2. Between(head, s) < Between(head, tail) /\ s \in Slot
        BY <4>1 DEF Unread
      <4>3. QED
        BY <1>t, <2>5, <3>2, <4>2, BetweenRange
    <3>3. CASE r # tail /\ s # tail
      BY <2>1, <2>2, <2>5, <3>3 DEF Rises
    <3>4. QED
      BY <3>1, <3>2, <3>3
  <2>6. Rises'
    BY <2>1, <2>5 DEF Rises
  <2>7. QED
    BY <1>k, <2>1, <2>4, <2>6
<1>4. CASE DiscardLoad \/ DiscardStore
  <2>1. cPc = "idle" /\ UNCHANGED cPc /\ pPc' \in {"drop", "recheck"}
    BY <1>4 DEF DiscardLoad, DiscardStore, ProducerRuns
  <2>2. Discarding'
    BY <1>k, <2>1 DEF KnownInv, Known, Discarding
  <2>3. QED
    BY <1>k, <2>1, <2>2
<1>5. CASE DiscardRecheck
  <2>1. cPc = "idle" /\ UNCHANGED <<head, tail, buf, pOp, taken, cPc>> /\ pPc' \in {"idle", "reload"}
    BY <1>5 DEF DiscardRecheck, ProducerRuns
  <2>2. pPc' = "idle" => head = tail
    BY <1>5, <1>k DEF DiscardRecheck, KnownInv, Known
  <2>3. pPc' = "idle" => Unread(head, tail) = {}
    BY <1>t, <2>2, UnreadGrows
  <2>4. pPc' = "reload" => Discarding'
    BY <1>5, <1>k, <2>1 DEF DiscardRecheck, KnownInv, Known, Discarding
  <2>5. pPc' = "idle" => Rises'
    BY <2>1, <2>3 DEF Rises
  <2>6. QED
    BY <1>k, <2>1, <2>3, <2>4, <2>5
<1>6. CASE CountRead \/ FlushRead
  BY <1>6, <1>k DEF CountRead, FlushRead, Discarding, Rises
<1>7. CASE CountDecide
  <2>1. cPc = "count" /\ UNCHANGED <<head, tail, buf, pPc, pOp, sent, taken>> /\ cTail = tail
        /\ cPc' = IF CountOf(head, tail, head, tail) > 0 THEN "read" ELSE "idle"
    BY <1>7 DEF CountDecide
  <2>2. CountOf(head, tail, head, tail) > 0 => head # tail
    BY <1>t DEF CountOf, Slot
  <2>3. QED
    BY <1>k, <2>1, <2>2 DEF Discarding, Rises
<1>8. CASE ReadSlot
  BY <1>8, <1>k DEF ReadSlot, Discarding, Rises
<1>9. CASE AdvanceHead
  <2>1. /\ head' = Wrap(head) /\ taken' = buf[head] /\ head # tail /\ cPc' = "idle"
        /\ UNCHANGED <<tail, buf, pPc, pOp, sent>>
    BY <1>9 DEF AdvanceHead
  <2>2. \A s \in Unread(head', tail) : s \in Unread(head, tail) /\ s # head
    BY <1>t, <2>1, UnreadShrinks
  <2>3. ASSUME ~Discarding
        PROVE  Rises' /\ \A s \in Unread(head', tail) : buf[s] > taken'
    <3>1. \A s \in Unread(head', tail) : Between(head, head) < Between(head, s)
      BY <1>t, <1>u, <2>2, UnreadShrinks
    <3>2. head \in Unread(head, tail)
      BY <1>t, <2>1, UnreadShrinks
    <3>3. \A s \in Unread(head', tail) : buf[head] < buf[s]
      BY <2>2, <2>3, <3>1, <3>2 DEF Rises
    <3>4. \A s \in Unread(head', tail) : buf[s] \in Nat /\ buf[head] \in Nat /\ s \in Slot
      BY <1>t, <1>u, <2>2
    <3>5. \A r \in Unread(head', tail), s \in Unread(head', tail) :
            Between(head', r) < Between(head', s) => Between(head, r) < Between(head, s)
      BY <1>t, <2>1, <2>2, <3>4, UnreadShrinks
    <3>6. Rises'
      BY <2>1, <2>2, <2>3, <3>5 DEF Rises
    <3>7. QED
      BY <2>1, <3>3, <3>4, <3>6
  <2>4. ~Discarding /\ pPc = "publish" =>
          sent > taken' /\ \A s \in Unread(head', tail) : buf[s] < sent
    BY <1>t, <2>1, <2>2, UnreadShrinks
  <2>5. Discarding' = Discarding
    BY <2>1 DEF Discarding
  <2>6. QED
    BY <1>k, <2>1, <2>3, <2>4, <2>5
<1>10. CASE FlushStore
  <2>1. head' = tail /\ cPc' = "idle" /\ UNCHANGED <<tail, buf, pPc, pOp, sent, taken>>
    BY <1>10 DEF FlushStore
  <2>2. Unread(head', tail') = {}
    BY <1>t, <2>1, UnreadGrows
  <2>3. QED
    BY <1>k, <2>1, <2>2 DEF Rises, Discarding
<1>11. CASE UNCHANGED vars
  BY <1>11, <1>k DEF vars, Discarding, Rises
<1>12. QED
  BY <1>1, <1>2, <1>3, <1>4, <1>5, <1>6, <1>7, <1>8, <1>9, <1>10, <1>11 DEF Next

(* The producer is the interrupt and never discards, so that the consumer   *)
(* stands still while it runs.  However far it overruns the ring, the slots *)
(* rise from the oldest one to the newest, and a consumer that is about to  *)
(* take an element from a ring that meanwhile looks empty finds all of it   *)
(* newer than what it took last.                                            *)
Oldest == IF pPc = "publish" THEN Wrap(tail) ELSE tail
Ages ==
    \A r \in Slot, s \in Slot :
        Between(Oldest, r) < Between(Oldest, s) => buf[r] < buf[s] \/ buf[r] = 0
Committed == cPc \in {"read", "advance"} \/ (cPc = "count" /\ cTail # head)

FillInv ==
    /\ KnownInv
    /\ pOp # "discardProducer" /\ pPc # "reload"
    /\ Ages
    /\ pPc = "publish" => sent > taken /\ sent > cItem
    /\ \A s \in Unread(head, tail) : buf[s] > taken
    /\ Committed /\ head = tail => \A s \in Slot : buf[s] > taken
    /\ cPc = "flush" => \A s \in Unread(cTail, tail) : buf[s] > taken
    /\ cPc = "advance" =>
         /\ cItem > taken
         /\ \A s \in Slot \ {head} : head = tail \/ s \in Unread(head, tail) => buf[s] > cItem

LEMMA FillStep ==
  Urgent = "producer" /\ "discardProducer" \notin Ops /\ FillInv /\ [Next]_vars => FillInv'
<1> SUFFICES ASSUME Urgent = "producer", "discardProducer" \notin Ops, FillInv, [Next]_vars
             PROVE  FillInv'
  OBVIOUS
<1>k. KnownInv /\ KnownInv'
  BY KnownStep DEF FillInv
<1>t. /\ head \in Slot /\ tail \in Slot /\ buf \in [Slot -> Nat] /\ sent \in Nat /\ taken \in Nat
      /\ cTail \in Slot /\ cItem \in Nat
      /\ pPc \notin {"drop", "recheck", "reload"}
  BY <1>k DEF KnownInv, TypeOK, Item, NoItem, Known, FillInv
<1>u. \A h \in Slot, t \in Slot : Unread(h, t) \subseteq Slot
  BY DEF Unread
<1>s. \A s \in Slot : buf[s] <= sent
  BY <1>k DEF KnownInv, Known
<1>c. sent >= taken /\ sent >= cItem
  BY <1>k DEF KnownInv, Known
<1> USE DEF FillInv, shared, producer, consumer
<1>1. CASE Insert \/ InsertChecked \/ ReserveRead \/ ReserveDecide
  <2>1. /\ UNCHANGED <<head, tail, buf, taken, cPc, cTail, cItem>> /\ pPc # "publish" /\ pPc' # "publish"
        /\ pPc' # "reload" /\ pOp' # "discardProducer"
    BY <1>1, <1>t DEF Insert, InsertChecked, ReserveRead, ReserveDecide
  <2>2. Ages' /\ Committed' = Committed
    BY <2>1 DEF Ages, Oldest, Committed
  <2>3. QED
    BY <1>k, <2>1, <2>2
<1>2. CASE StoreSlot
  <2>1. /\ UNCHANGED <<head, tail, taken, pOp, cPc, cTail, cItem>> /\ sent' = sent + 1
        /\ pPc = "store" /\ pPc' = "publish"
    BY <1>2 DEF StoreSlot
  <2>2. buf'[tail] = sent + 1 /\ \A s \in Slot : s # tail => buf'[s] = buf[s]
    BY <1>2, <1>t DEF StoreSlot
  <2>3. \A s \in Slot, x \in {taken, cItem} : buf[s] > x => buf'[s] > x
    BY <1>t, <1>c, <2>2
  <2>4. Ages'
    <3> SUFFICES ASSUME NEW r \in Slot, NEW s \in Slot,
                        Between(Wrap(tail), r) < Between(Wrap(tail), s)
                 PROVE  buf'[r] < buf'[s] \/ buf'[r] = 0
      BY <2>1 DEF Ages, Oldest
    <3>1. r # tail
      BY <1>t DEF Between, Wrap, Slot
    <3>2. CASE s = tail
      BY <1>s, <1>t, <2>2, <3>1, <3>2
    <3>3. CASE s # tail
      <4>1. Between(tail, r) < Between(tail, s)
        BY <1>t, <3>1, <3>3, UnreadShrinks
      <4>2. buf[r] < buf[s] \/ buf[r] = 0
        BY <2>1, <4>1 DEF Ages, Oldest
      <4>3. QED
        BY <2>2, <3>1, <3>3, <4>2
    <3>4. QED
      BY <3>2, <3>3
  <2>5. \A s \in Unread(head, tail) : buf'[s] > taken
    BY <1>t, <1>u, <2>3
  <2>6. Committed' = Committed
    BY <2>1 DEF Committed
  <2>7. Committed /\ head = tail => \A s \in Slot : buf'[s] > taken
    BY <2>3
  <2>8. cPc = "flush" => \A s \in Unread(cTail, tail) : buf'[s] > taken
    BY <1>t, <1>u, <2>3
  <2>9. cPc = "advance" =>
          \A s \in Slot \ {head} : head = tail \/ s \in Unread(head, tail) => buf'[s] > cItem
    BY <2>3
  <2>10. sent' > taken /\ sent' > cItem
    BY <1>t, <1>c, <2>1
  <2>11. QED
    BY <1>k, <2>1, <2>4, <2>5, <2>6, <2>7, <2>8, <2>9, <2>10
<1>3. CASE PublishTail
  <2>1. /\ UNCHANGED <<head, buf, taken, sent, pOp, cPc, cTail, cItem>> /\ tail' = Wrap(tail)
        /\ pPc = "publish" /\ pPc' \in {"idle", "store"}
    BY <1>3 DEF PublishTail
  <2>2. buf[tail] = sent /\ sent > taken /\ sent > cItem
    BY <1>k, <2>1 DEF KnownInv, Known
  <2>3. Ages'
    BY <2>1 DEF Ages, Oldest
  <2>4. \A h \in Slot : \A s \in Unread(h, tail') : s = tail \/ s \in Unread(h, tail)
    BY <1>t, <2>1, UnreadGrows
  <2>5. \A s \in Unread(head, tail') : buf[s] > taken
    BY <1>t, <2>2, <2>4
  <2>6. Committed' = Committed
    BY <2>1 DEF Committed
  <2>7. head = tail' => \A s \in Slot : s = tail \/ s \in Unread(head, tail)
    BY <1>t, <2>1, UnreadGrows
  <2>8. head = tail' => \A s \in Slot : buf[s] > taken
    BY <2>2, <2>7
  <2>9. cPc = "flush" => \A s \in Unread(cTail, tail') : buf[s] > taken
    BY <1>t, <2>2, <2>4
  <2>10. ASSUME cPc = "advance", NEW s \in Slot \ {head}, head = tail' \/ s \in Unread(head, tail')
         PROVE  buf[s] > cItem
    <3>1. s = tail \/ s \in Unread(head, tail)
      BY <1>t, <2>4, <2>7, <2>10
    <3>2. QED
      BY <2>2, <2>10, <3>1
  <2>11. QED
    BY <1>k, <2>1, <2>2, <2>3, <2>5, <2>6, <2>8, <2>9, <2>10
<1>4. CASE DiscardLoad \/ DiscardStore \/ DiscardRecheck
  BY <1>4, <1>t DEF DiscardLoad, DiscardStore, DiscardRecheck
<1>5. CASE CountRead \/ FlushRead
  <2>1. /\ UNCHANGED <<head, tail, buf, pPc, pOp, sent, taken, cItem>> /\ cTail' = tail
        /\ cPc' \in {"count", "flush"}
    BY <1>5 DEF CountRead, FlushRead
  <2>2. Ages' /\ (Committed' => head # tail)
    BY <2>1 DEF Ages, Oldest, Committed
  <2>3. Unread(tail, tail) = {}
    BY <1>t, UnreadGrows
  <2>4. QED
    BY <1>k, <2>1, <2>2, <2>3
<1>6. CASE CountDecide
  <2>1. /\ UNCHANGED <<head, tail, buf, pPc, pOp, sent, taken, cItem, cTail>> /\ cPc = "count"
        /\ cPc' = IF CountOf(head, cTail, head, tail) > 0 THEN "read" ELSE "idle"
    BY <1>6 DEF CountDecide
  <2>2. Ages'
    BY <2>1 DEF Ages, Oldest
  <2>3. CountOf(head, cTail, head, tail) > 0 /\ head = tail => cTail # head
    BY <1>t DEF CountOf, Slot
  <2>4. Committed' /\ head = tail => Committed
    BY <2>1, <2>3 DEF Committed
  <2>5. QED
    BY <1>k, <2>1, <2>2, <2>4
<1>7. CASE ReadSlot
  <2>1. /\ UNCHANGED <<head, tail, buf, pPc, pOp, sent, taken, cTail>> /\ pPc = "idle"
        /\ cPc = "read" /\ cPc' = "advance" /\ cItem' = buf[head]
    BY <1>7 DEF ReadSlot, ConsumerRuns
  <2>2. Ages' /\ Committed
    BY <2>1 DEF Ages, Oldest, Committed
  <2>3. head # tail => head \in Unread(head, tail)
    BY <1>t, UnreadShrinks
  <2>4. buf[head] > taken
    BY <1>t, <2>2, <2>3
  <2>5. ASSUME NEW s \in Slot \ {head}, head = tail \/ s \in Unread(head, tail) PROVE buf[s] > buf[head]
    <3>1. Between(tail, head) < Between(tail, s)
      BY <1>t, <2>5, UnreadFollows
    <3>2. buf[head] < buf[s] \/ buf[head] = 0
      BY <1>t, <2>1, <3>1 DEF Ages, Oldest
    <3>3. QED
      BY <1>t, <2>4, <3>2
  <2>6. QED
    BY <1>k, <2>1, <2>2, <2>4, <2>5
<1>8. CASE AdvanceHead
  <2>1. /\ UNCHANGED <<tail, buf, pPc, pOp, sent, cItem>> /\ head' = Wrap(head) /\ taken' = cItem
        /\ pPc = "idle" /\ cPc = "advance" /\ cPc' = "idle"
    BY <1>8 DEF AdvanceHead, ConsumerRuns
  <2>2. Ages' /\ ~Committed'
    BY <2>1 DEF Ages, Oldest, Committed
  <2>3. \A s \in Unread(head', tail) : s \in Slot \ {head} /\ (head = tail \/ s \in Unread(head, tail))
    BY <1>t, <1>u, <2>1, UnreadShrinks, WrapSlot
  <2>4. \A s \in Unread(head', tail) : buf[s] > cItem
    BY <2>1, <2>3
  <2>5. QED
    BY <1>k, <2>1, <2>2, <2>4
<1>9. CASE FlushStore
  <2>1. UNCHANGED <<tail, buf, pPc, pOp, sent, taken, cItem>> /\ head' = cTail /\ cPc = "flush" /\ cPc' = "idle"
    BY <1>9 DEF FlushStore
  <2>2. Ages' /\ ~Committed'
    BY <2>1 DEF Ages, Oldest, Committed
  <2>3. QED
    BY <1>k, <2>1, <2>2
<1>10. CASE UNCHANGED vars
  BY <1>10, <1>k DEF vars, Ages, Oldest, Committed
<1>11. QED
  BY <1>1, <1>2, <1>3, <1>4, <1>5, <1>6, <1>7, <1>8, <1>9, <1>10 DEF Next

LEMMA UnreadInit == Init => DrainInv /\ FillInv
<1> SUFFICES ASSUME Init PROVE DrainInv /\ FillInv
  OBVIOUS
<1>1. KnownInv /\ \A s \in Slot : buf[s] = 0
  BY KnownInit DEF Init, NoItem
<1>2. Unread(head, tail) = {}
  BY UnreadGrows DEF Init, Slot
<1>3. Rises /\ Ages /\ ~Committed
  BY <1>1, <1>2 DEF Init, Rises, Ages, Committed
<1>4. QED
  BY <1>1, <1>2, <1>3 DEF Init, DrainInv, FillInv

(* Even a ring that overflows never hands out an element twice or out of    *)
(* order, outside discardAllFromProducer() itself, for every size and mix   *)
(* of entry points; provided that the consumer of a ring whose producer     *)
(* discards is the interrupt (as for tftActions): else the discard may      *)
(* come between its test for an element and its removal.                    *)
THEOREM RingNeverStale ==
  Urgent = "consumer" \/ "discardProducer" \notin Ops => (Spec => NeverStale)
<1>1. Urgent = "consumer" => (Spec => NeverStale)
  <2> SUFFICES ASSUME Urgent = "consumer" PROVE Spec => NeverStale
    OBVIOUS
  <2>1. DrainInv /\ [Next]_vars => DrainInv'
    BY DrainStep
  <2>2. DrainInv /\ [Next]_vars => [AdvanceHead /\ ~Discarding => taken' > taken]_vars
    <3> SUFFICES ASSUME DrainInv, AdvanceHead, ~Discarding PROVE taken' > taken
      OBVIOUS
    <3>1. taken' = buf[head] /\ head \in Slot /\ tail \in Slot /\ head # tail
      BY DEF AdvanceHead, DrainInv, KnownInv, TypeOK
    <3>2. head \in Unread(head, tail)
      BY <3>1, UnreadShrinks
    <3>3. QED
      BY <3>1, <3>2 DEF DrainInv
  <2>3. QED
    BY <2>1, <2>2, UnreadInit, PTL DEF Spec, NeverStale
<1>2. Urgent = "producer" /\ "discardProducer" \notin Ops => (Spec => NeverStale)
  <2> SUFFICES ASSUME Urgent = "producer", "discardProducer" \notin Ops PROVE Spec => NeverStale
    OBVIOUS
  <2>1. FillInv /\ [Next]_vars => FillInv'
    BY FillStep
  <2>2. FillInv /\ [Next]_vars => [AdvanceHead /\ ~Discarding => taken' > taken]_vars
    BY DEF FillInv, AdvanceHead
  <2>3. QED
    BY <2>1, <2>2, UnreadInit, PTL DEF Spec, NeverStale
<1>3. QED
  BY <1>1, <1>2, UrgentAssumption
=============================================================================
