----------------------------- MODULE RingBuffer -----------------------------
(***************************************************************************)
(* lib/Inc/RingBuffer.h: the single-producer single-consumer ring that      *)
(* carries every event between the main loop and the interrupt handlers     *)
(* (asyncActions, usartBufferIn/Out, usbMidi, tftActions, actions_).        *)
(*                                                                          *)
(* The grain is one access to the shared words head, tail and buf.  The     *)
(* processor has one core, so one of the two users is more urgent: it can   *)
(* interrupt the other between any two accesses, but once started it runs   *)
(* to completion before the other resumes.                                  *)
(***************************************************************************)
EXTENDS Integers, Sequences

CONSTANTS Size,      \* the template parameter `size'
          Burst,     \* elements one hasRoomFor(n) reservation covers
          MaxItem,   \* bound: elements the producer ever makes
          Urgent,    \* the user that runs in the more urgent context
          Ops        \* the entry points this instance's users call

AllOps == {"insert", "insertChecked", "reserve", "discardProducer",
           "remove", "discardConsumer"}

ASSUME SizeAssumption == Size \in Nat /\ Size >= 2
ASSUME BurstAssumption == Burst \in Nat \ {0}
ASSUME MaxItemAssumption == MaxItem \in Nat
ASSUME UrgentAssumption == Urgent \in {"producer", "consumer"}
ASSUME OpsAssumption == Ops \subseteq AllOps

VARIABLES head, tail, buf,    \* the shared words
          pPc, pOp, pHead, pLeft,  \* the producer's control point and locals
          sent,               \* elements made so far: the next one is sent + 1
          cPc, cTail, cItem,  \* the consumer's control point and locals
          taken               \* the last element remove() returned

shared == <<head, tail, buf>>
producer == <<pPc, pOp, pHead, pLeft, sent>>
consumer == <<cPc, cTail, cItem, taken>>
vars == <<shared, producer, consumer>>

Item == 1..MaxItem
NoItem == 0
Slot == 0 .. Size - 1

(* The mutants of PROJECT.json each stand just before what they replace.    *)
WrapTooLate(i) == IF i = Size THEN 0 ELSE i + 1

(* The index after i: (i == size-1) ? 0 : i + 1. *)
Wrap(i) == IF i = Size - 1 THEN 0 ELSE i + 1

IsFullWithoutWrap(h, t) == t + 1 = h

(* isFull(): one slot is sacrificed. *)
IsFull(h, t) == t + 1 = h \/ (t = Size - 1 /\ h = 0)

CountOfEmptyIsFull(h1, t1, h2, t2) == (t1 - h1) + (IF t2 <= h2 THEN Size ELSE 0)

(* getCount() reads tail and head, subtracts, then reads both again to      *)
(* decide whether to add size: h1, t1 are the first reads, h2, t2 the       *)
(* second ones.                                                             *)
CountOf(h1, t1, h2, t2) == (t1 - h1) + (IF t2 < h2 THEN Size ELSE 0)

(* hasRoomFor(n), over the same reads. *)
HasRoomFor(n, h1, t1, h2, t2) == CountOf(h1, t1, h2, t2) + n < Size

Init ==
    /\ head = 0 /\ tail = 0
    /\ buf = [i \in Slot |-> NoItem]
    /\ pPc = "idle" /\ pOp = "none" /\ pHead = 0 /\ pLeft = 0 /\ sent = 0
    /\ cPc = "idle" /\ cTail = 0 /\ cItem = NoItem /\ taken = NoItem

ProducerRuns == Urgent = "producer" \/ cPc = "idle"
ConsumerRuns == Urgent = "consumer" \/ pPc = "idle"

-----------------------------------------------------------------------------
(* insert(): no check at all. *)
Insert ==
    /\ ProducerRuns /\ "insert" \in Ops
    /\ pPc = "idle" /\ sent < MaxItem
    /\ pPc' = "store" /\ pOp' = "insert" /\ pLeft' = 1
    /\ UNCHANGED <<shared, pHead, sent, consumer>>

(* insertChecked(): the read of head in isFull() decides.  A refused        *)
(* element is dropped by its producer.                                      *)
InsertChecked ==
    /\ ProducerRuns /\ "insertChecked" \in Ops
    /\ pPc = "idle" /\ sent < MaxItem
    /\ IF IsFull(head, tail)
         THEN /\ sent' = sent + 1
              /\ UNCHANGED <<pPc, pOp, pLeft>>
         ELSE /\ pPc' = "store" /\ pOp' = "insertChecked" /\ pLeft' = 1
              /\ UNCHANGED sent
    /\ UNCHANGED <<shared, pHead, consumer>>

(* hasRoomFor(Burst): the first read of head in getCount(). *)
ReserveRead ==
    /\ ProducerRuns /\ "reserve" \in Ops
    /\ pPc = "idle" /\ sent + Burst <= MaxItem
    /\ pPc' = "count" /\ pOp' = "reserve" /\ pHead' = head
    /\ UNCHANGED <<shared, pLeft, sent, consumer>>

(* hasRoomFor(Burst): the second read of head, and the answer.  On success  *)
(* the caller makes Burst insert() calls; otherwise it sends nothing.       *)
ReserveDecide ==
    /\ ProducerRuns /\ pPc = "count"
    /\ IF HasRoomFor(Burst, pHead, tail, head, tail)
         THEN pPc' = "store" /\ pLeft' = Burst
         ELSE pPc' = "idle" /\ UNCHANGED pLeft
    /\ UNCHANGED <<shared, pOp, pHead, sent, consumer>>

(* insert(): buf[tail] = element. *)
StoreSlot ==
    /\ ProducerRuns /\ pPc = "store"
    /\ buf' = [buf EXCEPT ![tail] = sent + 1]
    /\ sent' = sent + 1
    /\ pPc' = "publish"
    /\ UNCHANGED <<head, tail, pOp, pHead, pLeft, consumer>>

(* insert(): tail moves past the slot just written. *)
PublishTail ==
    /\ ProducerRuns /\ pPc = "publish"
    /\ tail' = Wrap(tail)
    /\ pLeft' = pLeft - 1
    /\ pPc' = IF pLeft = 1 THEN "idle" ELSE "store"
    /\ UNCHANGED <<head, buf, pOp, pHead, sent, consumer>>

(* discardAllFromProducer(): int h = head. *)
DiscardLoad ==
    /\ ProducerRuns
    /\ \/ pPc = "idle" /\ "discardProducer" \in Ops
       \/ pPc = "reload"
    /\ pPc' = "drop" /\ pOp' = "discardProducer" /\ pHead' = head
    /\ UNCHANGED <<shared, pLeft, sent, consumer>>

(* discardAllFromProducer(): tail = h. *)
DiscardStore ==
    /\ ProducerRuns /\ pPc = "drop"
    /\ tail' = pHead
    /\ pPc' = "recheck"
    /\ UNCHANGED <<head, buf, pOp, pHead, pLeft, sent, consumer>>

DiscardOnce ==
    /\ ProducerRuns /\ pPc = "recheck"
    /\ pPc' = "idle"
    /\ UNCHANGED <<shared, pOp, pHead, pLeft, sent, consumer>>

(* discardAllFromProducer(): leave the loop only if head is still h. *)
DiscardRecheck ==
    /\ ProducerRuns /\ pPc = "recheck"
    /\ pPc' = IF head = pHead THEN "idle" ELSE "reload"
    /\ UNCHANGED <<shared, pOp, pHead, pLeft, sent, consumer>>

-----------------------------------------------------------------------------
(* The consumer tests getCount() > 0: its first read of tail. *)
CountRead ==
    /\ ConsumerRuns /\ "remove" \in Ops
    /\ cPc = "idle"
    /\ cPc' = "count" /\ cTail' = tail
    /\ UNCHANGED <<shared, producer, cItem, taken>>

(* The second read of tail, and the answer. *)
CountDecide ==
    /\ ConsumerRuns /\ cPc = "count"
    /\ cPc' = IF CountOf(head, cTail, head, tail) > 0 THEN "read" ELSE "idle"
    /\ UNCHANGED <<shared, producer, cTail, cItem, taken>>

(* remove(): element = buf[head]. *)
ReadSlot ==
    /\ ConsumerRuns /\ cPc = "read"
    /\ cItem' = buf[head]
    /\ cPc' = "advance"
    /\ UNCHANGED <<shared, producer, cTail, taken>>

(* remove(): head moves past the slot just read, and the element is         *)
(* returned.                                                                *)
AdvanceHead ==
    /\ ConsumerRuns /\ cPc = "advance"
    /\ head' = Wrap(head)
    /\ taken' = cItem
    /\ cPc' = "idle"
    /\ UNCHANGED <<tail, buf, producer, cTail, cItem>>

(* discardAllFromConsumer(): the read of tail ... *)
FlushRead ==
    /\ ConsumerRuns /\ "discardConsumer" \in Ops
    /\ cPc = "idle"
    /\ cPc' = "flush" /\ cTail' = tail
    /\ UNCHANGED <<shared, producer, cItem, taken>>

(* ... and the store to head. *)
FlushStore ==
    /\ ConsumerRuns /\ cPc = "flush"
    /\ head' = cTail
    /\ cPc' = "idle"
    /\ UNCHANGED <<tail, buf, producer, cTail, cItem, taken>>

Next ==
    \/ Insert \/ InsertChecked \/ ReserveRead \/ ReserveDecide
    \/ StoreSlot \/ PublishTail
    \/ DiscardLoad \/ DiscardStore \/ DiscardRecheck
    \/ CountRead \/ CountDecide \/ ReadSlot \/ AdvanceHead
    \/ FlushRead \/ FlushStore

Spec == Init /\ [][Next]_vars

-----------------------------------------------------------------------------
(* Every word keeps its type: both indexes stay inside the ring. *)
TypeOK ==
    /\ head \in Slot /\ tail \in Slot
    /\ buf \in [Slot -> Item \cup {NoItem}]
    /\ pPc \in {"idle", "count", "store", "publish", "drop", "recheck", "reload"}
    /\ pOp \in AllOps \cup {"none"}
    /\ pHead \in Slot /\ pLeft \in Nat
    /\ sent \in 0..MaxItem
    /\ cPc \in {"idle", "count", "read", "advance", "flush"}
    /\ cTail \in Slot
    /\ cItem \in Item \cup {NoItem} /\ taken \in Item \cup {NoItem}

(* The number of unread elements between two indexes, and the ring's        *)
(* content from index h up to index t.                                      *)
Between(h, t) == IF t < h THEN (t - h) + Size ELSE t - h
SlotAt(h, i) == IF h + i < Size THEN h + i ELSE (h + i) - Size
Content(b, h, t) == [i \in 1 .. Between(h, t) |-> b[SlotAt(h, i - 1)]]

(* A pending discardAllFromConsumer() has taken effect at its read of tail. *)
EffectiveHead == IF cPc = "flush" THEN cTail ELSE head

Abstract == INSTANCE Fifo
    WITH Item <- Item, Nothing <- NoItem, Capacity <- Size - 1,
         queue <- Content(buf, EffectiveHead, tail), taken <- taken

(* With insertChecked() as the only producer call, the ring is a bounded    *)
(* FIFO at every interleaving: no element is lost, repeated, reordered or   *)
(* read before it is stored, and discardAllFromConsumer() takes effect at   *)
(* its read of tail (comment at RingBuffer.h:36-39).                        *)
ImplementsFifo == Abstract!Spec

(* Even a ring that overflows never hands out an element twice or out of    *)
(* order: remove() returns ever newer elements.  discardAllFromProducer()   *)
(* is the exception: between its store to tail and its recheck the tail can *)
(* stand behind the head.                                                   *)
Discarding == pOp = "discardProducer" /\ pPc # "idle"
NeverStale == [][AdvanceHead /\ ~Discarding => taken' > taken]_vars

(* A caller that hasRoomFor(n) answered TRUE makes its n insert() calls     *)
(* without ever meeting a full ring (comment at RingBuffer.h:109-115).      *)
ReservationHonoured ==
    pOp = "reserve" /\ pPc \in {"store", "publish"} => ~IsFull(head, tail)

(* discardAllFromProducer() returns only when nothing is left to read.      *)
DiscardLeavesEmpty ==
    [][DiscardRecheck /\ pPc' = "idle" => Between(head, tail) = 0]_vars
=============================================================================
