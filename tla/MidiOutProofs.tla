---------------------------- MODULE MidiOutProofs ----------------------------
(***************************************************************************)
(* Theorems about MidiOut for every size of the ring and of the transmit    *)
(* FIFO, every set of callers and every interleaving of the main loop with  *)
(* the two interrupts.                                                      *)
(***************************************************************************)
EXTENDS MCMidi, SequenceTheorems, TLAPS

USE SizesAssumption

(* A call that has started stores at least one more byte, within the bound  *)
(* on the bytes made; a byte stored and not yet published is one of them.   *)
CallBounded ==
    /\ mPc \in {"load", "store"} \/ (Counting /\ ~mWait) =>
         mLeft >= 1 /\ made + mLeft <= MaxBytes
    /\ mPc \in {"compare", "add", "publish"} =>
         mLeft >= 1 /\ made >= 1 /\ made + (mLeft - 1) <= MaxBytes

(* As long as no interrupt has inserted in the middle of an insert(), what  *)
(* main has read of tail is still so.                                       *)
TailCurrent ==
    /\ mPc = "store" => mTail = tail
    /\ mPc = "add" => tail # Size - 1
    /\ mPc = "publish" => mTail = Wrap(tail)

(* The types; only thru bytes are inserted by the interrupts, and the       *)
(* history ends with the first insertion in the middle of main's.           *)
TypeInv ==
    /\ TypeOK /\ CallBounded
    /\ ~tornInsert => TailCurrent
    /\ thru = 0 => ~tornInsert
    /\ tornInsert => wire = <<>>

-----------------------------------------------------------------------------
(* Index arithmetic. *)
LEMMA WrapSlot == ASSUME NEW i \in Slot PROVE Wrap(i) \in Slot
  BY DEF Wrap, Slot

LEMMA DistanceRange ==
  ASSUME NEW h \in Slot, NEW t \in Slot
  PROVE  Distance(h, t) \in 0 .. Size - 1 /\ (Distance(h, t) = 0 <=> h = t)
  BY DEF Distance, Slot

LEMMA SlotAfterSlot ==
  ASSUME NEW h \in Slot, NEW n \in 0 .. Size - 1
  PROVE  SlotAfter(h, n) \in Slot
  BY DEF SlotAfter, Slot

LEMMA SlotAfterTwice ==
  ASSUME NEW h \in Slot, NEW a \in Nat, NEW b \in Nat, a + b <= Size - 1
  PROVE  SlotAfter(SlotAfter(h, a), b) = SlotAfter(h, a + b)
  BY DEF SlotAfter, Slot

(* The bound on what is made bounds the thru bytes too. *)
LEMMA ThruBounded ==
  ASSUME NEW m \in Nat, NEW t \in Nat, WithinBound(m, t)
  PROVE  m <= MaxBytes /\ t <= MaxBytes
<1>1. (ThruWeight - 1) * t \in Nat
  BY SMT
<1>2. ThruWeight * t = (ThruWeight - 1) * t + t
  BY SMT
<1>3. ThruWeight * t >= t /\ ThruWeight * t \in Nat
  BY <1>1, <1>2
<1>4. m + ThruWeight * t <= MaxBytes
  BY DEF WithinBound
<1>5. QED
  BY <1>3, <1>4

(* What the transmit half of the interrupt moves: n bytes, in order. *)
Moved(h, t, en, f) ==
    IF ~en THEN 0
    ELSE IF t \in Slot /\ Distance(h, t) < TxDepth - f THEN Distance(h, t) ELSE TxDepth - f

LEMMA MovedRange ==
  ASSUME NEW h \in Slot, NEW t, NEW en, NEW f \in 0 .. TxDepth
  PROVE  /\ Moved(h, t, en, f) \in 0 .. Size - 1
         /\ f + Moved(h, t, en, f) \in 0 .. TxDepth
         /\ t \in Slot => Moved(h, t, en, f) \in 0 .. Distance(h, t)
<1>1. t \in Slot => Distance(h, t) \in 0 .. Size - 1
  BY DistanceRange
<1>2. QED
  BY <1>1 DEF Moved

LEMMA DrainIs ==
  ASSUME NEW r, NEW en, NEW f, NEW w, Drain(r, en, f, w)
  PROVE  LET n == Moved(r.head, r.tail, en, f)
             moved == [i \in 1 .. n |-> r.buf[SlotAfter(r.head, i - 1)]]
         IN  /\ head' = SlotAfter(r.head, n) /\ tail' = r.tail /\ buf' = r.buf
             /\ fifo' = f + n
             /\ wire' = IF tornInsert' THEN <<>> ELSE w \o moved
             /\ txeie' = (en /\ (r.tail \in Slot => n < Distance(r.head, r.tail)))
  BY DEF Drain, Moved, Sent

LEMMA DrainTypes ==
  ASSUME NEW r, r.head \in Slot, r.tail \in Nat, r.buf \in [Slot -> Byte],
         NEW en \in BOOLEAN, NEW f \in 0 .. TxDepth, NEW w \in Seq(Byte),
         Drain(r, en, f, w)
  PROVE  /\ head' \in Slot /\ tail' = r.tail /\ buf' \in [Slot -> Byte]
         /\ txeie' \in BOOLEAN /\ fifo' \in 0 .. TxDepth /\ wire' \in Seq(Byte)
<1> DEFINE n == Moved(r.head, r.tail, en, f)
           moved == [i \in 1 .. n |-> r.buf[SlotAfter(r.head, i - 1)]]
<1>1. n \in 0 .. Size - 1 /\ f + n \in 0 .. TxDepth
  BY MovedRange
<1>2. /\ head' = SlotAfter(r.head, n) /\ tail' = r.tail /\ buf' = r.buf
      /\ fifo' = f + n /\ wire' = IF tornInsert' THEN <<>> ELSE w \o moved
      /\ txeie' \in BOOLEAN
  BY DrainIs
<1>3. moved \in Seq(Byte)
  <2>1. \A i \in 1 .. n : r.buf[SlotAfter(r.head, i - 1)] \in Byte
    <3> SUFFICES ASSUME NEW i \in 1 .. n PROVE r.buf[SlotAfter(r.head, i - 1)] \in Byte
      OBVIOUS
    <3>1. i - 1 \in 0 .. Size - 1
      BY <1>1
    <3>2. QED
      BY <3>1, SlotAfterSlot
  <2>2. QED
    BY <1>1, <2>1, IsASeq
<1>4. w \o moved \in Seq(Byte) /\ <<>> \in Seq(Byte)
  BY <1>3, ConcatProperties, EmptySeq
<1>5. QED
  BY <1>1, <1>2, <1>4, SlotAfterSlot

(* The drain takes n bytes off the ring, passes tail never, and disables    *)
(* itself only when that leaves the ring empty.                             *)
LEMMA DrainLeaves ==
  ASSUME NEW r, r.head \in Slot, r.tail \in Nat,
         NEW en \in BOOLEAN, NEW f \in 0 .. TxDepth, NEW w, Drain(r, en, f, w)
  PROVE  /\ Count' > 0 /\ en => txeie'
         /\ Count' > 0 => Distance(r.head, r.tail) > 0
         /\ r.tail \in Slot =>
              /\ Count' = Distance(r.head, r.tail) - Moved(r.head, r.tail, en, f)
              /\ Count' \in 0 .. Distance(r.head, r.tail)
              /\ r.head <= r.tail => head' <= tail'
<1> DEFINE n == Moved(r.head, r.tail, en, f)
           d == Distance(r.head, r.tail)
<1>1. /\ head' = SlotAfter(r.head, n) /\ tail' = r.tail
      /\ txeie' = (en /\ (r.tail \in Slot => n < d))
  BY DrainIs
<1>2. CASE r.tail \in Slot
  <2>1. n \in 0 .. d /\ d \in 0 .. Size - 1
    BY <1>2, MovedRange, DistanceRange
  <2>2. \A k \in 0 .. d : /\ Distance(SlotAfter(r.head, k), r.tail) = d - k
                          /\ r.head <= r.tail => SlotAfter(r.head, k) <= r.tail
    BY <1>2 DEF Distance, SlotAfter, Slot
  <2> HIDE DEF n, d
  <2>3. Count' = d - n /\ (r.head <= r.tail => head' <= tail')
    BY <1>1, <2>1, <2>2 DEF Count
  <2>4. QED
    BY <1>1, <2>1, <2>3 DEF n, d
<1>3. CASE r.tail \notin Slot
  <2>1. d > 0
    BY <1>3 DEF Distance, Slot
  <2>2. QED
    BY <1>1, <1>3, <2>1
<1>4. QED
  BY <1>2, <1>3

-----------------------------------------------------------------------------
LEMMA TypesStep == TypeInv /\ [Next]_vars => TypeInv'
<1> SUFFICES ASSUME TypeInv, [Next]_vars PROVE TypeInv'
  OBVIOUS
<1> USE DEF TypeInv, TypeOK, CallBounded, TailCurrent, ring, main, Counting, Inserting, Local
<1>w. ASSUME NEW n \in Nat, WithinBound(made + n, thru) PROVE made + n <= MaxBytes
  BY <1>w, ThruBounded
<1>r. /\ Ring.head \in Slot /\ Ring.tail = tail /\ tail \in Nat /\ Ring.buf \in [Slot -> Byte]
      /\ txeie \in BOOLEAN /\ fifo \in 0 .. TxDepth /\ wire \in Seq(Byte)
  BY DEF Ring
<1>h. ASSUME NEW en \in BOOLEAN, NEW f \in 0 .. TxDepth, NEW w \in Seq(Byte), Drain(Ring, en, f, w)
      PROVE  /\ head' \in Slot /\ tail' = tail /\ buf' \in [Slot -> Byte]
             /\ txeie' \in BOOLEAN /\ fifo' \in 0 .. TxDepth /\ wire' \in Seq(Byte)
             /\ tornInsert' => wire' = <<>>
  <2> HIDE DEF TypeInv, TypeOK, CallBounded, TailCurrent
  <2>1. tail' = Ring.tail /\ (tornInsert' => wire' = <<>>)
    BY <1>h, DrainIs
  <2>2. QED
    BY <1>h, <1>r, <2>1, DrainTypes
<1>d. DumpSize \in 1 .. Size - 1
  OBVIOUS
<1>c. ASSUME NEW first \in {"count", "load"}, NEW n \in 1 .. Size - 1, NEW wait \in BOOLEAN,
             StartCall(first, n, wait)
      PROVE  TypeInv'
  <2>1. made + n <= MaxBytes
    BY <1>c, <1>w DEF StartCall
  <2>2. QED
    BY <1>c, <2>1 DEF StartCall
<1>1. CASE Reserve BY <1>1, <1>c DEF Reserve
<1>2. CASE SendCC BY <1>2, <1>c DEF SendCC
<1>3. CASE StartDump BY <1>3, <1>c, <1>d DEF StartDump
<1>4. CASE LoadTail BY <1>4 DEF LoadTail
<1>5. CASE StoreSlot
  <2>1. buf' \in [Slot -> Byte]
    <3>1. made + 1 \in Byte
      BY <1>5 DEF StoreSlot, Byte
    <3>2. QED
      BY <1>5, <3>1 DEF StoreSlot
  <2>2. QED
    BY <1>5, <2>1 DEF StoreSlot
<1>6. CASE CompareTail
  <2>1. CASE tail = Size - 1 /\ Local("compare", "publish") /\ mTail' = 0 /\ UNCHANGED <<mCount, tornRoom>>
    BY <2>1 DEF Wrap
  <2>2. CASE tail # Size - 1 /\ Local("compare", "add") /\ UNCHANGED <<mTail, mCount, tornRoom>>
    BY <2>2
  <2>3. QED
    BY <1>6, <2>1, <2>2 DEF CompareTail
<1>7. CASE AddOne BY <1>7 DEF AddOne, Wrap
<1>8. CASE PublishTail
  <2>1. ~tornInsert => tail' \in Slot
    BY <1>8, WrapSlot DEF PublishTail
  <2>2. QED
    BY <1>8, <2>1 DEF PublishTail
<1>9. CASE EnableTx BY <1>9 DEF EnableTx
<1>10. CASE ReadTail BY <1>10 DEF ReadTail
<1>11. CASE Subtract BY <1>11 DEF Subtract, Slot
<1>12. CASE RereadTail BY <1>12 DEF RereadTail
<1>13. CASE DecideRoom BY <1>13 DEF DecideRoom
<1>14. CASE WaitDrained BY <1>14 DEF WaitDrained
<1>15. CASE UsartTx
  <2>1. UNCHANGED <<callers, main, thru, tornInsert, tornRoom>> /\ Drain(Ring, txeie, fifo, wire)
    BY <1>15 DEF UsartTx
  <2>2. /\ head' \in Slot /\ tail' = tail /\ buf' \in [Slot -> Byte]
        /\ txeie' \in BOOLEAN /\ fifo' \in 0 .. TxDepth /\ wire' \in Seq(Byte)
        /\ tornInsert' => wire' = <<>>
    BY <1>h, <1>r, <2>1
  <2>3. QED
    BY <2>1, <2>2
<1>16. CASE UsartRx
  <2>1. thru' = thru + 1 /\ thru' \in 0 .. MaxBytes
    BY <1>16, ThruBounded DEF UsartRx
  <2>2. UNCHANGED <<callers, main, tornRoom>> /\ ThruByte \in Byte
    BY <1>16 DEF UsartRx, ThruByte, Byte
  <2>3. CASE /\ fifo < TxDepth /\ UNCHANGED tornInsert
             /\ Drain(Ring, txeie, fifo + 1, Append(wire, ThruByte))
    <3>1. Append(wire, ThruByte) \in Seq(Byte)
      BY <2>2, AppendProperties
    <3>2. /\ head' \in Slot /\ tail' = tail /\ buf' \in [Slot -> Byte]
          /\ txeie' \in BOOLEAN /\ fifo' \in 0 .. TxDepth /\ wire' \in Seq(Byte)
          /\ tornInsert' => wire' = <<>>
      <4>1. fifo + 1 \in 0 .. TxDepth
        BY <1>r, <2>3
      <4> HIDE DEF TypeInv, TypeOK, CallBounded, TailCurrent
      <4>2. QED
        BY <1>h, <1>r, <2>3, <3>1, <4>1
    <3>3. QED
      BY <2>1, <2>2, <2>3, <3>2
  <2>4. CASE /\ fifo = TxDepth /\ tornInsert' = (tornInsert \/ Inserting)
             /\ Drain(Inserted(Ring, ThruByte), TRUE, fifo, wire)
    <3> DEFINE r == Inserted(Ring, ThruByte)
    <3>1. r.head \in Slot /\ r.tail = Wrap(tail) /\ r.buf \in [Slot -> Byte]
      BY <2>2 DEF Inserted, Ring
    <3>2. Wrap(tail) \in Nat /\ (tail \in Slot => Wrap(tail) \in Slot)
      BY WrapSlot, <1>r, SMT DEF Wrap, Slot
    <3>3. /\ head' \in Slot /\ tail' = Wrap(tail) /\ buf' \in [Slot -> Byte]
          /\ txeie' \in BOOLEAN /\ fifo' \in 0 .. TxDepth /\ wire' \in Seq(Byte)
          /\ tornInsert' => wire' = <<>>
      <4> HIDE DEF r
      <4>1. Drain(r, TRUE, fifo, wire)
        BY <2>4 DEF r
      <4>2. QED
        BY <3>1, <3>2, <4>1, DrainTypes, DrainIs
    <3>4. ~tornInsert' => ~tornInsert /\ TailCurrent'
      BY <2>2, <2>4
    <3>5. TypeOK'
      BY <2>1, <2>2, <2>4, <3>2, <3>3, <3>4
    <3>6. QED
      BY <2>1, <2>2, <3>3, <3>4, <3>5
  <2>5. QED
    BY <1>16, <2>3, <2>4 DEF UsartRx
<1>17. CASE UsbRx
  <2>1. thru + Message \in 0 .. MaxBytes
    BY <1>17, ThruBounded DEF UsbRx
  <2>2. buf' \in [Slot -> Byte]
    BY <1>17 DEF UsbRx, ThruByte, Byte
  <2>3. tail' \in Nat /\ (tail \in Slot => tail' \in Slot)
    <3>1. tail \in Slot => tail' \in Slot
      BY <1>17, SlotAfterSlot DEF UsbRx
    <3>2. tail \notin Slot => tail' = tail + Message
      BY <1>17 DEF UsbRx
    <3>3. Slot \subseteq Nat /\ tail + Message \in Nat
      BY <1>r DEF Slot
    <3> HIDE DEF TypeInv, TypeOK, CallBounded, TailCurrent
    <3>4. QED
      BY <3>1, <3>2, <3>3
  <2>4. wire' \in Seq(Byte) /\ (tornInsert' => wire' = <<>>)
    BY <1>17, EmptySeq DEF UsbRx, Sent
  <2>5. ~tornInsert' => ~tornInsert /\ TailCurrent'
    BY <1>17 DEF UsbRx
  <2>6. /\ thru' = thru + Message /\ UNCHANGED <<callers, head, fifo, main, tornRoom>>
        /\ txeie' = TRUE /\ tornInsert' \in BOOLEAN
    BY <1>17 DEF UsbRx
  <2>7. TypeOK'
    BY <2>1, <2>2, <2>3, <2>4, <2>5, <2>6
  <2>8. QED
    BY <2>1, <2>4, <2>5, <2>6, <2>7
<1>18. CASE Shift BY <1>18 DEF Shift
<1>19. CASE UNCHANGED vars BY <1>19 DEF vars
<1>20. QED
  BY <1>1, <1>2, <1>3, <1>4, <1>5, <1>6, <1>7, <1>8, <1>9, <1>10, <1>11, <1>12,
     <1>13, <1>14, <1>15, <1>16, <1>17, <1>18, <1>19 DEF Next, MainStep

LEMMA TypesInit == Init => TypeInv
<1>1. <<>> \in Seq(Byte)
  BY EmptySeq
<1>2. QED
  BY <1>1 DEF Init, TypeInv, TypeOK, CallBounded, TailCurrent, Counting, Inserting, Slot, Byte, NoByte

(* Every word of the path keeps its type, the transmit FIFO is never        *)
(* overrun, and tail stays in the ring unless an interrupt has inserted     *)
(* between main's reads of it, for every size, every caller and every       *)
(* interleaving.                                                            *)
THEOREM MidiOutTypes == Spec => []TypeOK
<1>1. TypeInv => TypeOK
  BY DEF TypeInv
<1>2. QED
  BY <1>1, TypesInit, TypesStep, PTL DEF Spec

-----------------------------------------------------------------------------
(* The main loop enables the drain after its last byte, an interrupt that   *)
(* adds a byte enables it too, and it is disabled only over an empty ring:  *)
(* bytes never lie in the ring with nobody to announce them, even when tail *)
(* was torn by an interrupt or has left the ring.                           *)
THEOREM MidiOutNeverStranded == Spec => []NeverStranded
<1>1. Init => NeverStranded
  BY DEF Init, NeverStranded, Count, Distance
<1>2. TypeInv /\ NeverStranded /\ [Next]_vars => NeverStranded'
  <2> SUFFICES ASSUME TypeInv, NeverStranded, [Next]_vars PROVE NeverStranded'
    OBVIOUS
  <2> USE DEF TypeInv, TypeOK, NeverStranded, Counting, ring, main
  <2>r. Ring.head = head /\ Ring.tail = tail
    BY DEF Ring
  <2>1. CASE MainStep
    <3>1. CASE Reserve \/ SendCC \/ StartDump
      BY <3>1 DEF Reserve, SendCC, StartDump, StartCall, Count
    <3>2. CASE LoadTail \/ StoreSlot \/ CompareTail \/ AddOne \/ PublishTail \/ EnableTx
      BY <3>2 DEF LoadTail, StoreSlot, CompareTail, AddOne, PublishTail, EnableTx, Local
    <3>3. CASE ReadTail \/ Subtract \/ RereadTail
      BY <3>3 DEF ReadTail, Subtract, RereadTail, Local, Count
    <3>4. CASE DecideRoom \/ WaitDrained
      BY <3>4 DEF DecideRoom, WaitDrained, Local, Count
    <3>5. QED
      BY <2>1, <3>1, <3>2, <3>3, <3>4 DEF MainStep
  <2>2. CASE UsartTx
    <3>1. Drain(Ring, txeie, fifo, wire) /\ txeie
      BY <2>2 DEF UsartTx
    <3>2. Count' > 0 => txeie'
      BY <2>r, <3>1, DrainLeaves
    <3>3. QED
      BY <3>2
  <2>3. CASE UsartRx
    <3>0. mPc' = mPc
      BY <2>3 DEF UsartRx
    <3>1. CASE /\ fifo < TxDepth
               /\ Drain(Ring, txeie, fifo + 1, Append(wire, ThruByte))
      <4>1. /\ Count' > 0 /\ txeie => txeie'
            /\ Count' > 0 => Distance(Ring.head, Ring.tail) > 0
        BY <2>r, <3>1, DrainLeaves
      <4>2. QED
        BY <2>r, <3>0, <4>1 DEF Count
    <3>2. CASE Drain(Inserted(Ring, ThruByte), TRUE, fifo, wire)
      <4> DEFINE r == Inserted(Ring, ThruByte)
      <4>1. r.head \in Slot /\ r.tail \in Nat
        BY DEF Inserted, Ring, Wrap
      <4> HIDE DEF r
      <4>2. Drain(r, TRUE, fifo, wire)
        BY <3>2 DEF r
      <4>3. Count' > 0 => txeie'
        BY <4>1, <4>2, DrainLeaves
      <4>4. QED
        BY <4>3
    <3>3. QED
      BY <2>3, <3>1, <3>2 DEF UsartRx
  <2>4. CASE UsbRx
    BY <2>4 DEF UsbRx
  <2>5. CASE Shift
    BY <2>5 DEF Shift, Count
  <2>6. CASE UNCHANGED vars
    BY <2>6 DEF vars, Count
  <2>7. QED
    BY <2>1, <2>2, <2>3, <2>4, <2>5, <2>6 DEF Next
<1>3. QED
  BY <1>1, <1>2, TypesInit, TypesStep, PTL DEF Spec

-----------------------------------------------------------------------------
(* What main has stored and made visible: all it has made, except a byte    *)
(* stored in the slot at tail while tail still excludes it.                 *)
Published == IF mPc \in {"compare", "add", "publish"} THEN made - 1 ELSE made

(* The bytes that have been written to TDR, and then those in the ring.     *)
Stream(w, h, t, b) ==
    [k \in 1 .. Len(w) + Distance(h, t) |->
        IF k <= Len(w) THEN w[k] ELSE b[SlotAfter(h, (k - Len(w)) - 1)]]
StreamNow == Stream(wire, head, tail, buf)

(* A stream of the first p of main's bytes and of thru bytes, in which      *)
(* those of main rise: some of them may have been overrun.                  *)
Rising(s, p) ==
    /\ \A i \in DOMAIN s : s[i] \in 1 .. MaxBytes + 1 /\ (OfMain(s[i]) => s[i] <= p)
    /\ \A i, j \in DOMAIN s : i < j /\ OfMain(s[i]) /\ OfMain(s[j]) => s[i] < s[j]

(* In order, as long as no interrupt has inserted in the middle of an       *)
(* insert(): the byte to publish lies at tail.                              *)
OrderInv ==
    ~tornInsert =>
        /\ Rising(StreamNow, Published)
        /\ mPc \in {"compare", "add", "publish"} => buf[tail] = made

(* Why nothing is overrun without thru and without unreserved messages.  A  *)
(* reserved message has the room it asked for.  A dump starts upon an empty *)
(* ring, or upon what a torn count left of the dump before: the start of    *)
(* the ring, with head and tail both in its first DumpSize slots, so that   *)
(* this dump ends before the end of the ring, and cannot tear a count.      *)
RoomToLoad ==
    mPc \in {"load", "store", "compare", "add", "publish"} =>
        IF mWait
        THEN \/ Count + mLeft <= DumpSize
             \/ head <= tail /\ tail + mLeft < DumpSize + DumpSize
        ELSE Count + mLeft <= Size - 1

(* A count bounds the bytes in the ring unless head has wrapped within it.  *)
CountBounds ==
    /\ mPc = "subtract" => mTail = tail
    /\ mPc = "recheck" \/ mPc = "decide" =>
         IF mCount >= 0 THEN head <= tail /\ Count <= mCount
         ELSE /\ Count <= mCount + Size
              /\ mWait => tail < DumpSize
    /\ mPc = "decide" => mTail = tail

RoomKept ==
    /\ mPc # "idle" => IF mWait THEN "dump" \in callers ELSE "controller" \in callers
    /\ mPc = "idle" /\ "dump" \in callers => Count = 0 \/ (head <= tail /\ tail < DumpSize)
    /\ (mPc = "enable" \/ Counting) /\ mWait => Count <= DumpSize \/ head <= tail
    /\ Counting /\ ~mWait => mLeft = Message
    /\ RoomToLoad /\ CountBounds

WholeInv ==
    thru = 0 /\ "cc" \notin callers /\ ~tornRoom =>
        StreamNow = [i \in 1 .. Published |-> i] /\ RoomKept

-----------------------------------------------------------------------------
(* The slots of the ring. *)
LEMMA SlotsUpToTail ==
  ASSUME NEW h \in Slot, NEW t \in Slot
  PROVE  /\ SlotAfter(h, Distance(h, t)) = t
         /\ \A m \in 0 .. Distance(h, t) - 1 : SlotAfter(h, m) \in Slot /\ SlotAfter(h, m) # t
         /\ Distance(h, Wrap(t)) =
              IF Distance(h, t) = Size - 1 THEN 0 ELSE Distance(h, t) + 1
  BY DEF Distance, SlotAfter, Slot, Wrap

LEMMA SlotsBehind ==
  ASSUME NEW h \in Slot, NEW t \in Slot
  PROVE  /\ \A m \in 0 .. Size - 1 : SlotAfter(h, m) \in Slot
         /\ \A m \in 0 .. Size - 1 :
              m >= Distance(h, t) =>
                Distance(t, SlotAfter(h, m)) = m - Distance(h, t)
         /\ Distance(h, SlotAfter(t, Message)) =
              IF Distance(h, t) + Message <= Size - 1 THEN Distance(h, t) + Message
              ELSE (Distance(h, t) + Message) - Size
  BY DEF Distance, SlotAfter, Slot

(* What the places of a stream hold. *)
HasBytes(w, h, t, b) ==
    /\ DOMAIN Stream(w, h, t, b) = 1 .. Len(w) + Distance(h, t)
    /\ \A k \in 1 .. Len(w) : Stream(w, h, t, b)[k] = w[k]
    /\ \A m \in 0 .. Distance(h, t) - 1 :
         Stream(w, h, t, b)[Len(w) + m + 1] = b[SlotAfter(h, m)]

LEMMA StreamBytes ==
  ASSUME NEW h \in Slot, NEW t \in Slot, NEW b, NEW w \in Seq(Byte)
  PROVE  HasBytes(w, h, t, b)
<1>1. Len(w) \in Nat /\ Distance(h, t) \in 0 .. Size - 1
  BY DistanceRange
<1>2. ASSUME NEW m \in 0 .. Distance(h, t) - 1
      PROVE  Stream(w, h, t, b)[Len(w) + m + 1] = b[SlotAfter(h, m)]
  <2>1. /\ Len(w) + m + 1 \in 1 .. Len(w) + Distance(h, t)
        /\ ~(Len(w) + m + 1 <= Len(w)) /\ ((Len(w) + m + 1) - Len(w)) - 1 = m
    BY <1>1
  <2>2. QED
    BY <2>1 DEF Stream
<1>3. ASSUME NEW k \in 1 .. Len(w) PROVE Stream(w, h, t, b)[k] = w[k]
  <2>1. k \in 1 .. Len(w) + Distance(h, t) /\ k <= Len(w)
    BY <1>1
  <2>2. QED
    BY <2>1 DEF Stream
<1>4. QED
  BY <1>2, <1>3 DEF HasBytes, Stream

(* Every place of a stream is one of the wire, or one of the ring. *)
LEMMA StreamPlaces ==
  ASSUME NEW n \in Nat, NEW d \in Nat, NEW k \in 1 .. n + d
  PROVE  k \in 1 .. n \/ \E m \in 0 .. d - 1 : k = n + m + 1
<1>1. CASE k > n
  <2>1. (k - n) - 1 \in 0 .. d - 1 /\ k = n + ((k - n) - 1) + 1
    BY <1>1
  <2>2. QED
    BY <2>1
<1>2. QED
  BY <1>1

(* The drain leaves the stream alone. *)
LEMMA DrainKeepsStream ==
  ASSUME NEW r, r.head \in Slot, r.tail \in Slot, r.buf \in [Slot -> Byte],
         NEW en \in BOOLEAN, NEW f \in 0 .. TxDepth, NEW w \in Seq(Byte),
         Drain(r, en, f, w), ~tornInsert'
  PROVE  StreamNow' = Stream(w, r.head, r.tail, r.buf)
<1> DEFINE n == Moved(r.head, r.tail, en, f)
           d == Distance(r.head, r.tail)
           moved == [i \in 1 .. n |-> r.buf[SlotAfter(r.head, i - 1)]]
           old == Stream(w, r.head, r.tail, r.buf)
<1>1. /\ head' = SlotAfter(r.head, n) /\ tail' = r.tail /\ buf' = r.buf
      /\ wire' = w \o moved
  BY DrainIs
<1>2. n \in 0 .. d /\ d \in 0 .. Size - 1 /\ Len(w) \in Nat
  BY MovedRange, DistanceRange
<1>3. Distance(head', tail') = d - n
  <2>1. r.tail \in Nat
    BY DEF Slot
  <2>2. Count' = d - n
    BY <2>1, DrainLeaves
  <2>3. QED
    BY <2>2 DEF Count
<1>4. \A i \in 1 .. n : r.buf[SlotAfter(r.head, i - 1)] \in Byte
  <2>1. \A i \in 1 .. n : SlotAfter(r.head, i - 1) \in Slot
    BY <1>2, SlotAfterSlot
  <2>2. QED
    BY <2>1
<1>5. moved \in Seq(Byte) /\ Len(moved) = n
  BY <1>2, <1>4, IsASeq
<1>6. /\ Len(wire') = Len(w) + n
      /\ \A k \in 1 .. Len(w) + n :
           wire'[k] = IF k <= Len(w) THEN w[k] ELSE moved[k - Len(w)]
  <2> HIDE DEF moved
  <2>1. /\ Len(w \o moved) = Len(w) + Len(moved)
        /\ \A k \in 1 .. Len(w) + Len(moved) :
             (w \o moved)[k] = IF k <= Len(w) THEN w[k] ELSE moved[k - Len(w)]
    BY <1>5, ConcatProperties
  <2>2. QED
    BY <1>1, <1>5, <2>1
<1> HIDE DEF n, d
<1>7. Len(wire') + Distance(head', tail') = Len(w) + d
  BY <1>2, <1>3, <1>6
<1>8. ASSUME NEW k \in 1 .. Len(w) + d
      PROVE  (IF k <= Len(wire') THEN wire'[k] ELSE buf'[SlotAfter(head', (k - Len(wire')) - 1)])
               = IF k <= Len(w) THEN w[k] ELSE r.buf[SlotAfter(r.head, (k - Len(w)) - 1)]
  <2>1. CASE k <= Len(w) + n
    <3>1. k \in 1 .. Len(w) + n /\ k <= Len(wire')
      BY <1>2, <1>6, <2>1
    <3>2. ~(k <= Len(w)) => k - Len(w) \in 1 .. n
      BY <1>2, <2>1
    <3>3. QED
      BY <1>6, <3>1, <3>2
  <2>2. CASE ~(k <= Len(w) + n)
    <3>1. /\ ~(k <= Len(wire')) /\ ~(k <= Len(w))
          /\ (k - Len(wire')) - 1 \in Nat /\ n \in Nat
          /\ n + ((k - Len(wire')) - 1) = (k - Len(w)) - 1
          /\ (k - Len(w)) - 1 <= Size - 1
      BY <1>2, <1>6, <2>2
    <3>2. SlotAfter(head', (k - Len(wire')) - 1) = SlotAfter(r.head, (k - Len(w)) - 1)
      BY <1>1, <3>1, SlotAfterTwice
    <3>3. QED
      BY <1>1, <3>1, <3>2
  <2>3. QED
    BY <2>1, <2>2
<1>9. QED
  BY <1>7, <1>8 DEF StreamNow, Stream, d

-----------------------------------------------------------------------------
(* A stream rises when each of its bytes is a thru byte or comes, in the    *)
(* same order, from a stream that rises.                                    *)
LEMMA RisesFrom ==
  ASSUME NEW s, NEW p, Rising(s, p), DOMAIN s \subseteq Int,
         NEW t, DOMAIN t \subseteq Int, NEW from,
         \A k \in DOMAIN t :
           t[k] = ThruByte \/ (from[k] \in DOMAIN s /\ t[k] = s[from[k]]),
         \A k, l \in DOMAIN t :
           k < l /\ t[k] # ThruByte /\ t[l] # ThruByte => from[k] < from[l]
  PROVE  Rising(t, p)
<1>1. ThruByte \in 1 .. MaxBytes + 1 /\ ~OfMain(ThruByte)
  BY DEF ThruByte, OfMain
<1>2. ASSUME NEW k \in DOMAIN t
      PROVE  t[k] \in 1 .. MaxBytes + 1 /\ (OfMain(t[k]) => t[k] <= p)
  BY <1>1 DEF Rising
<1>3. ASSUME NEW k \in DOMAIN t, NEW l \in DOMAIN t, k < l, OfMain(t[k]), OfMain(t[l])
      PROVE  t[k] < t[l]
  <2>1. /\ from[k] \in DOMAIN s /\ t[k] = s[from[k]]
        /\ from[l] \in DOMAIN s /\ t[l] = s[from[l]] /\ from[k] < from[l]
    BY <1>1, <1>3
  <2>2. QED
    BY <1>3, <2>1 DEF Rising
<1>4. QED
  BY <1>2, <1>3 DEF Rising

(* A thru byte goes straight to TDR, before what is in the ring. *)
LEMMA ThruToWire ==
  ASSUME NEW h \in Slot, NEW t \in Slot, NEW b \in [Slot -> Byte], NEW w \in Seq(Byte),
         NEW p, Rising(Stream(w, h, t, b), p)
  PROVE  Rising(Stream(Append(w, ThruByte), h, t, b), p)
<1> DEFINE w2 == Append(w, ThruByte)
           s == Stream(w, h, t, b)
           s2 == Stream(w2, h, t, b)
           from == [k \in DOMAIN s2 |-> IF k <= Len(w) THEN k ELSE k - 1]
<1>1. ThruByte \in Byte
  BY DEF ThruByte, Byte
<1>2. /\ w2 \in Seq(Byte) /\ Len(w2) = Len(w) + 1 /\ w2[Len(w) + 1] = ThruByte
      /\ \A k \in 1 .. Len(w) : w2[k] = w[k]
  BY <1>1, AppendProperties
<1> HIDE DEF w2
<1>w. w2 \in Seq(Byte)
  BY <1>2
<1>n. Len(w) \in Nat /\ Len(w2) \in Nat /\ Distance(h, t) \in 0 .. Size - 1
  BY <1>2, DistanceRange
<1>b. HasBytes(w, h, t, b) /\ HasBytes(w2, h, t, b)
  BY <1>w, StreamBytes
<1>3. /\ Len(w) \in Nat /\ Distance(h, t) \in 0 .. Size - 1
      /\ DOMAIN s = 1 .. Len(w) + Distance(h, t)
      /\ \A k \in 1 .. Len(w) : s[k] = w[k]
      /\ \A m \in 0 .. Distance(h, t) - 1 : s[Len(w) + m + 1] = b[SlotAfter(h, m)]
  BY <1>n, <1>b DEF HasBytes
<1>4. /\ DOMAIN s2 = 1 .. Len(w2) + Distance(h, t)
      /\ \A k \in 1 .. Len(w2) : s2[k] = w2[k]
      /\ \A m \in 0 .. Distance(h, t) - 1 : s2[Len(w2) + m + 1] = b[SlotAfter(h, m)]
  BY <1>b DEF HasBytes
<1> HIDE DEF s, s2
<1>5. ASSUME NEW k \in DOMAIN s2
      PROVE  s2[k] = ThruByte \/ (from[k] \in DOMAIN s /\ s2[k] = s[from[k]])
  <2>1. k \in 1 .. Len(w2) \/ \E m \in 0 .. Distance(h, t) - 1 : k = Len(w2) + m + 1
    <3>1. Distance(h, t) \in Nat /\ k \in 1 .. Len(w2) + Distance(h, t)
      BY <1>n, <1>4
    <3>2. QED
      BY <1>n, <3>1, StreamPlaces
  <2>2. CASE k \in 1 .. Len(w)
    <3>1. k \in 1 .. Len(w2) /\ from[k] = k /\ k \in DOMAIN s
      BY <1>2, <1>3, <2>2
    <3>2. QED
      BY <1>2, <1>3, <1>4, <2>2, <3>1
  <2>3. CASE k = Len(w) + 1
    BY <1>2, <1>3, <1>4, <2>3
  <2>4. ASSUME NEW m \in 0 .. Distance(h, t) - 1, k = Len(w2) + m + 1
        PROVE  from[k] \in DOMAIN s /\ s2[k] = s[from[k]]
    <3>1. from[k] = Len(w) + m + 1 /\ Len(w) + m + 1 \in DOMAIN s
      BY <1>2, <1>3, <2>4
    <3>2. QED
      BY <1>3, <1>4, <2>4, <3>1
  <2>5. QED
    BY <1>2, <1>3, <2>1, <2>2, <2>3, <2>4
<1>6. \A k, l \in DOMAIN s2 : k < l /\ s2[k] # ThruByte /\ s2[l] # ThruByte => from[k] < from[l]
  <2> SUFFICES ASSUME NEW k \in DOMAIN s2, NEW l \in DOMAIN s2,
                      k < l, s2[k] # ThruByte, s2[l] # ThruByte
               PROVE  from[k] < from[l]
    OBVIOUS
  <2>1. k # Len(w) + 1 /\ l # Len(w) + 1
    BY <1>2, <1>3, <1>4
  <2>2. k \in Int /\ l \in Int /\ Len(w) \in Nat
    BY <1>2, <1>3, <1>4
  <2>3. QED
    BY <2>1, <2>2
<1>7. Rising(s, p) /\ DOMAIN s \subseteq Int /\ DOMAIN s2 \subseteq Int
  BY <1>2, <1>3, <1>4 DEF s
<1> HIDE DEF from
<1>8. Rising(s2, p)
  BY <1>5, <1>6, <1>7, RisesFrom
<1>9. QED
  BY <1>8 DEF s2, w2

(* Thru bytes are inserted into the ring; they may overrun it. *)
OnlyThru(h, t, b, tt, bb) ==
    \A m \in 0 .. Distance(h, tt) - 1 :
        \/ bb[SlotAfter(h, m)] = ThruByte
        \/ m < Distance(h, t) /\ bb[SlotAfter(h, m)] = b[SlotAfter(h, m)]

LEMMA ThruToRing ==
  ASSUME NEW h \in Slot, NEW t \in Slot, NEW b \in [Slot -> Byte], NEW w \in Seq(Byte),
         NEW tt \in Slot, NEW bb \in [Slot -> Byte],
         NEW p, Rising(Stream(w, h, t, b), p), OnlyThru(h, t, b, tt, bb)
  PROVE  Rising(Stream(w, h, tt, bb), p)
<1> DEFINE s == Stream(w, h, t, b)
           s2 == Stream(w, h, tt, bb)
           from == [k \in DOMAIN s2 |-> k]
<1>n. Len(w) \in Nat /\ Distance(h, t) \in 0 .. Size - 1 /\ Distance(h, tt) \in 0 .. Size - 1
  BY DistanceRange
<1>b. HasBytes(w, h, t, b) /\ HasBytes(w, h, tt, bb)
  BY StreamBytes
<1>1. /\ Len(w) \in Nat /\ Distance(h, t) \in 0 .. Size - 1
      /\ DOMAIN s = 1 .. Len(w) + Distance(h, t)
      /\ \A k \in 1 .. Len(w) : s[k] = w[k]
      /\ \A m \in 0 .. Distance(h, t) - 1 : s[Len(w) + m + 1] = b[SlotAfter(h, m)]
  BY <1>n, <1>b DEF HasBytes
<1>2. /\ Distance(h, tt) \in 0 .. Size - 1
      /\ DOMAIN s2 = 1 .. Len(w) + Distance(h, tt)
      /\ \A k \in 1 .. Len(w) : s2[k] = w[k]
      /\ \A m \in 0 .. Distance(h, tt) - 1 : s2[Len(w) + m + 1] = bb[SlotAfter(h, m)]
  BY <1>n, <1>b DEF HasBytes
<1>3. Rising(s, p)
  OBVIOUS
<1> HIDE DEF s, s2
<1>4. ASSUME NEW k \in DOMAIN s2
      PROVE  s2[k] = ThruByte \/ (from[k] \in DOMAIN s /\ s2[k] = s[from[k]])
  <2>1. k \in 1 .. Len(w) \/ \E m \in 0 .. Distance(h, tt) - 1 : k = Len(w) + m + 1
    <3>1. k \in 1 .. Len(w) + Distance(h, tt) /\ Distance(h, tt) \in Nat
      BY <1>n, <1>2
    <3>2. QED
      BY <1>n, <3>1, StreamPlaces
  <2>2. CASE k \in 1 .. Len(w)
    <3>1. k \in 1 .. Len(w) + Distance(h, t) /\ from[k] = k
      BY <1>1, <2>2
    <3>2. QED
      BY <1>1, <1>2, <2>2, <3>1
  <2>3. ASSUME NEW m \in 0 .. Distance(h, tt) - 1, k = Len(w) + m + 1
        PROVE  s2[k] = ThruByte \/ (from[k] \in DOMAIN s /\ s2[k] = s[from[k]])
    <3>1. s2[k] = bb[SlotAfter(h, m)]
      BY <1>2, <2>3
    <3>0. \/ bb[SlotAfter(h, m)] = ThruByte
          \/ m < Distance(h, t) /\ bb[SlotAfter(h, m)] = b[SlotAfter(h, m)]
      BY <2>3 DEF OnlyThru
    <3>2. CASE m < Distance(h, t) /\ bb[SlotAfter(h, m)] = b[SlotAfter(h, m)]
      <4>1. m \in 0 .. Distance(h, t) - 1 /\ k \in 1 .. Len(w) + Distance(h, t)
        BY <1>1, <2>3, <3>2
      <4>2. s[k] = b[SlotAfter(h, m)]
        BY <1>1, <2>3, <4>1
      <4>3. QED
        BY <1>1, <3>1, <3>2, <4>1, <4>2
    <3>3. QED
      BY <3>0, <3>1, <3>2
  <2>4. QED
    BY <2>1, <2>2, <2>3
<1>5. \A k, l \in DOMAIN s2 : k < l => from[k] < from[l]
  OBVIOUS
<1>6. DOMAIN s \subseteq Int /\ DOMAIN s2 \subseteq Int
  BY <1>1, <1>2
<1> HIDE DEF from
<1>7. Rising(s2, p)
  BY <1>3, <1>4, <1>5, <1>6, RisesFrom
<1>8. QED
  BY <1>7 DEF s2

(* One more byte of main appears at the end, or overruns the ring. *)
LEMMA RisesByOne ==
  ASSUME NEW h \in Slot, NEW t \in Slot, NEW b \in [Slot -> Byte], NEW w \in Seq(Byte),
         NEW p \in Nat, p + 1 <= MaxBytes, b[t] = p + 1, Rising(Stream(w, h, t, b), p)
  PROVE  /\ Rising(Stream(w, h, Wrap(t), b), p + 1)
         /\ Distance(h, t) # Size - 1 /\ Stream(w, h, t, b) = [i \in 1 .. p |-> i] =>
              Stream(w, h, Wrap(t), b) = [i \in 1 .. p + 1 |-> i]
<1> DEFINE s == Stream(w, h, t, b)
           s2 == Stream(w, h, Wrap(t), b)
           n == Len(w) + Distance(h, t)
<1>2. Wrap(t) \in Slot
  BY WrapSlot
<1>n. /\ Len(w) \in Nat /\ Distance(h, t) \in 0 .. Size - 1
      /\ Distance(h, Wrap(t)) \in 0 .. Size - 1
  BY <1>2, DistanceRange
<1>b. HasBytes(w, h, t, b) /\ HasBytes(w, h, Wrap(t), b)
  BY <1>2, StreamBytes
<1>1. /\ Len(w) \in Nat /\ Distance(h, t) \in 0 .. Size - 1
      /\ DOMAIN s = 1 .. n
      /\ \A k \in 1 .. Len(w) : s[k] = w[k]
      /\ \A m \in 0 .. Distance(h, t) - 1 : s[Len(w) + m + 1] = b[SlotAfter(h, m)]
  BY <1>n, <1>b DEF HasBytes
<1>3. /\ Distance(h, Wrap(t)) \in 0 .. Size - 1
      /\ DOMAIN s2 = 1 .. Len(w) + Distance(h, Wrap(t))
      /\ \A k \in 1 .. Len(w) : s2[k] = w[k]
      /\ \A m \in 0 .. Distance(h, Wrap(t)) - 1 : s2[Len(w) + m + 1] = b[SlotAfter(h, m)]
  BY <1>n, <1>b DEF HasBytes
<1>4. /\ SlotAfter(h, Distance(h, t)) = t
      /\ Distance(h, Wrap(t)) = IF Distance(h, t) = Size - 1 THEN 0 ELSE Distance(h, t) + 1
  BY SlotsUpToTail
<1>5. Rising(s, p)
  OBVIOUS
<1> HIDE DEF s, s2
<1>6. ASSUME NEW k \in DOMAIN s2
      PROVE  (k \in 1 .. n /\ s2[k] = s[k]) \/ (k = n + 1 /\ s2[k] = p + 1)
  <2>1. k \in 1 .. Len(w) \/ \E m \in 0 .. Distance(h, Wrap(t)) - 1 : k = Len(w) + m + 1
    <3>1. k \in 1 .. Len(w) + Distance(h, Wrap(t)) /\ Distance(h, Wrap(t)) \in Nat
      BY <1>n, <1>3
    <3>2. QED
      BY <1>n, <3>1, StreamPlaces
  <2>2. CASE k \in 1 .. Len(w)
    BY <1>1, <1>3, <2>2
  <2>3. ASSUME NEW m \in 0 .. Distance(h, Wrap(t)) - 1, k = Len(w) + m + 1
        PROVE  (k \in 1 .. n /\ s2[k] = s[k]) \/ (k = n + 1 /\ s2[k] = p + 1)
    <3>1. s2[k] = b[SlotAfter(h, m)]
      BY <1>3, <2>3
    <3>2. m \in 0 .. Distance(h, t)
      BY <1>1, <1>4
    <3>3. CASE m = Distance(h, t)
      BY <1>1, <1>4, <2>3, <3>1, <3>3
    <3>4. CASE m # Distance(h, t)
      <4>1. m \in 0 .. Distance(h, t) - 1 /\ k \in 1 .. n
        BY <1>1, <2>3, <3>2, <3>4
      <4>2. s[k] = b[SlotAfter(h, m)]
        BY <1>1, <2>3, <4>1
      <4>3. QED
        BY <3>1, <4>1, <4>2
    <3>5. QED
      BY <3>3, <3>4
  <2>4. QED
    BY <2>1, <2>2, <2>3
<1>7. DOMAIN s2 \subseteq 1 .. n + 1 /\ n \in Nat
  BY <1>1, <1>3, <1>4
<1>8. Rising(s2, p + 1)
  <2>1. \A k \in 1 .. n : s[k] \in 1 .. MaxBytes + 1 /\ (OfMain(s[k]) => s[k] <= p)
    BY <1>1, <1>5 DEF Rising
  <2>2. \A k, l \in 1 .. n : k < l /\ OfMain(s[k]) /\ OfMain(s[l]) => s[k] < s[l]
    BY <1>1, <1>5 DEF Rising
  <2> HIDE DEF n
  <2>3. ASSUME NEW k \in DOMAIN s2
        PROVE  s2[k] \in 1 .. MaxBytes + 1 /\ (OfMain(s2[k]) => s2[k] <= p + 1)
    BY <1>6, <2>1
  <2>4. ASSUME NEW k \in DOMAIN s2, NEW l \in DOMAIN s2, k < l, OfMain(s2[k]), OfMain(s2[l])
        PROVE  s2[k] < s2[l]
    <3>1. k \in 1 .. n /\ s2[k] = s[k]
      BY <1>6, <1>7, <2>4
    <3>2. CASE l \in 1 .. n /\ s2[l] = s[l]
      BY <2>2, <2>4, <3>1, <3>2
    <3>3. CASE s2[l] = p + 1
      <4>1. s2[k] <= p /\ s2[k] \in Int
        BY <2>1, <2>4, <3>1
      <4>2. QED
        BY <3>3, <4>1
    <3>4. QED
      BY <1>6, <3>2, <3>3
  <2>5. QED
    BY <2>3, <2>4 DEF Rising
<1>9. ASSUME Distance(h, t) # Size - 1, s = [i \in 1 .. p |-> i]
      PROVE  s2 = [i \in 1 .. p + 1 |-> i]
  <2>1. n = p
    <3>1. 1 .. n = 1 .. p
      BY <1>1, <1>9
    <3>2. n \in 1 .. n \/ n = 0
      BY <1>7
    <3>3. p \in 1 .. p \/ p = 0
      OBVIOUS
    <3> HIDE DEF n
    <3>4. QED
      BY <1>7, <3>1, <3>2, <3>3
  <2>2. DOMAIN s2 = 1 .. p + 1
    BY <1>1, <1>3, <1>4, <1>9, <2>1
  <2>3. \A k \in 1 .. p + 1 : s2[k] = k
    BY <1>6, <1>9, <2>1, <2>2
  <2>4. s2 = [k \in DOMAIN s2 |-> s2[k]]
    BY DEF s2, Stream
  <2>5. QED
    BY <2>2, <2>3, <2>4
<1>10. QED
  BY <1>8, <1>9 DEF s, s2

(* A store in the slot at tail, which is not in the stream. *)
LEMMA StoreKeepsStream ==
  ASSUME NEW h \in Slot, NEW t \in Slot, NEW b \in [Slot -> Byte], NEW w \in Seq(Byte),
         NEW bb, \A m \in Slot : m # t => bb[m] = b[m]
  PROVE  Stream(w, h, t, bb) = Stream(w, h, t, b)
<1>1. Len(w) \in Nat /\ Distance(h, t) \in 0 .. Size - 1
  BY DistanceRange
<1>2. \A m \in 0 .. Distance(h, t) - 1 : SlotAfter(h, m) \in Slot /\ SlotAfter(h, m) # t
  BY SlotsUpToTail
<1>3. ASSUME NEW k \in 1 .. Len(w) + Distance(h, t), ~(k <= Len(w))
      PROVE  bb[SlotAfter(h, (k - Len(w)) - 1)] = b[SlotAfter(h, (k - Len(w)) - 1)]
  <2>1. (k - Len(w)) - 1 \in 0 .. Distance(h, t) - 1
    BY <1>1, <1>3
  <2>2. QED
    BY <1>2, <2>1
<1>4. QED
  BY <1>3 DEF Stream

-----------------------------------------------------------------------------
LEMMA TornStays == [Next]_vars /\ ~tornInsert' => ~tornInsert
<1> SUFFICES ASSUME [Next]_vars, ~tornInsert' PROVE ~tornInsert
  OBVIOUS
<1>1. CASE MainStep
  BY <1>1 DEF MainStep, Reserve, SendCC, StartDump, StartCall, LoadTail, StoreSlot, CompareTail,
     AddOne, PublishTail, EnableTx, ReadTail, Subtract, RereadTail, DecideRoom, WaitDrained, Local
<1>2. CASE UsartTx \/ UsartRx \/ UsbRx \/ Shift \/ UNCHANGED vars
  BY <1>2 DEF UsartTx, UsartRx, UsbRx, Shift, vars
<1>3. QED
  BY <1>1, <1>2 DEF Next

(* What an interrupt inserts while main is not in an insert(). *)
LEMMA UsartRxInserts ==
  ASSUME NEW h \in Slot, NEW t \in Slot, NEW b \in [Slot -> Byte]
  PROVE  OnlyThru(h, t, b, Wrap(t), [b EXCEPT ![t] = ThruByte])
<1> DEFINE bb == [b EXCEPT ![t] = ThruByte]
<1>1. /\ SlotAfter(h, Distance(h, t)) = t /\ Distance(h, t) \in 0 .. Size - 1
      /\ Distance(h, Wrap(t)) = IF Distance(h, t) = Size - 1 THEN 0 ELSE Distance(h, t) + 1
  BY SlotsUpToTail, DistanceRange
<1>2. \A m \in 0 .. Distance(h, t) - 1 : SlotAfter(h, m) \in Slot /\ SlotAfter(h, m) # t
  BY SlotsUpToTail
<1>3. ASSUME NEW m \in 0 .. Distance(h, Wrap(t)) - 1
      PROVE  \/ bb[SlotAfter(h, m)] = ThruByte
             \/ m < Distance(h, t) /\ bb[SlotAfter(h, m)] = b[SlotAfter(h, m)]
  <2>1. CASE m = Distance(h, t)
    BY <1>1, <2>1
  <2>2. CASE m # Distance(h, t)
    <3>1. m \in 0 .. Distance(h, t) - 1 /\ m < Distance(h, t)
      BY <1>1, <2>2
    <3>2. QED
      BY <1>2, <3>1
  <2>3. QED
    BY <2>1, <2>2
<1>4. QED
  BY <1>3 DEF OnlyThru

LEMMA UsbRxInserts ==
  ASSUME NEW h \in Slot, NEW t \in Slot, NEW b \in [Slot -> Byte],
         NEW bb, bb = [s \in Slot |-> IF Distance(t, s) < Message THEN ThruByte ELSE b[s]]
  PROVE  OnlyThru(h, t, b, SlotAfter(t, Message), bb)
<1>1. /\ \A m \in 0 .. Size - 1 : SlotAfter(h, m) \in Slot
      /\ \A m \in 0 .. Size - 1 :
           m >= Distance(h, t) => Distance(t, SlotAfter(h, m)) = m - Distance(h, t)
  BY SlotsBehind
<1>2. /\ Distance(h, SlotAfter(t, Message)) =
           IF Distance(h, t) + Message <= Size - 1 THEN Distance(h, t) + Message
           ELSE (Distance(h, t) + Message) - Size
      /\ Distance(h, t) \in 0 .. Size - 1
  BY SlotsBehind, DistanceRange
<1>3. ASSUME NEW m \in 0 .. Distance(h, SlotAfter(t, Message)) - 1
      PROVE  \/ bb[SlotAfter(h, m)] = ThruByte
             \/ m < Distance(h, t) /\ bb[SlotAfter(h, m)] = b[SlotAfter(h, m)]
  <2>1. m \in 0 .. Size - 1 /\ (~(m < Distance(h, t)) => m - Distance(h, t) < Message)
    BY <1>2
  <2>2. SlotAfter(h, m) \in Slot
    BY <1>1, <2>1
  <2>3. CASE m < Distance(h, t)
    BY <2>2, <2>3
  <2>4. CASE ~(m < Distance(h, t))
    <3>1. m >= Distance(h, t)
      BY <1>2, <2>1, <2>4
    <3>2. Distance(t, SlotAfter(h, m)) < Message
      BY <1>1, <2>1, <2>4, <3>1
    <3>3. QED
      BY <2>2, <3>2
  <2>5. QED
    BY <2>3, <2>4
<1>4. QED
  BY <1>3 DEF OnlyThru

LEMMA OrderStep == TypeInv /\ OrderInv /\ [Next]_vars => OrderInv'
<1> DEFINE Stored(pc) == pc \in {"compare", "add", "publish"}
           Goal == Rising(StreamNow', Published') /\ (Stored(mPc') => buf'[tail'] = made')
<1> SUFFICES ASSUME TypeInv, OrderInv, [Next]_vars, ~tornInsert' PROVE Goal
  BY DEF OrderInv
<1>0. ~tornInsert
  BY TornStays
<1>t. /\ head \in Slot /\ tail \in Slot /\ buf \in [Slot -> Byte] /\ wire \in Seq(Byte)
      /\ txeie \in BOOLEAN /\ fifo \in 0 .. TxDepth /\ made \in 0 .. MaxBytes /\ TailCurrent
  BY <1>0 DEF TypeInv, TypeOK
<1>i. /\ Rising(Stream(wire, head, tail, buf), Published)
      /\ Stored(mPc) => buf[tail] = made
  BY <1>0 DEF OrderInv, StreamNow
<1>s. ASSUME UNCHANGED <<head, tail, buf, wire, made>>, Stored(mPc') <=> Stored(mPc)
      PROVE  Goal
  BY <1>i, <1>s DEF StreamNow, Published
<1>d. ASSUME NEW r, r.head \in Slot, r.tail \in Slot, r.buf \in [Slot -> Byte],
             NEW en \in BOOLEAN, NEW f \in 0 .. TxDepth, NEW w \in Seq(Byte),
             Drain(r, en, f, w), UNCHANGED main,
             Rising(Stream(w, r.head, r.tail, r.buf), Published),
             Stored(mPc) => r.tail = tail /\ r.buf = buf
      PROVE  Goal
  <2>1. StreamNow' = Stream(w, r.head, r.tail, r.buf)
    BY <1>d, DrainKeepsStream
  <2>2. tail' = r.tail /\ buf' = r.buf
    BY <1>d, DrainIs
  <2>3. Published' = Published /\ mPc' = mPc /\ made' = made
    BY <1>d DEF Published, main
  <2>4. QED
    BY <1>d, <1>i, <2>1, <2>2, <2>3
<1> HIDE DEF Goal
<1>1. CASE Reserve \/ SendCC \/ StartDump
  <2>1. UNCHANGED <<head, tail, buf, wire, made>> /\ mPc = "idle" /\ mPc' \in {"count", "load"}
    BY <1>1 DEF Reserve, SendCC, StartDump, StartCall, ring
  <2>2. QED
    BY <1>s, <2>1
<1>2. CASE LoadTail \/ CompareTail \/ AddOne \/ ReadTail \/ Subtract \/ RereadTail
           \/ DecideRoom \/ WaitDrained
  <2>1. \E from, to : /\ Local(from, to) /\ (Stored(from) <=> Stored(to))
    BY <1>2 DEF LoadTail, CompareTail, AddOne, ReadTail, Subtract, RereadTail, DecideRoom,
       WaitDrained
  <2>2. QED
    BY <1>s, <2>1 DEF Local, ring
<1>3. CASE StoreSlot
  <2>1. /\ buf' = [buf EXCEPT ![tail] = made + 1] /\ made' = made + 1 /\ mPc' = "compare"
        /\ UNCHANGED <<head, tail, wire>> /\ mPc = "store"
    BY <1>3, <1>t DEF StoreSlot, TailCurrent
  <2>2. Stream(wire, head, tail, buf') = Stream(wire, head, tail, buf)
    <3>1. \A m \in Slot : m # tail => buf'[m] = buf[m]
      BY <1>t, <2>1
    <3>2. QED
      BY <1>t, <3>1, StoreKeepsStream
  <2>3. Published' = Published
    BY <1>t, <2>1 DEF Published
  <2>4. buf'[tail'] = made'
    BY <1>t, <2>1
  <2>5. QED
    BY <1>i, <2>1, <2>2, <2>3, <2>4 DEF Goal, StreamNow
<1>4. CASE PublishTail
  <2>1. /\ tail' = Wrap(tail) /\ UNCHANGED <<head, buf, made, wire>> /\ mPc = "publish"
        /\ mPc' \in {"enable", "load"}
    BY <1>4, <1>t DEF PublishTail, TailCurrent
  <2>2. Published \in Nat /\ Published + 1 = made /\ Published' = made
    <3>1. made >= 1
      BY <2>1 DEF TypeInv, CallBounded
    <3>2. QED
      BY <1>t, <2>1, <3>1 DEF Published
  <2>3. Rising(Stream(wire, head, Wrap(tail), buf), Published + 1)
    BY <1>i, <1>t, <2>1, <2>2, RisesByOne
  <2>4. QED
    BY <2>1, <2>2, <2>3 DEF Goal, StreamNow
<1>5. CASE EnableTx
  <2>1. UNCHANGED <<head, tail, buf, wire, made>> /\ mPc = "enable" /\ mPc' \in {"count", "idle"}
    BY <1>5 DEF EnableTx, ring
  <2>2. QED
    BY <1>s, <2>1
<1>6. CASE UsartTx
  <2>1. Drain(Ring, txeie, fifo, wire) /\ UNCHANGED main
    BY <1>6 DEF UsartTx
  <2>2. Ring.head = head /\ Ring.tail = tail /\ Ring.buf = buf
    BY DEF Ring
  <2>3. QED
    BY <1>d, <1>i, <1>t, <2>1, <2>2
<1>7. CASE UsartRx
  <2>0. UNCHANGED main
    BY <1>7 DEF UsartRx
  <2>1. Ring.head = head /\ Ring.tail = tail /\ Ring.buf = buf
    BY DEF Ring
  <2>b. ThruByte \in Byte
    BY DEF ThruByte, Byte
  <2>2. CASE fifo < TxDepth /\ Drain(Ring, txeie, fifo + 1, Append(wire, ThruByte))
    <3>1. Append(wire, ThruByte) \in Seq(Byte) /\ fifo + 1 \in 0 .. TxDepth
      BY <1>t, <2>b, <2>2, AppendProperties
    <3>2. Rising(Stream(Append(wire, ThruByte), head, tail, buf), Published)
      BY <1>i, <1>t, ThruToWire
    <3>3. QED
      BY <1>d, <1>t, <2>0, <2>1, <2>2, <3>1, <3>2
  <2>3. CASE fifo = TxDepth /\ tornInsert' = (tornInsert \/ Inserting)
             /\ Drain(Inserted(Ring, ThruByte), TRUE, fifo, wire)
    <3> DEFINE r == Inserted(Ring, ThruByte)
               bb == [buf EXCEPT ![tail] = ThruByte]
    <3>1. r.head = head /\ r.tail = Wrap(tail) /\ r.buf = bb
      BY <2>1 DEF Inserted, Ring
    <3>2. Wrap(tail) \in Slot /\ bb \in [Slot -> Byte]
      BY <1>t, <2>b, WrapSlot
    <3>3. OnlyThru(head, tail, buf, Wrap(tail), bb)
      BY <1>t, UsartRxInserts
    <3> HIDE DEF bb, r
    <3>4. Rising(Stream(wire, head, Wrap(tail), bb), Published)
      BY <1>i, <1>t, <3>2, <3>3, ThruToRing
    <3>5. ~Stored(mPc)
      BY <2>3 DEF Inserting
    <3>6. Drain(r, TRUE, fifo, wire)
      BY <2>3 DEF r
    <3>7. QED
      BY <1>d, <1>t, <2>0, <3>1, <3>2, <3>4, <3>5, <3>6
  <2>4. QED
    BY <1>7, <2>2, <2>3 DEF UsartRx
<1>8. CASE UsbRx
  <2>1. /\ tail' = SlotAfter(tail, Message) /\ UNCHANGED <<head, main>> /\ wire' = wire
        /\ buf' = [s \in Slot |-> IF Distance(tail, s) < Message THEN ThruByte ELSE buf[s]]
        /\ ~Stored(mPc)
    <3>1. buf' = [s \in Slot |-> IF tail \in Slot /\ Distance(tail, s) < Message
                                 THEN ThruByte ELSE buf[s]]
      BY <1>8 DEF UsbRx
    <3>2. \A s \in Slot : (IF tail \in Slot /\ Distance(tail, s) < Message THEN ThruByte ELSE buf[s])
                            = IF Distance(tail, s) < Message THEN ThruByte ELSE buf[s]
      BY <1>t
    <3>3. buf' = [s \in Slot |-> IF Distance(tail, s) < Message THEN ThruByte ELSE buf[s]]
      BY <3>1, <3>2
    <3>4. tail' = SlotAfter(tail, Message) /\ UNCHANGED <<head, main>> /\ wire' = wire /\ ~Stored(mPc)
      BY <1>8, <1>t DEF UsbRx, Sent, Inserting
    <3>5. QED
      BY <3>3, <3>4
  <2>2. OnlyThru(head, tail, buf, tail', buf')
    BY <1>t, <2>1, UsbRxInserts
  <2>3. tail' \in Slot /\ buf' \in [Slot -> Byte]
    <3>1. ThruByte \in Byte
      BY DEF ThruByte, Byte
    <3>2. \A s \in Slot : (IF Distance(tail, s) < Message THEN ThruByte ELSE buf[s]) \in Byte
      BY <1>t, <3>1
    <3>3. QED
      BY <1>t, <2>1, <3>2, SlotAfterSlot
  <2>4. Rising(Stream(wire, head, tail', buf'), Published)
    BY <1>i, <1>t, <2>2, <2>3, ThruToRing
  <2>5. Published' = Published /\ mPc' = mPc /\ head' = head /\ wire' = wire
    BY <2>1 DEF main, Published
  <2>6. QED
    BY <2>1, <2>4, <2>5 DEF Goal, StreamNow
<1>9. CASE Shift \/ UNCHANGED vars
  <2>1. UNCHANGED <<head, tail, buf, wire, made, mPc>>
    BY <1>9 DEF Shift, vars, ring, main
  <2>2. QED
    BY <1>s, <2>1
<1>10. QED
  BY <1>1, <1>2, <1>3, <1>4, <1>5, <1>6, <1>7, <1>8, <1>9 DEF Next, MainStep

LEMMA OrderInit == Init => OrderInv
<1> SUFFICES ASSUME Init PROVE OrderInv
  OBVIOUS
<1>1. Distance(0, 0) = 0 /\ Len(<<>>) = 0
  BY DEF Distance
<1>2. DOMAIN StreamNow = {}
  BY <1>1 DEF Init, StreamNow, Stream
<1>3. QED
  BY <1>2 DEF Init, OrderInv, Rising

(* What the main loop sends reaches the wire in order, no byte of it twice  *)
(* and no slot before it was written, with thru bytes from both interrupts  *)
(* between any two of its insertions, up to the first interrupt that        *)
(* inserts within one of them: for every size and every interleaving.       *)
THEOREM MidiOutWireInOrder == Spec => []WireInOrder
<1>1. Init => OrderInv
  BY OrderInit
<1>2. TypeInv /\ OrderInv => WireInOrder
  <2> SUFFICES ASSUME TypeInv, OrderInv PROVE WireInOrder
    OBVIOUS
  <2>1. CASE tornInsert
    <3>1. wire = <<>>
      BY <2>1 DEF TypeInv
    <3>2. QED
      BY <3>1 DEF WireInOrder
  <2>2. CASE ~tornInsert
    <3>1. HasBytes(wire, head, tail, buf) /\ Len(wire) \in Nat /\ Distance(head, tail) \in Nat
      BY <2>2, StreamBytes, DistanceRange DEF TypeInv, TypeOK
    <3>2. \A k \in 1 .. Len(wire) : k \in DOMAIN StreamNow /\ StreamNow[k] = wire[k]
      BY <3>1 DEF HasBytes, StreamNow
    <3>3. Rising(StreamNow, Published)
      BY <2>2 DEF OrderInv
    <3>4. QED
      BY <3>2, <3>3 DEF Rising, WireInOrder
  <2>3. QED
    BY <2>1, <2>2
<1>3. QED
  BY <1>1, <1>2, TypesInit, TypesStep, OrderStep, PTL DEF Spec

-----------------------------------------------------------------------------
(* Thru bytes, callers and torn counts only accumulate. *)
LEMMA ConditionsStay ==
  TypeInv /\ [Next]_vars /\ thru' = 0 /\ "cc" \notin callers' /\ ~tornRoom' =>
    /\ thru = 0 /\ callers' = callers /\ "cc" \notin callers /\ ~tornRoom
    /\ ~UsartRx /\ ~UsbRx
<1> SUFFICES ASSUME TypeInv, [Next]_vars, thru' = 0, "cc" \notin callers', ~tornRoom'
             PROVE  /\ thru = 0 /\ callers' = callers /\ ~tornRoom
                    /\ ~UsartRx /\ ~UsbRx
  OBVIOUS
<1>0. thru \in Nat
  BY DEF TypeInv, TypeOK
<1>1. ~UsartRx /\ ~UsbRx
  <2>1. UsartRx \/ UsbRx => thru' = thru + 1 \/ thru' = thru + Message
    BY DEF UsartRx, UsbRx
  <2>2. QED
    BY <1>0, <2>1
<1>2. CASE MainStep
  <2>1. CASE DecideRoom
    BY <1>1, <2>1 DEF DecideRoom, Local
  <2>2. CASE ~DecideRoom
    BY <1>1, <1>2, <2>2 DEF MainStep, Reserve, SendCC, StartDump, StartCall, LoadTail, StoreSlot,
       CompareTail, AddOne, PublishTail, EnableTx, ReadTail, Subtract, RereadTail,
       WaitDrained, Local
  <2>3. QED
    BY <2>1, <2>2
<1>3. CASE UsartTx \/ Shift \/ UNCHANGED vars
  BY <1>1, <1>3 DEF UsartTx, Shift, vars
<1>4. QED
  BY <1>1, <1>2, <1>3 DEF Next

LEMMA CountRange ==
  ASSUME head \in Slot, tail \in Slot
  PROVE  /\ head \in Nat /\ tail \in Nat /\ head < Size /\ tail < Size
         /\ Count \in 0 .. Size - 1
         /\ Count = IF tail < head THEN (tail - head) + Size ELSE tail - head
         /\ Count = Size - 1 <=> head = Wrap(tail)
         /\ Count # Size - 1 => Distance(head, Wrap(tail)) = Count + 1
  BY DEF Count, Distance, Slot, Wrap

(* The room that is left survives whatever the drain does between two steps *)
(* of main, and every step of main.                                         *)
LEMMA RoomStep ==
  ASSUME TypeInv, ~tornInsert, ~tornRoom', callers' = callers, "cc" \notin callers, RoomKept,
         MainStep
  PROVE  RoomKept' /\ (PublishTail => Count # Size - 1)
<1> USE DEF Local, ring, Counting
<1>t. /\ head \in Slot /\ tail \in Slot /\ mCount \in Int /\ mLeft \in 0 .. Size - 1
      /\ mWait \in BOOLEAN /\ callers \in Profiles /\ TailCurrent
  BY DEF TypeInv, TypeOK
<1>n. /\ head \in Nat /\ tail \in Nat /\ head < Size /\ tail < Size
      /\ Count \in 0 .. Size - 1
      /\ Count = IF tail < head THEN (tail - head) + Size ELSE tail - head
  BY <1>t, CountRange
<1>m. ~("controller" \in callers /\ "dump" \in callers)
  BY <1>t, ModeAssumption
<1>c. ~PublishTail => Count' = Count /\ head' = head /\ tail' = tail
  BY DEF MainStep, Reserve, SendCC, StartDump, StartCall, LoadTail, StoreSlot, CompareTail, AddOne,
     EnableTx, ReadTail, Subtract, RereadTail, DecideRoom, WaitDrained, Count
<1> USE DEF RoomKept, RoomToLoad, CountBounds
<1>1. CASE Reserve
  BY <1>1, <1>c, <1>m, <1>n DEF Reserve, StartCall, PublishTail
<1>2. CASE StartDump
  <2>1. /\ mPc = "idle" /\ mPc' = "load" /\ mLeft' = DumpSize /\ mWait' = TRUE
        /\ "dump" \in callers /\ ~PublishTail
    BY <1>2 DEF StartDump, StartCall, PublishTail
  <2>2. Count = 0 \/ (head <= tail /\ tail < DumpSize)
    BY <2>1
  <2>3. RoomToLoad'
    BY <1>c, <1>n, <2>1, <2>2
  <2>4. QED
    BY <2>1, <2>3
<1>3. CASE LoadTail \/ StoreSlot \/ CompareTail \/ AddOne
  <2>1. /\ mPc \in {"load", "store", "compare", "add"}
        /\ mPc' \in {"store", "compare", "add", "publish"}
        /\ mLeft' = mLeft /\ mWait' = mWait /\ ~PublishTail
    BY <1>3 DEF LoadTail, StoreSlot, CompareTail, AddOne, PublishTail
  <2>2. RoomToLoad'
    BY <1>c, <2>1
  <2>3. QED
    BY <2>1, <2>2
<1>4. CASE PublishTail
  <2>1. /\ mPc = "publish" /\ tail' = Wrap(tail) /\ head' = head /\ mLeft' = mLeft - 1
        /\ mWait' = mWait /\ mPc' = IF mLeft = 1 THEN "enable" ELSE "load"
    BY <1>4, <1>t DEF PublishTail, TailCurrent
  <2>2. mLeft \in Nat /\ mLeft >= 1
    BY <1>t, <2>1 DEF TypeInv, CallBounded
  <2>3. IF mWait
        THEN \/ Count + mLeft <= DumpSize
             \/ head <= tail /\ tail + mLeft < DumpSize + DumpSize
        ELSE Count + mLeft <= Size - 1
    BY <2>1
  <2>4. Count # Size - 1 /\ DumpSize < Size
    BY <1>n, <2>2, <2>3
  <2>5. Count' = Count + 1
    BY <1>t, <2>1, <2>4, CountRange DEF Count
  <2>6. CASE mWait
    <3>1. CASE Count + mLeft <= DumpSize
      <4>1. Count' + mLeft' <= DumpSize
        BY <1>n, <2>1, <2>2, <2>5, <3>1
      <4>2. mLeft = 1 => Count' <= DumpSize
        BY <1>n, <2>5, <3>1
      <4>3. QED
        BY <2>1, <2>4, <2>6, <4>1, <4>2
    <3>2. CASE head <= tail /\ tail + mLeft < DumpSize + DumpSize
      <4>1. tail' = tail + 1
        BY <1>n, <2>1, <2>2, <3>2 DEF Wrap
      <4>2. head' <= tail' /\ tail' + mLeft' < DumpSize + DumpSize
        BY <1>n, <2>1, <2>2, <3>2, <4>1
      <4>3. QED
        BY <2>1, <2>4, <2>6, <4>2
    <3>3. QED
      BY <2>3, <2>6, <3>1, <3>2
  <2>7. CASE ~mWait
    <3>1. Count' + mLeft' <= Size - 1
      BY <1>n, <2>1, <2>2, <2>3, <2>5, <2>7
    <3>2. QED
      BY <2>1, <2>4, <2>7, <3>1
  <2>8. QED
    BY <1>t, <2>6, <2>7
<1>5. CASE EnableTx
  BY <1>5, <1>c, <1>m DEF EnableTx, PublishTail
<1>6. CASE ReadTail
  BY <1>6, <1>c DEF ReadTail, PublishTail
<1>7. CASE Subtract
  <2>1. /\ mPc = "subtract" /\ mPc' = "recheck" /\ mCount' = tail - head /\ ~PublishTail
        /\ mLeft' = mLeft /\ mWait' = mWait
    BY <1>7 DEF Subtract, PublishTail
  <2>2. IF mCount' >= 0 THEN head <= tail /\ Count <= mCount' ELSE Count <= mCount' + Size
    BY <1>n, <2>1
  <2>3. mWait /\ mCount' < 0 => tail < DumpSize
    BY <1>n, <2>1
  <2>4. QED
    BY <1>c, <2>1, <2>2, <2>3
<1>8. CASE RereadTail
  BY <1>8, <1>c DEF RereadTail, PublishTail
<1>9. CASE DecideRoom
  <2>1. /\ mPc = "decide" /\ ~mWait /\ ~mWait' /\ mLeft' = mLeft /\ mLeft = Message
        /\ mPc' = IF HasRoom(Counted) THEN "load" ELSE "idle"
        /\ ~(Counted < 0) /\ mTail = tail /\ ~PublishTail /\ "controller" \in callers
    BY <1>9 DEF DecideRoom, PublishTail
  <2>2. Counted = mCount + (IF tail < head THEN Size ELSE 0)
    BY <2>1 DEF Counted
  <2>3. Count <= Counted /\ Counted \in Int
    BY <1>n, <1>t, <2>1, <2>2
  <2>4. HasRoom(Counted) => Count + Message <= Size - 1
    BY <1>n, <2>3 DEF HasRoom
  <2>5. QED
    BY <1>c, <1>m, <2>1, <2>4
<1>10. CASE WaitDrained
  <2>1. /\ mPc = "decide" /\ mWait /\ mWait' = mWait /\ mTail = tail /\ ~PublishTail
        /\ mPc' = IF Counted > 0 THEN "count" ELSE "idle"
    BY <1>10 DEF WaitDrained, PublishTail
  <2>2. Counted = mCount + (IF tail < head THEN Size ELSE 0)
    BY <2>1 DEF Counted
  <2>3. ~(Counted > 0) => Count = 0 \/ (head <= tail /\ tail < DumpSize)
    BY <1>n, <1>t, <2>1, <2>2
  <2>4. QED
    BY <1>c, <2>1, <2>3
<1>11. QED
  BY <1>1, <1>2, <1>3, <1>4, <1>5, <1>6, <1>7, <1>8, <1>9, <1>10 DEF MainStep, SendCC

LEMMA RoomDrained ==
  ASSUME RoomKept, head \in Nat, tail \in Nat, mLeft \in Nat, mCount \in Int,
         callers' = callers, UNCHANGED main, tail' = tail,
         Count \in Nat, Count' \in 0 .. Count, head <= tail => head' <= tail'
  PROVE  RoomKept'
<1> USE DEF main, Counting
<1>1. RoomToLoad'
  <2>0. \A a, l, n \in Nat : \A b \in 0 .. a : a + l <= n => b + l <= n
    OBVIOUS
  <2>1. Count + mLeft <= DumpSize => Count' + mLeft <= DumpSize
    BY <2>0
  <2>2. Count + mLeft <= Size - 1 => Count' + mLeft <= Size - 1
    <3>1. Size - 1 \in Nat
      OBVIOUS
    <3>2. QED
      BY <2>0, <3>1
  <2>3. QED
    BY <2>1, <2>2 DEF RoomKept, RoomToLoad
<1>2. CountBounds'
  BY DEF RoomKept, CountBounds
<1>3. QED
  BY <1>1, <1>2 DEF RoomKept

LEMMA WholeStep == TypeInv /\ OrderInv /\ WholeInv /\ [Next]_vars => WholeInv'
<1> SUFFICES ASSUME TypeInv, OrderInv, WholeInv, [Next]_vars,
                    thru' = 0, "cc" \notin callers', ~tornRoom'
             PROVE  StreamNow' = [i \in 1 .. Published' |-> i] /\ RoomKept'
  BY DEF WholeInv
<1>0. /\ thru = 0 /\ callers' = callers /\ "cc" \notin callers /\ ~tornRoom /\ ~tornInsert
      /\ ~UsartRx /\ ~UsbRx
  BY ConditionsStay DEF TypeInv
<1>t. /\ head \in Slot /\ tail \in Slot /\ buf \in [Slot -> Byte] /\ wire \in Seq(Byte)
      /\ txeie \in BOOLEAN /\ fifo \in 0 .. TxDepth /\ made \in 0 .. MaxBytes /\ TailCurrent
      /\ mLeft \in Nat /\ mCount \in Int
  BY <1>0 DEF TypeInv, TypeOK
<1>i. /\ Stream(wire, head, tail, buf) = [i \in 1 .. Published |-> i] /\ RoomKept
      /\ Rising(Stream(wire, head, tail, buf), Published)
      /\ mPc \in {"compare", "add", "publish"} => buf[tail] = made
  BY <1>0 DEF OrderInv, WholeInv, StreamNow
<1>1. CASE PublishTail
  <2>1. /\ tail' = Wrap(tail) /\ UNCHANGED <<head, buf, made, wire>> /\ mPc = "publish"
        /\ mPc' \in {"enable", "load"}
    BY <1>1, <1>t DEF PublishTail, TailCurrent
  <2>2. Published \in Nat /\ Published + 1 = made /\ Published' = made
    <3>1. made >= 1
      BY <2>1 DEF TypeInv, CallBounded
    <3>2. QED
      BY <1>t, <2>1, <3>1 DEF Published
  <2>3. RoomKept' /\ Count # Size - 1
    BY <1>0, <1>1, <1>i, RoomStep DEF MainStep
  <2>4. Stream(wire, head, Wrap(tail), buf) = [i \in 1 .. Published + 1 |-> i]
    <3>1. Distance(head, tail) # Size - 1
      BY <2>3 DEF Count
    <3>2. buf[tail] = Published + 1 /\ Published + 1 <= MaxBytes
      BY <1>i, <1>t, <2>1, <2>2
    <3>3. QED
      BY <1>i, <1>t, <2>2, <3>1, <3>2, RisesByOne
  <2>5. QED
    BY <2>1, <2>2, <2>3, <2>4 DEF StreamNow
<1>2. CASE StoreSlot
  <2>1. /\ buf' = [buf EXCEPT ![tail] = made + 1] /\ made' = made + 1 /\ mPc' = "compare"
        /\ UNCHANGED <<head, tail, wire>> /\ mPc = "store"
    BY <1>2, <1>t DEF StoreSlot, TailCurrent
  <2>2. Stream(wire, head, tail, buf') = Stream(wire, head, tail, buf)
    <3>1. \A m \in Slot : m # tail => buf'[m] = buf[m]
      BY <1>t, <2>1
    <3>2. QED
      BY <1>t, <3>1, StoreKeepsStream
  <2>3. Published' = Published
    BY <1>t, <2>1 DEF Published
  <2>4. RoomKept'
    BY <1>0, <1>2, <1>i, RoomStep DEF MainStep
  <2>5. QED
    BY <1>i, <2>1, <2>2, <2>3, <2>4 DEF StreamNow
<1>3. CASE MainStep /\ ~PublishTail /\ ~StoreSlot
  <2>1. UNCHANGED <<head, tail, buf, wire, made>> /\ Published' = Published
    <3>1. CASE Reserve \/ SendCC \/ StartDump \/ EnableTx
      BY <3>1 DEF Reserve, SendCC, StartDump, StartCall, EnableTx, ring, Published
    <3>2. CASE ~(Reserve \/ SendCC \/ StartDump \/ EnableTx)
      BY <1>3, <3>2 DEF MainStep, LoadTail, CompareTail, AddOne, ReadTail, Subtract, RereadTail,
         DecideRoom, WaitDrained, Local, ring, Published
    <3>3. QED
      BY <3>1, <3>2
  <2>2. RoomKept'
    BY <1>0, <1>3, <1>i, RoomStep
  <2>3. QED
    BY <1>i, <2>1, <2>2 DEF StreamNow
<1>4. CASE UsartTx
  <2>1. Drain(Ring, txeie, fifo, wire) /\ UNCHANGED main /\ ~tornInsert'
    BY <1>0, <1>4 DEF UsartTx
  <2>2. Ring.head = head /\ Ring.tail = tail /\ Ring.buf = buf
    BY DEF Ring
  <2>3. StreamNow' = Stream(wire, head, tail, buf)
    BY <1>t, <2>1, <2>2, DrainKeepsStream
  <2>4. Published' = Published
    BY <2>1 DEF main, Published
  <2>5. head \in Nat /\ tail \in Nat /\ Count \in Nat
    BY <1>t, CountRange
  <2>6. tail' = tail /\ Count' \in 0 .. Count /\ (head <= tail => head' <= tail')
    <3>1. tail' = tail
      BY <2>1, <2>2, DrainIs
    <3>2. QED
      BY <1>t, <2>1, <2>2, <2>5, <3>1, DrainLeaves DEF Count
  <2>7. RoomKept'
    BY <1>0, <1>i, <1>t, <2>1, <2>5, <2>6, RoomDrained
  <2>8. QED
    BY <1>i, <2>3, <2>4, <2>7
<1>5. CASE Shift \/ UNCHANGED vars
  <2>1. UNCHANGED <<head, tail, buf, wire, main>>
    BY <1>5 DEF Shift, vars, ring
  <2>2. Published' = Published /\ Count' = Count
    BY <2>1 DEF main, Published, Count
  <2>3. head \in Nat /\ tail \in Nat /\ Count \in Nat
    BY <1>t, CountRange
  <2>4. RoomKept'
    BY <1>0, <1>i, <1>t, <2>1, <2>2, <2>3, RoomDrained
  <2>5. QED
    BY <1>i, <2>1, <2>2, <2>4 DEF StreamNow
<1>6. QED
  BY <1>0, <1>1, <1>2, <1>3, <1>4, <1>5 DEF Next

(* Without thru bytes, and when every message is reserved or waited for,    *)
(* every byte reaches the wire, up to the first reservation that a torn     *)
(* count grants: although a torn count may end the dump's wait while bytes  *)
(* are left, for every size and every interleaving with the drain.          *)
THEOREM MidiOutWireComplete == Spec => []WireComplete
<1>1. Init => WholeInv
  <2> SUFFICES ASSUME Init PROVE StreamNow = [i \in 1 .. Published |-> i] /\ RoomKept
    BY DEF WholeInv
  <2>1. Distance(0, 0) = 0 /\ Len(<<>>) = 0 /\ Published = 0
    BY DEF Distance, Init, Published
  <2>2. StreamNow = [i \in 1 .. Published |-> i]
    BY <2>1 DEF Init, StreamNow, Stream
  <2>3. RoomKept
    BY <2>1 DEF Init, RoomKept, RoomToLoad, CountBounds, Counting, Count
  <2>4. QED
    BY <2>2, <2>3
<1>2. Init => OrderInv
  BY OrderInit
<1>3. TypeInv /\ WholeInv => WireComplete
  <2> SUFFICES ASSUME TypeInv, WholeInv, thru = 0, "cc" \notin callers, ~tornRoom
               PROVE  \A i \in 1 .. Len(wire) : wire[i] = i
    BY DEF WireComplete
  <2>1. /\ HasBytes(wire, head, tail, buf) /\ Len(wire) \in Nat
        /\ Distance(head, tail) \in Nat
    BY StreamBytes, DistanceRange DEF TypeInv, TypeOK
  <2>2. \A k \in 1 .. Len(wire) : k \in DOMAIN StreamNow /\ StreamNow[k] = wire[k]
    BY <2>1 DEF HasBytes, StreamNow
  <2>3. StreamNow = [i \in 1 .. Published |-> i]
    BY DEF WholeInv
  <2>4. QED
    BY <2>2, <2>3
<1>4. QED
  BY <1>1, <1>2, <1>3, TypesInit, TypesStep, OrderStep, WholeStep, PTL DEF Spec

-----------------------------------------------------------------------------
(* The other way: the theorems of MidiIn for the senders of MCMidi.         *)
Decoder == INSTANCE MidiInProofs
    WITH Messages <- MCMessages, Payloads <- MCPayloads, NoiseBytes <- MCNoise,
         SysexSize <- 3, Sources <- {"din"}, RunsOnAfterReset <- FALSE,
         MaxMessages <- 3, MaxNoise <- 5, MaxClocks <- 7

LEMMA DecoderSenders == Decoder!Senders /\ Decoder!OneCable /\ MCNoise \subseteq Decoder!Byte
<1>1. MCNoise \subseteq Decoder!Byte
  BY DEF MCNoise, Decoder!Byte
<1>2. Decoder!OneCable
  BY DEF Decoder!OneCable
<1> DEFINE Good(m) == m = [status |-> m.status, data |-> m.data] /\ Decoder!WellFormed(m)
<1>3. ASSUME NEW s, NEW data \in Seq(Decoder!DataByte),
             \/ Decoder!Known(s) /\ Len(data) = Decoder!NumberOfBytes(s)
             \/ s \in Decoder!Common
      PROVE  Good(Decoder!MidiMessage(s, data))
  BY <1>3 DEF Decoder!WellFormed, Decoder!MidiMessage
<1> HIDE DEF Good
<1> DEFINE d1 == <<1, 100>>
           d2 == <<127, 0>>
           d3 == <<1>>
           d4 == <<1, 0>>
           d5 == <<>>
<1>4. /\ d1 \in Seq(Decoder!DataByte) /\ d2 \in Seq(Decoder!DataByte) /\ d3 \in Seq(Decoder!DataByte)
      /\ d4 \in Seq(Decoder!DataByte) /\ d5 \in Seq(Decoder!DataByte)
      /\ Len(d1) = 2 /\ Len(d2) = 2 /\ Len(d3) = 1 /\ Len(d4) = 2
  BY DEF Decoder!DataByte
<1>5. MCPayloads \subseteq Seq(Decoder!DataByte)
  BY DEF MCPayloads, Decoder!DataByte
<1>6. /\ \A s \in {144, 145, 176, 242} : Decoder!Known(s) /\ Decoder!NumberOfBytes(s) = 2
      /\ Decoder!Known(192) /\ Decoder!NumberOfBytes(192) = 1
      /\ 243 \in Decoder!Common /\ 246 \in Decoder!Common
  BY DEF Decoder!Known, Decoder!NumberOfBytes, Decoder!SONG_POSITION, Decoder!Common
<1>7. ASSUME NEW m \in MCMessages
      PROVE  Good(m)
  <2>1. \/ \E s \in {144, 145, 176} : m = Decoder!MidiMessage(s, d1)
        \/ m = Decoder!MidiMessage(176, d2) \/ m = Decoder!MidiMessage(192, d3)
        \/ m = Decoder!MidiMessage(242, d4) \/ m = Decoder!MidiMessage(243, d3)
        \/ m = Decoder!MidiMessage(246, d5)
    BY DEF MCMessages, Decoder!MidiMessage
  <2> HIDE DEF d1, d2, d3, d4, d5
  <2>2. \A s \in {144, 145, 176, 242}, data \in {d1, d2, d4} : Good(Decoder!MidiMessage(s, data))
    <3>1. SUFFICES ASSUME NEW s \in {144, 145, 176, 242}, NEW data \in {d1, d2, d4}
                   PROVE  Good(Decoder!MidiMessage(s, data))
      OBVIOUS
    <3>2. /\ data \in Seq(Decoder!DataByte) /\ Decoder!Known(s)
          /\ Len(data) = Decoder!NumberOfBytes(s)
      <4>1. data \in Seq(Decoder!DataByte) /\ Len(data) = 2
        BY <1>4, Zenon
      <4>2. Decoder!Known(s) /\ Decoder!NumberOfBytes(s) = 2
        BY <1>6, Zenon
      <4>3. QED
        BY <4>1, <4>2, Zenon
    <3>3. QED
      BY <1>3, <3>2, Zenon
  <2>3. Good(Decoder!MidiMessage(192, d3))
    <3>1. Decoder!Known(192) /\ Len(d3) = Decoder!NumberOfBytes(192)
      BY <1>4, <1>6
    <3>2. QED
      BY <1>3, <1>4, <3>1, Zenon
  <2>4. Good(Decoder!MidiMessage(243, d3)) /\ Good(Decoder!MidiMessage(246, d5))
    BY <1>3, <1>4, <1>6
  <2>5. QED
    BY <2>1, <2>2, <2>3, <2>4
<1>8. \A m \in MCMessages : m = [status |-> m.status, data |-> m.data] /\ Decoder!WellFormed(m)
  BY <1>7 DEF Good
<1>9. 3 \in Nat
  OBVIOUS
<1>10. QED
  BY <1>1, <1>2, <1>5, <1>8, <1>9 DEF Decoder!Senders

(* A behaviour of MCMidi is one of MidiIn. *)
LEMMA DecoderBehaves == MidiSpec => Decoder!Spec
<1>1. Input!Init => Decoder!Init
  BY DEF Input!Init, Decoder!Init, Input!NOTHING, Decoder!NOTHING
<1>2. [MidiNext]_midiVars => [Decoder!Next]_Decoder!vars
  <2>1. Input!Next => Decoder!Next
    <3>1. \A b : Input!Receive(b) <=> Decoder!Receive(b)
      <4>1. \A p, b : Input!NewMessageType(p, b) = Decoder!NewMessageType(p, b)
        BY Zenon
        DEF Input!NewMessageType, Decoder!NewMessageType, Input!SYSEX,
            Decoder!SYSEX, Input!SONG_POSITION, Decoder!SONG_POSITION
      <4>2. \A p, b : Input!NewMessageData(p, b) = Decoder!NewMessageData(p, b)
        BY Zenon
        DEF Input!NewMessageData, Decoder!NewMessageData, Input!MidiMessage,
            Decoder!MidiMessage, Input!Accepted, Decoder!Accepted,
            Input!IsReset, Decoder!IsReset, Input!SYSEX, Decoder!SYSEX,
            Input!SONG_POSITION, Decoder!SONG_POSITION, Input!CONTROL_CHANGE,
            Decoder!CONTROL_CHANGE, Input!CC_RESET, Decoder!CC_RESET,
            Input!NOTHING, Decoder!NOTHING
      <4>3. \A p, b : Input!SysexByte(p, b) = Decoder!SysexByte(p, b)
        BY <4>1, Zenon
        DEF Input!SysexByte, Decoder!SysexByte, Input!EndSysex,
            Decoder!EndSysex, Input!MidiMessage, Decoder!MidiMessage,
            Input!SYSEX, Decoder!SYSEX, Input!SYSEX_END, Decoder!SYSEX_END,
            Input!NOTHING, Decoder!NOTHING, Input!NewMessageType,
            Decoder!NewMessageType, Input!SONG_POSITION, Decoder!SONG_POSITION
      <4>4. \A p, b : Input!NewByte(p, b) = Decoder!NewByte(p, b)
        BY <4>1, <4>2, <4>3
        DEF Input!NewByte, Decoder!NewByte, Input!NOTHING, Decoder!NOTHING
      <4>5. \A m : Input!Moved(m) = Decoder!Moved(m)
        BY Zenon
        DEF Input!Moved, Decoder!Moved, Input!IsReset, Decoder!IsReset,
            Input!SONG_POSITION, Decoder!SONG_POSITION, Input!CONTROL_CHANGE,
            Decoder!CONTROL_CHANGE, Input!CC_RESET, Decoder!CC_RESET,
            Input!NOTHING, Decoder!NOTHING
      <4>6. QED
        BY <4>4, <4>5
        DEF Input!Receive, Decoder!Receive
    <3>2. Input!BeginMessage => Decoder!BeginMessage
      BY Zenon
      DEF Input!BeginMessage, Decoder!BeginMessage, Input!Encodings,
          Decoder!Encodings, Input!Frames, Decoder!Frames, Input!RunningAfter,
          Decoder!RunningAfter, Input!DueAtTheEnd, Decoder!DueAtTheEnd,
          Input!Begin, Decoder!Begin, Input!MidiMessage, Decoder!MidiMessage,
          Input!Accepted, Decoder!Accepted, Input!IsReset, Decoder!IsReset,
          Input!ClocksPerStep, Decoder!ClocksPerStep, Input!SYSEX,
          Decoder!SYSEX, Input!SYSEX_END, Decoder!SYSEX_END,
          Input!SONG_POSITION, Decoder!SONG_POSITION, Input!NOTHING,
          Decoder!NOTHING, Input!NOTE_ON, Decoder!NOTE_ON,
          Input!CONTROL_CHANGE, Decoder!CONTROL_CHANGE, Input!CC_RESET,
          Decoder!CC_RESET
    <3>3. Input!DecodeMidiIn => Decoder!DecodeMidiIn
      BY <3>1
      DEF Input!DecodeMidiIn, Decoder!DecodeMidiIn, Input!IsReset,
          Decoder!IsReset, Input!ClocksPerStep, Decoder!ClocksPerStep,
          Input!SONG_POSITION, Decoder!SONG_POSITION, Input!NOTHING,
          Decoder!NOTHING, Input!CONTROL_CHANGE, Decoder!CONTROL_CHANGE,
          Input!CC_RESET, Decoder!CC_RESET
    <3>4. Input!MidiClock \/ Input!MidiStart \/ Input!MidiContinue \/ Input!MidiStop =>
            Decoder!MidiClock \/ Decoder!MidiStart \/ Decoder!MidiContinue \/ Decoder!MidiStop
      BY Zenon
      DEF Input!MidiClock, Decoder!MidiClock, Input!MidiStart,
          Decoder!MidiStart, Input!MidiContinue, Decoder!MidiContinue,
          Input!MidiStop, Decoder!MidiStop, Input!RealTime, Decoder!RealTime,
          Input!MayStart, Decoder!MayStart, Input!ClocksPerStep,
          Decoder!ClocksPerStep, Input!SYSEX, Decoder!SYSEX, Input!SYSEX_END,
          Decoder!SYSEX_END, Input!SONG_POSITION, Decoder!SONG_POSITION,
          Input!NOTHING, Decoder!NOTHING, Input!NOTE_ON, Decoder!NOTE_ON,
          Input!CONTROL_CHANGE, Decoder!CONTROL_CHANGE, Input!CC_RESET,
          Decoder!CC_RESET
    <3>5. Input!Noise \/ Input!EndNoise => Decoder!Noise \/ Decoder!EndNoise
      BY <3>1, Zenon
      DEF Input!Noise, Decoder!Noise, Input!EndNoise, Decoder!EndNoise,
          Input!ClocksPerStep, Decoder!ClocksPerStep, Input!SYSEX,
          Decoder!SYSEX, Input!SYSEX_END, Decoder!SYSEX_END,
          Input!SONG_POSITION, Decoder!SONG_POSITION, Input!NOTHING,
          Decoder!NOTHING, Input!NOTE_ON, Decoder!NOTE_ON,
          Input!CONTROL_CHANGE, Decoder!CONTROL_CHANGE, Input!CC_RESET,
          Decoder!CC_RESET
    <3>6. Input!Probe => Decoder!Probe
      BY <3>1
      DEF Input!Probe, Decoder!Probe, Input!CleanNote, Decoder!CleanNote,
          Input!MidiMessage, Decoder!MidiMessage, Input!ClocksPerStep,
          Decoder!ClocksPerStep, Input!SYSEX, Decoder!SYSEX, Input!SYSEX_END,
          Decoder!SYSEX_END, Input!SONG_POSITION, Decoder!SONG_POSITION,
          Input!NOTHING, Decoder!NOTHING, Input!NOTE_ON, Decoder!NOTE_ON,
          Input!CONTROL_CHANGE, Decoder!CONTROL_CHANGE, Input!CC_RESET,
          Decoder!CC_RESET
    <3>7. QED
      BY <3>2, <3>3, <3>4, <3>5, <3>6 DEF Input!Next, Decoder!Next
  <2>2. Decoder!vars = inVars /\ Decoder!vars' = inVars'
    BY DEF Decoder!vars, inVars
  <2>3. midiVars' = midiVars => inVars' = inVars
    BY DEF midiVars
  <2>4. MidiNext => Decoder!Next \/ inVars' = inVars
    BY <2>1 DEF MidiNext
  <2>5. QED
    BY <2>2, <2>3, <2>4
<1>3. QED
  BY <1>1, <1>2, PTL DEF MidiSpec, MidiInit, Decoder!Spec

(* What the decoder acts upon is what was sent, with the song position of   *)
(* the sender, for any number of messages of any of the kinds.              *)
THEOREM MidiDelivers == MidiSpec => []DeliversWhatWasSent
<1>1. Decoder!Spec => []Decoder!DeliversWhatWasSent
  BY DecoderSenders, Decoder!MidiInDelivers
<1>2. Decoder!DeliversWhatWasSent => DeliversWhatWasSent
  BY DEF Decoder!DeliversWhatWasSent, DeliversWhatWasSent, Input!DeliversWhatWasSent,
         Decoder!ClocksPerStep, Input!ClocksPerStep
<1>3. QED
  BY <1>1, <1>2, DecoderBehaves, PTL

(* After any noise the decoder hears one of the next two clean notes.       *)
THEOREM MidiResyncs == MidiSpec => []Resyncs
<1>1. Decoder!Spec => []Decoder!Resyncs
  <2>1. 3 \in Nat
    OBVIOUS
  <2>2. QED
    BY <2>1, DecoderSenders, Decoder!MidiInResyncs
<1>2. Decoder!Resyncs => Resyncs
  BY DEF Decoder!Resyncs, Resyncs, Input!Resyncs
<1>3. QED
  BY <1>1, <1>2, DecoderBehaves, PTL
=============================================================================
