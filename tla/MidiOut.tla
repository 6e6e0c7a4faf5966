------------------------------ MODULE MidiOut ------------------------------
(***************************************************************************)
(* The DIN MIDI output path: usartBufferOut, the transmit-empty interrupt   *)
(* enable (TXEIE) and the USART transmit FIFO, shared by                    *)
(*   - the main loop: MidiControllerState's reserved messages and the       *)
(*     patch dump of MidiDecoder::sendCurrentPatchAsNrpns, which busy-waits *)
(*     until the ring has drained,                                          *)
(*   - the USART interrupt, which drains the ring and, when MIDI thru is    *)
(*     on, also inserts every received byte,                                *)
(*   - the USB interrupt, which inserts thru bytes.                         *)
(* Both interrupts have the same priority: their handlers are atomic, while *)
(* the main loop can be interrupted between any two accesses to the ring:   *)
(* head and tail are volatile, so each time the source names one is a read. *)
(***************************************************************************)
EXTENDS Integers, Sequences

CONSTANTS Size,         \* template parameter of usartBufferOut
          Message,      \* bytes of one control change
          DumpSize,     \* bytes sendCurrentPatchAsNrpns queues per group
          TxDepth,      \* bytes the USART transmit FIFO holds
          Profiles,     \* sets of callers that are used together
          MaxBytes,     \* bound: bytes the main loop ever queues
          ThruWeight    \* bound: what a thru byte counts against MaxBytes

ASSUME SizesAssumption ==
    /\ Size \in Nat /\ Size >= 2 /\ TxDepth \in 1 .. Size - 1
    /\ Message \in 1 .. Size - 1
    /\ DumpSize \in Nat \ {0} /\ DumpSize + DumpSize <= Size   \* 12 and 64
    /\ MaxBytes \in Nat /\ ThruWeight \in Nat \ {0}
    /\ Profiles \subseteq SUBSET {"controller", "cc", "dump", "thru"}

(* The main loop runs either the synth or the MIDI controller (main.c:184), *)
(* and half a second passes between the two (preenfm3MidiController.cpp:131, *)
(* preenfm3.cpp:580), in which the ring drains: their callers do not mix.   *)
ASSUME ModeAssumption ==
    \A p \in Profiles : "controller" \in p => p \subseteq {"controller", "thru"}

(* The callers: MidiControllerState ("controller", in its own mode),        *)
(* an edited parameter ("cc") and the patch dump ("dump") in the synth; and *)
(* whether MIDI thru is switched on ("thru").                               *)
VARIABLES callers,           \* the profile of this run
          head, tail, buf,   \* usartBufferOut
          txeie,             \* CR1.TXEIE: the drain interrupt is enabled
          fifo,              \* bytes in the USART transmit FIFO
          mPc, mTail, mCount, \* main: control point, index copy, getCount's count
          mLeft, mWait,      \* bytes left of the message, wait for the drain
          made,              \* bytes main has made: the next is made + 1
          thru,              \* thru bytes received so far
          wire,              \* every byte written to TDR, in order, up to tornInsert
          tornInsert,        \* an interrupt has inserted in the middle of an insert()
          tornRoom           \* hasRoomFor() has said yes upon a negative count

ring == <<head, tail, buf>>
main == <<mPc, mTail, mCount, mLeft, mWait, made>>
vars == <<callers, ring, txeie, fifo, main, thru, wire, tornInsert, tornRoom>>

(* The slots the drain reads.  tail can leave them, see AddOne. *)
Slot == 0 .. Size - 1
Wrap(i) == IF i = Size - 1 THEN 0 ELSE i + 1

(* How far slot t is behind slot h, and the slot n behind h. *)
Distance(h, t) == IF t < h THEN (t - h) + Size ELSE t - h
SlotAfter(h, n) == IF h + n < Size THEN h + n ELSE (h + n) - Size
Count == Distance(head, tail)

(* Main's bytes are numbered from 1; thru bytes are all alike. *)
ThruByte == MaxBytes + 1
NoByte == 0
Byte == 0 .. MaxBytes + 1
WithinBound(main_, thru_) == main_ + ThruWeight * thru_ <= MaxBytes

Init ==
    /\ callers \in Profiles
    /\ head = 0 /\ tail = 0 /\ buf = [i \in Slot |-> NoByte]
    /\ txeie = FALSE /\ fifo = 0 /\ wire = <<>>
    /\ mPc = "idle" /\ mTail = 0 /\ mCount = 0 /\ mLeft = 0 /\ mWait = FALSE
    /\ made = 0 /\ thru = 0 /\ tornInsert = FALSE /\ tornRoom = FALSE

-----------------------------------------------------------------------------
(* A call of main: of the n bytes it makes, the first access to the ring is *)
(* that of hasRoomFor() or of insert().                                     *)
StartCall(first, n, wait) ==
    /\ mPc = "idle" /\ WithinBound(made + n, thru)
    /\ mPc' = first /\ mLeft' = n /\ mWait' = wait
    /\ UNCHANGED <<callers, ring, txeie, fifo, mTail, mCount, made, thru, wire, tornInsert, tornRoom>>

(* encoderDelta, buttonDown and buttonUp send a control change only if      *)
(* hasRoomFor(3) answers TRUE; without room they return unchanged.          *)
Reserve == "controller" \in callers /\ StartCall("count", Message, FALSE)

(* newParamValue sends a control change without asking for room. *)
SendCC == "cc" \in callers /\ StartCall("load", Message, FALSE)

(* sendCurrentPatchAsNrpns queues four control changes, again without       *)
(* asking for room, and then waits until everything has been sent.          *)
StartDump == "dump" \in callers /\ StartCall("load", DumpSize, TRUE)

(* A step of main that only moves its control point and its copies, which   *)
(* are 0 while nothing will read them.                                      *)
Local(from, to) ==
    /\ mPc = from /\ mPc' = to
    /\ UNCHANGED <<callers, ring, txeie, fifo, mLeft, mWait, made, thru, wire, tornInsert>>

(* insert(): buf[tail] = element loads tail and stores the slot.  What lies *)
(* behind the ring is not modelled: a store with tail outside is lost.      *)
LoadTail == Local("load", "store") /\ mTail' = tail /\ UNCHANGED <<mCount, tornRoom>>

StoreSlot ==
    /\ mPc = "store"
    /\ buf' = [buf EXCEPT ![mTail] = made + 1] /\ made' = made + 1
    /\ mPc' = "compare" /\ mTail' = 0
    /\ UNCHANGED <<callers, head, tail, txeie, fifo, mCount, mLeft, mWait, thru,
                   wire, tornInsert, tornRoom>>

CompareTooLate ==
    /\ \/ tail = Size /\ Local("compare", "publish") /\ mTail' = 0
       \/ tail # Size /\ Local("compare", "add") /\ UNCHANGED mTail
    /\ UNCHANGED <<mCount, tornRoom>>

(* insert(): tail = (tail == size-1) ? 0 : tail + 1 reads tail for the      *)
(* comparison,                                                              *)
CompareTail ==
    /\ \/ tail = Size - 1 /\ Local("compare", "publish") /\ mTail' = 0
       \/ tail # Size - 1 /\ Local("compare", "add") /\ UNCHANGED mTail
    /\ UNCHANGED <<mCount, tornRoom>>

(* once more for the sum, by which time an interrupt may have moved it to   *)
(* size-1,                                                                  *)
AddOne == Local("add", "publish") /\ mTail' = tail + 1 /\ UNCHANGED <<mCount, tornRoom>>

(* and stores what it found. *)
PublishTail ==
    /\ mPc = "publish"
    /\ tail' = mTail /\ mTail' = 0 /\ mLeft' = mLeft - 1
    /\ mPc' = IF mLeft = 1 THEN "enable" ELSE "load"
    /\ UNCHANGED <<callers, head, buf, txeie, fifo, mCount, mWait, made, thru,
                   wire, tornInsert, tornRoom>>

EnableBeforeWaitOnly ==
    /\ mPc = "enable"
    /\ txeie' = (txeie \/ mWait) /\ mPc' = IF mWait THEN "count" ELSE "idle"
    /\ UNCHANGED <<callers, ring, fifo, mTail, mCount, mLeft, mWait, made, thru,
                   wire, tornInsert, tornRoom>>

(* sendMidiDin5Out: set TXEIE.  A read-modify-write of CR1, but the only    *)
(* bit the interrupts change is the one being set.                          *)
EnableTx ==
    /\ mPc = "enable"
    /\ txeie' = TRUE /\ mPc' = IF mWait THEN "count" ELSE "idle"
    /\ UNCHANGED <<callers, ring, fifo, mTail, mCount, mLeft, mWait, made, thru,
                   wire, tornInsert, tornRoom>>

-----------------------------------------------------------------------------
(* getCount(): count = tail - head, then tail < head decides whether size   *)
(* is added.  The four reads are taken in the order they are written in.    *)
ReadTail == Local("count", "subtract") /\ mTail' = tail /\ UNCHANGED <<mCount, tornRoom>>
Subtract ==
    Local("subtract", "recheck") /\ mCount' = mTail - head /\ mTail' = 0 /\ UNCHANGED tornRoom
RereadTail == Local("recheck", "decide") /\ mTail' = tail /\ UNCHANGED <<mCount, tornRoom>>
Counted == mCount + (IF mTail < head THEN Size ELSE 0)

RoomIncludesLastSlot(count) == count + Message <= Size

(* hasRoomFor(3). *)
HasRoom(count) == count + Message < Size

(* The last read of hasRoomFor(), and its answer. *)
DecideRoom ==
    /\ ~mWait /\ Local("decide", IF HasRoom(Counted) THEN "load" ELSE "idle")
    /\ mTail' = 0 /\ mCount' = 0 /\ tornRoom' = (tornRoom \/ Counted < 0)

(* while (usartBufferOut.getCount() > 0) {} *)
WaitDrained ==
    /\ mWait /\ Local("decide", IF Counted > 0 THEN "count" ELSE "idle")
    /\ mTail' = 0 /\ mCount' = 0 /\ UNCHANGED tornRoom

-----------------------------------------------------------------------------
(* The history ends where tail can no longer be trusted. *)
Sent(bytes) == wire' = IF tornInsert' THEN <<>> ELSE bytes

DrainStopsEarly(r, en, f, w) ==
    LET count == Distance(r.head, r.tail)
        room == TxDepth - f
        n == IF ~en THEN 0 ELSE IF r.tail \in Slot /\ count < room THEN count ELSE room
    IN  /\ head' = SlotAfter(r.head, n) /\ tail' = r.tail /\ buf' = r.buf
        /\ fifo' = f + n
        /\ Sent(w \o [i \in 1 .. n |-> r.buf[SlotAfter(r.head, i - 1)]])
        /\ txeie' = (en /\ n < count - 1)

DrainReadsAfterMove(r, en, f, w) ==
    LET count == Distance(r.head, r.tail)
        room == TxDepth - f
        n == IF ~en THEN 0 ELSE IF r.tail \in Slot /\ count < room THEN count ELSE room
    IN  /\ head' = SlotAfter(r.head, n) /\ tail' = r.tail /\ buf' = r.buf
        /\ fifo' = f + n
        /\ Sent(w \o [i \in 1 .. n |-> r.buf[SlotAfter(r.head, i)]])
        /\ txeie' = (en /\ (r.tail \in Slot => n < count))

(* The transmit half of preenfm3_USART1_IRQHandler, after its receive half  *)
(* left the ring r, the enable bit en and the FIFO with f bytes and wrote   *)
(* the bytes w: move bytes to TDR while the FIFO has room, and disable the  *)
(* interrupt once the ring is empty.  head wraps at size-1: it never        *)
(* reaches a tail outside the ring, which is never empty then.              *)
Drain(r, en, f, w) ==
    LET count == Distance(r.head, r.tail)
        room == TxDepth - f
        n == IF ~en THEN 0 ELSE IF r.tail \in Slot /\ count < room THEN count ELSE room
    IN  /\ head' = SlotAfter(r.head, n) /\ tail' = r.tail /\ buf' = r.buf
        /\ fifo' = f + n
        /\ Sent(w \o [i \in 1 .. n |-> r.buf[SlotAfter(r.head, i - 1)]])
        /\ txeie' = (en /\ (r.tail \in Slot => n < count))

Ring == [head |-> head, tail |-> tail, buf |-> buf]
Inserted(r, b) == [r EXCEPT !.buf[r.tail] = b, !.tail = Wrap(@)]

(* Main is between the first read and the store of an insert(): what an     *)
(* interrupt inserts now, main overwrites, or skips, or runs out of.        *)
Inserting == mPc \in {"store", "compare", "add", "publish"}

(* The USART interrupt because TXEIE is set and the FIFO has room. *)
UsartTx ==
    /\ txeie /\ fifo < TxDepth
    /\ UNCHANGED <<callers, main, thru, tornInsert, tornRoom>>
    /\ Drain(Ring, txeie, fifo, wire)

(* The USART interrupt for a received byte: with thru on it goes straight   *)
(* to TDR when the FIFO has room, else into the ring.  (usartBufferIn takes *)
(* the byte too; its consumer is the audio interrupt.)                      *)
UsartRx ==
    /\ "thru" \in callers /\ WithinBound(made, thru + 1)
    /\ thru' = thru + 1
    /\ UNCHANGED <<callers, main, tornRoom>>
    /\ \/ /\ fifo < TxDepth
          /\ UNCHANGED tornInsert
          /\ Drain(Ring, txeie, fifo + 1, Append(wire, ThruByte))
       \/ /\ fifo = TxDepth
          /\ tornInsert' = (tornInsert \/ Inserting)
          /\ Drain(Inserted(Ring, ThruByte), TRUE, fifo, wire)

(* preenfm3_usbDataReceive: the bytes of one USB event, with thru on. *)
UsbRx ==
    /\ "thru" \in callers /\ WithinBound(made, thru + Message)
    /\ thru' = thru + Message
    /\ tail' = IF tail \in Slot THEN SlotAfter(tail, Message) ELSE tail + Message
    /\ buf' = [s \in Slot |-> IF tail \in Slot /\ Distance(tail, s) < Message
                              THEN ThruByte ELSE buf[s]]
    /\ txeie' = TRUE
    /\ tornInsert' = (tornInsert \/ Inserting)
    /\ Sent(wire)
    /\ UNCHANGED <<callers, head, fifo, main, tornRoom>>

(* The USART shifts a byte out on the wire. *)
Shift ==
    /\ fifo > 0
    /\ fifo' = fifo - 1
    /\ UNCHANGED <<callers, ring, txeie, main, thru, wire, tornInsert, tornRoom>>

MainStep == Reserve \/ SendCC \/ StartDump \/ LoadTail \/ StoreSlot \/ CompareTail
            \/ AddOne \/ PublishTail \/ EnableTx \/ ReadTail \/ Subtract \/ RereadTail
            \/ DecideRoom \/ WaitDrained
Next == MainStep \/ UsartTx \/ UsartRx \/ UsbRx \/ Shift

(* The USART runs on its own clock and an enabled, pending interrupt is     *)
(* taken; a started main-loop call goes on.  Nobody has to start a call or  *)
(* to send us bytes.                                                        *)
Fairness ==
    /\ WF_vars(Shift) /\ WF_vars(UsartTx)
    /\ WF_vars(MainStep /\ mPc # "idle")

Spec == Init /\ [][Next]_vars /\ Fairness

-----------------------------------------------------------------------------
Counting == mPc \in {"count", "subtract", "recheck", "decide"}

(* Types; the transmit FIFO is never overrun; and tail leaves the ring only *)
(* after an interrupt has inserted in the middle of main's insert().        *)
TypeOK ==
    /\ head \in Slot /\ tail \in Nat /\ buf \in [Slot -> Byte]
    /\ ~tornInsert => tail \in Slot
    /\ txeie \in BOOLEAN /\ fifo \in 0 .. TxDepth
    /\ mPc = "idle" \/ mPc = "load" \/ mPc = "enable" \/ Inserting \/ Counting
    /\ mTail \in Nat /\ mCount \in Int /\ mLeft \in 0 .. Size - 1 /\ mWait \in BOOLEAN
    /\ made \in 0 .. MaxBytes /\ thru \in 0 .. MaxBytes /\ callers \in Profiles
    /\ wire \in Seq(Byte) /\ tornInsert \in BOOLEAN /\ tornRoom \in BOOLEAN

(* Messages of the main loop reach the wire in order, none of their bytes   *)
(* sent twice, although the interrupts drain the ring in the middle of a    *)
(* message, insert thru bytes between any two insert() calls, and           *)
(* unreserved messages may overrun the ring.                                *)
OfMain(byte) == byte \in 1 .. MaxBytes
WireInOrder ==
    \A i, j \in 1 .. Len(wire) :
        /\ wire[i] \in 1 .. MaxBytes + 1
        /\ i < j /\ OfMain(wire[i]) /\ OfMain(wire[j]) => wire[i] < wire[j]

(* Without thru bytes, and when every message is either reserved or waited  *)
(* for, none is lost either: not while a reservation never came of a count  *)
(* that was torn by the drain (getCount() reads head twice), and although   *)
(* such a count may end the wait for the drain before the ring is empty.    *)
WireComplete ==
    thru = 0 /\ "cc" \notin callers /\ ~tornRoom => \A i \in 1 .. Len(wire) : wire[i] = i

(* Outside a call of the main loop, bytes left in the ring have their       *)
(* drain interrupt enabled: it is never disabled over a byte nobody will    *)
(* announce (preenfm3.cpp:397 against MidiControllerState.cpp:94-97).       *)
NeverStranded == (mPc = "idle" \/ Counting) /\ Count > 0 => txeie

(* The patch dump's busy wait ends, with MIDI thru from both interrupts     *)
(* too, unless one of them has made main put tail outside the ring, which   *)
(* is then never empty.                                                     *)
DumpEnds == (mWait /\ Counting) ~> (mPc = "idle" \/ tail \notin Slot)
=============================================================================
