---------------------------- MODULE MCRingBuffer ----------------------------
(* The instances of RingBuffer that TLC checks: which entry points the      *)
(* users of each firmware ring call, and which of the two is an interrupt.  *)
(* A behaviour is that of one of two rings, `asyncActions' or `usartBuffer'; *)
(* the other one never moves.                                               *)
EXTENDS RingBuffer

(* asyncActions, asyncActions_: the audio interrupt produces, main consumes. *)
AsyncOps == {"insertChecked", "remove", "discardConsumer"}
(* usartBufferOut and tftActions: main inserts, with or without asking for  *)
(* room, and discards; the interrupt drains.                                *)
MainOps == {"insert", "reserve", "remove", "discardProducer"}

VARIABLES ring, uHead, uTail, uBuf, uPPc, uPOp, uPHead, uPLeft, uSent, uCPc, uCTail, uCItem, uTaken
usartVars == <<uHead, uTail, uBuf, uPPc, uPOp, uPHead, uPLeft, uSent, uCPc, uCTail, uCItem, uTaken>>

Usart == INSTANCE RingBuffer
    WITH Ops <- MainOps, Urgent <- "consumer", MaxItem <- 8,
         head <- uHead, tail <- uTail, buf <- uBuf,
         pPc <- uPPc, pOp <- uPOp, pHead <- uPHead, pLeft <- uPLeft, sent <- uSent,
         cPc <- uCPc, cTail <- uCTail, cItem <- uCItem, taken <- uTaken

MCInit == ring \in {"async", "usart"} /\ Init /\ Usart!Init
MCNext ==
    /\ \/ ring = "async" /\ Next /\ UNCHANGED usartVars
       \/ ring = "usart" /\ Usart!Next /\ UNCHANGED vars
    /\ UNCHANGED ring
MCSpec == MCInit /\ [][MCNext]_<<ring, vars, usartVars>>

(* The properties of RingBuffer of the same names, of the second ring. *)
UsartNeverStale == Usart!NeverStale
UsartDiscardLeavesEmpty == Usart!DiscardLeavesEmpty
=============================================================================
