-------------------------------- MODULE Fifo --------------------------------
(***************************************************************************)
(* What a RingBuffer (lib/Inc/RingBuffer.h) promises its two users: a       *)
(* bounded first-in first-out queue.  Put appends, Take hands the oldest    *)
(* element to the consumer, Flush discards everything that was queued.  A   *)
(* producer that finds the queue full gives up, which is a stuttering step. *)
(***************************************************************************)
EXTENDS Naturals, Sequences

CONSTANTS Item,      \* the elements that can be queued
          Nothing,   \* what the consumer holds before its first Take
          Capacity   \* how many elements the queue can hold

VARIABLES queue,     \* the queued elements, oldest first
          taken      \* the element of the last Take

vars == <<queue, taken>>

Init == queue = <<>> /\ taken = Nothing

Put(x) ==
    /\ Len(queue) < Capacity
    /\ queue' = Append(queue, x)
    /\ UNCHANGED taken

Take ==
    /\ queue # <<>>
    /\ taken' = Head(queue)
    /\ queue' = Tail(queue)

Flush ==
    /\ queue' = <<>>
    /\ UNCHANGED taken

Next == (\E x \in Item : Put(x)) \/ Take \/ Flush

Spec == Init /\ [][Next]_vars
=============================================================================
