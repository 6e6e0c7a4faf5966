--------------------------- MODULE EventScheduler ---------------------------
(***************************************************************************)
(* midipal/event_scheduler.cpp: the pending note-offs of the arpeggiator,   *)
(* as a list linked through a fixed array of slots, the next one due first. *)
(* Slot 0 is the end of the list.  Only note-offs are ever scheduled, so    *)
(* velocity and tag are left out; a free slot has the fields of FreeEntry,  *)
(* for nothing reads them.                                                  *)
(***************************************************************************)
EXTENDS Integers, Sequences, SequencesExt, FiniteSets, FiniteSetsExt

CONSTANT kEventSchedulerSize
ASSUME SchedulerAssumption == kEventSchedulerSize \in Nat /\ kEventSchedulerSize > 1

kFreeEvent == 255
kZombieSlot == 254
EventSlot == 1 .. kEventSchedulerSize - 1
FreeEntry == [note |-> kFreeEvent, when |-> 0, next |-> 0]
EmptyQueue == [entries |-> [i \in EventSlot |-> FreeEntry], root |-> 0, size |-> 0]

Order(q) ==
    LET at[k \in 0 .. kEventSchedulerSize] ==
          IF k = 0 THEN q.root ELSE IF at[k - 1] = 0 THEN 0 ELSE q.entries[at[k - 1]].next
        n == Min({k \in 0 .. kEventSchedulerSize : at[k] = 0 \/ k = kEventSchedulerSize})
    IN  [k \in 1 .. n |-> at[k - 1]]

(* The first entry that is due, as if Tick had no loop. *)
DueFirst(q) ==
    LET order == Order(q)
    IN  IF order # <<>> /\ q.entries[order[1]].when = 0 THEN <<order[1]>> ELSE <<>>

(* The entries at the front of the list that are due. *)
Due(q) ==
    LET order == Order(q)
        n == Min({k \in DOMAIN order : q.entries[order[k]].when # 0} \cup {Len(order) + 1})
    IN  SubSeq(order, 1, n - 1)

(* Tick: free what is due, count the others down. *)
Ticked(q) ==
    LET due == ToSet(Due(q))
        rest == ToSet(Order(q)) \ due
    IN  [entries |-> [i \in EventSlot |->
                        IF i \in due THEN FreeEntry
                        ELSE IF i \in rest THEN [q.entries[i] EXCEPT !.when = @ - 1]
                        ELSE q.entries[i]],
         root |-> IF due = {} THEN q.root ELSE q.entries[Last(Due(q))].next,
         size |-> q.size - Len(Due(q))]

(* Remove: entries of the note become zombies, which stay until they are    *)
(* due.                                                                     *)
Matching(q, note) == {i \in ToSet(Order(q)) : q.entries[i].note = note}
Removed(q, note) ==
    [q EXCEPT !.entries = [i \in EventSlot |->
        IF i \in Matching(q, note) THEN [@[i] EXCEPT !.note = kZombieSlot] ELSE @[i]]]

FreeEvents(q) == {i \in EventSlot : q.entries[i].note = kFreeEvent}

(* At the end of the list, whenever it is due. *)
ScheduledLast(q, note, when) ==
    LET slot == Min(FreeEvents(q))
        stored == [q.entries EXCEPT ![slot] = [note |-> note, when |-> when, next |-> 0]]
    IN  IF FreeEvents(q) = {} THEN q
        ELSE [entries |-> IF q.root = 0 THEN stored ELSE [stored EXCEPT ![Last(Order(q))].next = slot],
              root |-> IF q.root = 0 THEN slot ELSE q.root, size |-> q.size + 1]

(* Schedule: behind the entries that are due before or at the same time.    *)
(* Nothing happens when the array is full.                                  *)
Scheduled(q, note, when) ==
    LET slot == Min(FreeEvents(q))
        order == Order(q)
        k == Min({j \in DOMAIN order : q.entries[order[j]].when > when} \cup {Len(order) + 1})
        next == IF k > Len(order) THEN 0 ELSE order[k]
        stored == [q.entries EXCEPT ![slot] = [note |-> note, when |-> when, next |-> next]]
    IN  IF FreeEvents(q) = {} THEN q
        ELSE [entries |-> IF k = 1 THEN stored ELSE [stored EXCEPT ![order[k - 1]].next = slot],
              root |-> IF k = 1 THEN slot ELSE q.root,
              size |-> q.size + 1]

QueueType(Note, When) ==
    [entries : [EventSlot -> [note : Note \cup {kFreeEvent, kZombieSlot}, when : When,
                              next : EventSlot \cup {0}]],
     root : EventSlot \cup {0}, size : 0 .. kEventSchedulerSize - 1]

(* The list is in the order of time, size_ counts it, and no slot leaks.    *)
QueueWellFormed(q) ==
    LET order == Order(q)
    IN  /\ q.size = Len(order) /\ IsInjective(order)
        /\ ToSet(order) = EventSlot \ FreeEvents(q)
        /\ \A i \in 1 .. Len(order) - 1 : q.entries[order[i]].when <= q.entries[order[i + 1]].when
=============================================================================
