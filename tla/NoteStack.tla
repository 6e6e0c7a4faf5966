----------------------------- MODULE NoteStack -----------------------------
(***************************************************************************)
(* midipal/note_stack.cpp: the pressed keys, as a list linked through a     *)
(* fixed pool of slots, the most recent key first, and as an array of slots *)
(* in ascending order of pitch.  sorted stands for sorted_ptr_[0 .. size_]  *)
(* and its length for size_.  Slot 0 of the pool is a dummy.                *)
(***************************************************************************)
EXTENDS Integers, Sequences, SequencesExt, FiniteSetsExt

CONSTANTS kNoteStackSize,  \* slots
          Keys             \* the keys of the keyboard

kFreeSlot == 255
ASSUME StackAssumption ==
    /\ kNoteStackSize \in Nat \ {0} /\ Keys # {} /\ Keys \subseteq 0 .. 127

Pool == 0 .. kNoteStackSize
EmptyStack == [pool |-> [i \in Pool |-> [note |-> kFreeSlot, next |-> 0]],
               root |-> 0, sorted |-> <<>>]
Size(s) == Len(s.sorted)

(* The slots in the order of the links, the most recent key first. *)
PlayedSlots(s) ==
    LET at[k \in 0 .. kNoteStackSize] == IF k = 0 THEN s.root ELSE s.pool[at[k - 1]].next
        ends == {k \in 0 .. kNoteStackSize : at[k] = 0}
        n == IF ends = {} THEN kNoteStackSize ELSE Min(ends)
    IN  [k \in 1 .. n |-> at[k - 1]]

NoteOffKeepsLink(s, note) ==
    LET order == PlayedSlots(s)
        found == {k \in DOMAIN order : s.pool[order[k]].note = note}
        current == order[Min(found)]
    IN  IF found = {} THEN s
        ELSE [pool |-> [s.pool EXCEPT ![current] = [note |-> kFreeSlot, next |-> 0]],
              root |-> IF s.root = current THEN s.pool[current].next ELSE s.root,
              sorted |-> RemoveFirst(s.sorted, current)]

NoteOff(s, note) ==
    LET order == PlayedSlots(s)
        found == {k \in DOMAIN order : s.pool[order[k]].note = note}
        k == Min(found)
        current == order[k]
        next == s.pool[current].next
        unlinked == IF k = 1 THEN s.pool ELSE [s.pool EXCEPT ![order[k - 1]].next = next]
    IN  IF found = {} THEN s
        ELSE [pool |-> [unlinked EXCEPT ![current] = [note |-> kFreeSlot, next |-> 0]],
              root |-> IF k = 1 THEN next ELSE s.root,
              sorted |-> RemoveFirst(s.sorted, current)]

(* A key that is held already moves to the front; a full stack forgets the  *)
(* least recent key, whose slot is the one with no next.                    *)
FreeSlots(s) == {i \in Pool \ {0} : s.pool[i].note = kFreeSlot}
MakeRoomForgetNewest(s) ==
    IF Size(s) = kNoteStackSize THEN NoteOff(s, s.pool[s.root].note) ELSE s

MakeRoom(s) ==
    LET tails == {i \in Pool \ {0} : s.pool[i].next = 0}
    IN  IF Size(s) = kNoteStackSize /\ tails # {} THEN NoteOff(s, s.pool[Min(tails)].note) ELSE s
NoteOn(s, note) ==
    LET room == MakeRoom(NoteOff(s, note))
        slot == Max(FreeSlots(room))
        higher == {j \in DOMAIN room.sorted : room.pool[room.sorted[j]].note > note}
        position == IF higher = {} THEN Size(room) + 1 ELSE Min(higher)
    IN  IF FreeSlots(room) = {} THEN room
        ELSE [pool |-> [room.pool EXCEPT ![slot] = [note |-> note, next |-> room.root]],
              root |-> slot, sorted |-> InsertAt(room.sorted, position, slot)]

(* The loop leaves the link of the last slot alone. *)
Clear(s) == [EmptyStack EXCEPT !.pool[kNoteStackSize].next = s.pool[kNoteStackSize].next]

MostRecentNote(s) == s.pool[s.root].note

(* played_note and sorted_note: the oldest or the lowest key has index 0.   *)
(* Beyond its end played_note answers the most recent key.                  *)
PlayedNote(s, index) ==
    s.pool[IF index \in 0 .. Size(s) - 1 THEN PlayedSlots(s)[Size(s) - index] ELSE s.root].note
SortedNote(s, index) == s.pool[s.sorted[index + 1]].note

HeldNotes(s) == [k \in DOMAIN PlayedSlots(s) |-> s.pool[PlayedSlots(s)[k]].note]

StackType == [pool : [Pool -> [note : Keys \cup {kFreeSlot}, next : Pool]],
              root : Pool, sorted : BoundedSeq(Pool \ {0}, kNoteStackSize)]

(* Both views hold the same keys, the array in ascending order; and "the    *)
(* tail of the played list is the sole occupied slot whose next_ptr is 0"   *)
(* (note_stack.cpp:32), so that the key a full stack forgets is the oldest. *)
StackWellFormed(s) ==
    LET occupied == (Pool \ {0}) \ FreeSlots(s)
    IN  /\ ToSet(PlayedSlots(s)) = occupied /\ ToSet(s.sorted) = occupied
        /\ Len(PlayedSlots(s)) = Size(s)
        /\ \A i \in 1 .. Size(s) - 1 : SortedNote(s, i - 1) < SortedNote(s, i)
        /\ occupied # {} => {i \in occupied : s.pool[i].next = 0} = {Last(PlayedSlots(s))}
=============================================================================
