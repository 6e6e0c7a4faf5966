------------------------------ MODULE HeldKeys ------------------------------
(***************************************************************************)
(* What the arpeggiator's note stack promises (note_stack.h): the keys that *)
(* are held, the most recent one first, each of them once.  When there is   *)
(* no room for another key the one that was pressed first is forgotten.     *)
(***************************************************************************)
EXTENDS Naturals, Sequences, SequencesExt

CONSTANTS Keys, Capacity

VARIABLE held
vars == <<held>>

Without(keys, key) == RemoveFirst(keys, key)
First(keys, n) == SubSeq(keys, 1, IF Len(keys) < n THEN Len(keys) ELSE n)

Init == held = <<>>
Press(key) == held' = First(<<key>> \o Without(held, key), Capacity)
PressAlone(key) == held' = <<key>>
Release(key) == held' = Without(held, key)
ReleaseAll == held' = <<>>
Next == ReleaseAll \/ \E key \in Keys : Press(key) \/ PressAlone(key) \/ Release(key)

Spec == Init /\ [][Next]_vars
=============================================================================
