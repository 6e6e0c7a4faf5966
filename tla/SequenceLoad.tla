---------------------------- MODULE SequenceLoad ----------------------------
(***************************************************************************)
(* The load of a stored sequence over the running one                       *)
(* (filesystem/SequenceBank.cpp, midi/Sequencer.cpp): the walk is paused,    *)
(* the staged table and state are copied over the live ones, the active      *)
(* lists are inspected together, those that are damaged are emptied, and     *)
(* the walk goes on.  The lists are those of ActionList, which are recorded  *)
(* and played before and after.                                              *)
(*                                                                          *)
(* A slot that cannot be read, or whose state is not acceptable, is given up *)
(* before any of these steps.                                                *)
(***************************************************************************)
EXTENDS ActionList

CONSTANT StrayLists     \* stored lists may be Straying

(* The stored table needs two lists, two dynamic slots, two times, two notes *)
(* and the room for one more.                                                *)
ASSUME StoredAssumption ==
    /\ StrayLists \in BOOLEAN
    /\ NUMBER_OF_TIMBRES >= 2 /\ SEQ_ACTION_SIZE >= FirstDynamic + 2
    /\ Period >= 2 /\ MaxNotes >= 2 /\ MaxWork - MaxEdits \in 1 .. MaxNotes

VARIABLE loaded         \* bound: a sequence is loaded once
lvars == <<vars, loaded>>

(* actionListLoadInProgress_: the main loop is in the middle of a load, and  *)
(* `at' says where. *)
LoadInProgress == main.pc = "load"

LoadInit == Init /\ loaded = FALSE

-----------------------------------------------------------------------------
(* What a card may hold.  Two dynamic slots are in use, the second one maybe *)
(* free again; links lead to either of them, to a tail or to a head; the     *)
(* second time may be earlier than the first.  Beside that at most one thing *)
(* is wrong: the sentinels of list 0, or the limit of the allocator.         *)
First == FirstDynamic
Second == FirstDynamic + 1
Links == {HeadOf(0), TailOf(0), TailOf(1), First, Second}
FirstStored == [when : {1}, note : {MaxNotes - 1}, next : Links]
SecondStored == [when : {0, 1}, note : {MaxNotes}, next : Links] \cup [when : {1}, note : {NONE}, next : Links]
Damages == {"none", "sentinel", "limit"}
StoredLimits(damage) ==
    CASE damage = "none" -> {Second, SEQ_ACTION_SIZE}
      [] damage = "sentinel" -> {Second + 1}
      [] damage = "limit" -> {0, SEQ_ACTION_SIZE + 1}

Stored(heads, first, second, damage) ==
    [s \in Slot |->
       CASE s < FirstDynamic /\ s % 2 = 0 ->
              [when |-> IF s = 0 /\ damage = "sentinel" THEN 1 ELSE 0, note |-> NONE, next |-> heads[s]]
         [] s < FirstDynamic /\ s % 2 = 1 -> Sentinels(instrumentTimerMask_)[s]
         [] s = First -> first
         [] s = Second -> second
         [] OTHER -> [when |-> 0, note |-> NONE, next |-> 0]]

(* sanitizedLastFreeAction *)
SanitizedLastFreeAction(limit) == Min({Max({limit, FirstDynamic}), SEQ_ACTION_SIZE})

(* Damaged lists that a load leaves as they are, since they are not active,  *)
(* although they lead into the slots of others.                              *)
Straying == {i \in Timbre : ~cursor[i].on /\ ~WellFormed(i) /\ ReachableFrom(i) # {}}

(* beginActionListLoad, the copies, setFullState, and the first lines of     *)
(* finishActionListLoad.  Bounds: the load comes just after start(), and     *)
(* one more note, the first of MaxNotes, is recorded after the load of an    *)
(* otherwise undamaged table.                                                *)
CopySequence ==
    /\ main = idle /\ ~loaded /\ running_ /\ transport = <<0, 1>> /\ notes = 0 /\ edits = 0
    /\ \E heads \in [{HeadOf(i) : i \in Timbre} -> Links \ {HeadOf(0)}],
          first \in FirstStored, second \in SecondStored, damage \in Damages :
         /\ actions' = Stored(heads, first, second, damage)
         /\ \E limit \in StoredLimits(damage) :
              lastFreeAction_' = SanitizedLastFreeAction(limit)
         /\ main' = [pc |-> "load", at |-> "copied", adjusted |-> damage = "limit"]
         /\ notes' = MaxWork - MaxEdits - (IF damage = "none" THEN 1 ELSE 0)
    /\ \E on \in (SUBSET Timbre) \ {{}} :
         cursor' = [i \in Timbre |-> [cursor[i] EXCEPT !.on = i \in on, !.poisoned = FALSE]]
    /\ edits' = MaxEdits /\ loaded' = TRUE
    /\ UNCHANGED <<instrumentTimerMask_, transport, running_, recorded>>
    /\ StrayLists \/ Straying' = {}

-----------------------------------------------------------------------------
(* validateActionListsGlobalOnLoad.  An active list that is damaged loses,   *)
(* and so would one that reaches a slot of a sound list before it.  The      *)
(* slots of a sound list, active or not, are kept from the losers.           *)
Sound == {i \in Timbre : WellFormed(i)}
Demoted(sound) ==
    {i \in sound : cursor[i].on /\ \E j \in sound : cursor[j].on /\ j < i /\ Nodes(i) \cap Nodes(j) # {}}
Losers(sound) == {i \in Timbre : cursor[i].on /\ i \notin sound} \cup Demoted(sound)

OwnedByActive(sound) == UNION {Nodes(i) : i \in {j \in sound : cursor[j].on} \ Demoted(sound)}
Owned(sound) == UNION {Nodes(i) : i \in sound \ Demoted(sound)}

(* resetActionListChain of every loser. *)
Healed(losers, owned) ==
    LET freed == (UNION {ReachableFrom(i) : i \in losers}) \ owned
    IN  [s \in Slot |->
           IF s < FirstDynamic /\ s \div 2 \in losers THEN Sentinels(instrumentTimerMask_)[s]
           ELSE IF s \in freed THEN [actions[s] EXCEPT !.note = NONE] ELSE actions[s]]

(* trimTrailingFreeActions: the slots behind the last one in use are free. *)
Trimmed(table, losers) ==
    LET live == {s \in Slot : Dynamic(s)}
        used == {s \in live : table[s].note # NONE}
                  \cup UNION {ReachableFrom(i) : i \in {j \in Timbre : cursor[j].on} \ losers}
    IN  Max(used \cup {FirstDynamic - 1}) + 1

ValidateActionListsGlobalOnLoad ==
    /\ LoadInProgress /\ main.at = "copied"
    /\ LET sound == Sound
           losers == Losers(sound)
           healed == Healed(losers, Owned(sound))
       IN  /\ actions' = healed
           /\ lastFreeAction_' = IF main.adjusted \/ losers # {} THEN Trimmed(healed, losers)
                                 ELSE lastFreeAction_
           /\ cursor' = [i \in Timbre |-> IF i \in losers THEN [AtRest(i) EXCEPT !.last = cursor[i].last]
                                           ELSE cursor[i]]
           /\ recorded' = [i \in Timbre |->
                             IF i \in sound \ losers THEN {actions[s].note : s \in Nodes(i)} ELSE {}]
    /\ main' = [main EXCEPT !.at = "validated"]
    /\ UNCHANGED <<instrumentTimerMask_, transport, running_, notes, edits, loaded>>

(* The rest of finishActionListLoad: every list is to be caught up with.     *)
FinishActionListLoad ==
    /\ LoadInProgress /\ main.at = "validated"
    /\ cursor' = [i \in Timbre |->
                    [cursor[i] EXCEPT !.prev = HeadOf(i), !.next = TailOf(i),
                                      !.last = current16bitTimer_ % (instrumentTimerMask_[i] + 1),
                                      !.outOfSync = cursor[i].on]]
    /\ main' = idle
    /\ UNCHANGED <<lists, instrumentTimerMask_, transport, running_, notes, edits, loaded>>

-----------------------------------------------------------------------------
(* A walk during the load returns at once. *)
LoadNext ==
    \/ CopySequence \/ ValidateActionListsGlobalOnLoad \/ FinishActionListLoad
    \/ ~LoadInProgress /\ Next /\ UNCHANGED loaded

LoadSpec == LoadInit /\ [][LoadNext]_lvars

-----------------------------------------------------------------------------
(* A load keeps every sound list whole: its slots, its order and whether it  *)
(* is active, although damaged lists lead into it and are emptied            *)
(* (Sequencer.cpp:890-920).                                                  *)
SoundListsSurvive ==
    [][ValidateActionListsGlobalOnLoad =>
         \A i \in Timbre : WellFormed(i) =>
           /\ cursor'[i].on = cursor[i].on
           /\ \A s \in Nodes(i) \cup {HeadOf(i), TailOf(i)} : actions'[s] = actions[s]
           /\ \A s \in Nodes(i) : s < lastFreeAction_']_lvars
=============================================================================
