----------------------------- MODULE ActionList -----------------------------
(***************************************************************************)
(* midi/Sequencer.cpp: the recorded-action lists.  Every instrument owns a  *)
(* circular list, from its head sentinel through its recorded notes in time *)
(* order to its tail sentinel, in one shared array of slots.  The main loop *)
(* records notes, clears lists and changes their length while the SysTick   *)
(* interrupt (or the MIDI clock) walks them and plays the notes it passes.  *)
(*                                                                          *)
(* A walk runs to completion; it can interrupt the main loop between any    *)
(* two of the main loop's steps below.                                      *)
(***************************************************************************)
EXTENDS Integers, Sequences, FiniteSets, FiniteSetsExt

CONSTANTS NUMBER_OF_TIMBRES,  \* instruments
          SEQ_ACTION_SIZE,    \* slots, the sentinels included
          Period,             \* timer values of the whole sequence
          Bars,               \* lengths a list may have; each divides Period
          MaxTick,            \* how far the timer moves between two walks
          ClearWhileRunning,  \* clear() is called without stopping the walk
          ChangeWhilePending, \* a length is changed again before the walk has
                              \* caught up with the last change
          MaxNotes,           \* bound: notes ever recorded
          MaxEdits,           \* bound: clears, resets, rewinds, bar changes
          MaxWork             \* bound: notes and edits together

ASSUME SizesAssumption ==
    /\ NUMBER_OF_TIMBRES \in Nat \ {0} /\ SEQ_ACTION_SIZE \in Nat
    /\ SEQ_ACTION_SIZE > 2 * NUMBER_OF_TIMBRES
    /\ Period \in Nat \ {0} /\ Period \in Bars /\ Bars \subseteq 1 .. Period
    /\ \A b \in Bars : Period % b = 0
    /\ MaxTick \in 1 .. Period - 1
    /\ {ClearWhileRunning, ChangeWhilePending} \subseteq BOOLEAN /\ {MaxNotes, MaxEdits, MaxWork} \subseteq Nat

VARIABLES actions,     \* the slots: [when, note, next]; note 0 is SEQ_ACTION_NONE
          lastFreeAction_,
          cursor,      \* what the walk owns, see Walker
          instrumentTimerMask_,  \* the length of a list minus 1
          current16bitTimer_, previousCurrent16bitTimer_,
          running_,
          main,        \* the main loop: control point and locals
          notes,       \* notes made: the next one is notes + 1
          edits,       \* clears, resets, rewinds and bar changes made
          recorded     \* the notes every instrument has accepted and not cleared

vars == <<actions, lastFreeAction_, cursor, instrumentTimerMask_, current16bitTimer_,
          previousCurrent16bitTimer_, running_, main, notes, edits, recorded>>

Timbre == 0 .. NUMBER_OF_TIMBRES - 1
Slot == 0 .. SEQ_ACTION_SIZE - 1
FirstDynamic == 2 * NUMBER_OF_TIMBRES
Time == 0 .. Period - 1
HeadOf(i) == 2 * i
TailOf(i) == 2 * i + 1
NONE == 0
Note == 1 .. MaxNotes

(* seqActivated_, actionListPoisoned_, nextActionIndex_,                    *)
(* previousActionIndex_, nextActionTimerOutOfSync_ and                      *)
(* lastInstrument16bitTimer_ of one instrument.                             *)
Walker == [on : BOOLEAN, poisoned : BOOLEAN, next : Slot, prev : Slot,
           outOfSync : BOOLEAN, last : Time]
AtRest(i) == [on |-> FALSE, poisoned |-> FALSE, next |-> TailOf(i), prev |-> HeadOf(i),
              outOfSync |-> FALSE, last |-> 0]

idle == [pc |-> "idle"]

(* reset() links every instrument's head to its tail and back. *)
Sentinels(mask) ==
    [s \in Slot |->
       IF s >= FirstDynamic THEN [when |-> 0, note |-> NONE, next |-> 0]
       ELSE IF s % 2 = 0    THEN [when |-> 0, note |-> NONE, next |-> s + 1]
       ELSE [when |-> mask[s \div 2], note |-> NONE, next |-> s - 1]]

Init ==
    /\ instrumentTimerMask_ = [i \in Timbre |-> Period - 1]
    /\ actions = Sentinels(instrumentTimerMask_)
    /\ lastFreeAction_ = FirstDynamic
    /\ cursor = [i \in Timbre |-> AtRest(i)]
    /\ current16bitTimer_ = 0 /\ previousCurrent16bitTimer_ = Period
    /\ running_ = FALSE /\ main = idle /\ notes = 0 /\ edits = 0
    /\ recorded = [i \in Timbre |-> {}]

-----------------------------------------------------------------------------
(* The walk.  It reads the links and writes the cursors only; c is the      *)
(* cursor of instrument i.                                                  *)

(* An advance from a dynamic slot may lead to the own tail or to a live     *)
(* dynamic slot; the tail leads to the head.                                *)
WalkSafeLink(s, i) == s = TailOf(i) \/ (s >= FirstDynamic /\ s < lastFreeAction_)
SafeAdvance(here, i) ==
    LET there == actions[here].next
    IN  IF here = TailOf(i) THEN there = HeadOf(i) ELSE WalkSafeLink(there, i)
HopBudgetWithoutSentinels == lastFreeAction_ - FirstDynamic
HopBudget == lastFreeAction_ - FirstDynamic + 4

(* The slots that the links lead to from slot s, for as long as a walk may  *)
(* go.                                                                      *)
Path(s) ==
    LET at[k \in 0 .. HopBudget + 1] == IF k = 0 THEN s ELSE actions[at[k - 1]].next
    IN  at

(* handleActionListTrip: deactivate, leave the links to the main loop. *)
Trip(c, i) ==
    [c EXCEPT !.on = FALSE, !.poisoned = TRUE, !.outOfSync = FALSE,
              !.prev = HeadOf(i), !.next = TailOf(i)]

(* processActionBetwen: the cursor moves along the path while the time of   *)
(* the action under it lies in the window.  Turn k goes from at[k - 1] to   *)
(* at[k]; the first turn that is outside the window, unsafe, leads beyond   *)
(* the bar or leaves the tail is the last one.                              *)
StopsAcrossBars(at, k, i, start, end) ==
    \/ actions[at[k - 1]].when \notin start .. end
    \/ ~SafeAdvance(at[k - 1], i) \/ k > HopBudget
    \/ actions[at[k]].when > instrumentTimerMask_[i]

Stops(at, k, i, start, end) ==
    \/ actions[at[k - 1]].when \notin start .. end
    \/ ~SafeAdvance(at[k - 1], i) \/ k > HopBudget
    \/ actions[at[k]].when > instrumentTimerMask_[i]
    \/ at[k - 1] = TailOf(i)

ProcessActionBetween(c, i, start, end) ==
    LET at == Path(c.next)
        n == Min({k \in 1 .. HopBudget + 1 : Stops(at, k, i, start, end)})
        here == at[n - 1]
    IN  IF ~c.on THEN [c |-> c, played |-> <<>>]
        ELSE IF actions[here].when \notin start .. end
          THEN [c |-> [c EXCEPT !.prev = IF n = 1 THEN @ ELSE at[n - 2], !.next = here],
                played |-> [k \in 1 .. n - 1 |-> at[k - 1]]]
        ELSE IF ~SafeAdvance(here, i) \/ n > HopBudget
          THEN [c |-> Trip(c, i), played |-> [k \in 1 .. n - 1 |-> at[k - 1]]]
        ELSE LET beyond == actions[at[n]].when > instrumentTimerMask_[i]
             IN  [c |-> [c EXCEPT !.prev = IF beyond THEN HeadOf(i) ELSE here,
                                  !.next = IF beyond THEN HeadOf(i) ELSE at[n]],
                  played |-> [k \in 1 .. n |-> at[k - 1]]]

(* resyncNextAction: after a change of length, restart from the head and    *)
(* catch up with the timer.                                                 *)
ResyncNextAction(c, i, timer) ==
    LET last == (timer - 1) % (instrumentTimerMask_[i] + 1)
        at == Path(HeadOf(i))
        n == Min({k \in 0 .. HopBudget :
                    actions[at[k]].when >= last \/ ~WalkSafeLink(at[k + 1], i) \/ k = HopBudget})
        synced == [c EXCEPT !.outOfSync = FALSE, !.last = last]
    IN  IF actions[at[n]].when < last THEN Trip(synced, i)
        ELSE [synced EXCEPT !.prev = IF n = 0 THEN HeadOf(i) ELSE at[n - 1], !.next = at[n]]

(* mainSequencerTic for an active list: the part of the bar before the wrap *)
(* of its timer, then the part after it.                                    *)
Walk(i, counter) ==
    LET c == cursor[i]
        timer == counter % (instrumentTimerMask_[i] + 1)
        synced == IF c.outOfSync THEN ResyncNextAction(c, i, timer) ELSE c
        before == IF synced.last <= timer THEN [c |-> synced, played |-> <<>>]
                  ELSE ProcessActionBetween(synced, i, synced.last, instrumentTimerMask_[i])
        after == ProcessActionBetween(before.c, i, IF synced.last <= timer THEN synced.last ELSE 0,
                                      timer)
    IN  [c |-> [after.c EXCEPT !.last = timer], played |-> before.played \o after.played]

(* mainSequencerTic, from ticMillis or onMidiClock, for every active list. *)
MainSequencerTic ==
    /\ running_
    /\ \E counter \in {(current16bitTimer_ + d) % Period : d \in 0 .. MaxTick} :
         /\ counter # previousCurrent16bitTimer_
         /\ current16bitTimer_' = counter /\ previousCurrent16bitTimer_' = counter
         /\ cursor' = [i \in Timbre |-> IF cursor[i].on THEN Walk(i, counter).c ELSE cursor[i]]
    /\ UNCHANGED <<actions, lastFreeAction_, instrumentTimerMask_, running_, main, notes,
                   edits, recorded>>

-----------------------------------------------------------------------------
(* Transport, from the front panel or a queued control change.              *)
transport == <<current16bitTimer_, previousCurrent16bitTimer_>>
lists == <<actions, lastFreeAction_, recorded>>

(* start(): from the beginning there is a precount, during which nothing is *)
(* recorded or played and at whose end every list starts afresh; it is not  *)
(* a state of its own here.                                                 *)
Start ==
    /\ main = idle /\ ~running_
    /\ running_' = TRUE
    /\ IF current16bitTimer_ = 0
         THEN /\ cursor' = [i \in Timbre |-> [cursor[i] EXCEPT !.last = 0]]
              /\ previousCurrent16bitTimer_' = 1
         ELSE UNCHANGED <<cursor, previousCurrent16bitTimer_>>
    /\ UNCHANGED <<lists, instrumentTimerMask_, current16bitTimer_, main, notes, edits>>

Stop ==
    /\ main = idle /\ running_
    /\ running_' = FALSE
    /\ UNCHANGED <<lists, cursor, instrumentTimerMask_, transport, main, notes, edits>>

MayWork == notes + edits < MaxWork
Edit == main = idle /\ MayWork /\ edits < MaxEdits /\ edits' = edits + 1

(* rewind(): the next tick starts the sequence over. *)
Rewind ==
    /\ Edit /\ current16bitTimer_ # 0
    /\ current16bitTimer_' = 0
    /\ UNCHANGED <<lists, cursor, instrumentTimerMask_, previousCurrent16bitTimer_, running_,
                   main, notes>>

(* reset(), called after stop(). *)
Reset ==
    /\ Edit /\ ~running_
    /\ actions' = [s \in Slot |-> IF s < FirstDynamic
                                  THEN Sentinels(instrumentTimerMask_)[s] ELSE actions[s]]
    /\ lastFreeAction_' = FirstDynamic
    /\ cursor' = [i \in Timbre |-> AtRest(i)]
    /\ recorded' = [i \in Timbre |-> {}]
    /\ current16bitTimer_' = 0 /\ previousCurrent16bitTimer_' = Period
    /\ UNCHANGED <<instrumentTimerMask_, running_, main, notes>>

(* setNumberOfBars(): the mask, the tail's time and the request to resync   *)
(* are three stores.                                                        *)
SetMaskToLength ==
    /\ Edit
    /\ \E i \in Timbre, b \in Bars :
         /\ ChangeWhilePending \/ ~cursor[i].outOfSync
         /\ instrumentTimerMask_' = [instrumentTimerMask_ EXCEPT ![i] = b]
         /\ main' = [pc |-> "tailWhen", i |-> i]
    /\ UNCHANGED <<lists, cursor, transport, running_, notes>>

SetMask ==
    /\ Edit
    /\ \E i \in Timbre, b \in Bars :
         /\ ChangeWhilePending \/ ~cursor[i].outOfSync
         /\ instrumentTimerMask_' = [instrumentTimerMask_ EXCEPT ![i] = b - 1]
         /\ main' = [pc |-> "tailWhen", i |-> i]
    /\ UNCHANGED <<lists, cursor, transport, running_, notes>>

SetTailWhen ==
    /\ main.pc = "tailWhen"
    /\ actions' = [actions EXCEPT ![TailOf(main.i)].when = instrumentTimerMask_[main.i]]
    /\ main' = [main EXCEPT !.pc = "outOfSync"]
    /\ UNCHANGED <<lastFreeAction_, recorded, cursor, instrumentTimerMask_, transport,
                   running_, notes, edits>>

SetOutOfSync ==
    /\ main.pc = "outOfSync"
    /\ cursor' = [cursor EXCEPT ![main.i].outOfSync = TRUE]
    /\ main' = idle
    /\ UNCHANGED <<lists, instrumentTimerMask_, transport, running_, notes, edits>>

-----------------------------------------------------------------------------
(* The chain of a list: its slots from the head's successor on, for as many *)
(* steps as there are slots; it stays at the tail once it gets there.       *)
Chain(i) ==
    LET at[k \in 0 .. SEQ_ACTION_SIZE] ==
          IF k = 0 THEN actions[HeadOf(i)].next
          ELSE LET s == at[k - 1] IN IF s = TailOf(i) THEN s ELSE actions[s].next
    IN  at
Ends(i) == Chain(i)[SEQ_ACTION_SIZE] = TailOf(i)
Nodes(i) == {Chain(i)[k] : k \in 0 .. SEQ_ACTION_SIZE} \ {TailOf(i)}
Dynamic(s) == s >= FirstDynamic /\ s < lastFreeAction_

(* inspectActionListStructure *)
WellFormed(i) ==
    /\ actions[HeadOf(i)].when = 0 /\ actions[HeadOf(i)].note = NONE
    /\ actions[TailOf(i)] = [when |-> instrumentTimerMask_[i], note |-> NONE, next |-> HeadOf(i)]
    /\ Ends(i)
    /\ \A s \in Nodes(i) :
         /\ Dynamic(s) /\ actions[s].note # NONE
         /\ actions[s].next # TailOf(i) => actions[actions[s].next].when >= actions[s].when

(* resetMalformedActionList and trimTrailingFreeActions: reclaim what can   *)
(* be reached of the list, link its head to its tail, and give back the     *)
(* free slots at the end of the array.                                      *)
ReachableFrom(i) ==
    LET c == Chain(i)
    IN  {c[k] : k \in {k \in 0 .. SEQ_ACTION_SIZE : \A j \in 0 .. k : Dynamic(c[j])}}
ResetList(i) ==
    LET emptied == [s \in Slot |->
          CASE s = HeadOf(i) -> [when |-> 0, note |-> NONE, next |-> TailOf(i)]
            [] s = TailOf(i) -> [when |-> instrumentTimerMask_[i], note |-> NONE, next |-> HeadOf(i)]
            [] s \in ReachableFrom(i) -> [actions[s] EXCEPT !.note = NONE]
            [] OTHER -> actions[s]]
        needed == UNION {ReachableFrom(j) : j \in {j \in Timbre \ {i} : cursor[j].on}}
        used == {s \in FirstDynamic .. lastFreeAction_ - 1 : emptied[s].note # NONE} \cup needed
    IN  /\ actions' = emptied
        /\ lastFreeAction_' = Max(used \cup {FirstDynamic - 1}) + 1
        /\ cursor' = [cursor EXCEPT ![i] = [AtRest(i) EXCEPT !.last = cursor[i].last]]
        /\ recorded' = [recorded EXCEPT ![i] = {}]

-----------------------------------------------------------------------------
(* insertNote(), called for every queued note.                              *)
Suspect(i) == cursor[i].poisoned \/ (~cursor[i].on /\ actions[HeadOf(i)].next # TailOf(i))
others == <<instrumentTimerMask_, transport, running_, edits>>

(* A list that tripped, or that was left inactive, is repaired first; the   *)
(* note is dropped when that resets the list.                               *)
RepairList ==
    /\ main = idle /\ running_ /\ MayWork /\ notes < MaxNotes
    /\ \E i \in Timbre : Suspect(i) /\ ~WellFormed(i) /\ ResetList(i)
    /\ notes' = notes + 1
    /\ UNCHANGED <<main, others>>

(* Otherwise the slot and the time of the note are chosen; it is dropped    *)
(* when the array is full.                                                  *)
InsertNote ==
    /\ main = idle /\ running_ /\ MayWork /\ notes < MaxNotes
    /\ \E i \in Timbre :
         /\ Suspect(i) => WellFormed(i)
         /\ cursor' = [cursor EXCEPT ![i].poisoned = FALSE]
         /\ main' = IF lastFreeAction_ = SEQ_ACTION_SIZE THEN idle
                    ELSE [pc |-> "position", i |-> i,
                          when |-> current16bitTimer_ % (instrumentTimerMask_[i] + 1)]
    /\ notes' = notes + 1
    /\ UNCHANGED <<lists, others>>

FastPositionUnchecked(i, pred, when) ==
    pred = HeadOf(i) \/ (Dynamic(pred) /\ actions[pred].when <= when)

(* Whether the note may go right after the walk's previous action.          *)
FastPosition(i, pred, when) ==
    LET succ == actions[pred].next
    IN  /\ pred = HeadOf(i) \/ (Dynamic(pred) /\ actions[pred].when <= when)
        /\ \/ succ = TailOf(i)
           \/ Dynamic(succ) /\ succ # pred /\ actions[succ].when >= when

(* findInsertPosition: after every action that is not later. *)
FoundPosition(i, when) ==
    LET c == Chain(i)
        k == Min({k \in 0 .. SEQ_ACTION_SIZE : c[k] = TailOf(i) \/ actions[c[k]].when > when})
    IN  IF k = 0 THEN HeadOf(i) ELSE c[k - 1]

(* The walk's cursor is read once.  At the wrap of the bar the note belongs *)
(* to the start of the bar.                                                 *)
FindPosition ==
    /\ main.pc = "position"
    /\ LET i == main.i
           pred == cursor[i].prev
           wrap == pred = TailOf(i) /\ actions[TailOf(i)].next = HeadOf(i)
           when == IF wrap THEN 0 ELSE main.when
       IN  \/ /\ FastPosition(i, pred, when)
              /\ main' = [pc |-> "publish", i |-> i, when |-> when, pred |-> pred]
              /\ UNCHANGED <<lists, cursor>>
           \/ /\ ~FastPosition(i, pred, when) /\ WellFormed(i)
              /\ main' = [pc |-> "publish", i |-> i, when |-> when,
                          pred |-> FoundPosition(i, when)]
              /\ cursor' = [cursor EXCEPT ![i].poisoned = FALSE]
              /\ UNCHANGED lists
           \/ /\ ~FastPosition(i, pred, when) /\ ~WellFormed(i)
              /\ ResetList(i) /\ main' = idle
    /\ UNCHANGED <<notes, others>>

(* The commit protocol: fill the slot and widen the live region ...         *)
Publish ==
    /\ main.pc = "publish"
    /\ actions' = [actions EXCEPT ![lastFreeAction_] =
                     [when |-> main.when, note |-> notes, next |-> actions[main.pred].next]]
    /\ lastFreeAction_' = lastFreeAction_ + 1
    /\ main' = [main EXCEPT !.pc = "link"]
    /\ UNCHANGED <<recorded, cursor, notes, others>>

(* ... then link it, set the walk's previous action, and activate.          *)
LinkNote ==
    /\ main.pc = "link"
    /\ actions' = [actions EXCEPT ![main.pred].next = lastFreeAction_ - 1]
    /\ recorded' = [recorded EXCEPT ![main.i] = @ \cup {notes}]
    /\ main' = [main EXCEPT !.pc = "cursor"]
    /\ UNCHANGED <<lastFreeAction_, cursor, notes, others>>

SetPrevious ==
    /\ main.pc = "cursor"
    /\ cursor' = [cursor EXCEPT ![main.i].prev = lastFreeAction_ - 1]
    /\ main' = [main EXCEPT !.pc = "activate"]
    /\ UNCHANGED <<lists, notes, others>>

SetSeqActivated ==
    /\ main.pc = "activate"
    /\ cursor' = [cursor EXCEPT ![main.i].on = TRUE]
    /\ main' = idle
    /\ UNCHANGED <<lists, notes, others>>

Insert == RepairList \/ InsertNote \/ FindPosition \/ Publish \/ LinkNote \/ SetPrevious
          \/ SetSeqActivated

-----------------------------------------------------------------------------
(* clear(): mark the slots of one list free, ...                            *)
BeginClear ==
    /\ Edit /\ (ClearWhileRunning \/ ~running_)
    /\ \E i \in Timbre :
         /\ cursor[i].on /\ Ends(i)
         /\ actions' = [s \in Slot |-> IF s \in Nodes(i) THEN [actions[s] EXCEPT !.note = NONE]
                                       ELSE actions[s]]
         /\ main' = [pc |-> "unlink", i |-> i]
    /\ UNCHANGED <<lastFreeAction_, recorded, cursor, instrumentTimerMask_, transport,
                   running_, notes>>

(* ... deactivate and unlink it; when no other list is active the whole     *)
(* array is free, ...                                                       *)
Unlink ==
    /\ main.pc = "unlink"
    /\ LET i == main.i IN
         /\ cursor' = [cursor EXCEPT ![i] = [AtRest(i) EXCEPT !.last = cursor[i].last]]
         /\ actions' = [actions EXCEPT ![HeadOf(i)].next = TailOf(i)]
         /\ recorded' = [recorded EXCEPT ![i] = {}]
         /\ IF \E j \in Timbre \ {i} : cursor[j].on
              THEN main' = [pc |-> "remap", k |-> 0] /\ UNCHANGED lastFreeAction_
              ELSE main' = idle /\ lastFreeAction_' = FirstDynamic
    /\ UNCHANGED <<notes, others>>

(* ... else translate the links of the slots in use to where the compaction *)
(* will move them, one by one, ...                                          *)
Compacted(s) ==
    IF ~Dynamic(s) THEN s
    ELSE FirstDynamic + Cardinality({t \in FirstDynamic .. s - 1 : actions[t].note # NONE})

RemapLink ==
    /\ main.pc = "remap"
    /\ LET k == main.k IN
         /\ actions' = IF k < FirstDynamic \/ actions[k].note # NONE
                       THEN [actions EXCEPT ![k].next = Compacted(@)] ELSE actions
         /\ main' = IF k + 1 < lastFreeAction_ THEN [main EXCEPT !.k = k + 1]
                    ELSE [pc |-> "cursors", k |-> 0]
    /\ UNCHANGED <<lastFreeAction_, recorded, cursor, notes, others>>

(* ... translate the cursors of each instrument, ...                        *)
RemapCursor ==
    /\ main.pc = "cursors"
    /\ cursor' = [cursor EXCEPT ![main.k].next = Compacted(@), ![main.k].prev = Compacted(@)]
    /\ main' = IF main.k + 1 < NUMBER_OF_TIMBRES THEN [main EXCEPT !.k = main.k + 1]
               ELSE [pc |-> "compact", k |-> FirstDynamic, to |-> FirstDynamic]
    /\ UNCHANGED <<lists, notes, others>>

(* ... move the slots one by one, ...                                       *)
Compact ==
    /\ main.pc = "compact" /\ main.k < lastFreeAction_
    /\ IF actions[main.k].note # NONE
         THEN /\ actions' = [actions EXCEPT ![main.to] = actions[main.k]]
              /\ main' = [main EXCEPT !.k = @ + 1, !.to = @ + 1]
         ELSE main' = [main EXCEPT !.k = @ + 1] /\ UNCHANGED actions
    /\ UNCHANGED <<lastFreeAction_, recorded, cursor, notes, others>>

(* ... and free the slots behind the last one in use.                       *)
FinishClear ==
    /\ main.pc = "compact" /\ main.k = lastFreeAction_
    /\ actions' = [s \in Slot |-> IF s \in main.to .. lastFreeAction_ - 1
                                  THEN [actions[s] EXCEPT !.note = NONE] ELSE actions[s]]
    /\ lastFreeAction_' = main.to
    /\ main' = idle
    /\ UNCHANGED <<recorded, cursor, notes, others>>

Clear == BeginClear \/ Unlink \/ RemapLink \/ RemapCursor \/ Compact \/ FinishClear

-----------------------------------------------------------------------------
MainLoop == Start \/ Stop \/ Rewind \/ Reset \/ SetMask \/ SetTailWhen \/ SetOutOfSync
            \/ Insert \/ Clear
Next == MainSequencerTic \/ MainLoop

Spec == Init /\ [][Next]_vars

-----------------------------------------------------------------------------
TypeOK ==
    /\ actions \in [Slot -> [when : Time, note : Note \cup {NONE}, next : Slot]]
    /\ lastFreeAction_ \in FirstDynamic .. SEQ_ACTION_SIZE
    /\ cursor \in [Timbre -> Walker] /\ instrumentTimerMask_ \in [Timbre -> Time]
    /\ current16bitTimer_ \in Time /\ previousCurrent16bitTimer_ \in 0 .. Period
    /\ running_ \in BOOLEAN /\ notes \in 0 .. MaxNotes /\ edits \in 0 .. MaxEdits
    /\ recorded \in [Timbre -> SUBSET Note]

(* Whatever main is in the middle of, a list that is being played is a      *)
(* chain in time order from head to tail over live slots, and holds exactly *)
(* the notes recorded into it: a note inserted while the walk moves the     *)
(* cursor, or moved by a compaction, is neither lost nor put in another     *)
(* list.                                                                    *)
Rebuilding == main.pc \in {"unlink", "remap", "cursors", "compact", "load"}
ListsHoldWhatWasRecorded ==
    ~Rebuilding =>
      \A i \in Timbre : cursor[i].on =>
        /\ Ends(i)
        /\ {actions[s].note : s \in Nodes(i)} = recorded[i]
        /\ \A s \in Nodes(i) :
             /\ Dynamic(s)
             /\ actions[s].next # TailOf(i) => actions[actions[s].next].when >= actions[s].when

(* The bounds that stop a walk over a corrupted list never stop one over a  *)
(* list built by this program.                                              *)
NeverTrips == \A i \in Timbre : ~cursor[i].poisoned

(* A walk plays a note at most once, and only notes that are recorded: "one *)
(* bar per call", whatever the timer jumped (Sequencer.cpp:600-615).        *)
Heard(i) == {Walk(i, counter).played : counter \in {current16bitTimer_'}}
HeardOnce ==
    [][MainSequencerTic =>
         \A i \in Timbre : cursor[i].on =>
           \A played \in Heard(i) :
             /\ \A j, k \in DOMAIN played :
                  j < k /\ played[j] = played[k] => actions[played[j]].note = NONE
             /\ \A k \in DOMAIN played :
                  actions[played[k]].note \in recorded[i] \cup {NONE}]_vars

(* "We have events after the instrument bar limit, we must loop now"        *)
(* (Sequencer.cpp:603): the walk never waits at an action beyond the bar,   *)
(* whose time the timer of the instrument never reaches.                    *)
LoopsWithinBar ==
    main = idle =>
      \A i \in Timbre : cursor[i].on /\ ~cursor[i].outOfSync =>
        actions[cursor[i].next].when <= instrumentTimerMask_[i]

(* "instrument 0 must survive clear(1)" (sequencer_test.cpp:626): clearing  *)
(* one list leaves the others active.                                       *)
OthersSurviveClear ==
    [][\A i \in Timbre : cursor[i].on /\ ~cursor'[i].on =>
         main.pc = "unlink" \/ ~running_]_vars
=============================================================================
