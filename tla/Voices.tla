------------------------------- MODULE Voices -------------------------------
(***************************************************************************)
(* The voices of one instrument (synth/Timbre.cpp, synth/Synth.cpp): which  *)
(* voice a note-on takes, which one a note-off reaches, the keys that MONO  *)
(* mode goes back to, the hold pedal, and the ways to silence everything.   *)
(*                                                                          *)
(* A handler is one step: notes are decoded and blocks are computed in the  *)
(* same interrupt.  `voiceIndex_' only orders the voices by age: the index   *)
(* of a voice is its place in that index, the oldest being the first.       *)
(***************************************************************************)
EXTENDS Voice, Integers, Sequences, SequencesExt, FiniteSets, FiniteSetsExt

CONSTANTS Keys,            \* notes
          NumberOfVoices,  \* numberOfVoices_
          MonoStackSize,   \* MONO_STACK_SIZE: 16 in the code
          Modes, Glides_,  \* the play modes and glide types of this instance
          Windows          \* races in scope: a subset of AllWindows

(* Sequences of calls after which the code leaves a note hanging.  An        *)
(* instance chooses those that may happen; the guards below close the rest.  *)
(*   second note-off     the flag of a pending note is 128 added to a char:   *)
(*                       a second note-off for it clears the flag again       *)
(*   pedal over pending  a pending note, when it starts, forgets that the     *)
(*                       pedal holds it                                       *)
(*   glide cut short     allNoteOff leaves the note of a glide behind, and    *)
(*                       the next note-off ends the glide, not the note       *)
(*   glide from ended    a note already ended, whose release has not begun,   *)
(*                       is taken for one to glide from                       *)
(*   stack outlives      allNoteOff leaves the keys of MONO mode behind, and  *)
(*                       the next note-off goes back to one of them           *)
(*   unison apart        the voices of a unison note do not end in one block, *)
(*                       and the first one decides whether all are computed   *)
AllWindows ==
    {"second note-off", "pedal over pending", "glide cut short",
     "glide from ended", "stack outlives", "unison apart"}

ASSUME VoicesAssumption ==
    /\ Keys # {} /\ Keys \subseteq 1 .. 127
    /\ NumberOfVoices \in Nat \ {0} /\ MonoStackSize \in Nat \ {0}
    /\ Modes \subseteq PlayModes /\ Glides_ \subseteq GlideTypes
    /\ Windows \subseteq AllWindows

VARIABLES how,        \* playMode and glideType
          voices, index,   \* the voices, and their places from the oldest to the newest
          monoStack_, holdPedal_,
          down,       \* keys that are down and whose note-off is still to come
          muted       \* of these, the keys whose note was refused or ended by the pedal
timbre == <<voices, index, monoStack_>>
vars == <<how, timbre, holdPedal_, down, muted>>

Voice_ == 1 .. NumberOfVoices
Timbre_ == [voices |-> voices, index |-> index, stack |-> monoStack_]
Become(t) == voices' = t.voices /\ index' = t.index /\ monoStack_' = t.stack

Init ==
    /\ how \in [mode : Modes, glide : Glides_]
    /\ voices = [v \in Voice_ |-> Silent]
    /\ index = [v \in Voice_ |-> v]
    /\ monoStack_ = <<>> /\ holdPedal_ = FALSE
    /\ down = {} /\ muted = {}

-----------------------------------------------------------------------------
(* monoNoteRemove: the keys above the one that is removed move down. *)
MonoNoteRemove(s, k) ==
    LET i == CHOOSE j \in DOMAIN s : s[j] = k
    IN  IF k \in ToSet(s) THEN [j \in 1 .. Len(s) - 1 |-> IF j < i THEN s[j] ELSE s[j + 1]]
        ELSE s

(* Bug: the stack is not bounded. *)
PushForgetsLimit(s, k) == Append(MonoNoteRemove(s, k), k)

(* monoNotePush: a full stack drops its oldest key. *)
MonoNotePush(s, k) ==
    LET others == MonoNoteRemove(s, k)
    IN  Append(IF Len(others) >= MonoStackSize THEN Tail(others) ELSE others, k)

(* A note goes to one voice, or in unison to all. *)
Taken(v) == IF how.mode = "UNISON" THEN Voice_ ELSE {v}
Youngest(t, v) ==
    [w \in Voice_ |->
        CASE how.mode = "UNISON" -> w
          [] how.mode # "UNISON" /\ w = v -> NumberOfVoices
          [] how.mode # "UNISON" /\ w # v -> IF t.index[w] > t.index[v] THEN t.index[w] - 1 ELSE t.index[w]]

Start(t, v, k) ==
    [t EXCEPT !.voices = [w \in Voice_ |-> IF w \in Taken(v) THEN NoteOn(@[w], k, how) ELSE @[w]],
              !.index = Youngest(t, v)]
Take(t, v, k) ==
    [t EXCEPT !.voices = [w \in Voice_ |-> IF w \in Taken(v) THEN NoteOnWithoutPop(@[w], k, how) ELSE @[w]],
              !.index = Youngest(t, v)]

(* preenNoteOn: the voice that plays the note already, else a free one, else *)
(* the one released first, else the oldest.  Voices with a note pending are  *)
(* passed over; when they all are, the note is dropped.                      *)
(* Bug: the oldest voice is taken whatever it does. *)
OldestOfAll(t, vs) == CHOOSE v \in Voice_ : \A w \in Voice_ : t.index[v] <= t.index[w]

Considered == IF how.mode = "POLY" THEN Voice_ ELSE {1}
Candidates(t) == {v \in Considered : ~t.voices[v].newNotePending}
Oldest(t, vs) == CHOOSE v \in vs : \A w \in vs : t.index[v] <= t.index[w]

PreenNoteOn(t, k) ==
    LET u == [t EXCEPT !.stack = IF how.mode = "MONO" THEN MonoNotePush(@, k) ELSE <<>>]
        open == Candidates(t)
        same == {v \in open : t.voices[v].playing /\ t.voices[v].note = k}
        free == {v \in open : ~t.voices[v].playing}
        released == {v \in open : t.voices[v].released}
    IN  CASE same # {} -> Take(u, Min(same), k)
          [] same = {} /\ free # {} -> Start(u, Min(free), k)
          [] same = {} /\ free = {} /\ released # {} -> Take(u, Oldest(t, released), k)
          [] open # {} /\ open \cap (same \cup free \cup released) = {} -> Take(u, Oldest(t, open), k)
          [] open = {} -> u

(* Bug: a recall strikes the key like any other. *)
RecallOnlyStrikes(t) == PreenNoteOn(t, Last(t.stack))

(* monoNoteRecall: the last key of the stack is struck again; a pending note *)
(* is replaced.                                                              *)
MonoNoteRecall(t) ==
    IF t.voices[1].newNotePending THEN Take(t, 1, Last(t.stack)) ELSE PreenNoteOn(t, Last(t.stack))

(* preenNoteOff, for one voice: the note is its own, or it glides from or to *)
(* the note.                                                                 *)
Settled(v) == v.nextGlidingNote = None \/ v.newGlide
Reached(v, k) == v.playing /\ (v.note = k \/ (~Settled(v) /\ v.nextGlidingNote = k))

ReleasedVoice(v, k, back) ==
    CASE Settled(v) /\ holdPedal_ -> [v EXCEPT !.holdedByPedal = TRUE]
      [] Settled(v) /\ ~holdPedal_ -> NoteOff(v)
      [] ~Settled(v) /\ v.note = k -> GlideFirstNoteOff(v)
      [] OTHER -> GlideFirstNoteOff(GlideToNote(v, IF back = <<>> THEN v.note ELSE Last(back)))

ReachedVoices(t, k) ==
    LET all == {v \in (IF how.mode = "MONO" THEN {1} ELSE Voice_) : Reached(t.voices[v], k)}
    IN  IF how.mode = "UNISON" \/ all = {} THEN all ELSE {Min(all)}

AfterNoteOff(t, k) ==
    LET stack == IF how.mode = "MONO" THEN MonoNoteRemove(t.stack, k) ELSE <<>>
        hit == ReachedVoices(t, k)
    IN  [t EXCEPT !.stack = stack,
                  !.voices = [v \in Voice_ |-> IF v \in hit THEN ReleasedVoice(@[v], k, stack) ELSE @[v]]]

(* In MONO mode, a key that still is down is recalled. *)
Recalls(t, k) ==
    /\ how.mode = "MONO" /\ ~holdPedal_ /\ MonoNoteRemove(t.stack, k) # <<>>
    /\ \E v \in ReachedVoices(t, k) : Settled(t.voices[v])

PreenNoteOff(t, k) ==
    IF Recalls(t, k) THEN MonoNoteRecall(AfterNoteOff(t, k)) ELSE AfterNoteOff(t, k)

-----------------------------------------------------------------------------
(* Guards of the windows.  Ending: ended, but the release has not begun. *)
Lets(window) == window \in Windows
Ending(v) == v.playing /\ ~v.released /\ ~Sustains(v)
NotTwice(vs) == Lets("second note-off") \/ \A v \in vs : ~Flagged(voices[v])
Whole(v) == Settled(voices[v])

KeyDown(k) ==
    /\ k \notin down
    /\ Lets("second note-off") \/ \A v \in Voice_ : ~(voices[v].newNotePending /\ voices[v].note = k)
    /\ Lets("glide from ended") \/ ~Glides(how) \/ \A v \in Candidates(Timbre_) : ~Ending(voices[v])
    /\ Become(PreenNoteOn(Timbre_, k))
    /\ down' = down \cup {k}
    /\ muted' = IF Candidates(Timbre_) = {} THEN muted \cup {k} ELSE muted \ {k}
    /\ UNCHANGED <<how, holdPedal_>>

KeyUp(k) ==
    /\ IF holdPedal_
         THEN Lets("pedal over pending") \/ \A v \in ReachedVoices(Timbre_, k) : ~voices[v].newNotePending
         ELSE NotTwice(ReachedVoices(Timbre_, k))
    /\ \/ Lets("glide from ended") \/ ~Glides(how) \/ ~Recalls(Timbre_, k)
       \/ ~Ending(AfterNoteOff(Timbre_, k).voices[1])
    /\ Become(PreenNoteOff(Timbre_, k))
    /\ down' = down \ {k} /\ muted' = muted \ {k}
    /\ UNCHANGED <<how, holdPedal_>>

(* setHoldPedal: when the pedal comes up, the notes it held end, and MONO    *)
(* mode goes back to no key.                                                 *)
HeldVoices == {v \in Voice_ : voices[v].holdedByPedal}
SetHoldPedal ==
    /\ holdPedal_' = ~holdPedal_
    /\ IF holdPedal_
         THEN /\ NotTwice(HeldVoices)
              /\ voices' = [v \in Voice_ |-> IF v \in HeldVoices THEN NoteOff(voices[v]) ELSE voices[v]]
              /\ muted' = IF HeldVoices # {} THEN down ELSE muted
         ELSE UNCHANGED <<voices, muted>>
    /\ UNCHANGED <<how, index, monoStack_, down>>

(* allNoteOff, from a controller message or a sequencer that stops: the keys *)
(* that were down will send no note-off that matters.                        *)
Unreleased == {v \in Voice_ : voices[v].playing /\ ~voices[v].released}
AllNoteOff ==
    /\ NotTwice(Unreleased)
    /\ Lets("stack outlives") \/ monoStack_ = <<>>
    /\ Lets("glide cut short") \/ \A v \in Voice_ : Whole(v)
    /\ voices' = [v \in Voice_ |-> IF v \in Unreleased THEN NoteOff(voices[v]) ELSE voices[v]]
    /\ down' = {} /\ muted' = {}
    /\ UNCHANGED <<how, index, monoStack_, holdPedal_>>

AllSoundOff ==
    /\ Lets("stack outlives") \/ monoStack_ = <<>>
    /\ voices' = [v \in Voice_ |-> KillNow(voices[v])]
    /\ down' = {} /\ muted' = {}
    /\ UNCHANGED <<how, index, monoStack_, holdPedal_>>

(* A change of routing, and a sequence load, which releases quickly: what    *)
(* was pending and the stack are dropped too.                                *)
Orphaned(ended) ==
    /\ voices' = [v \in Voice_ |-> CancelPendingNoteOn(ended[v])]
    /\ monoStack_' = <<>>
    /\ down' = {} /\ muted' = {}
    /\ UNCHANGED <<how, index, holdPedal_>>
RoutingChanged ==
    Orphaned([v \in Voice_ |-> IF v \in Unreleased THEN NoteOff(voices[v]) ELSE voices[v]])
SequenceLoaded == Orphaned([v \in Voice_ |-> NoteOffQuick(voices[v])])

(* One block of samples; `dead' are the voices whose release ends in it.  In *)
(* unison all voices are computed as long as the first one plays.            *)
NextBlockOf(dead) ==
    LET computed == IF how.mode = "UNISON"
                      THEN IF voices[1].playing THEN Voice_ ELSE {}
                      ELSE {v \in Voice_ : voices[v].playing}
        dying == {v \in computed : Dying(voices[v])}
    IN  /\ dead \subseteq dying
        /\ how.mode = "UNISON" /\ ~Lets("unison apart") => dead \in {{}, dying}
        /\ voices' = [v \in Voice_ |-> IF v \in computed THEN NextBlock(voices[v], v \in dead, how) ELSE voices[v]]
        /\ UNCHANGED <<how, index, monoStack_, holdPedal_, down, muted>>
VoicesNextBlock == \E dead \in SUBSET Voice_ : NextBlockOf(dead)

Next ==
    \/ \E k \in Keys : KeyDown(k) \/ KeyUp(k)
    \/ SetHoldPedal \/ AllNoteOff \/ AllSoundOff \/ RoutingChanged \/ SequenceLoaded
    \/ VoicesNextBlock

(* The audio interrupt computes block after block, and a release ends. *)
Fairness ==
    /\ WF_vars(VoicesNextBlock)
    /\ \A v \in Voice_ : WF_vars(\E dead \in SUBSET Voice_ : v \in dead /\ NextBlockOf(dead))

Spec == Init /\ [][Next]_vars /\ Fairness

-----------------------------------------------------------------------------
(* Every field keeps its type, the stack of MONO mode holds a key at most    *)
(* once and no more keys than it has places, and every voice has one age.    *)
TypeOK ==
    /\ how \in [mode : Modes, glide : Glides_]
    /\ voices \in [Voice_ -> VoiceType(Keys)]
    /\ index \in [Voice_ -> Voice_] /\ IsInjective(index)
    /\ monoStack_ \in Seq(Keys) /\ IsInjective(monoStack_) /\ Len(monoStack_) <= MonoStackSize
    /\ holdPedal_ \in BOOLEAN
    /\ down \subseteq Keys /\ muted \subseteq down

(* A voice that will sound until its note is ended plays, or glides to, a key *)
(* whose note-off is still to come, or is held by the pedal: whatever was     *)
(* stolen, pending, flagged, recalled or silenced in between (preenNoteOn,    *)
(* preenNoteOff and endNoteOrBeginNextOne).                                   *)
NoteNeverHangs ==
    \A v \in Voice_ : Sustains(voices[v]) =>
        \/ NotesOf(voices[v]) \cap down # {}
        \/ holdPedal_ /\ voices[v].holdedByPedal

(* In MONO mode the instrument sounds as long as a key of the stack is down:  *)
(* taking, gliding and recalling never lose the last key (monoNoteRecall).    *)
MonoSounds ==
    how.mode = "MONO" /\ ToSet(monoStack_) \ muted # {} => Sustains(voices[1])

(* A note-on takes no voice whose key is down when fewer keys are down than   *)
(* there are voices, none is pending and none is between its end and its      *)
(* release (the order of choice in preenNoteOn).                              *)
NoNeedlessSteal ==
    [][\A k \in down' \ down :
        /\ how.mode = "POLY" /\ ~holdPedal_ /\ Cardinality(down) < NumberOfVoices
        /\ \A v \in Voice_ : ~voices[v].newNotePending /\ ~Ending(voices[v])
        => \A v \in Voice_ : Sustains(voices[v]) => voices'[v] = voices[v]]_vars

(* When the last key and the pedal have come up, every voice ends: no note    *)
(* stays pending or flagged for ever (nextBlock, endNoteOrBeginNextOne).      *)
FallsSilent ==
    (down = {} /\ ~holdPedal_) ~> (down # {} \/ holdPedal_ \/ \A v \in Voice_ : ~voices[v].playing)
=============================================================================
