------------------------------- MODULE Voice --------------------------------
(***************************************************************************)
(* synth/Voice.cpp: the life of one voice, as operators on a record of its  *)
(* flags.  The samples are left out; of the six envelopes remains one       *)
(* state, that of the carriers, on which the voice ends.                    *)
(*                                                                          *)
(* A note that takes a sounding voice is pending: the voice is released     *)
(* quickly and plays the note when it is silent.  `how' holds the play mode *)
(* and the glide type of the instrument.                                    *)
(***************************************************************************)
EXTENDS Naturals

PlayModes == {"MONO", "POLY", "UNISON"}
GlideTypes == {"OFF", "OVERLAP", "ALWAYS"}
EnvStates == {"on", "release", "quick", "dead"}

(* nextGlidingNote and pendingNote hold 0 for none. *)
None == 0

Silent ==
    [playing |-> FALSE, released |-> FALSE, note |-> None,
     newNotePending |-> FALSE, pendingNote |-> None,
     newNotePlayed |-> FALSE, noteAlreadyFinished |-> 0,
     nextGlidingNote |-> None, newGlide |-> FALSE,
     holdedByPedal |-> FALSE, env |-> "dead"]

Glides(how) == how.mode # "POLY" /\ how.glide # "OFF"

(* glideFirstNoteOff(): the note that the voice glides to becomes its note. *)
GlideFirstNoteOff(v) == [v EXCEPT !.note = v.nextGlidingNote, !.nextGlidingNote = None]

(* glideToNote: under the pedal, the glide replaces the note at once. *)
GlideToNote(v, n) ==
    LET gliding == [v EXCEPT !.nextGlidingNote = n]
    IN  IF v.holdedByPedal THEN GlideFirstNoteOff(gliding) ELSE gliding

(* noteOn(): the envelopes start with the next block. *)
NoteOn(v, n, how) ==
    LET from == IF how.mode # "POLY" /\ how.glide = "ALWAYS"
                  THEN [GlideToNote(v, n) EXCEPT !.newGlide = TRUE] ELSE v
    IN  [from EXCEPT !.note = n, !.playing = TRUE, !.released = FALSE,
                     !.newNotePending = FALSE, !.pendingNote = None,
                     !.newNotePlayed = TRUE, !.noteAlreadyFinished = 0,
                     !.holdedByPedal = FALSE]

(* Bug: the mark of a note not yet played survives. *)
NoteOnWithoutPopKeepsPlayed(v, n, how) ==
    IF ~v.released /\ Glides(how)
      THEN [GlideToNote(v, n) EXCEPT !.newGlide = FALSE, !.holdedByPedal = FALSE,
                                     !.noteAlreadyFinished = 0]
      ELSE [v EXCEPT !.note = n, !.released = FALSE,
                     !.newNotePending = TRUE, !.pendingNote = n,
                     !.noteAlreadyFinished = 0, !.env = "quick"]

(* noteOnWithoutPop(): glide to the note, or let the voice die first. *)
NoteOnWithoutPop(v, n, how) ==
    IF ~v.released /\ Glides(how)
      THEN [GlideToNote(v, n) EXCEPT !.newGlide = FALSE, !.holdedByPedal = FALSE,
                                     !.noteAlreadyFinished = 0]
      ELSE [v EXCEPT !.note = n, !.released = FALSE,
                     !.newNotePending = TRUE, !.pendingNote = n,
                     !.newNotePlayed = FALSE, !.noteAlreadyFinished = 0,
                     !.env = "quick"]

(* The flag of a note-off that reached a pending note: +128 in a char. *)
Flagged(v) == v.newNotePending /\ v.pendingNote > 127

(* noteOff: ends the note, or leaves a mark when it is pending or unplayed. *)
NoteOff(v) ==
    CASE ~v.playing -> v
      [] v.playing /\ v.newNotePending -> [v EXCEPT !.pendingNote = (@ + 128) % 256]
      [] v.playing /\ ~v.newNotePending /\ v.newNotePlayed -> [v EXCEPT !.noteAlreadyFinished = 1]
      [] OTHER -> [v EXCEPT !.released = TRUE, !.holdedByPedal = FALSE, !.env = "release"]

(* killNow, and noteOffQuick, which only releases what already sounds. *)
KillNow(v) ==
    [v EXCEPT !.playing = FALSE, !.released = FALSE,
              !.newNotePending = FALSE, !.pendingNote = None,
              !.newNotePlayed = FALSE, !.noteAlreadyFinished = 0,
              !.nextGlidingNote = None]

NoteOffQuick(v) ==
    CASE ~v.playing -> v
      [] v.playing /\ v.newNotePlayed -> KillNow(v)
      [] OTHER -> [v EXCEPT !.released = TRUE, !.holdedByPedal = FALSE, !.env = "quick"]

CancelPendingNoteOn(v) ==
    [v EXCEPT !.newNotePending = FALSE, !.pendingNote = None,
              !.nextGlidingNote = None, !.newGlide = FALSE]

(* Bug: a pending note that was released is played in full. *)
EndNoteForgetsFlag(v, how) ==
    IF v.newNotePending THEN NoteOn(v, v.pendingNote % 128, how)
                        ELSE [v EXCEPT !.playing = FALSE, !.released = FALSE]

(* endNoteOrBeginNextOne(): the carriers are dead.  A pending note that was *)
(* already released is played for one block.                                *)
EndNoteOrBeginNextOne(v, how) ==
    CASE ~v.newNotePending -> [v EXCEPT !.playing = FALSE, !.released = FALSE]
      [] Flagged(v) -> [NoteOn(v, v.pendingNote - 128, how) EXCEPT !.noteAlreadyFinished = 1]
      [] OTHER -> NoteOn(v, v.pendingNote, how)

(* nextBlock(): `dies' says whether a release that is under way ends within *)
(* this block.                                                              *)
Dying(v) == ~v.newNotePlayed /\ v.env \in {"release", "quick"}

Rendered(v, dies, how) ==
    LET started == IF v.newNotePlayed THEN [v EXCEPT !.newNotePlayed = FALSE, !.env = "on"] ELSE v
    IN  IF dies \/ started.env = "dead"
          THEN EndNoteOrBeginNextOne([started EXCEPT !.env = "dead"], how)
          ELSE started

(* Bug: the blocks since an early note-off are not counted. *)
NextBlockCountsOnce(v, dies, how) ==
    LET w == Rendered(v, dies, how)
    IN  IF w.noteAlreadyFinished = 2 THEN NoteOff([w EXCEPT !.noteAlreadyFinished = 0]) ELSE w

NextBlock(v, dies, how) ==
    LET w == Rendered(v, dies, how)
    IN  CASE w.noteAlreadyFinished = 0 -> w
          [] w.noteAlreadyFinished = 2 -> NoteOff([w EXCEPT !.noteAlreadyFinished = 0])
          [] OTHER -> [w EXCEPT !.noteAlreadyFinished = @ + 1]

-----------------------------------------------------------------------------
(* A voice that will sound until somebody ends its note. *)
Sustains(v) ==
    /\ v.playing /\ v.noteAlreadyFinished = 0
    /\ IF v.newNotePending THEN ~Flagged(v) ELSE v.newNotePlayed \/ v.env = "on"

(* The notes whose note-off would reach the voice. *)
NotesOf(v) == {v.note, v.nextGlidingNote} \ {None}

VoiceType(notes) ==
    [playing : BOOLEAN, released : BOOLEAN, note : notes \cup {None},
     newNotePending : BOOLEAN, pendingNote : notes \cup {n + 128 : n \in notes} \cup {None},
     newNotePlayed : BOOLEAN, noteAlreadyFinished : {0, 1, 2},
     nextGlidingNote : notes \cup {None}, newGlide : BOOLEAN,
     holdedByPedal : BOOLEAN, env : EnvStates]
=============================================================================
