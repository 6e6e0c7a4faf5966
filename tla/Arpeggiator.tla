---------------------------- MODULE Arpeggiator ----------------------------
(***************************************************************************)
(* The arpeggiator of synth/Timbre.cpp: the keys held in the note stack are *)
(* played one after the other (or together) at the ticks of the internal or *)
(* of an external clock, and every note played is ended by a note-off that  *)
(* waits in the event scheduler.                                            *)
(*                                                                          *)
(* Every handler runs to completion.  The pattern only decides which steps  *)
(* are silent, and the duration when the note-off is due; both are chosen   *)
(* anew at every step, for a user may turn them at any time.                *)
(***************************************************************************)
EXTENDS NoteStack, EventScheduler

CONSTANTS Directions,   \* the directions the user may select
          Octaves,      \* engineArp1.octave
          Division,     \* ticks a step lasts
          Durations,    \* ticks a note may last
          IdleTicks,    \* 96 in the code
          MaxEdits      \* bound: changes of clock, direction, latch and pedal

Rotating == {"ROTATE_UP", "ROTATE_DOWN", "ROTATE_UP_DOWN", "SHIFT_UP", "SHIFT_DOWN", "SHIFT_UP_DOWN"}
AllDirections == {"UP", "DOWN", "UP_DOWN", "PLAYED", "RANDOM", "CHORD"} \cup Rotating
ASSUME ArpeggiatorAssumption ==
    /\ Directions \subseteq AllDirections /\ Octaves \in 1 .. 3
    /\ Division \in 1 .. 192 /\ Durations # {} /\ Durations \subseteq 1 .. 192
    /\ IdleTicks \in Nat \ {0} /\ MaxEdits \in Nat

VARIABLES stack,      \* note_stack_
          queue,      \* event_scheduler_
          sounding,   \* notes that were sent a note-on and no note-off since
          lost,       \* notes whose last note-off met a full queue
          clock, direction, latch_, ignore_note_off_messages_,
          recording_, running_, idle_ticks_, tick_,
          at,         \* current_step_, start_step_, current_octave_, current_direction_
          edits
output == <<queue, sounding, lost>>
settings == <<clock, direction, latch_, ignore_note_off_messages_, edits>>
ticks == <<idle_ticks_, tick_>>
vars == <<stack, output, settings, recording_, running_, ticks, at>>

Descending == {"DOWN", "ROTATE_DOWN", "SHIFT_DOWN"}
CanChangeDir == {"UP_DOWN", "ROTATE_UP_DOWN", "SHIFT_UP_DOWN"}
CanTranspose == {"SHIFT_UP", "SHIFT_DOWN", "SHIFT_UP_DOWN"}
DirectionOf(d) == IF d \in Descending THEN -1 ELSE 1
NotStarted == 127

(* Start(): the next step begins the arpeggio. *)
StartedAt == [at EXCEPT !.octave = NotStarted, !.direction = DirectionOf(direction)]

Init ==
    /\ stack = EmptyStack /\ queue = EmptyQueue /\ sounding = {} /\ lost = {}
    /\ clock = "INTERNAL" /\ direction \in Directions
    /\ latch_ = FALSE /\ ignore_note_off_messages_ = FALSE
    /\ recording_ = FALSE /\ running_ = TRUE /\ idle_ticks_ = IdleTicks
    /\ tick_ = Division - 1
    /\ at = [step |-> 0, start |-> 0, octave |-> NotStarted, direction |-> DirectionOf(direction)]
    /\ edits = 0

-----------------------------------------------------------------------------
SendNoteWithoutRemove(out, note, duration) ==
    [queue |-> Scheduled(out.queue, note, duration - 1),
     sounding |-> out.sounding \cup {note},
     lost |-> IF FreeEvents(out.queue) = {} THEN out.lost \cup {note} ELSE out.lost \ {note}]

(* SendNote: a note-off that waits for the note is sent at once.  The       *)
(* output is a record of queue, sounding and lost.                          *)
SendNote(out, note, duration) ==
    LET removed == Removed(out.queue, note)
        full == FreeEvents(removed) = {}
    IN  [queue |-> Scheduled(removed, note, duration - 1),
         sounding |-> out.sounding \cup {note},
         lost |-> IF full THEN out.lost \cup {note} ELSE out.lost \ {note}]

(* SendScheduledNotes, and FlushQueue, which repeats it until the queue is  *)
(* empty.                                                                   *)
Ended(q, slots) == {q.entries[i].note : i \in slots}
SendScheduledNotesSilently(out) == [out EXCEPT !.queue = Ticked(@)]

SendScheduledNotes(out) ==
    [out EXCEPT !.queue = Ticked(@), !.sounding = @ \ Ended(out.queue, ToSet(Due(out.queue)))]
Flushed(out) ==
    [out EXCEPT !.queue = EmptyQueue, !.sounding = @ \ Ended(out.queue, ToSet(Order(out.queue)))]

Current == [queue |-> queue, sounding |-> sounding, lost |-> lost]
Output(out) == queue' = out.queue /\ sounding' = out.sounding /\ lost' = out.lost

-----------------------------------------------------------------------------
(* StepArpeggio, with n > 0 keys held. *)
StartArpeggio(p) ==
    [p EXCEPT !.step = 0, !.start = 0, !.octave = IF p.direction = 1 THEN 0 ELSE Octaves - 1]

AdvancedToLast(p, n) ==
    LET wraps == p.step + 1 = n
    IN  [p EXCEPT !.step = IF wraps THEN 0 ELSE @ + 1, !.octave = IF wraps THEN @ + p.direction ELSE @]

Advanced(p, n) ==
    LET wraps == p.step + 1 >= n
        rotates == wraps /\ direction \in Rotating
        around == p.start + 1 >= n
    IN  [p EXCEPT !.step = IF wraps THEN 0 ELSE @ + 1,
                  !.start = IF ~rotates THEN @ ELSE IF around THEN 0 ELSE @ + 1,
                  !.octave = IF wraps /\ (rotates => around) THEN @ + p.direction ELSE @]

StepArpeggio(p, n) ==
    LET next == Advanced(p, n)
        turned == StartArpeggio([next EXCEPT !.direction = -@])
    IN  IF p.octave = NotStarted THEN {StartArpeggio(p)}
        ELSE IF direction = "RANDOM"
          THEN [step : 0 .. n - 1, start : {p.start}, octave : 0 .. Octaves - 1,
                direction : {p.direction}]
        ELSE IF next.octave \in 0 .. Octaves - 1 THEN {next}
        ELSE IF direction \notin CanChangeDir THEN {StartArpeggio(next)}
        ELSE IF n > 1 \/ Octaves > 1 THEN {Advanced(turned, n)} ELSE {turned}

(* The index of the key to play and its transposition.  Outside the list of *)
(* keys the code reads whatever it finds.                                   *)
Index(p, n) ==
    IF p.direction > 0
    THEN IF p.start + p.step >= n THEN p.start + p.step - n ELSE p.start + p.step
    ELSE IF p.start + p.step > n - 1 THEN 2 * n - 1 - (p.start + p.step)
         ELSE n - 1 - (p.start + p.step)
Transposition(p, n) ==
    IF direction \notin CanTranspose \/ p.start + p.step < n THEN 0 ELSE 12 * p.direction
KeysAt(index) ==
    IF direction = "PLAYED" THEN {PlayedNote(stack, index)}
    ELSE IF index \in 0 .. Size(stack) - 1 THEN {SortedNote(stack, index)}
    ELSE Keys \cup {kFreeSlot}
Folded(note) == IF note <= 127 THEN note ELSE note - 12 * ((note - 116) \div 12)

(* What a step of the pattern plays, and the position after it. *)
Steps(out, duration) ==
    LET n == Size(stack)
        chord[i \in 0 .. n] ==
          IF i = 0 THEN out ELSE SendNote(chord[i - 1], SortedNote(stack, i - 1), duration)
    IN  IF n = 0 THEN {[out |-> out, at |-> at]}
        ELSE IF direction = "CHORD" THEN {[out |-> chord[n], at |-> at]}
        ELSE UNION {{[out |-> SendNote(out, Folded((key + 12 * p.octave + Transposition(p, n)) % 256),
                                       duration),
                      at |-> p] : key \in KeysAt(Index(p, n))} : p \in StepArpeggio(at, n)}

Tick ==
    LET idle == (IF Size(stack) > 0 THEN 0 ELSE idle_ticks_) + 1
        stops == idle >= IdleTicks /\ clock = "INTERNAL"
        ended == SendScheduledNotes(IF stops THEN Flushed(Current) ELSE Current)
    IN  /\ idle_ticks_' = IF idle >= IdleTicks THEN IdleTicks ELSE idle
        /\ running_' = (running_ /\ ~stops)
        /\ \/ tick_' = (IF tick_ + 1 >= Division THEN 0 ELSE tick_ + 1) /\ Output(ended) /\ UNCHANGED at
           \/ /\ tick_ + 1 >= Division /\ tick_' = 0
              /\ \E duration \in Durations : \E s \in Steps(ended, duration) :
                   Output(s.out) /\ at' = s.at
        /\ UNCHANGED <<stack, settings, recording_>>

(* updateArpegiatorInternalClock from the audio interrupt; OnMidiClock. *)
InternalTick == clock = "INTERNAL" /\ Tick
ExternalTick == clock = "EXTERNAL" /\ running_ /\ Tick

-----------------------------------------------------------------------------
(* Keys, from MIDI or from the sequencer; with the clock off the keys go    *)
(* straight to the voices.                                                  *)
ArpeggiatorNoteOn(note) ==
    /\ clock # "OFF"
    /\ IF clock = "INTERNAL"
         THEN /\ IF idle_ticks_ >= IdleTicks \/ ~running_
                   THEN at' = StartedAt /\ running_' = TRUE /\ tick_' = Division - 1
                   ELSE UNCHANGED <<at, running_, tick_>>
              /\ idle_ticks_' = 0
         ELSE UNCHANGED <<at, running_, ticks>>
    /\ LET recording == recording_ /\ ~(clock = "INTERNAL" /\ (idle_ticks_ >= IdleTicks \/ ~running_))
           fresh == latch_ /\ ~recording
       IN  /\ stack' = NoteOn(IF fresh THEN Clear(stack) ELSE stack, note)
           /\ recording_' = (recording \/ fresh)
    /\ UNCHANGED <<output, settings>>

ArpeggiatorNoteOff(note) ==
    /\ clock # "OFF" /\ ~ignore_note_off_messages_
    /\ IF latch_ THEN /\ recording_' = (recording_ /\ note # MostRecentNote(stack))
                      /\ UNCHANGED stack
                 ELSE stack' = NoteOff(stack, note) /\ UNCHANGED recording_
    /\ UNCHANGED <<output, settings, running_, ticks, at>>

-----------------------------------------------------------------------------
(* MIDI transport, of use to the external clock only. *)
OnMidiStart ==
    /\ clock = "EXTERNAL"
    /\ at' = StartedAt /\ recording_' = FALSE /\ running_' = TRUE /\ tick_' = Division - 1
    /\ UNCHANGED <<stack, output, settings, idle_ticks_>>
OnMidiContinue ==
    /\ clock = "EXTERNAL" /\ ~running_ /\ running_' = TRUE
    /\ UNCHANGED <<stack, output, settings, recording_, ticks, at>>
OnMidiStop ==
    /\ clock = "EXTERNAL" /\ running_ /\ running_' = FALSE
    /\ Output(Flushed(Current))
    /\ UNCHANGED <<stack, settings, recording_, ticks, at>>

(* Parameters.  A change of clock releases all voices first.                *)
Edit == edits < MaxEdits /\ edits' = edits + 1
SetArpeggiatorClock ==
    /\ Edit
    /\ \E c \in {"OFF", "INTERNAL", "EXTERNAL"} \ {clock} :
         /\ clock' = c
         /\ stack' = IF c = "OFF" THEN Clear(stack) ELSE stack
         /\ queue' = IF c = "OFF" THEN EmptyQueue ELSE queue
         /\ running_' = (running_ \/ c = "EXTERNAL")
    /\ sounding' = {} /\ lost' = {}
    /\ UNCHANGED <<direction, latch_, ignore_note_off_messages_, recording_, ticks, at>>

SetDirection ==
    /\ Edit
    /\ \E d \in Directions \ {direction} :
         /\ direction' = d
         /\ at' = StartArpeggio([at EXCEPT !.direction = DirectionOf(d)])
    /\ UNCHANGED <<stack, output, clock, latch_, ignore_note_off_messages_, recording_, running_,
                   ticks>>

SetLatchMode ==
    /\ Edit
    /\ latch_' = ~latch_
    /\ stack' = IF latch_ THEN Clear(stack) ELSE stack
    /\ recording_' = (recording_ /\ ~latch_)
    /\ UNCHANGED <<output, clock, direction, ignore_note_off_messages_, running_, ticks, at>>

SetHoldPedal ==
    /\ Edit
    /\ ignore_note_off_messages_' = ~ignore_note_off_messages_
    /\ stack' = IF ignore_note_off_messages_ THEN Clear(stack) ELSE stack
    /\ UNCHANGED <<output, clock, direction, latch_, recording_, running_, ticks, at>>

(* resetArpeggiator: the sequencer stops, a patch or a channel changes.     *)
ResetArpeggiator ==
    /\ Output(Flushed(Current))
    /\ stack' = Clear(stack)
    /\ running_' = (running_ \/ clock = "EXTERNAL")
    /\ recording_' = (recording_ /\ latch_)
    /\ UNCHANGED <<settings, ticks, at>>

Next ==
    \/ InternalTick \/ ExternalTick
    \/ \E note \in Keys : ArpeggiatorNoteOn(note) \/ ArpeggiatorNoteOff(note)
    \/ OnMidiStart \/ OnMidiContinue \/ OnMidiStop
    \/ SetArpeggiatorClock \/ SetDirection \/ SetLatchMode \/ SetHoldPedal \/ ResetArpeggiator

(* The audio interrupt keeps calling updateArpegiatorInternalClock: the     *)
(* internal clock, while it is selected, does not stop.  When a step has    *)
(* several ticks, each of them moves tick_ by one, and nothing else does    *)
(* time and again.                                                          *)
ClockAdvances == clock = "INTERNAL" /\ tick_' = (tick_ + 1) % Division
Spec == Init /\ [][Next]_vars /\ WF_tick_(ClockAdvances)

-----------------------------------------------------------------------------
Note == 0 .. 127
Position == [step : 0 .. kNoteStackSize - 1, start : 0 .. kNoteStackSize - 1,
             octave : (0 .. Octaves - 1) \cup {NotStarted}, direction : {-1, 1}]
TypeOK ==
    /\ stack \in StackType /\ queue \in QueueType(Note, 0 .. Max(Durations) - 1)
    /\ sounding \subseteq Note /\ lost \subseteq Note
    /\ clock \in {"OFF", "INTERNAL", "EXTERNAL"} /\ direction \in Directions
    /\ {latch_, ignore_note_off_messages_, recording_, running_} \subseteq BOOLEAN
    /\ idle_ticks_ \in 0 .. IdleTicks /\ tick_ \in 0 .. Division - 1
    /\ at \in Position /\ edits \in 0 .. MaxEdits

(* note_stack.h promises the held keys, the most recent first. *)
HeldKeysSpec == INSTANCE HeldKeys WITH held <- HeldNotes(stack), Capacity <- kNoteStackSize
ImplementsHeldKeys == HeldKeysSpec!Spec

(* The two views of the held keys agree and the chain of slots ends where a *)
(* full stack looks for its oldest key; note-offs wait in the order in      *)
(* which they are due, and no slot of the queue is lost, also when entries  *)
(* become zombies, fall due together or are flushed.                        *)
LinksSound == StackWellFormed(stack) /\ QueueWellFormed(queue)

(* "Send a note on and schedule a note off later" (Timbre.cpp:2882): a note *)
(* that sounds has exactly one note-off waiting, so it neither hangs nor is *)
(* cut short by the note-off of an earlier turn.  A note-off that met a     *)
(* full queue is the exception: it is dropped, and nothing waits for the    *)
(* note.                                                                    *)
Waiting(note) == {i \in ToSet(Order(queue)) : queue.entries[i].note = note}
EveryNoteEndsOnce ==
    /\ \A note \in sounding \ lost : Cardinality(Waiting(note)) = 1
    /\ \A note \in lost : Cardinality(Waiting(note)) = 0

(* Only keys that are held are played, in whatever octave: the position in  *)
(* the arpeggio follows a stack that shrinks or is cleared between two      *)
(* steps.  "ROTATE modes rotate the first note played" (Timbre.cpp:67).     *)
PlaysHeldKeys ==
    [][\A note \in sounding' \ sounding :
         \E k \in DOMAIN HeldNotes(stack) : (note - HeldNotes(stack)[k]) % 12 = 0]_vars

(* Once all keys are released and the clock runs, silence follows.          *)
Silence ==
    <>[](clock = "INTERNAL" /\ Size(stack) = 0) => <>[](sounding \subseteq lost)
=============================================================================
