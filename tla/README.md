# A TLA+ model of the preenfm3 firmware

The preenfm3 is an FM synthesizer on an STM32H7: one core, no operating system.
The firmware is a main loop and a handful of interrupt handlers that share plain
C++ objects.  What goes wrong in such a program goes wrong between two accesses
of two contexts, between two calls to the SD card, or at the end of a ring, a
pool or a bar.  The modules here model those parts; the parameter tables, the
screens and the signal processing are left out.

- [The system](#the-system)
- [Modules](#modules)
- [Runs](#runs)
- [Fairness](#fairness)
- [What is proved](#what-is-proved)
- [Findings](#findings)
- [What is not modelled](#what-is-not-modelled)
- [Plan](#plan)

## The system

### Contexts

A smaller priority number is more urgent.  A handler interrupts anything less
urgent between any two instructions and then runs to its end; handlers of one
priority never interrupt each other.  The main loop is interrupted by all.

| context | priority | set at | does |
|---|---|---|---|
| USART1 | 1 | `stm32h7xx_hal_msp_pfm3.c:400` | receives DIN MIDI, drains `usartBufferOut` |
| USB (OTG_FS) | 1 | `usbd_conf.c:91` | receives USB MIDI, inserts thru bytes |
| SPI1 | 1 | `stm32h7xx_hal_msp_pfm3.c:223` | end of a transfer to the screen |
| DMA1 streams (audio) | 3 | `main.c:628-635` | `DecodeMidiIn`, then `buildNewSampleBlock` |
| SysTick | 4 | `Inc/stm32h7xx_hal_conf.h:152` | sequencer tick, encoders, drawing queue |
| main loop | - | `preenfm3.cpp:157-281` | editor, files, deferred actions |

### Components

| component | state | operations | talks to | hard because | correct when |
|---|---|---|---|---|---|
| `RingBuffer` (`lib/Inc/RingBuffer.h`) | `head`, `tail`, `buf` | `insert`, `insertChecked`, `hasRoomFor`, `remove`, two discards | carries every event between contexts | two users, no lock, unchecked inserts | elements come out in order, at most once, and checked ones all |
| DIN MIDI output | `usartBufferOut`, TXEIE, transmit FIFO | reserved and unreserved messages, patch dump, thru, drain | MidiDecoder, MidiControllerState, USART and USB interrupts | the interrupt disables itself over a ring others fill | bytes reach the wire in order, none is stranded, the dump ends |
| MIDI controller file | three files, the memory | `saveConfig`, `loadConfig`, `recoverConfigFile` | FatFs | power cuts and failing calls at any point | a configuration is never lost, torn or set back |
| Recorded-action lists (`Sequencer`) | slots, allocator, one cursor per instrument | record, walk, clear with compaction, change of length, repair | SysTick or MIDI clock walks, main loop edits | the walk comes between any two stores | each list holds what was recorded, and the walk plays it |
| Arpeggiator (`Timbre`, `note_stack`, `event_scheduler`) | held keys, note-off queue, position, clock | keys, latch, pedal, clock, ticks, reset | decode, sequencer, audio clock | the keys change under the position; the queue is short | held keys only are played, each note gets its one note-off |
| Sequence load (`SequenceBank`, `Sequencer`) | staged tables | commit, validate, repair, reset the cursors | FatFs, the walk | damaged chains that lead into sound ones | a sound list survives, no list trips afterwards |
| Sequencer transport, step sequencer | tempo, external clock, song position, steps | start, stop, clock, edit a step | the lists, Synth | 8- and 16-bit counters, two clocks | start, stop and rewind are modelled with the lists, the rest is not |
| `MidiDecoder` | parser, running status, song position, NRPN state | parse, route, send | everything that plays | realtime bytes inside messages, frames cut off, noise | what was sent is acted upon, once, and nothing else |
| Voice allocation (`Timbre`, `Voice`, `Synth`) | voices, stack of keys, pedal | note on and off, steal, glide, recall, silence | audio, decode, sequencer | a note-off finds its voice by number while notes wait and glide | a note ends when its key and the pedal come up |
| Encoders | debounced inputs, ring of 16 actions | `checkStatus`, `processActions` | SysTick produces, main consumes | presses that overlap | a press is told as one gesture |
| TFT (`TftDisplay`, `FirmwareTftDisplay`) | drawing queue, frame buffer, dirty parts, counters | draw, push over SPI, poll, reset, repaint | main, SysTick, SPI interrupt | three contexts, resets, failing transfers | the panel shows what was asked for |
| Bootloader | flash | copy a firmware file | FatFs, flash | power cuts, failing reads | not modelled |
| Sound generation, parameter tables, file formats, editor, vendored code | | | | | not modelled, see below |

`PROJECT.json` lists them with their sources, and under "hazards" each place
where the code is exposed, with the properties that watch it.

## Modules

| module | models | note |
|---|---|---|
| `Fifo` | what a ring promises | abstract |
| `RingBuffer` | `lib/Inc/RingBuffer.h` | refines `Fifo` |
| `MCRingBuffer` | the entry points the users of a firmware ring call | instances for TLC |
| `RingBufferProofs` | | theorems about `RingBuffer` |
| `MidiOut` | `usartBufferOut` and everyone who touches it | |
| `MidiOutProofs` | | theorems about `MidiOut`, and those of `MidiInProofs` for the decoder of `MCMidi` |
| `MidiIn` | the parser of `MidiDecoder.cpp` and its senders | |
| `MidiInProofs` | | theorems about `MidiIn` |
| `MCMidi` | | `MidiOut` and `MidiIn` side by side |
| `ConfigFile` | `MidiControllerFile.cpp` over FatFs | |
| `ConfigFileProofs` | | theorems about `ConfigFile`, and two of `FrontPanelProofs` for the buttons and the display of `MCFrontPanel` |
| `Encoders` | `lib/Src/Encoders.cpp` | |
| `Tft` | `TftDisplay.cpp`, `FirmwareTftDisplay.cpp`, the loop that uses them | |
| `FrontPanelProofs` | | theorems about `Tft` and `Encoders` |
| `MCFrontPanel` | | `ConfigFile`, `Encoders` and `Tft` side by side |
| `ActionList` | the lists of `Sequencer.cpp` | |
| `SequenceLoad` | the load of a stored sequence | extends `ActionList` |
| `ActionListProofs` | | theorems about `ActionList` and `SequenceLoad` |
| `HeldKeys` | what the note stack promises | abstract |
| `NoteStack`, `EventScheduler` | `midipal/note_stack`, `midipal/event_scheduler` | operators on a value, no variables |
| `Arpeggiator` | the arpeggiator of `Timbre.cpp` over both | refines `HeldKeys` |
| `ArpeggiatorProofs` | | lemmas: each operation of the two pools in terms of the lists they hold; theorems about `Arpeggiator` |
| `Voice` | `Voice.cpp` | operators on one voice, no variables |
| `Voices` | voice allocation of `Timbre.cpp` and `Synth.cpp` | |
| `VoicesProofs` | | theorems about `Voices` |

The three `MC` modules put components that share no state next to each other: a variable
of theirs (`ring`, `way`, `device`) says at the start whose behaviour this one is, and
the others never move.  So one run explores the union of the components'
behaviours, not their product, and checks the properties of all; those of an
instance appear under their own names.  Each component keeps its own `Spec`, and the
fairness there is restated for the combined state.

Operators whose name says what they do wrong (`WrapTooLate`, `MakeRoomForgetNewest`)
are mutants: each stands before the definition it replaces, and PROJECT.json
names the property that fails when it does.  No specification uses them.

### RingBuffer

One step is one access to the shared words.  `Urgent` names the user that runs in
the more urgent context: it starts at any point of the other, which resumes only
when it is idle again (`ProducerRuns`, `ConsumerRuns`).  `getCount()` reads each
index twice, so its answer can be computed from two different states; `CountOf`
takes both pairs of reads, and `CountRead`/`CountDecide` and
`ReserveRead`/`ReserveDecide` make them.  Elements are numbered in the order in
which they are made, so that "newer" is "greater".  `clear()` is called at start-up
only and is `Init`.

`ImplementsFifo` maps the unread slots to the queue; a pending
`discardAllFromConsumer()` counts as done from its read of `tail`, as the comment
at `RingBuffer.h:36-39` has it.  `NeverStale` says of the rings with unchecked
inserts what remains true of them: elements may be lost, all at once, but what comes
out is ever newer.  It excepts the time inside `discardAllFromProducer()`: between the
store at `RingBuffer.h:60` and the recheck the tail can stand behind the head, and
a consumer that comes at this moment reads old slots.  Its comment promises an empty
ring when the call returns, which is `DiscardLeavesEmpty`.

### MidiOut

`head` and `tail` are volatile, so each time the source names one it is read again, and
main can be interrupted between any two of these reads.  Its `insert()` is
`LoadTail` and `StoreSlot` for `RingBuffer.h:68`, and `CompareTail`, `AddOne` and
`PublishTail` for the two reads and the store of line 69; `getCount()` is
`ReadTail`, `Subtract`, `RereadTail` and a last read of `head`, in `DecideRoom` when
`hasRoomFor` asks and in `WaitDrained` when the dump waits.  Both
interrupts have priority 1, hence are atomic (`UsartTx`, `UsartRx`, `UsbRx`).
`callers` is the set of senders that occur together: MIDI controller mode never
runs beside the synth.  Main's bytes are numbered from 1, thru bytes are all
alike; `wire` is what was written to the transmit register.

Two things go wrong in this code, and each is remembered, so that the properties can say
what remains true until it happens, or in spite of it.
`tornInsert`: with MIDI thru on, an interrupt has inserted within an `insert()` of main.
Main then overwrites its byte or skips it; and if that came between the two
reads of `tail` at line 69 while `tail` was size - 2, main stores `tail` = size.
`tail` is outside the ring from then on, where `head` never comes: the ring is never
empty again.
`tornRoom`: `hasRoomFor` has answered TRUE upon a negative count, because the drain wrapped `head` between
its two reads (`ring_room_claim`).

- `TypeOK` has `tail` inside the ring until `tornInsert`.
- `WireInOrder` says that main's bytes rise on the wire, with thru bytes anywhere between them and
  overruns by unreserved messages, until `tornInsert`.
- `WireComplete` says that reserved messages and dumps lose nothing, without thru bytes and until `tornRoom`.
  A dump asks for no room, and its wait reads the same torn count, which may end it with bytes left in the
  ring; the next dump must not overrun them.
- `NeverStranded` holds throughout, with `tail` outside the ring too.
- `DumpEnds` says that the wait ends unless `tail` has left the ring.

What lies behind the ring in memory is not modelled: a byte stored there is lost.  The
history `wire` ends at `tornInsert`, for no property asks for more.

### MidiIn

`NewByte` is `newByte` for bytes below F8; the four realtime bytes are actions of
their own, which come between any two bytes.  Senders encode whole messages: they leave
out the status byte where running status allows it, and may stop in the middle of a system
exclusive frame when the next message begins with a status byte.  `due` is what a byte
should have caused the decoder to act upon, known to the sender when it sends the last
byte of a message; `DeliversWhatWasSent` compares it with what the code did, and the
song position with the one of the master.  In the other half of the behaviours the
cable carries noise first, then the probe of `tests/midi_decoder_fuzz_test.cpp`.

One instrument listens on one channel, so a message of another channel is one that
`midiEventReceived` leaves early.  That early return is on the path of
`newMessageData`, and a bug there is a mutant.  MPE, NRPN and the effect of messages on the
synth are left out; of those effects the run needs `CC_RESET`, which changes the parser itself.
The master continues on a sixteenth note and starts only when it is stopped, as the MIDI
specification has it.

### Encoders

One scan (`CheckStatus`) is one step: it reads the whole panel and then runs the two
loops of `checkStatus`, the second as a function over the buttons in scan order, since what
it does to one depends on those before.  A turn is -1, 0 or 1; the decoding of
the two phases and the speed are left out.  `history` collects what a press has
caused, so that `OneGesturePerPress` can compare a whole press with its gestures.

### Tft

The tic is four actions, of which one is possible at each time, as its branches are
(a poll every 500 ms, a push every 20, a drawing otherwise).  The main loop is split
wherever the tic may come between two of its accesses: around the counter of
queued shapes (`AskShape`, `CountShape`, `InsertShape`) and through `reset`.  Three
counters work alike; the model has `envInQueue`.  A part of the screen is a number, the
drawing asked for last; a part in the frame buffer, on its way and on the panel
are three different things, and a transfer is taken to have read its part when it
began, which is the worst for a drawing that comes during it.  `discardAllFromProducer` is
atomic here, and `RingBuffer` takes it apart.

A repaint fills the screen, then asks for each part again.  `FMDisplay3::newTimbre` queues
the first two steps of it itself; here they are steps of the repaint, which
follow at once.  Only a full queue separates the two, and `Insert` has a guard against
that: the ring of 127 actions overruns when it is full, the model does not go there.

### ConfigFile

The card is a function from the three file names to contents.  A content is one of
the numbered configurations, `Bad` (wrong size or version), or `Mixed`: half of one
save and half of another, which has the right size and version and so passes
`isValidConfigFile`.  Each step makes one FatFs call that changes the card,
with the reads before it; nobody else writes these files, so a cut among the reads
leaves what a cut before them leaves.  A fault is a power cut or a call that fails;
`Faults` says which are in scope.

### ActionList

The table of slots, with a head and a tail sentinel per instrument, is as in the
code.  The walk (`mainSequencerTic`) runs to completion; every store of the main loop
is a step, except these: the links of the cursors of one instrument are translated in one step,
the free of the cleared list's slots is one step, and the test and the insertion
that read only main's own data are joined.  `Path` and `Stops` replace the code's
loop over the links: the turns until the first one that leaves the window, is unsafe,
or exceeds the hop budget.  The sequencer's precount is collapsed into `Start`.
Initially the table is as `reset()` leaves it.  Resynchronisation moves in steps of one,
as with the internal clock.

`recorded` is a history variable: the notes accepted and not yet cleared.

### SequenceLoad

A load copies table and state, validates all active lists together and resets
the cursors, while `actionListLoadInProgress_` makes each walk return at once.  The
three steps are `CopySequence`, `ValidateActionListsGlobalOnLoad` and
`FinishActionListLoad`; a slot of the bank that cannot be read or has an unacceptable state
is given up before the first of them.  The stored table holds two slots
whose links lead to each other, to themselves, to either tail or to a head, whose times may
fall, of which one may be free; or a damaged sentinel; or a limit out of range.  All
actions of `ActionList` go on before and after.

`SoundListsSurvive` is what the comment at `Sequencer.cpp:890-920` says: whatever the
damaged lists lead into, a sound list keeps its slots, its links and its activity.
`ListsHoldWhatWasRecorded` and `NeverTrips` then say that the running sequencer goes on
as if the lists had been recorded.

### NoteStack, EventScheduler, Arpeggiator

Slots are numbered as in the code, and a free or a zombie slot is one whose note is
255 or 254; both pools are records, and their operations are operators from
record to record.  `Arpeggiator` calls them as
`Timbre.cpp` does; each handler is one step.  What the pattern selects and how
long a note lasts are chosen anew at each step, for a user may turn both at any
time.  Velocities are left out.  An index outside the sorted or played keys reads
whatever the slots there hold, so `KeysAt` allows any value for it.  `lost` holds the
notes whose note-off was dropped by a full queue: a removed entry keeps its slot as a
zombie until it is due, so long durations at short divisions fill the queue.
`LinksSound` is about both pools: the orders agree, the chain ends where a full
stack looks for its oldest key, and no slot of the queue is lost.

### Voice, Voices

`Voice` has the flags of a voice and one operator per method; `Voices` has the instrument:
the choice of a voice, the keys of MONO mode, the pedal, and the five ways to
silence it (key up, pedal up, `allNoteOff`, `allSoundOff`, and what a change of routing and a loaded
sequence do).  Decoding and rendering run in one interrupt, so a handler is a step.
The six envelopes are one state, that of the carriers, for these decide when a voice
ends.  `voiceIndex_` only orders voices by age and is replaced by that
order; its wrap after 2^32 notes is left out, and so is MIDI note 0, which the code
confuses with "none" in `pendingNote` and `nextGlidingNote`.  Looping
envelopes appear only as modulators.  A change of play mode or of the number of
voices while notes sound, the load of a patch, and MPE are not modelled.

`down` is the history that gives the properties their meaning: the keys whose
note-off is still to come.  A note that must not hang is one that
`Sustains`: nothing in its state will end it.

## Runs

| run | asks | bounds |
|---|---|---|
| `rings` | are the `asyncActions` queues FIFOs, and what survives unchecked inserts and discards by the producer? | 4 slots; 9 elements and 8: the indexes wrap twice, the ring fills, overruns and is discarded at every point |
| `midi` | do MIDI bytes leave, in order, and does the dump end? does the parser act upon what was sent? | out: a ring of 7, messages and dumps of 3, a FIFO of 2, 15 bytes, five sets of senders; in: 3 messages of 8 kinds and frames that fill the buffer and overrun it by one and two, 7 clocks, 5 bytes of noise |
| `front_panel` | do cuts and failing calls lose a configuration? is a press one gesture? does the panel end up right? | 3 configurations and 5 faults of any kind but reads; 3 buttons, a click after 2 scans and a long press after 4; 2 parts, a queue of 4, 3 requests, 2 failures |
| `sequences` | do the lists hold what was recorded or loaded, and does the walk play it? | 2 instruments, 3 dynamic slots, bars of 2 and 4, windows up to 2 ticks, 3 notes and 2 edits but not more than 3 of both (`MaxWork`), a load and a note after it |
| `arpeggiator` | are the held keys played, and does every note end? | a stack of 2 and three keys, a queue of 3, played/up-down/chord, notes of 1 and 3 ticks, 1 edit |
| `voices` | does every note end when it should, and none before? | 2 voices, 3 keys, a stack of 2, every play mode and glide type |
| `ring_room_claim` | is a reservation honoured when the interrupt only drains? | expects a violation |
| `config_read_claim` | does recovery keep a valid file when reads fail? | expects a violation |
| `seq_bars_claim` | does a shortened list loop within its bar? | expects a violation |
| `seq_clear_claim` | does a list survive the clearing of another in a running sequencer? | expects a violation |
| `arp_rotate_claim` | do the ROTATE modes play held keys? | expects a violation |
| `voice_ghost_claim` | does a note-off never bring back a silenced key? | expects a violation |

**Why the bounds are enough.**  The rings, the stack, the queue and the pool are
small, so that all their limits are met: full, empty, wrapped, exhausted.  The
ring only distinguishes empty, full, one slot before either, and wrapped or not; four slots have
all of these, and the theorems cover every size.  The file: one cut, or a
failing call and a cut, inside each of two successive saves needs four faults.
The buttons: three are enough for one that is first, one that comes to it
and one that comes when the first has gone; the times keep the order of 15, 350
and one scan.  The display: two parts have the one that is pushed and one that waits; a
repaint has five steps and stops and resumes at a queue of two; two failures are
two bad polls in a row, or a transfer that cannot start and a later one.
`sequences`: three notes are the fewest that have one before, one after and one
in between; with bars of 2 and 4, a list is shorter than the sequence,
as long as it, or changes between the two; a clear needs a second list to move.  A
load uses up the edits and leaves one note, which meets a full array when the stored
limit is the end of the array.  `MaxWork` still lets a slot be given back by a clear and
taken again, which needs two notes and one edit.
`arpeggiator`: the third key overflows the stack, and notes of 3 ticks in
steps of 2 overlap and leave zombies.  `voices`: three keys on two voices steal, and
overflow the stack.  `midi`: 7 is not a multiple of 3,
as 64 is not one of 12, so that the third dump lies across the end of the ring; the count
of its wait can be torn, and the fourth meets what it has left.  Three messages to the parser have a state that the first one leaves,
the second uses and the third restores; seven clocks are one more than a sixteenth.

`CHECK_DEADLOCK FALSE` stands where the bound on elements, bytes, notes or requests ends
the behaviour (`rings`, `midi`, `sequences` and their claims, and the display
in `front_panel`); `ConfigFile` alone, `Arpeggiator` and `Voices` never stop, and there
deadlock is checked.

In `midi`, `ThruWeight` makes one thru byte count as 4 of the 15 bytes of a
behaviour: this keeps the history `wire` finite without forbidding either source.  One
byte of the USART, or one message of USB, fits beside main's messages at every
point of them, and are enough to put `tail` outside the ring.

### Windows

Some sequences of calls break a property, and nothing in the repository states the
contrary, or there is already a run for the same defect.  They are
parameters of the modules, closed in the passing runs and never left out
silently; each one opened makes TLC find the property violated.

| parameter | what happens in it | property |
|---|---|---|
| `ChangeWhilePending` (`ActionList`) | `setNumberOfBars` stores mask, tail time and flag one by one (`Sequencer.cpp:174-179`).  If the flag is still set from an earlier change, a walk between the first two resynchronises with the longer mask against the shorter tail, passes the tail, and `handleActionListTrip` deactivates a sound list, which lines 83-86 call "corruption" | `NeverTrips` |
| `ClearWhileRunning` (`ActionList`) | see `seq_clear_claim` | `OthersSurviveClear` |
| `StrayLists` (`SequenceLoad`) | a stored inactive list that is damaged is left as it is; the first note recorded into it repairs it with `resetMalformedActionList`, which frees every slot its links reach, those of other lists included (`Sequencer.cpp:809`, `:828`).  The comments at 716-722 and 945-953 rule this out during the load only | `ListsHoldWhatWasRecorded` |
| `PushChanges` (`Encoders`) | the setting changes while an encoder's button is down: it leaves the scan, is never released, and stays `firstButtonDown_` (`Encoders.cpp:187`) | `OneGesturePerPress` |
| `Sources` (`MidiIn`) | DIN and USB bytes go through one parser (`preenfm3.cpp:323-330`): a message of one cable that is cut by an empty ring swallows the beginning of the other's | `DeliversWhatWasSent` |
| `RunsOnAfterReset` (`MidiIn`) | `CC_RESET` clears the running status (`MidiDecoder.cpp:567`), its sender need not know; `tests/midi_decoder_test.cpp:718` has the present behaviour | `DeliversWhatWasSent` |
| `Windows` (`Voices`) | six, described in the module: a second note-off for a pending note, a pedal over one, a glide cut short, a glide from an ended note, the stack of keys that outlives `allNoteOff` (`voice_ghost_claim`), unison voices that end apart | `NoteNeverHangs`, `MonoSounds`, `FallsSilent` |

In `Tft`, a reset throws the queue away and the repaint after it does not ask for the
envelope again: `excused` is set then, until the next one is asked for.

## Fairness

`MidiOut`: the transmitter shifts bytes by its own clock (`Shift`); a pending,
enabled interrupt is taken (`UsartTx`); a message the main loop has begun goes on,
for interrupts end.  Nobody has to begin a message, and no input has to arrive.

`Tft`: the tic comes every millisecond, and every 20 of them with time for a push, so
`DrawStep` and `PushToTft` are each weakly fair; a transfer ends (`PushToTftFinished`), as the
SPI interrupt promises; and the main loop goes on with what it has begun (`Continue`: a
repaint, a reset, a request).  Nobody has to ask for a drawing, and polls are not needed.

`Arpeggiator`: the audio interrupt calls `updateArpegiatorInternalClock` for each
block, so while the internal clock is selected its ticks go on.  The fairness is
stated over `tick_`, the counter that each such tick moves by one when a step lasts
more than one tick.

`Voices`: the same interrupt computes block after block (`VoicesNextBlock`), and the
release of a voice ends in one of them, for a release has a finite time.

The other modules have safety properties only.

## What is proved

By TLAPS, for every value of the constants that their modules' assumptions allow:

| theorem | says | assumes besides |
|---|---|---|
| `RingTypes` | both indexes stay inside the ring | nothing: any size, urgent user and entry points |
| `RingImplementsFifo` | the ring refines `Fifo` | `CheckedOnly`: the producer calls `insertChecked` alone |
| `RingNeverStale` | elements come out ever newer, even from a ring that is overrun | `Urgent = "consumer"` or no `discardProducer` |
| `RingDiscardLeavesEmpty` | a discard by the producer ends with an empty ring | nothing |
| `MidiOutTypes` | the transmit FIFO is not overrun, and `tail` stays in the ring until an interrupt inserts within an insert of main | nothing |
| `MidiOutNeverStranded` | bytes never lie in the ring with nobody to announce them | nothing |
| `MidiOutWireInOrder` | main's bytes reach the wire in order and never twice, up to the same moment | nothing |
| `MidiOutWireComplete` | none is lost of reserved messages and dumps, up to a reservation upon a torn count | nothing; the module itself assumes that a dump (12 bytes of 64) fills at most half the ring |
| `MidiInDelivers`, `MidiDelivers` | the parser acts upon exactly what its sender sent, and its song position is the sender's | `Senders`, `OneCable`, `~RunsOnAfterReset` |
| `MidiInResyncs`, `MidiResyncs` | after any noise and the end of a frame, one of two clean notes is heard | `SysexSize` is a number, noise is bytes |
| `CardTypes` | the files hold what a file can hold | nothing |
| `CardNeverTorn` | a torn file is never what a load would take | `NoReadFaults` |
| `CardNeverBackwards` | what the card has to load is never lost, nor replaced by something older | `NoReadFaults` |
| `CardLoads` | a load takes what is there | `NoReadFaults` |
| `CardCleanSaveCommits` | a save during which nothing fails ends with the memory in the canonical file, alone | nothing |
| `TftBusHasOneMaster`, `PanelBusHasOneMaster` | no transfer runs while the main loop initialises the panel | nothing |
| `TftOwnedBusIsQuiet` | the interrupts start nothing on a bus the main loop owns | nothing |
| `TftQuietShows` | whenever the display has come to rest, the panel shows what was asked for last, and pushes go on | `DisplaySizes`: at least one part |
| `EncOneGesturePerPress`, `PanelOneGesturePerPress` | a press is told as one gesture, a long one is never without | `PanelOK`, `~PushChanges` |
| `ListTypes` | links, cursors and the allocator stay in their bounds, in `LoadSpec` | nothing: all windows may be open |
| `LoadKeepsSoundLists` | validation leaves every sound list whole | nothing |
| `ListsAreKept` | every list is a chain in time order that holds exactly the notes it accepted | `~ClearWhileRunning`, `~ChangeWhilePending`; in `Spec`, without a load |
| `WalksNeverTrip` | no walk is ever stopped by its safety bounds | the same |
| `WalksPlayOnce` | a walk plays no slot twice, and only notes of its list | the same |
| `ArpTypes` | no index leaves its pool, no note-off waits too long | nothing |
| `ArpLinksSound` | both views of the held keys agree, note-offs wait in order, no slot is lost | nothing |
| `ArpEveryNoteEndsOnce` | a note has one note-off waiting, or none if a full queue dropped it | nothing |
| `ArpImplementsHeldKeys` | the linked pool refines `HeldKeys` | nothing |
| `ArpPlaysHeldKeys` | only held keys are played | no rotating direction |
| `VoicesTypes` | types, ages and the stack of MONO mode | nothing: all windows may be open |
| `VoicesNoteNeverHangs` | a note that sounds has a key that is down, or the pedal | `Windows = {}` |
| `VoicesMonoSounds` | in MONO mode something sounds while a remembered key is down | `Windows = {}` |
| `VoicesNoNeedlessSteal` | no voice is taken whose key is down while there are enough voices | `Windows = {}` |

Each hypothesis is one that TLC shows to be needed: `ring_room_claim` for
`CheckedOnly` (which is how `asyncActions` and `asyncActions_` are used); for `RingNeverStale` an instance
with `Urgent = "producer"` and all entry points, where the discard comes between the consumer's test for an element and
its removal (the one ring that is discarded from this side, `tftActions`, is drained by an interrupt); `config_read_claim`
for `NoReadFaults`, `seq_clear_claim` for `~ClearWhileRunning` and the table of windows for
`~ChangeWhilePending`, the same table for `OneCable` and `~RunsOnAfterReset`, `arp_rotate_claim` for the directions, `voice_ghost_claim` and the table of
windows for `Windows = {}` and `~PushChanges`.  The passing runs meet all of them.  `Senders` says no more than what MIDI asks of one: channel messages
and song positions have their number of data bytes, other system messages and frames have any number.
`PanelOK` says that the buttons are numbered, finitely many and at least one, and that a click is not longer than a long
press (15 and 350 scans in the code).

Two names in a row are two theorems: the first is about the component, for all values of its constants; the
second follows from it for the component as the `MC` module has it, whose instance takes the same steps, and states the very
property that the run checks.

**RingBuffer.**  `RingTypes` needs only `LeftOK`, what a started insert has left.
`RingImplementsFifo` rests on the invariant `RingInv`.  The mapping alone is not
inductive: between `isFull()` and the store, and between `getCount()` and the
read, each user acts on a state that may be gone.  `RingInv` says what it still
knows: a producer that found a free slot keeps it, since the consumer only frees; the stored
element is at `tail` until it is published; the consumer's copy of `tail`, if it
made one, is not behind `head`; the slot that it read stays as it is until `head`
moves.  `ContentAppend`, `ContentTail` and `ContentStore` then give the effect of
each step on the queue.

`RingNeverStale` is about rings that may be overrun, and which user is the interrupt makes two proofs of it.  If it is the
consumer (`DrainInv`), the producer stands still while it runs, and outside a discard the unread slots rise.  If it is the
producer (`FillInv`), it may go round the ring any number of times between two steps of the consumer, so the invariant is about
the whole array: from the oldest slot to the newest it rises (`Ages`), and a consumer committed to a removal while the ring
has come to look empty finds all of it newer than what it took last.

**MidiOut.**  `TypeInv` adds to the types how many bytes a started message has left, and that main's reads of
`tail` are current as long as no interrupt has inserted within its `insert()` (`TailCurrent`).  `NeverStranded` needs no more:
only the drain clears the enable bit, over an empty ring.
`WireInOrder` and `WireComplete` look at the wire only; their invariants are about the
*stream*, the wire followed by what lies in the ring, which a drain does not change, for it moves
bytes from one to the other (`DrainKeepsStream`).  `OrderInv` says that main's bytes rise in it (`Rising`), up to the last one
published.  A thru byte may come into its middle, straight to the wire (`ThruToWire`), or into the ring, where it may
overrun what is there (`ThruToRing`); either way the new stream takes its other bytes from the old one in their order
(`RisesFrom`).  A published byte goes to its end, or overruns the ring and cuts the stream back to the wire (`RisesByOne`).
`WholeInv` says that without thru bytes, unreserved messages and torn reservations the stream is 1, 2, 3, ..., because there is still
room for what a call has left (`RoomKept`).  A reservation got it from a count, which bounds the bytes in the ring unless
`head` has wrapped within it and the count is negative (`CountBounds`).  A dump begins upon an empty ring or upon what a torn count
left of the one before; but then `head` has just wrapped, so `tail` is within the first `DumpSize` slots, this dump ends
before the end of the ring, and its own count cannot be torn (`RoomToLoad`).  `ModeAssumption`, which
`preenfm3.cpp` justifies, says that MIDI controller mode does not run beside the synth.

**MidiIn.**  `newByte` is a state machine over bytes, and what it should do is known to the sender only when a message is
complete.  The invariant that connects the two is `Promise(p, g, m, r)`: from parser state `p` the bytes `g` that are still to come will
make the decoder act upon `m` and leave it idle with running status `r`.  It has five cases: before the status byte, within the
data bytes, within a message that is skipped byte by byte, before a frame and within one, where the buffer holds what
came before or has overflowed because the frame is longer than it.  `PromiseKept` is the step: one byte taken by `NewByte` keeps the promise
about the rest, or fulfils it.  `DeliverInv` is then that each cable's sender has such a promise, that what was heard is
what was due, and that the song position counts the steps of the master (`Transport`); a realtime byte disturbs
only the last.

`MidiInResyncs` starts from any parser state that noise can leave (`ParserSound`).  In the probe one of three things is true at each byte (`Probing`): a
note has been heard; the parser is at the note being sent, in the sense of `Promise`; or it still takes the
first note for the rest of something else, but will be waiting at its end (`Late`).

**ConfigFile.**  Three theorems share `CardInv`: only the temporary file is
ever torn, and only beside a good canonical file (`TornOK`); memory is at least as new
as the card whenever a save may run (`MemoryNewest`); and at each control point what
recovery and save have established (`RecoverKnows`, `SaveKnows`).  `CardCleanSaveCommits` needs
no such history: `CleanInv` says what a save has established since it began, if no fault
came since, from any state of the card at all.

**Tft.**  `BusInv` ties the place of the reset to the two flags: the flag of ownership stands from
taking the bus to releasing it, every transfer on the bus is flagged, and past the
wait the bus is free.

`TftQuietShows` is the safety half of `ShowsWhatWasAsked`: that the display comes to rest takes fairness, and is
left to TLC; that there is nothing it forgot when it has is proved.  Rest (`Quiet`) is an empty queue with no drawing half done,
no dirty part, nothing on the bus, and no repaint or reset under way.  The invariant, `ShowInv`, says of each part separately what keeps it on its way.
Towards the frame buffer (`WillHold`) it is right already and nothing that waits overwrites it, or the last action in the
queue that writes to it is the drawing asked for last, or the repaint has still to come to it.  Towards the panel (`WillShow`)
it is there, or on the bus with its present content, or dirty, or about to be drawn into.  Of the pauses,
the last one that waits is followed by its restart (`WillRefresh`).  A reset is the exception: until it is
over nothing has to be on its way (`OnItsWay`), for the repaint at its end begins from nothing.  The counter of queued shapes can be wrong in
both directions, since main adds to a copy that the interrupt has outdated; what matters, and what `ShapeCounted` says, is that it only
keeps a request out while a shape waits that will use the new envelope.

**Encoders.**  A scan is a loop over the buttons, and what it does to one depends on those scanned
before it.  The loop is a recursive function; that it exists (`LoopExists`) and what holds of it after each button (`ScanTold`) are proved
from the first button where they would fail.  Its invariant, `AllTold`, says of every button what this scan has made it cause so far
(`Told`): one that is down is marked as used exactly when its press has caused something, a button not yet scanned has been told no long press
(`Waits`), and the first button down is one that is down.  The last is what a change of `encoderPush` would break, since a button
that leaves the scan stays as it was.  `EncInv` is the same between two scans, and `ToldAfterwards` joins what earlier scans told with what this
one does.

**ActionList, SequenceLoad.**  `Control` says what main holds at each of its steps: a free slot from the choice of
a position to the publication, a compaction that never moves a slot upwards.  Walks are bounded by the hop budget
and read as functions (`WalkExists`), so that each place they stop at is a slot.  `LoadKeepsSoundLists` needs of the table its types only, whatever
the lists look like.  Two well-formed lists have no slot in common, since from a common slot on their chains would coincide
and each ends at its own tail (`NotShared`); hence validation demotes none of them, and what it frees for the
others is not theirs.

The other three share one inductive invariant, `Whole`.  `Order(t, limit, i, n, o)` says that in table `t`
list `i` goes from its head through the `n` live slots `o[1]`, ..., `o[n]`, no note before an earlier one, to its
tail, and `Holds` that there is such an order, that it holds certain notes, and that it passes through the slots
somebody is about to use.  Two orders that share a slot are the same from there on
(`SameFromThere`), so lists are disjoint and pass each slot once, which bounds their length by the live slots (`OrderFits`) and
keeps every walk below its hop budget (`PathOnOrder`).  From there on the proof follows the actors:

- *The walk* stays on the order wherever it starts, and stops at the first turn the
  window, the bar or the tail gives it (`ProcessKeeps`, `ResyncKeeps`, `WalkKeeps`); so it moves the cursor along the
  list and changes nothing else of the invariant (`TicKeeps`).  For this `Refs` keeps the cursor's two slots on the list.
- *Recording* (`Placed`, `Filled`): the predecessor that was chosen is still on the list, is not later than the note, and its successor not
  earlier, however far the walk has moved meanwhile, because only main changes links; the slot is
  published above every order (`Live`) before the link makes it part of one (`OrderInsert`).
- *A change of length* (`TailOnTime`): the tail may have the wrong time between two stores, and then no walk is to
  catch up.  This is where `~ChangeWhilePending` is used.
- *A clear* (`Unlinking`, `Remapping`, `Translating`, `Compacting`): the lists are not in order while links
  lead to where slots are yet to move.  What is invariant is that the compaction *leads to* a table, `final`, in which every list
  is in order and holds its notes; `final` is fixed when the list is unlinked (`FinalExists`, `HoldsLed`), each step says
  which of its slots have been reached, and it is the table itself at the end.  `Rank` counts the slots in
  use below a slot, which is the place the compaction gives it; slots in use keep their
  order under it and no two get the same place (`ShiftApart`), and moving a slot changes no rank above it.  No walk
  comes between, by `~ClearWhileRunning`.

TLC has checked `Whole` as an invariant on instances of the size of `sequences` before it was proved.  The
three are not stated for `LoadSpec`: a stored list that is inactive and damaged is left as it is, and it
may lead to slots that are only taken later, so that what holds after a load holds for the one note that the model
records then, and is left to `sequences`.

**Arpeggiator.**  The two pools are linked lists in arrays, and what `PlayedSlots` and `Order` compute
is a walk along the links.  The first part of `ArpeggiatorProofs` states the representation: `StackRep(s, order)` and
`QueueRep(q, list, ...)` say that the list of slots is what one meets from the root, each
slot once, ended by a slot without successor, and that it has all the slots in use.  From it
there is one lemma per operation, which says what becomes of the list
(`NoteOn`, `NoteOff`, `MakeRoom`; `ScheduledRep`, `RemovedRep`, `TickedRep`).  Induction is
not available as a rule, so statements about a walk of any length are proved from the first place where they
would fail (`MinIsLeast`), with the well-foundedness of the naturals.  `ArpInv` is then: some list represents
the stack, some list the queue, each sounding note has its note-off there
(`IsOutput`), and the position is one that the code can compute (`IsAt`: without a rotating direction it starts
at 0).  A tick does up to four things to the output; each has a lemma that it keeps
`IsOutput` and adds only notes of held keys.  The refinement maps the list of the stack to the
held keys.

**Voices.**  `VoicesTypes` holds whatever happens.  For the rest, `VoicesInv`: what the flags of one voice
say of one another (`Sound`), that a voice that sustains plays a key that is down, or is held by
the pedal, and one in a glide is between two keys that are down (`Anchored`), and how the play modes share the voices
(`Shared`: POLY gives a note to one voice, MONO uses the first, UNISON all alike).
`NoteNeverHangs` is not inductive, because a note-off looks its voice up by number: which of
the voices it finds, and that there is no second one, is what `Shared` and `Sound` give.

**Only model-checked.**  The second ring of `rings` (`UsartNeverStale`, `UsartDiscardLeavesEmpty`), of which the
theorems about `RingBuffer` say the same.  `ListsHoldWhatWasRecorded`, `NeverTrips` and `HeardOnce` of the lists after a load.  Liveness under fairness
(`DumpEnds`, `Silence`, `FallsSilent`, `ShowsWhatWasAsked`), which the proof system does not handle.  And of course the
violations.

## Findings

1. **`hasRoomFor` can answer TRUE on a nearly full ring** (`ring_room_claim`).
   `getCount()` (`RingBuffer.h:101`) reads `head` twice.  If the draining
   interrupt wraps `head` between the reads, the count comes out too small by the
   size of the ring, and the inserts that follow overrun it.  The comment at
   `RingBuffer.h:112-114` counts an interrupt that only drains as harmless; with MIDI
   thru on it does not even only drain (`preenfm3.cpp:386`).  An interrupt that then inserts
   between the two reads of `tail` at `RingBuffer.h:69` can make main store `tail` = size: `TXEIE` is never
   cleared again and the dump's wait (`MidiDecoder.cpp:900`) never ends.  No line of the repository
   says otherwise, so this has no run of its own; `TypeOK` and `DumpEnds` except it by name, and
   TLC finds each violated without its exception.
2. **A failing read makes recovery drop a valid configuration**
   (`config_read_claim`).  `isValidConfigFile` does not tell an error from an
   invalid file, and recovery then removes the file as invalid.
3. **A shortened list can fall silent** (`seq_bars_claim`).  After
   `setNumberOfBars`, resynchronisation can leave the cursor at a note beyond
   the new bar.  The rule that would take it back to the start is reached only when
   that note is due, which it never is.
4. **Clearing a list in a running sequencer can deactivate another**
   (`seq_clear_claim`).  `clear()` translates links before it moves slots; a walk
   in between follows a translated link to an old slot and takes the list for
   corrupt.
5. **ROTATE modes can play keys that are not held** (`arp_rotate_claim`).
   `start_step_` is not brought back when keys are released, and `Tick` corrects
   the sum only once.
6. **A note-off can bring back a silenced key** (`voice_ghost_claim`).  `allNoteOff`
   (a controller message, or the sequencer that stops) releases the voices and leaves the keys of MONO mode;
   the release of the next key recalls one of them, and nothing ends it.

`ChangeWhilePending` and `StrayLists`, in the table of windows above, are defects of the
same weight.

## What is not modelled

- **Sound generation** (`Osc`, `Env`, `Lfo*`, `Matrix`, `FxBus`,
  `SimpleComp`): floating-point arithmetic with next to no control.
- **Parameter tables** (`SynthState`, `MixerState`, `Presets`) and **file formats**
  (`PatchBank`, `MixerBank`, `DX7SysexFile`, `Hexter`, `ScalaFile`, `UserWaveform`, `UserEnvCurve`,
  `PPMImage`, `ConfigurationFile`): conversions over one file, which the host tests cover.
- **Editor and menus**: presentation.
- **Bootloader**: one sequential loop that copies a file to flash.  What could
  go wrong there (a failing read, a cut of power) it does not handle, and nothing in the repository says
  that it would; there is no promise to check.
- **Vendored code** (HAL, CMSIS, USB, FatFs, more than nine tenths of the lines
  of the repository): used as the firmware uses it.
- Within modelled parts: handlers that interrupt each other in `Arpeggiator`
  and `Voices`;
  the change of direction by loading a patch without `setDirection`; the mute and record switches
  of the sequencer; external-clock resynchronisation in larger steps;
  `midiClockSetSongPosition`, the step sequencer and the tempo; the routing of MIDI
  messages, MPE and NRPN; the dispatch of gestures and the menu that polls buttons
  (`checkSimpleStatus`, `checkStatusUpDown`).

## Plan

Done: every module above, in this order because every event of the firmware passes a ring,
and the others are the parts whose contexts share most.

Next, a theorem: the invariant `Whole` of the lists for `LoadSpec`, hence for tables that were loaded.  It has to say of
an inactive damaged list that it reaches no slot of another, once more than one note may follow a load.
