------------------------------- MODULE MidiIn -------------------------------
(***************************************************************************)
(* The MIDI input parser, MidiDecoder::newByte.  The audio interrupt feeds  *)
(* it, byte by byte, what the USART and the USB have received.  It puts     *)
(* messages together (with running status, with realtime bytes anywhere,    *)
(* with system exclusive frames that may be aborted or too long), and keeps *)
(* the song position that the clock bytes move.                             *)
(*                                                                          *)
(* Senders encode whole messages, each into its own cable; or the cable     *)
(* carries noise first and clean notes after it, as in the fuzz test.  One  *)
(* instrument listens, on channel 0; what messages do to the synth is not   *)
(* part of this module.                                                     *)
(***************************************************************************)
EXTENDS Naturals, Sequences

CONSTANTS
    Messages,       \* [status, data], of one or more data bytes
    Payloads,       \* what system exclusive frames carry
    SysexSize,      \* SYSEX_BUFFER_SIZE, 32 in the code
    Sources,        \* the cables in use, of "din" and "usb"
    RunsOnAfterReset, \* BOOLEAN: senders keep their running status over CC_RESET
    NoiseBytes,     \* bytes of the noise
    MaxMessages, MaxNoise, MaxClocks    \* bounds

NOTE_ON == 144
CONTROL_CHANGE == 176
SYSEX == 240
SONG_POSITION == 242
SYSEX_END == 247
CC_RESET == 127
ClocksPerStep == 6

VARIABLES
    parser,         \* currentEventState, currentEvent, runningStatus, sysexBuffer
    clock,          \* isExternalMidiClockStarted, midiClockCpt, songPosition
    heard,          \* history: what the last byte made the decoder act upon
    due,            \* history: what it should have acted upon
    sender,         \* of each source: bytes to go, their message, running status
    master,         \* history: the transport of the sender of the clock
    mode,           \* "messages", "noise", or "probe" after the noise
    probe,          \* bytes of the clean note to go, notes sent, one was heard
    count           \* bounds: messages, noise bytes and clocks so far
vars == <<parser, clock, heard, due, sender, master, mode, probe, count>>

NOTHING == [status |-> 0, data |-> <<>>]
MidiMessage(status, data) == [status |-> status, data |-> data]

(* midiEventReceived returns early when no instrument listens to a channel; *)
(* a song position pretends to be on the channel of the first one.          *)
Accepted(status) == status = SONG_POSITION \/ (status < SYSEX /\ status % 16 = 0)
IsReset(m) == m.status = CONTROL_CHANGE /\ m.data[1] = CC_RESET

Init ==
    /\ parser = [state |-> "waiting", status |-> 0, need |-> 0, bytes |-> <<>>,
                 running |-> 0, overflowed |-> FALSE]
    /\ clock = [started |-> FALSE, cpt |-> 0, position |-> 0]
    /\ heard = NOTHING /\ due = NOTHING
    /\ sender = [s \in Sources |-> [toGo |-> <<>>, message |-> NOTHING, running |-> 0]]
    /\ master = [running |-> FALSE, clocks |-> 0]
    /\ mode \in {"messages", "noise"}
    /\ probe = [toGo |-> <<>>, sent |-> 0, heard |-> FALSE]
    /\ count = [messages |-> 0, noise |-> 0, clocks |-> 0]

-----------------------------------------------------------------------------
NewMessageDataOfListeners(p, b) ==
    LET bytes == Append(p.bytes, b)
        m == MidiMessage(p.status, bytes)
    IN  IF Len(bytes) # p.need \/ ~Accepted(p.status)
        THEN [parser |-> [p EXCEPT !.bytes = bytes], heard |-> NOTHING]
        ELSE [parser |-> [p EXCEPT !.state = "waiting", !.bytes = <<>>,
                            !.running = IF IsReset(m) THEN 0 ELSE @],
              heard |-> m]

(* newMessageData: what the parser becomes, and what it acts upon.          *)
NewMessageData(p, b) ==
    LET bytes == Append(p.bytes, b)
        m == MidiMessage(p.status, bytes)
    IN  IF Len(bytes) # p.need THEN [parser |-> [p EXCEPT !.bytes = bytes], heard |-> NOTHING]
        ELSE [parser |-> [p EXCEPT !.state = "waiting", !.bytes = <<>>,
                            !.running = IF Accepted(p.status) /\ IsReset(m) THEN 0 ELSE @],
              heard |-> IF Accepted(p.status) THEN m ELSE NOTHING]

NewMessageTypeKeepsRunning(p, status) ==
    LET begun(need) == [p EXCEPT !.status = status, !.need = need, !.state = "progress"]
    IN  CASE status < SYSEX -> begun(IF status \div 16 \in {12, 13} THEN 1 ELSE 2)
          [] status = SYSEX -> [p EXCEPT !.state = "sysex", !.bytes = <<>>, !.overflowed = FALSE]
          [] status = SONG_POSITION -> begun(2)
          [] OTHER -> p

(* newMessageType: a system common message ends the running status; the     *)
(* ones that are not known begin nothing.                                   *)
NewMessageType(p, status) ==
    LET begun(need) == [p EXCEPT !.status = status, !.need = need, !.state = "progress"]
        common == [p EXCEPT !.running = 0]
    IN  CASE status < SYSEX -> begun(IF status \div 16 \in {12, 13} THEN 1 ELSE 2)
          [] status = SYSEX -> [common EXCEPT !.state = "sysex", !.bytes = <<>>, !.overflowed = FALSE]
          [] status = SONG_POSITION -> [begun(2) EXCEPT !.running = 0]
          [] OTHER -> common

EndSysex(p) == [p EXCEPT !.state = "waiting", !.bytes = <<>>, !.overflowed = FALSE]

(* One byte of a frame.  analyseSysexBuffer is given the whole payload or   *)
(* nothing.                                                                 *)
SysexByte(p, b) ==
    IF b = SYSEX_END
    THEN [parser |-> EndSysex(p),
          heard |-> IF p.overflowed THEN NOTHING ELSE MidiMessage(SYSEX, p.bytes)]
    ELSE [heard |-> NOTHING,
          parser |-> IF b >= 128
                     THEN NewMessageType([EndSysex(p) EXCEPT !.running = b], b)
                     ELSE IF Len(p.bytes) < SysexSize THEN [p EXCEPT !.bytes = Append(@, b)]
                     ELSE [p EXCEPT !.overflowed = TRUE]]

(* newByte for a byte below F8.  Whatever comes while a message is in       *)
(* progress is its data, a status byte too.                                 *)
NewByte(p, b) ==
    CASE p.state = "progress" -> NewMessageData(p, b)
      [] p.state = "sysex" -> SysexByte(p, b)
      [] p.state = "waiting" /\ b >= 128 ->
           [parser |-> NewMessageType([p EXCEPT !.running = b], b), heard |-> NOTHING]
      [] p.state = "waiting" /\ b < 128 /\ p.running > 0 ->
           NewMessageData(NewMessageType(p, p.running), b)
      [] OTHER -> [parser |-> p, heard |-> NOTHING]

(* The song position moves with MIDI_SONG_POSITION and goes back to zero    *)
(* with CC_RESET.                                                           *)
Moved(m) == [clock EXCEPT !.position =
    IF m.status = SONG_POSITION THEN m.data[1] + 128 * m.data[2]
    ELSE IF m # NOTHING /\ IsReset(m) THEN 0 ELSE @]

Receive(b) ==
    LET after == NewByte(parser, b)
    IN  /\ parser' = after.parser /\ heard' = after.heard
        /\ clock' = Moved(after.heard)

-----------------------------------------------------------------------------
(* A sender begins a message when it has sent the last one.  It leaves out  *)
(* the status byte when that of its last message still holds; it stops in   *)
(* the middle of a frame when the next message begins with a status byte.   *)
Encodings(m, running) ==
    {<<m.status>> \o m.data} \cup (IF running = m.status THEN {m.data} ELSE {})
Frames(payload) == {<<SYSEX>> \o payload \o <<SYSEX_END>>, <<SYSEX>> \o payload}

RunningAfter(m) ==
    IF m.status >= SYSEX \/ (IsReset(m) /\ Accepted(m.status) /\ ~RunsOnAfterReset) THEN 0 ELSE m.status

DueAtTheEnd(m, bytes) ==
    IF m.status = SYSEX
    THEN IF bytes[Len(bytes)] = SYSEX_END /\ Len(m.data) <= SysexSize THEN m ELSE NOTHING
    ELSE IF Accepted(m.status) THEN m ELSE NOTHING

Begin(s, m, bytes) ==
    /\ mode = "messages" /\ sender[s].toGo = <<>>
    /\ count.messages < MaxMessages /\ count' = [count EXCEPT !.messages = @ + 1]
    /\ m.status = SONG_POSITION => ~master.running
    /\ sender' = [sender EXCEPT ![s] = [toGo |-> bytes, message |-> DueAtTheEnd(m, bytes),
                                        running |-> RunningAfter(m)]]
    /\ heard' = NOTHING /\ due' = NOTHING
    /\ UNCHANGED <<parser, clock, master, mode, probe>>

BeginMessage ==
    \E s \in Sources :
        \/ \E m \in Messages : \E bytes \in Encodings(m, sender[s].running) : Begin(s, m, bytes)
        \/ \E payload \in Payloads : \E bytes \in Frames(payload) : Begin(s, MidiMessage(SYSEX, payload), bytes)

(* preenfm3DecodeMidiIn takes the next byte of one of the sources. *)
DecodeMidiIn ==
    \E s \in Sources :
        LET last == Len(sender[s].toGo) = 1
            m == sender[s].message
        IN  /\ sender[s].toGo # <<>>
            /\ sender' = [sender EXCEPT ![s].toGo = Tail(@)]
            /\ due' = IF last THEN m ELSE NOTHING
            /\ master' = CASE last /\ m.status = SONG_POSITION ->
                                [master EXCEPT !.clocks = ClocksPerStep * (m.data[1] + 128 * m.data[2])]
                           [] last /\ m # NOTHING /\ IsReset(m) ->
                                [master EXCEPT !.clocks = @ % ClocksPerStep]
                           [] OTHER -> master
            /\ Receive(Head(sender[s].toGo))
            /\ UNCHANGED <<mode, probe, count>>

-----------------------------------------------------------------------------
(* Realtime bytes come anywhere, between the bytes of a message too.  The   *)
(* master starts and stops in turn; it continues on a sixteenth, and after  *)
(* it has sent all of a song position.                                      *)
RealTime ==
    /\ mode = "messages" /\ heard' = NOTHING /\ due' = NOTHING
    /\ UNCHANGED <<parser, sender, mode, probe>>

MayStart ==
    ~master.running /\ \A s \in Sources :
        sender[s].toGo # <<>> => sender[s].message.status # SONG_POSITION

MidiClock ==
    /\ RealTime
    /\ count.clocks < MaxClocks /\ count' = [count EXCEPT !.clocks = @ + 1]
    /\ LET full == clock.cpt + 1 = ClocksPerStep
       IN  clock' = [clock EXCEPT !.cpt = IF full THEN 0 ELSE @ + 1,
                        !.position = IF full /\ clock.started THEN @ + 1 ELSE @]
    /\ master' = IF master.running THEN [master EXCEPT !.clocks = @ + 1] ELSE master

MidiStart ==
    /\ RealTime /\ MayStart
    /\ master' = [running |-> TRUE, clocks |-> 0]
    /\ clock' = IF clock.started THEN clock ELSE [started |-> TRUE, cpt |-> 0, position |-> 0]
    /\ UNCHANGED count

MidiContinue ==
    /\ RealTime /\ MayStart
    /\ master' = [running |-> TRUE, clocks |-> master.clocks - (master.clocks % ClocksPerStep)]
    /\ clock' = IF clock.started THEN clock ELSE [clock EXCEPT !.started = TRUE, !.cpt = 0]
    /\ UNCHANGED count

MidiStop ==
    /\ RealTime /\ master.running
    /\ master' = [master EXCEPT !.running = FALSE]
    /\ clock' = [clock EXCEPT !.started = FALSE]
    /\ UNCHANGED count

-----------------------------------------------------------------------------
(* Noise, the end of a frame, and clean notes: AssertParserResyncs of       *)
(* tests/midi_decoder_fuzz_test.cpp.                                        *)
CleanNote == MidiMessage(NOTE_ON, <<60, 100>>)

Noise ==
    /\ mode = "noise" /\ count.noise < MaxNoise
    /\ count' = [count EXCEPT !.noise = @ + 1]
    /\ \E b \in NoiseBytes : Receive(b)
    /\ UNCHANGED <<due, sender, master, mode, probe>>

EndNoise ==
    /\ mode = "noise" /\ mode' = "probe"
    /\ Receive(SYSEX_END)
    /\ UNCHANGED <<due, sender, master, probe, count>>

Probe ==
    /\ mode = "probe" /\ probe.sent < 2
    /\ LET bytes == IF probe.toGo = <<>> THEN <<NOTE_ON, 60, 100>> ELSE probe.toGo
       IN  /\ Receive(Head(bytes))
           /\ probe' = [toGo |-> Tail(bytes), heard |-> probe.heard \/ heard' = CleanNote,
                        sent |-> probe.sent + (IF Len(bytes) = 1 THEN 1 ELSE 0)]
    /\ UNCHANGED <<due, sender, master, mode, count>>

Next == BeginMessage \/ DecodeMidiIn \/ MidiClock \/ MidiStart \/ MidiContinue \/ MidiStop
        \/ Noise \/ EndNoise \/ Probe
Spec == Init /\ [][Next]_vars

-----------------------------------------------------------------------------
(* The decoder acts upon a message exactly when its last byte has come, and *)
(* upon what was sent, whatever is left out of it, cut off before it or put *)
(* between its bytes; and its song position is the one of the master.       *)
DeliversWhatWasSent ==
    mode = "messages" =>
        /\ heard = due
        /\ clock.started = master.running
        /\ clock.started => ClocksPerStep * clock.position + clock.cpt = master.clocks

(* "after arbitrary garbage, a clean NoteOn must eventually dispatch"       *)
(* (tests/midi_decoder_fuzz_test.cpp:183), within two attempts even.        *)
Resyncs == probe.sent = 2 => probe.heard
=============================================================================
