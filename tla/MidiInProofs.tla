---------------------------- MODULE MidiInProofs ----------------------------
(***************************************************************************)
(* Theorems about MidiIn for every set of messages, payloads and noise      *)
(* bytes, every size of the frame buffer and any number of messages.        *)
(***************************************************************************)
EXTENDS MidiIn, SequenceTheorems, TLAPS

Byte == 0 .. 247
DataByte == 0 .. 127
Common == {241, 243, 244, 245, 246}
NumberOfBytes(status) == IF status \div 16 \in {12, 13} THEN 1 ELSE 2
Known(status) == status \in 128 .. 239 \/ status = SONG_POSITION
Running(status) == IF status < SYSEX THEN status ELSE 0

(* What senders encode: channel messages and song positions with as many    *)
(* data bytes as the decoder counts, and system common messages of any      *)
(* length; frames of data bytes.  Realtime bytes are not part of a message. *)
WellFormed(m) ==
    \/ Known(m.status) /\ m.data \in Seq(DataByte) /\ Len(m.data) = NumberOfBytes(m.status)
    \/ m.status \in Common /\ m.data \in Seq(DataByte)
Senders ==
    /\ \A m \in Messages : m = [status |-> m.status, data |-> m.data] /\ WellFormed(m)
    /\ Payloads \subseteq Seq(DataByte) /\ SysexSize \in Nat /\ NoiseBytes \subseteq Byte

(* What the decoder is about after any bytes.  Only a channel message can   *)
(* be the running one, and in a message it is that message's status.        *)
State == {"waiting", "progress", "sysex"}
Parser == [state : State, status : Nat, need : Nat,
           bytes : Seq(Byte), running : Nat, overflowed : BOOLEAN]
ParserSound(p) ==
    /\ p \in Parser /\ p.running \in {0} \cup 128 .. 239
    /\ p.state = "waiting" => p.bytes = <<>>
    /\ p.state = "sysex" => p.running = 0
    /\ p.state = "progress" =>
         /\ Known(p.status) /\ p.running = Running(p.status)
         /\ p.need = NumberOfBytes(p.status) /\ Len(p.bytes) < p.need

LEMMA StatusFacts ==
  /\ \A s \in 128 .. 239 : s < SYSEX /\ Running(s) = s /\ s # SONG_POSITION
  /\ ~(SONG_POSITION < SYSEX) /\ NumberOfBytes(SONG_POSITION) = 2 /\ Running(SONG_POSITION) = 0
  /\ \A s : NumberOfBytes(s) \in {1, 2}
  /\ NumberOfBytes(CONTROL_CHANGE) = 2 /\ CONTROL_CHANGE \in 128 .. 239
  /\ NumberOfBytes(NOTE_ON) = 2 /\ NOTE_ON \in 128 .. 239 /\ Accepted(NOTE_ON) /\ Accepted(CONTROL_CHANGE)
  /\ SONG_POSITION # CONTROL_CHANGE
  BY DEF SYSEX, SONG_POSITION, NumberOfBytes, Running, CONTROL_CHANGE, NOTE_ON, Accepted

LEMMA RunningIs ==
  ASSUME NEW p, ParserSound(p)
  PROVE  p.running = 0 \/ p.running \in 128 .. 239
<1>1. p.running \in {0} \cup 128 .. 239
  BY Zenon DEF ParserSound
<1>2. QED
  BY <1>1

(* The branches of the three handlers, one by one.                          *)
LEMMA Branches ==
  ASSUME NEW p, NEW b
  PROVE  /\ p.state = "progress" => NewByte(p, b) = NewMessageData(p, b)
         /\ p.state = "sysex" => NewByte(p, b) = SysexByte(p, b)
         /\ p.state = "waiting" /\ b >= 128 /\ ~(b < 128) =>
              NewByte(p, b) = [parser |-> NewMessageType([p EXCEPT !.running = b], b), heard |-> NOTHING]
         /\ p.state = "waiting" /\ ~(b >= 128) /\ b < 128 /\ p.running > 0 =>
              NewByte(p, b) = NewMessageData(NewMessageType(p, p.running), b)
         /\ p.state = "waiting" /\ ~(b >= 128) /\ ~(p.running > 0) =>
              NewByte(p, b) = [parser |-> p, heard |-> NOTHING]
<1>1. "progress" # "waiting" /\ "progress" # "sysex" /\ "waiting" # "sysex"
  OBVIOUS
<1>2. QED
  BY <1>1, Zenon DEF NewByte

LEMMA BranchesOfType ==
  ASSUME NEW p, NEW b
  PROVE  /\ b < SYSEX /\ b # SYSEX /\ b # SONG_POSITION =>
              NewMessageType(p, b) = [p EXCEPT !.status = b, !.need = NumberOfBytes(b), !.state = "progress"]
         /\ b = SONG_POSITION /\ ~(b < SYSEX) /\ b # SYSEX =>
              NewMessageType(p, b) = [p EXCEPT !.status = b, !.need = 2, !.state = "progress", !.running = 0]
         /\ b = SYSEX /\ ~(b < SYSEX) /\ b # SONG_POSITION =>
              NewMessageType(p, b) = [p EXCEPT !.running = 0, !.state = "sysex", !.bytes = <<>>, !.overflowed = FALSE]
         /\ ~(b < SYSEX) /\ b # SYSEX /\ b # SONG_POSITION =>
              NewMessageType(p, b) = [p EXCEPT !.running = 0]
<1>1. ASSUME b < SYSEX, b # SYSEX, b # SONG_POSITION
      PROVE  NewMessageType(p, b) = [p EXCEPT !.status = b, !.need = NumberOfBytes(b), !.state = "progress"]
  BY <1>1, Zenon DEF NewMessageType, NumberOfBytes
<1>2. ASSUME b = SONG_POSITION, ~(b < SYSEX), b # SYSEX
      PROVE  NewMessageType(p, b) = [p EXCEPT !.status = b, !.need = 2, !.state = "progress", !.running = 0]
  BY <1>2, Zenon DEF NewMessageType
<1>3. ASSUME b = SYSEX, ~(b < SYSEX), b # SONG_POSITION
      PROVE  NewMessageType(p, b) = [p EXCEPT !.running = 0, !.state = "sysex", !.bytes = <<>>, !.overflowed = FALSE]
  BY <1>3, Zenon DEF NewMessageType
<1>4. ASSUME ~(b < SYSEX), b # SYSEX, b # SONG_POSITION
      PROVE  NewMessageType(p, b) = [p EXCEPT !.running = 0]
  BY <1>4, Zenon DEF NewMessageType
<1>5. QED
  BY <1>1, <1>2, <1>3, <1>4, Zenon

(* A status byte for a parser that waits, by its kind.                      *)
LEMMA BeginsMessage ==
  ASSUME NEW p \in Parser, p.state = "waiting", p.bytes = <<>>, NEW b \in 128 .. 239, p.running = b
  PROVE  LET t == NewMessageType(p, b)
         IN  ParserSound(t) /\ t.state = "progress" /\ t.status = b /\ t.bytes = <<>>
<1> DEFINE n == NumberOfBytes(b)
<1>0. n \in Nat /\ n \in {1, 2} /\ b \in Nat
  BY DEF NumberOfBytes
<1> HIDE DEF n
<1>1. b < SYSEX /\ b # SYSEX /\ b # SONG_POSITION /\ Running(b) = b /\ Known(b)
  BY DEF Known, SYSEX, SONG_POSITION, Running
<1>2. NewMessageType(p, b) = [p EXCEPT !.status = b, !.need = n, !.state = "progress"]
  BY <1>1, BranchesOfType, Zenon DEF n
<1> DEFINE t == [p EXCEPT !.status = b, !.need = n, !.state = "progress"]
<1>3. /\ t \in Parser /\ t.state = "progress" /\ t.status = b /\ t.need = n
      /\ t.bytes = p.bytes /\ t.running = p.running
  BY <1>0 DEF Parser, State
<1> HIDE DEF t
<1>4. ParserSound(t)
  BY <1>0, <1>1, <1>3 DEF ParserSound, n
<1>5. QED
  BY <1>2, <1>3, <1>4 DEF t

LEMMA BeginsSongPosition ==
  ASSUME NEW p \in Parser, p.state = "waiting", p.bytes = <<>>
  PROVE  LET t == NewMessageType(p, SONG_POSITION)
         IN  ParserSound(t) /\ t.state = "progress" /\ t.status = SONG_POSITION /\ t.bytes = <<>>
<1> DEFINE b == SONG_POSITION
           t == [p EXCEPT !.status = b, !.need = 2, !.state = "progress", !.running = 0]
<1>1. ~(b < SYSEX) /\ b # SYSEX /\ b \in Nat /\ Running(b) = 0 /\ Known(b) /\ NumberOfBytes(b) = 2
  BY StatusFacts DEF Known, SYSEX, SONG_POSITION
<1>2. NewMessageType(p, b) = t
  BY <1>1, Zenon DEF NewMessageType
<1>3. /\ t \in Parser /\ t.state = "progress" /\ t.status = b /\ t.need = 2
      /\ t.bytes = p.bytes /\ t.running = 0
  BY <1>1 DEF Parser, State
<1> HIDE DEF t
<1>4. ParserSound(t)
  BY <1>1, <1>3 DEF ParserSound
<1>5. QED
  BY <1>2, <1>3, <1>4

LEMMA BeginsFrame ==
  ASSUME NEW p \in Parser
  PROVE  LET t == NewMessageType(p, SYSEX)
         IN  ParserSound(t) /\ t.state = "sysex" /\ t.bytes = <<>> /\ ~t.overflowed
<1> DEFINE none == <<>>
           t == [p EXCEPT !.running = 0, !.state = "sysex", !.bytes = none, !.overflowed = FALSE]
<1>1. ~(SYSEX < SYSEX) /\ SYSEX # SONG_POSITION /\ none \in Seq(Byte)
  BY DEF SYSEX, SONG_POSITION
<1>2. NewMessageType(p, SYSEX) = t
  BY <1>1, BranchesOfType, Zenon
<1> HIDE DEF none
<1>3. t \in Parser /\ t.state = "sysex" /\ t.bytes = none /\ t.overflowed = FALSE /\ t.running = 0
  BY <1>1 DEF Parser, State
<1> HIDE DEF t
<1>4. QED
  BY <1>2, <1>3 DEF ParserSound, none

LEMMA BeginsNothing ==
  ASSUME NEW p \in Parser, p.state = "waiting", p.bytes = <<>>,
         NEW b \in 240 .. 247, b # SYSEX, b # SONG_POSITION
  PROVE  LET t == NewMessageType(p, b)
         IN  ParserSound(t) /\ t.state = "waiting" /\ t.running = 0
<1> DEFINE t == [p EXCEPT !.running = 0]
<1>0. ~(b < SYSEX)
  BY DEF SYSEX
<1>1. NewMessageType(p, b) = t
  BY <1>0, BranchesOfType, Zenon
<1>2. t \in Parser /\ t.state = "waiting" /\ t.bytes = p.bytes /\ t.running = 0
  BY DEF Parser, State
<1> HIDE DEF t
<1>3. QED
  BY <1>1, <1>2 DEF ParserSound

(* What the status byte of a new message makes of a parser that is in no    *)
(* message.                                                                 *)
LEMMA StatusByte ==
  ASSUME NEW p \in Parser, ParserSound(p), p.state # "progress", NEW b \in 128 .. 247,
         p.state = "sysex" => b # SYSEX_END
  PROVE  LET after == NewByte(p, b)
         IN  /\ ParserSound(after.parser) /\ after.heard = NOTHING
             /\ Known(b) => /\ after.parser.state = "progress" /\ after.parser.status = b
                            /\ after.parser.bytes = <<>>
             /\ b = SYSEX => /\ after.parser.state = "sysex" /\ after.parser.bytes = <<>>
                             /\ ~after.parser.overflowed
             /\ ~Known(b) /\ b # SYSEX => after.parser.state = "waiting" /\ after.parser.running = 0
<1>1. PICK q \in Parser : /\ NewByte(p, b) = [parser |-> NewMessageType(q, b), heard |-> NOTHING]
                          /\ q.state = "waiting" /\ q.bytes = <<>> /\ q.running = b
  <2>0. b \in Nat /\ b >= 128 /\ ~(b < 128)
    OBVIOUS
  <2>1. CASE p.state = "waiting"
    <3> DEFINE q == [p EXCEPT !.running = b]
    <3>1. NewByte(p, b) = [parser |-> NewMessageType(q, b), heard |-> NOTHING]
      BY <2>0, <2>1, Branches, Zenon
    <3>2. q \in Parser /\ q.state = "waiting" /\ q.bytes = p.bytes /\ q.running = b
      BY <2>0, <2>1 DEF Parser, State
    <3> HIDE DEF q
    <3>3. QED
      BY <2>1, <3>1, <3>2 DEF ParserSound
  <2>2. CASE p.state = "sysex"
    <3> DEFINE none == <<>>
               q == [p EXCEPT !.state = "waiting", !.bytes = none, !.overflowed = FALSE, !.running = b]
    <3>1. NewByte(p, b) = SysexByte(p, b)
      BY <2>2, Branches
    <3>2. b # SYSEX_END /\ b >= 128
      BY <2>0, <2>2
    <3>3. SysexByte(p, b) = [parser |-> NewMessageType(q, b), heard |-> NOTHING]
      BY <3>2, Zenon DEF SysexByte, EndSysex
    <3>4. none \in Seq(Byte)
      OBVIOUS
    <3> HIDE DEF none
    <3>5. q \in Parser /\ q.state = "waiting" /\ q.bytes = none /\ q.running = b
      BY <2>0, <3>4 DEF Parser, State
    <3> HIDE DEF q
    <3>6. QED
      BY <3>1, <3>3, <3>5 DEF none
  <2>3. QED
    BY <2>1, <2>2 DEF Parser, State
<1> DEFINE t == NewMessageType(q, b)
<1>2. NewByte(p, b).parser = t /\ NewByte(p, b).heard = NOTHING
  BY <1>1
<1> HIDE DEF t
<1>3. CASE b \in 128 .. 239
  <2>1. Known(b) /\ b # SYSEX
    BY <1>3 DEF Known, SYSEX
  <2>2. ParserSound(t) /\ t.state = "progress" /\ t.status = b /\ t.bytes = <<>>
    BY <1>1, <1>3, BeginsMessage DEF t
  <2>3. QED
    BY <1>2, <2>1, <2>2
<1>4. CASE b = SONG_POSITION
  <2>1. Known(b) /\ b # SYSEX
    BY <1>4 DEF Known, SYSEX, SONG_POSITION
  <2>2. QED
    BY <1>1, <1>2, <1>4, <2>1, BeginsSongPosition DEF t
<1>5. CASE b = SYSEX
  <2>1. ~Known(b)
    BY <1>5 DEF Known, SYSEX, SONG_POSITION
  <2>2. QED
    BY <1>1, <1>2, <1>5, <2>1, BeginsFrame DEF t
<1>6. CASE b \notin 128 .. 239 /\ b # SONG_POSITION /\ b # SYSEX
  <2>1. ~Known(b) /\ b \in 240 .. 247
    BY <1>6 DEF Known
  <2>2. QED
    BY <1>1, <1>2, <1>6, <2>1, BeginsNothing DEF t
<1>7. QED
  BY <1>3, <1>4, <1>5, <1>6

(* The message at its last data byte: it is acted upon when somebody        *)
(* listens, and CC_RESET alone ends the running status.                     *)
Due(status, data) == IF Accepted(status) THEN MidiMessage(status, data) ELSE NOTHING
RunningPast(status, data) ==
    IF Accepted(status) /\ IsReset(MidiMessage(status, data)) THEN 0 ELSE Running(status)

(* What a byte makes of a parser that is in a message.                      *)
LEMMA DataOfMessage ==
  ASSUME NEW p \in Parser, ParserSound(p), p.state = "progress", NEW b \in Byte
  PROVE  LET after == NewMessageData(p, b)
             bytes == Append(p.bytes, b)
         IN  /\ ParserSound(after.parser)
             /\ Len(bytes) = Len(p.bytes) + 1
             /\ Len(bytes) # p.need =>
                  /\ after.heard = NOTHING /\ after.parser.state = "progress"
                  /\ after.parser.bytes = bytes /\ after.parser.status = p.status
             /\ Len(bytes) = p.need =>
                  /\ after.heard = Due(p.status, bytes) /\ after.parser.state = "waiting"
                  /\ after.parser.running = RunningPast(p.status, bytes)
<1> DEFINE bytes == Append(p.bytes, b)
           after == NewMessageData(p, b)
<1>0. p.bytes \in Seq(Byte) /\ p.need \in Nat /\ p.status \in Nat
  BY DEF Parser
<1>1. bytes \in Seq(Byte) /\ Len(bytes) = Len(p.bytes) + 1 /\ Len(p.bytes) \in Nat
  BY <1>0
<1>2. CASE Len(bytes) # p.need
  <2> DEFINE q == [p EXCEPT !.bytes = bytes]
  <2>1. after = [parser |-> q, heard |-> NOTHING]
    BY <1>2, Zenon DEF NewMessageData
  <2>2. Len(bytes) < p.need
    BY <1>0, <1>1, <1>2 DEF ParserSound
  <2> HIDE DEF bytes
  <2>3. /\ q \in Parser /\ q.state = p.state /\ q.bytes = bytes /\ q.status = p.status
        /\ q.need = p.need /\ q.running = p.running
    BY <1>1 DEF Parser, State
  <2> HIDE DEF q, after
  <2>4. ParserSound(q)
    BY <1>1, <2>2, <2>3 DEF ParserSound
  <2>5. QED
    BY <1>1, <1>2, <2>1, <2>3, <2>4 DEF bytes, after
<1>3. CASE Len(bytes) = p.need
  <2> DEFINE none == <<>>
             running == RunningPast(p.status, bytes)
             q == [p EXCEPT !.state = "waiting", !.bytes = none, !.running = running]
  <2>1. running = IF Accepted(p.status) /\ IsReset(MidiMessage(p.status, bytes)) THEN 0 ELSE p.running
    BY DEF RunningPast, ParserSound
  <2>2. after.parser = q
    BY <1>3, <2>1, Zenon DEF NewMessageData
  <2>3. after.heard = Due(p.status, bytes)
    BY <1>3, Zenon DEF NewMessageData, Due
  <2> HIDE DEF bytes, running, after
  <2>4. running \in {0} \cup 128 .. 239 /\ running \in Nat /\ none \in Seq(Byte)
    BY <2>1, RunningIs
  <2> HIDE DEF none
  <2>5. q \in Parser /\ q.state = "waiting" /\ q.running = running /\ q.bytes = none
    BY <2>4 DEF Parser, State
  <2> HIDE DEF q
  <2>6. ParserSound(q)
    BY <2>4, <2>5 DEF ParserSound, none
  <2>7. QED
    BY <1>1, <1>3, <2>2, <2>3, <2>5, <2>6 DEF bytes, running, after
<1>4. QED
  BY <1>2, <1>3

(* A data byte that goes on with the running status begins its message.     *)
LEMMA RunningByte ==
  ASSUME NEW p \in Parser, ParserSound(p), p.state = "waiting", p.running # 0, NEW b \in DataByte
  PROVE  \E q \in Parser : /\ ParserSound(q) /\ q.state = "progress" /\ q.bytes = <<>>
                           /\ q.status = p.running /\ NewByte(p, b) = NewMessageData(q, b)
<1> DEFINE q == NewMessageType(p, p.running)
<1>1. p.running \in 128 .. 239 /\ p.running > 0 /\ ~(b >= 128) /\ b < 128
  BY RunningIs DEF DataByte
<1>2. NewByte(p, b) = NewMessageData(q, b)
  BY <1>1, Branches, Zenon
<1>3. ParserSound(q) /\ q.state = "progress" /\ q.status = p.running /\ q.bytes = <<>>
  BY <1>1, BeginsMessage DEF ParserSound
<1> HIDE DEF q
<1>4. QED
  BY <1>2, <1>3 DEF ParserSound

(* A byte of a frame. *)
LEMMA DataOfFrame ==
  ASSUME NEW p \in Parser, ParserSound(p), p.state = "sysex", NEW b \in DataByte, SysexSize \in Nat
  PROVE  LET after == NewByte(p, b)
         IN  /\ ParserSound(after.parser) /\ after.heard = NOTHING /\ after.parser.state = "sysex"
             /\ Len(p.bytes) < SysexSize => /\ after.parser.bytes = Append(p.bytes, b)
                                            /\ after.parser.overflowed = p.overflowed
             /\ ~(Len(p.bytes) < SysexSize) => /\ after.parser.bytes = p.bytes
                                               /\ after.parser.overflowed
<1> DEFINE after == NewByte(p, b)
<1>1. b # SYSEX_END /\ ~(b >= 128) /\ b \in Byte
  BY DEF DataByte, SYSEX_END, Byte
<1>2. after = SysexByte(p, b)
  BY Branches
<1>3. CASE Len(p.bytes) < SysexSize
  <2> DEFINE bytes == Append(p.bytes, b)
             q == [p EXCEPT !.bytes = bytes]
  <2>1. SysexByte(p, b) = [heard |-> NOTHING, parser |-> q]
    BY <1>1, <1>3, Zenon DEF SysexByte
  <2>2. bytes \in Seq(Byte)
    BY <1>1 DEF Parser
  <2> HIDE DEF bytes
  <2>3. /\ q \in Parser /\ q.state = p.state /\ q.bytes = bytes
        /\ q.running = p.running /\ q.overflowed = p.overflowed
    BY <2>2 DEF Parser, State
  <2> HIDE DEF q, after
  <2>4. QED
    BY <1>2, <1>3, <2>1, <2>3 DEF ParserSound, bytes, after
<1>4. CASE ~(Len(p.bytes) < SysexSize)
  <2> DEFINE q == [p EXCEPT !.overflowed = TRUE]
  <2>1. SysexByte(p, b) = [heard |-> NOTHING, parser |-> q]
    BY <1>1, <1>4, Zenon DEF SysexByte
  <2>2. q \in Parser /\ q.state = p.state /\ q.bytes = p.bytes /\ q.running = p.running /\ q.overflowed = TRUE
    BY DEF Parser, State
  <2> HIDE DEF q, after
  <2>3. after.parser = q /\ after.heard = NOTHING
    BY <1>2, <2>1
  <2>4. ParserSound(q)
    BY <2>2 DEF ParserSound
  <2>5. QED
    BY <1>4, <2>2, <2>3, <2>4 DEF after
<1>5. QED
  BY <1>3, <1>4

LEMMA EndOfFrame ==
  ASSUME NEW p \in Parser, ParserSound(p), p.state = "sysex"
  PROVE  LET after == NewByte(p, SYSEX_END)
         IN  /\ ParserSound(after.parser) /\ after.parser.state = "waiting"
             /\ after.parser.running = 0
             /\ after.heard = IF p.overflowed THEN NOTHING ELSE MidiMessage(SYSEX, p.bytes)
<1> DEFINE none == <<>>
           q == [p EXCEPT !.state = "waiting", !.bytes = none, !.overflowed = FALSE]
           after == NewByte(p, SYSEX_END)
<1>1. after = SysexByte(p, SYSEX_END)
  BY Branches
<1> DEFINE frame == IF p.overflowed THEN NOTHING ELSE MidiMessage(SYSEX, p.bytes)
<1>2. SysexByte(p, SYSEX_END) = [parser |-> q, heard |-> frame]
  BY Zenon DEF SysexByte, EndSysex
<1>3. none \in Seq(Byte)
  OBVIOUS
<1> HIDE DEF none
<1>4. q \in Parser /\ q.state = "waiting" /\ q.bytes = none /\ q.running = p.running
  BY <1>3 DEF Parser, State
<1> HIDE DEF q, after, frame
<1>5. after.parser = q /\ after.heard = frame
  BY <1>1, <1>2
<1>6. QED
  BY <1>4, <1>5 DEF ParserSound, after, none, frame

LEMMA IgnoredByte ==
  ASSUME NEW p \in Parser, ParserSound(p), p.state = "waiting", p.running = 0, NEW b \in DataByte
  PROVE  NewByte(p, b) = [parser |-> p, heard |-> NOTHING]
<1>1. ~(b >= 128) /\ ~(p.running > 0)
  BY DEF DataByte
<1>2. QED
  BY <1>1, Branches, Zenon

(* Whatever byte comes, the parser stays sound. *)
LEMMA AnyByteSound ==
  ASSUME NEW p \in Parser, ParserSound(p), NEW b \in Byte, SysexSize \in Nat
  PROVE  ParserSound(NewByte(p, b).parser)
<1>0. b \in DataByte \/ b \in 128 .. 247
  BY DEF Byte, DataByte
<1>1. CASE p.state = "progress"
  <2>1. NewByte(p, b) = NewMessageData(p, b)
    BY <1>1, Branches
  <2>2. QED
    BY <1>1, <2>1, DataOfMessage
<1>2. CASE p.state = "sysex" /\ b \in DataByte
  BY <1>2, DataOfFrame
<1>3. CASE p.state = "sysex" /\ b = SYSEX_END
  BY <1>3, EndOfFrame
<1>4. CASE p.state # "progress" /\ b \in 128 .. 247 /\ (p.state = "sysex" => b # SYSEX_END)
  BY <1>4, StatusByte
<1>5. CASE p.state = "waiting" /\ b \in DataByte /\ p.running # 0
  <2>1. PICK q \in Parser : /\ ParserSound(q) /\ q.state = "progress"
                            /\ NewByte(p, b) = NewMessageData(q, b)
    BY <1>5, RunningByte
  <2>2. QED
    BY <2>1, DataOfMessage
<1>6. CASE p.state = "waiting" /\ b \in DataByte /\ p.running = 0
  BY <1>6, IgnoredByte
<1>7. QED
  BY <1>0, <1>1, <1>2, <1>3, <1>4, <1>5, <1>6 DEF Parser, State

-----------------------------------------------------------------------------
(* What the rest g of a message has still to do with a parser p: at its     *)
(* last byte p acts upon m, and from then on r is its running status.       *)
AtStatus(p, g, m, r) ==
    /\ p.state # "progress"
    /\ \E st \in 128 .. 246, data \in Seq(DataByte) :
         /\ g = <<st>> \o data
         /\ \/ /\ Known(st) /\ Len(data) = NumberOfBytes(st)
               /\ m = Due(st, data) /\ r = RunningPast(st, data)
            \/ st \in Common /\ m = NOTHING /\ r = 0

InData(p, g, m, r) ==
    \E st \in 128 .. 246, data \in Seq(DataByte) :
        /\ Known(st) /\ Len(data) = NumberOfBytes(st) /\ data = p.bytes \o g
        /\ \/ p.state = "progress" /\ p.status = st
           \/ p.state = "waiting" /\ p.running = st
        /\ m = Due(st, data) /\ r = RunningPast(st, data)

InIgnored(p, g, m, r) ==
    /\ p.state = "waiting" /\ p.running = 0 /\ g \in Seq(DataByte)
    /\ m = NOTHING /\ r = 0

Endings == {<<>>, <<SYSEX_END>>}
FrameDue(body, end) ==
    IF end # <<>> /\ Len(body) <= SysexSize THEN MidiMessage(SYSEX, body) ELSE NOTHING

AtFrame(p, g, m, r) ==
    /\ p.state # "progress" /\ r = 0
    /\ \E body \in Seq(DataByte), end \in Endings :
         g = <<SYSEX>> \o body \o end /\ m = FrameDue(body, end)

InFrame(p, g, m, r) ==
    /\ p.state = "sysex" /\ r = 0 /\ Len(p.bytes) <= SysexSize
    /\ \E body \in Seq(DataByte), rest \in Seq(DataByte), end \in Endings :
         /\ g = rest \o end /\ m = FrameDue(body, end)
         /\ IF p.overflowed THEN Len(body) > SysexSize ELSE body = p.bytes \o rest

Idle(p, r) == p.state # "progress" /\ (r # 0 => p.state = "waiting" /\ p.running = r)
Promise(p, g, m, r) ==
    IF g = <<>> THEN Idle(p, r)
    ELSE \/ AtStatus(p, g, m, r) \/ InData(p, g, m, r) \/ InIgnored(p, g, m, r)
         \/ AtFrame(p, g, m, r) \/ InFrame(p, g, m, r)

LEMMA OneAhead ==
  ASSUME NEW S, NEW a \in S, NEW q \in Seq(S)
  PROVE  /\ <<a>> \o q \in Seq(S) /\ <<a>> \o q # <<>> /\ Len(<<a>> \o q) = Len(q) + 1
         /\ Head(<<a>> \o q) = a /\ Tail(<<a>> \o q) = q
<1> DEFINE w == <<a>> \o q
<1>1. <<a>> \in Seq(S) /\ Len(<<a>>) = 1 /\ <<a>>[1] = a
  OBVIOUS
<1>2. w \in Seq(S) /\ Len(w) = Len(q) + 1 /\ w[1] = a /\ \A i \in 1 .. Len(q) : w[i + 1] = q[i]
  BY <1>1, ConcatProperties
<1> HIDE DEF w
<1>3. w # <<>> /\ Head(w) = a
  BY <1>2
<1>4. Tail(w) \in Seq(S) /\ Len(Tail(w)) = Len(q) /\ \A i \in 1 .. Len(q) : Tail(w)[i] = q[i]
  BY <1>2, <1>3, HeadTailProperties
<1>5. Tail(w) = q
  BY <1>4, SeqEqual
<1>6. QED
  BY <1>2, <1>3, <1>5 DEF w

LEMMA OneFirst ==
  ASSUME NEW S, NEW x \in Seq(S), x # <<>>
  PROVE  /\ Head(x) \in S /\ Tail(x) \in Seq(S) /\ <<Head(x)>> \o Tail(x) = x
         /\ Len(x) \in Nat /\ Len(x) >= 1 /\ Len(Tail(x)) = Len(x) - 1
         /\ Len(x) = 1 <=> Tail(x) = <<>>
<1>1. /\ Head(x) \in S /\ Tail(x) \in Seq(S) /\ Len(Tail(x)) = Len(x) - 1
      /\ \A i \in 1 .. Len(Tail(x)) : Tail(x)[i] = x[i + 1]
  BY HeadTailProperties
<1>2. Len(x) \in Nat /\ Len(x) >= 1 /\ Head(x) = x[1]
  BY EmptySeq
<1> DEFINE t == Tail(x)
           h == Head(x)
           w == <<h>> \o t
<1>3. /\ w \in Seq(S) /\ Len(w) = Len(x)
      /\ \A i \in 1 .. Len(x) : w[i] = IF i <= 1 THEN h ELSE t[i - 1]
  <2>1. <<h>> \in Seq(S) /\ Len(<<h>>) = 1 /\ <<h>>[1] = h
    BY <1>1
  <2> HIDE DEF h, t
  <2>2. /\ w \in Seq(S) /\ Len(w) = 1 + Len(t)
        /\ \A i \in 1 .. 1 + Len(t) : w[i] = IF i <= 1 THEN <<h>>[i] ELSE t[i - 1]
    BY <1>1, <2>1, ConcatProperties DEF t
  <2>3. 1 + Len(t) = Len(x)
    BY <1>1, <1>2 DEF t
  <2> HIDE DEF w
  <2>4. QED
    BY <1>2, <2>1, <2>2, <2>3
<1> HIDE DEF w
<1>4. ASSUME NEW i \in 1 .. Len(w) PROVE w[i] = x[i]
  <2>1. CASE i = 1
    BY <1>2, <1>3, <2>1
  <2>2. CASE i # 1
    <3>1. i - 1 \in 1 .. Len(t) /\ ~(i <= 1) /\ i \in 1 .. Len(x)
      BY <1>1, <1>2, <1>3, <2>2
    <3> HIDE DEF t
    <3>2. w[i] = t[i - 1]
      BY <1>3, <3>1
    <3>3. t[i - 1] = x[(i - 1) + 1]
      BY <1>1, <3>1 DEF t
    <3>4. QED
      BY <3>1, <3>2, <3>3
  <2>3. QED
    BY <2>1, <2>2
<1>5. w = x
  BY <1>3, <1>4, SeqEqual
<1>6. Len(x) = 1 <=> t = <<>>
  <2>1. t \in Seq(S) /\ Len(t) = Len(x) - 1
    BY <1>1
  <2>2. t # <<>> => Len(t) # 0
    BY <2>1, EmptySeq
  <2>3. t = <<>> => Len(t) = 0
    BY EmptySeq
  <2> HIDE DEF t
  <2>4. QED
    BY <1>2, <2>1, <2>2, <2>3
<1>7. QED
  BY <1>1, <1>2, <1>5, <1>6 DEF w

LEMMA OneOver ==
  ASSUME NEW S, NEW x \in Seq(S), NEW g \in Seq(S), g # <<>>
  PROVE  Append(x, Head(g)) \o Tail(g) = x \o g
<1>1. Head(g) \in S /\ Tail(g) \in Seq(S) /\ <<Head(g)>> \o Tail(g) = g
  BY OneFirst
<1>2. Append(x, Head(g)) = x \o <<Head(g)>> /\ <<Head(g)>> \in Seq(S)
  BY <1>1, AppendIsConcat
<1>3. QED
  BY <1>1, <1>2, ConcatAssociative

LEMMA OneOff ==
  ASSUME NEW S, NEW x \in Seq(S), x # <<>>, NEW e \in Seq(S)
  PROVE  Head(x \o e) = Head(x) /\ Tail(x \o e) = Tail(x) \o e /\ x \o e # <<>>
<1>1. Head(x) \in S /\ Tail(x) \in Seq(S) /\ <<Head(x)>> \o Tail(x) = x /\ <<Head(x)>> \in Seq(S)
  BY OneFirst
<1>2. x \o e = <<Head(x)>> \o (Tail(x) \o e)
  BY <1>1, ConcatAssociative
<1>3. Tail(x) \o e \in Seq(S)
  BY <1>1, ConcatProperties
<1>4. QED
  BY <1>1, <1>2, <1>3, OneAhead

LEMMA BytesAre ==
  /\ DataByte \subseteq Byte /\ Seq(DataByte) \subseteq Seq(Byte)
  /\ \A end \in Endings : end \in Seq(Byte) /\ (end # <<>> => end = <<SYSEX_END>>)
  /\ SYSEX_END \in Byte /\ SYSEX \in Byte /\ SYSEX_END \notin DataByte
  BY DEF DataByte, Byte, Endings, SYSEX_END, SYSEX

(* The byte at the head of what is left of a message: what becomes of the   *)
(* promise, and what is acted upon.                                         *)
Kept(p, g, m, r) ==
    LET after == NewByte(p, Head(g))
    IN  /\ after.parser \in Parser /\ ParserSound(after.parser)
        /\ Promise(after.parser, Tail(g), m, r)
        /\ after.heard = IF Len(g) = 1 THEN m ELSE NOTHING

LEMMA KeptAtStatus ==
  ASSUME NEW p \in Parser, ParserSound(p), NEW g, NEW m, NEW r, AtStatus(p, g, m, r)
  PROVE  Kept(p, g, m, r)
<1>1. PICK st \in 128 .. 246, data \in Seq(DataByte) :
         /\ g = <<st>> \o data
         /\ \/ /\ Known(st) /\ Len(data) = NumberOfBytes(st)
               /\ m = Due(st, data) /\ r = RunningPast(st, data)
            \/ st \in Common /\ m = NOTHING /\ r = 0
  BY DEF AtStatus
<1>2. data \in Seq(Byte) /\ st \in Byte
  BY BytesAre DEF Byte
<1>3. Head(g) = st /\ Tail(g) = data /\ Len(g) = Len(data) + 1 /\ Len(data) \in Nat
  BY <1>1, <1>2, OneAhead
<1> DEFINE after == NewByte(p, st)
<1>4. /\ ParserSound(after.parser) /\ after.heard = NOTHING
      /\ Known(st) => /\ after.parser.state = "progress" /\ after.parser.status = st
                      /\ after.parser.bytes = <<>>
      /\ ~Known(st) /\ st # SYSEX => after.parser.state = "waiting" /\ after.parser.running = 0
  <2>1. st \in 128 .. 247 /\ st # SYSEX_END /\ p.state # "progress"
    BY DEF AtStatus, SYSEX_END
  <2>2. QED
    BY <2>1, StatusByte
<1> HIDE DEF after
<1>5. after.parser \in Parser
  BY <1>4 DEF ParserSound
<1>6. CASE Known(st) /\ Len(data) = NumberOfBytes(st) /\ m = Due(st, data) /\ r = RunningPast(st, data)
  <2>1. Len(data) # 0 /\ data # <<>> /\ Len(g) # 1
    <3>1. Len(data) # 0 /\ Len(g) # 1
      BY <1>3, <1>6 DEF NumberOfBytes
    <3>2. QED
      BY <3>1, EmptySeq
  <2>2. <<>> \o data = data
    BY ConcatEmptySeq
  <2>3. InData(after.parser, data, m, r)
    BY <1>4, <1>6, <2>2 DEF InData
  <2>4. Promise(after.parser, data, m, r)
    BY <2>1, <2>3 DEF Promise
  <2>5. QED
    BY <1>3, <1>4, <1>5, <2>1, <2>4 DEF Kept, after
<1>7. CASE st \in Common /\ m = NOTHING /\ r = 0
  <2>1. ~Known(st) /\ st # SYSEX
    BY <1>7 DEF Common, Known, SYSEX, SONG_POSITION
  <2>2. Promise(after.parser, data, m, r)
    BY <1>4, <1>7, <2>1 DEF Promise, InIgnored, Idle
  <2>3. QED
    BY <1>3, <1>4, <1>5, <1>7, <2>2 DEF Kept, after
<1>8. QED
  BY <1>1, <1>6, <1>7

LEMMA KeptInData ==
  ASSUME NEW p \in Parser, ParserSound(p), NEW g \in Seq(Byte), g # <<>>, NEW m, NEW r, InData(p, g, m, r)
  PROVE  Kept(p, g, m, r)
<1>1. PICK st \in 128 .. 246, data \in Seq(DataByte) :
        /\ Known(st) /\ Len(data) = NumberOfBytes(st) /\ data = p.bytes \o g
        /\ \/ p.state = "progress" /\ p.status = st
           \/ p.state = "waiting" /\ p.running = st
        /\ m = Due(st, data) /\ r = RunningPast(st, data)
  BY DEF InData
<1> DEFINE b == Head(g)
<1>2. b \in Byte /\ Tail(g) \in Seq(Byte) /\ Len(Tail(g)) = Len(g) - 1 /\ Len(g) \in Nat /\ Len(g) >= 1
      /\ (Len(g) = 1 <=> Tail(g) = <<>>)
  BY OneFirst
<1>3. PICK q \in Parser : /\ ParserSound(q) /\ q.state = "progress" /\ q.bytes = p.bytes
                          /\ q.status = st /\ NewByte(p, b) = NewMessageData(q, b)
  <2>1. CASE p.state = "progress" /\ p.status = st
    BY <2>1, Branches
  <2>2. CASE p.state = "waiting" /\ p.running = st
    <3>1. p.bytes = <<>>
      BY <2>2 DEF ParserSound
    <3>2. g = data
      BY <1>1, <3>1, ConcatEmptySeq
    <3>3. b \in DataByte /\ p.running # 0
      BY <2>2, <3>2, OneFirst
    <3>4. QED
      BY <2>2, <3>1, <3>3, RunningByte
  <2>3. QED
    BY <1>1, <2>1, <2>2
<1> DEFINE after == NewMessageData(q, b)
           bytes == Append(p.bytes, b)
<1>4. p.bytes \in Seq(Byte) /\ bytes \in Seq(Byte) /\ bytes \o Tail(g) = data
  <2>1. p.bytes \in Seq(Byte)
    BY DEF Parser
  <2>2. bytes \in Seq(Byte)
    BY <1>2, <2>1
  <2>3. bytes \o Tail(g) = p.bytes \o g
    BY <2>1, OneOver
  <2>4. QED
    BY <1>1, <2>1, <2>2, <2>3
<1>5. /\ ParserSound(after.parser)
      /\ Len(bytes) = Len(p.bytes) + 1
      /\ Len(bytes) # q.need =>
                  /\ after.heard = NOTHING /\ after.parser.state = "progress"
                  /\ after.parser.bytes = bytes /\ after.parser.status = st
      /\ Len(bytes) = q.need =>
                  /\ after.heard = Due(st, bytes) /\ after.parser.state = "waiting"
                  /\ after.parser.running = RunningPast(st, bytes)
  BY <1>2, <1>3, DataOfMessage
<1>6. Len(data) = Len(p.bytes) + Len(g) /\ Len(p.bytes) \in Nat /\ q.need = Len(data)
  BY <1>1, <1>3, <1>4, ConcatProperties DEF ParserSound
<1>7. after.parser \in Parser
  BY <1>5 DEF ParserSound
<1> HIDE DEF after, bytes, b
<1>8. CASE Len(g) = 1
  <2>1. Tail(g) = <<>> /\ Len(bytes) = q.need
    BY <1>2, <1>5, <1>6, <1>8
  <2>2. bytes = data
    BY <1>4, <2>1, ConcatEmptySeq
  <2>3. after.heard = m /\ Idle(after.parser, r)
    BY <1>1, <1>5, <2>1, <2>2 DEF Idle
  <2>4. QED
    BY <1>3, <1>5, <1>7, <1>8, <2>1, <2>3 DEF Kept, Promise, after, b
<1>9. CASE Len(g) # 1
  <2>1. Tail(g) # <<>> /\ Len(bytes) # q.need
    BY <1>2, <1>5, <1>6, <1>9
  <2>2. InData(after.parser, Tail(g), m, r)
    BY <1>1, <1>4, <1>5, <2>1 DEF InData
  <2>3. QED
    BY <1>3, <1>5, <1>7, <1>9, <2>1, <2>2 DEF Kept, Promise, after, b
<1>10. QED
  BY <1>8, <1>9

LEMMA KeptInIgnored ==
  ASSUME NEW p \in Parser, ParserSound(p), NEW g, g # <<>>, NEW m, NEW r, InIgnored(p, g, m, r)
  PROVE  Kept(p, g, m, r)
<1>1. g \in Seq(DataByte) /\ p.state = "waiting" /\ p.running = 0 /\ m = NOTHING /\ r = 0
  BY DEF InIgnored
<1>2. Head(g) \in DataByte /\ Tail(g) \in Seq(DataByte)
  BY <1>1, OneFirst
<1>3. NewByte(p, Head(g)) = [parser |-> p, heard |-> NOTHING]
  BY <1>1, <1>2, IgnoredByte
<1>4. Promise(p, Tail(g), m, r)
  BY <1>1, <1>2 DEF Promise, InIgnored, Idle
<1>5. QED
  BY <1>1, <1>3, <1>4 DEF Kept

LEMMA KeptAtFrame ==
  ASSUME NEW p \in Parser, ParserSound(p), NEW g, NEW m, NEW r, AtFrame(p, g, m, r), SysexSize \in Nat
  PROVE  Kept(p, g, m, r)
<1>1. PICK body \in Seq(DataByte), end \in Endings : g = <<SYSEX>> \o body \o end /\ m = FrameDue(body, end)
  BY DEF AtFrame
<1>2. body \in Seq(Byte) /\ end \in Seq(Byte) /\ SYSEX \in Byte /\ <<SYSEX>> \in Seq(Byte)
  BY BytesAre
<1> DEFINE q == body \o end
           after == NewByte(p, SYSEX)
<1>3. q \in Seq(Byte) /\ g = <<SYSEX>> \o q
  BY <1>1, <1>2, ConcatAssociative, ConcatProperties
<1>4. Head(g) = SYSEX /\ Tail(g) = q /\ Len(g) = Len(q) + 1 /\ Len(q) \in Nat
  BY <1>2, <1>3, OneAhead
<1>5. /\ ParserSound(after.parser) /\ after.heard = NOTHING
      /\ after.parser.state = "sysex" /\ after.parser.bytes = <<>> /\ ~after.parser.overflowed
  <2>1. SYSEX \in 128 .. 247 /\ SYSEX # SYSEX_END /\ p.state # "progress"
    BY DEF AtFrame, SYSEX, SYSEX_END
  <2>2. QED
    BY <2>1, StatusByte
<1>6. after.parser \in Parser
  BY <1>5 DEF ParserSound
<1>7. r = 0
  BY DEF AtFrame
<1>8. Promise(after.parser, q, m, r)
  <2>1. <<>> \o body = body
    BY ConcatEmptySeq
  <2>2. Len(<<>>) <= SysexSize
    BY EmptySeq
  <2> HIDE DEF after
  <2>3. InFrame(after.parser, q, m, r)
    BY <1>1, <1>5, <1>7, <2>1, <2>2 DEF InFrame
  <2>4. Idle(after.parser, r)
    BY <1>5, <1>7 DEF Idle
  <2>5. QED
    BY <2>3, <2>4 DEF Promise
<1>9. Len(g) = 1 => m = NOTHING
  <2>1. CASE q = <<>>
    <3>1. end = <<>>
      BY <1>2, <2>1, ConcatEqualIffEmpty
    <3>2. QED
      BY <1>1, <3>1 DEF FrameDue
  <2>2. CASE q # <<>>
    BY <1>3, <1>4, <2>2, EmptySeq
  <2>3. QED
    BY <2>1, <2>2
<1> HIDE DEF after
<1>10. QED
  BY <1>4, <1>5, <1>6, <1>8, <1>9 DEF Kept, after

LEMMA KeptInFrame ==
  ASSUME NEW p \in Parser, ParserSound(p), NEW g, g # <<>>, NEW m, NEW r, InFrame(p, g, m, r), SysexSize \in Nat
  PROVE  Kept(p, g, m, r)
<1>1. PICK body \in Seq(DataByte), rest \in Seq(DataByte), end \in Endings :
         /\ g = rest \o end /\ m = FrameDue(body, end)
         /\ IF p.overflowed THEN Len(body) > SysexSize ELSE body = p.bytes \o rest
  BY DEF InFrame
<1>2. /\ body \in Seq(Byte) /\ rest \in Seq(Byte) /\ end \in Seq(Byte) /\ p.bytes \in Seq(Byte)
      /\ Len(p.bytes) \in Nat /\ Len(p.bytes) <= SysexSize /\ p.state = "sysex" /\ r = 0
      /\ p.overflowed \in BOOLEAN
  BY BytesAre DEF InFrame, Parser
<1> DEFINE b == Head(g)
           after == NewByte(p, b)
<1>3. CASE rest = <<>>
  <2>1. g = end /\ end = <<SYSEX_END>>
    BY <1>1, <1>2, <1>3, ConcatEmptySeq, BytesAre
  <2>2. b = SYSEX_END /\ Tail(g) = <<>> /\ Len(g) = 1
    BY <2>1
  <2>3. /\ ParserSound(after.parser) /\ after.parser.state = "waiting"
        /\ after.heard = IF p.overflowed THEN NOTHING ELSE MidiMessage(SYSEX, p.bytes)
    BY <1>2, <2>2, EndOfFrame
  <2>4. ~p.overflowed => body = p.bytes
    BY <1>1, <1>2, <1>3, ConcatEmptySeq
  <2>5. m = IF p.overflowed THEN NOTHING ELSE MidiMessage(SYSEX, p.bytes)
    <3>1. Len(body) \in Nat
      BY <1>2, LenProperties
    <3>2. CASE p.overflowed
      BY <1>1, <3>1, <3>2 DEF FrameDue
    <3>3. CASE ~p.overflowed
      BY <1>1, <1>2, <2>1, <2>4, <3>3 DEF FrameDue
    <3>4. QED
      BY <3>2, <3>3
  <2> HIDE DEF after, b
  <2>6. Idle(after.parser, r)
    BY <1>2, <2>3 DEF Idle
  <2>7. QED
    BY <2>2, <2>3, <2>5, <2>6 DEF Kept, Promise, after, b, ParserSound
<1>4. CASE rest # <<>>
  <2>1. /\ Head(rest) \in DataByte /\ Tail(rest) \in Seq(DataByte) /\ Len(rest) \in Nat /\ Len(rest) >= 1
        /\ Len(Tail(rest)) = Len(rest) - 1
    BY <1>4, OneFirst
  <2>2. b = Head(rest) /\ Tail(g) = Tail(rest) \o end
    BY <1>1, <1>2, <1>4, OneOff
  <2>3. b \in DataByte /\ b \in Byte
    BY <2>1, <2>2, BytesAre
  <2>4. /\ ParserSound(after.parser) /\ after.heard = NOTHING /\ after.parser.state = "sysex"
        /\ Len(p.bytes) < SysexSize => /\ after.parser.bytes = Append(p.bytes, b)
                                       /\ after.parser.overflowed = p.overflowed
        /\ ~(Len(p.bytes) < SysexSize) => /\ after.parser.bytes = p.bytes
                                          /\ after.parser.overflowed
    BY <1>2, <2>3, DataOfFrame
  <2> HIDE DEF after, b
  <2>5. InFrame(after.parser, Tail(g), m, r)
    <3>1. CASE Len(p.bytes) < SysexSize
      <4>1. Len(Append(p.bytes, b)) = Len(p.bytes) + 1
        BY <1>2, <2>3, AppendProperties
      <4>2. Append(p.bytes, b) \o Tail(rest) = p.bytes \o rest
        BY <1>2, <1>4, <2>2, OneOver
      <4>3. Len(Append(p.bytes, b)) <= SysexSize
        BY <1>2, <3>1, <4>1
      <4>4. /\ after.parser.bytes = Append(p.bytes, b) /\ after.parser.overflowed = p.overflowed
            /\ after.parser.state = "sysex"
        BY <2>4, <3>1
      <4>5. IF after.parser.overflowed THEN Len(body) > SysexSize
            ELSE body = after.parser.bytes \o Tail(rest)
        BY <1>1, <4>2, <4>4
      <4>6. QED
        BY <1>1, <1>2, <2>1, <2>2, <4>3, <4>4, <4>5 DEF InFrame
    <3>2. CASE ~(Len(p.bytes) < SysexSize)
      <4>1. Len(body) > SysexSize
        <5>1. CASE p.overflowed
          BY <1>1, <5>1
        <5>2. CASE ~p.overflowed
          <6>1. Len(body) = Len(p.bytes) + Len(rest)
            BY <1>1, <1>2, <5>2, ConcatProperties
          <6>2. QED
            BY <1>2, <2>1, <3>2, <6>1
        <5>3. QED
          BY <5>1, <5>2
      <4>2. after.parser.bytes = p.bytes /\ after.parser.overflowed /\ after.parser.state = "sysex"
        BY <2>4, <3>2
      <4>3. QED
        BY <1>1, <1>2, <2>1, <2>2, <4>1, <4>2 DEF InFrame
    <3>3. QED
      BY <3>1, <3>2
  <2>6. Promise(after.parser, Tail(g), m, r)
    BY <1>2, <2>4, <2>5 DEF Promise, Idle
  <2>7. Len(g) = 1 => m = NOTHING
    <3>1. SUFFICES ASSUME Len(g) = 1 PROVE end = <<>>
      BY <1>1 DEF FrameDue
    <3>2. Len(g) = Len(rest) + Len(end) /\ Len(end) \in Nat
      BY <1>1, <1>2, ConcatProperties, LenProperties
    <3>3. Len(end) = 0
      BY <2>1, <3>1, <3>2
    <3>4. QED
      BY <1>2, <3>3, EmptySeq
  <2>8. QED
    BY <2>4, <2>6, <2>7 DEF Kept, after, b, ParserSound
<1>5. QED
  BY <1>3, <1>4

LEMMA PromiseKept ==
  ASSUME NEW p \in Parser, ParserSound(p), NEW g \in Seq(Byte), g # <<>>, NEW m, NEW r,
         Promise(p, g, m, r), SysexSize \in Nat
  PROVE  Kept(p, g, m, r)
  BY KeptAtStatus, KeptInData, KeptInIgnored, KeptAtFrame, KeptInFrame DEF Promise

-----------------------------------------------------------------------------
(* A message that is begun: its bytes, whole or without a status byte that  *)
(* is still the running one, promise what DueAtTheEnd says of it.           *)
MessageType == {NOTHING} \cup [status : 128 .. 246, data : Seq(DataByte)]
SenderType == [toGo : Seq(Byte), message : MessageType, running : {0} \cup 128 .. 239]

Begun(p, m, bytes) ==
    /\ bytes \in Seq(Byte) /\ RunningAfter(m) \in {0} \cup 128 .. 239
    /\ DueAtTheEnd(m, bytes) \in MessageType
    /\ DueAtTheEnd(m, bytes).status = SONG_POSITION =>
         m.status = SONG_POSITION /\ Len(DueAtTheEnd(m, bytes).data) = 2
    /\ Promise(p, bytes, DueAtTheEnd(m, bytes), RunningAfter(m))

LEMMA EncodingBegins ==
  ASSUME ~RunsOnAfterReset, NEW p \in Parser, ParserSound(p), NEW running \in {0} \cup 128 .. 239,
         Idle(p, running), NEW st, NEW data, WellFormed(MidiMessage(st, data)),
         NEW bytes \in Encodings(MidiMessage(st, data), running)
  PROVE  Begun(p, MidiMessage(st, data), bytes)
<1> DEFINE m == MidiMessage(st, data)
           due1 == DueAtTheEnd(m, bytes)
           r == RunningAfter(m)
<1>0. m.status = st /\ m.data = data
  BY DEF MidiMessage
<1> HIDE DEF m
<1>1. data \in Seq(DataByte) /\ ((Known(st) /\ Len(data) = NumberOfBytes(st)) \/ st \in Common)
  BY <1>0 DEF WellFormed, m
<1>2. st \in 128 .. 246 /\ st # SYSEX /\ st \in Byte
  <2>1. st \in 128 .. 239 \/ st = 242 \/ st \in {241, 243, 244, 245, 246}
    BY <1>1 DEF Known, Common, SONG_POSITION
  <2>2. QED
    BY <2>1 DEF SYSEX, Byte
<1>3. data \in Seq(Byte)
  BY <1>1, BytesAre
<1>4. bytes = <<st>> \o data \/ (running = st /\ bytes = data)
  BY <1>0 DEF Encodings, m
<1>5. CASE Known(st) /\ Len(data) = NumberOfBytes(st)
  <2>1. due1 = Due(st, data)
    BY <1>0, <1>2, Zenon DEF DueAtTheEnd, Due, m
  <2>2. st \in Nat /\ (st >= SYSEX <=> ~(st < SYSEX)) /\ (~(st < SYSEX) => Running(st) = 0)
        /\ (st < SYSEX => Running(st) = st)
    BY <1>2 DEF SYSEX, Running
  <2>3. r = RunningPast(st, data)
    BY <1>0, <2>2 DEF RunningAfter, RunningPast, m
  <2>4. Running(st) \in {0} \cup 128 .. 239
    BY <1>2 DEF Running, SYSEX
  <2>5. r \in {0} \cup 128 .. 239
    BY <2>3, <2>4 DEF RunningPast
  <2>6. due1 \in MessageType
    BY <1>1, <1>2, <2>1 DEF MessageType, Due, MidiMessage
  <2>7. due1.status = SONG_POSITION => st = SONG_POSITION /\ due1.data = data
    BY <2>1 DEF Due, MidiMessage, NOTHING, SONG_POSITION
  <2>8. due1.status = SONG_POSITION => m.status = SONG_POSITION /\ Len(due1.data) = 2
    BY <1>0, <1>5, <2>7 DEF NumberOfBytes, SONG_POSITION
  <2> HIDE DEF due1, r
  <2>9. CASE bytes = <<st>> \o data
    <3>1. AtStatus(p, bytes, due1, r)
      BY <1>1, <1>2, <1>5, <2>1, <2>3, <2>9 DEF AtStatus, Idle
    <3>2. bytes \in Seq(Byte) /\ bytes # <<>>
      BY <1>2, <1>3, <2>9, OneAhead
    <3>3. Promise(p, bytes, due1, r)
      BY <3>1, <3>2 DEF Promise
    <3>4. QED
      BY <2>5, <2>6, <2>8, <3>2, <3>3 DEF Begun, due1, r, m
  <2>10. CASE bytes = data /\ running = st
    <3>1. st # 0
      BY <1>2
    <3>2. p.state = "waiting" /\ p.running = st
      BY <2>10, <3>1 DEF Idle
    <3>3. p.bytes = <<>>
      BY <3>2, Zenon DEF ParserSound
    <3>4. data = p.bytes \o bytes
      BY <1>1, <2>10, <3>3, ConcatEmptySeq
    <3>5. InData(p, bytes, due1, r)
      BY <1>1, <1>2, <1>5, <2>1, <2>3, <3>2, <3>4 DEF InData
    <3>6. Len(data) # 0
      BY <1>5 DEF NumberOfBytes
    <3>7. bytes # <<>>
      BY <2>10, <3>6, EmptySeq
    <3>8. Promise(p, bytes, due1, r)
      BY <3>5, <3>7 DEF Promise
    <3>9. QED
      BY <1>3, <2>5, <2>6, <2>8, <2>10, <3>8 DEF Begun, due1, r, m
  <2>11. QED
    BY <1>4, <2>9, <2>10
<1>6. CASE st \in Common
  <2>1. ~Accepted(st) /\ st >= SYSEX /\ st \notin {0} \cup 128 .. 239
    BY <1>6 DEF Common, Accepted, SYSEX, SONG_POSITION
  <2>2. st # running
    BY <2>1
  <2>3. due1 = NOTHING /\ r = 0
    <3>0. m.status # SYSEX /\ ~Accepted(m.status)
      BY <1>0, <1>2, <2>1
    <3>1. due1 = NOTHING
      BY <3>0 DEF DueAtTheEnd
    <3>2. r = 0
      BY <1>0, <2>1, Zenon DEF RunningAfter
    <3>3. QED
      BY <3>1, <3>2
  <2>4. bytes = <<st>> \o data
    BY <1>4, <2>2
  <2>5. due1 \in MessageType /\ due1.status # SONG_POSITION /\ r \in {0} \cup 128 .. 239
    BY <2>3 DEF MessageType, NOTHING, SONG_POSITION
  <2> HIDE DEF due1, r
  <2>6. AtStatus(p, bytes, due1, r)
    BY <1>1, <1>2, <1>6, <2>3, <2>4 DEF AtStatus, Idle
  <2>7. bytes \in Seq(Byte) /\ bytes # <<>>
    BY <1>2, <1>3, <2>4, OneAhead
  <2>8. Promise(p, bytes, due1, r)
    BY <2>6, <2>7 DEF Promise
  <2>9. QED
    BY <2>5, <2>7, <2>8 DEF Begun, due1, r, m
<1>7. QED
  BY <1>1, <1>5, <1>6 DEF m

LEMMA FrameBegins ==
  ASSUME SysexSize \in Nat, NEW p \in Parser, ParserSound(p), NEW running, Idle(p, running),
         NEW payload \in Seq(DataByte), NEW bytes \in Frames(payload)
  PROVE  Begun(p, MidiMessage(SYSEX, payload), bytes)
<1> DEFINE m == MidiMessage(SYSEX, payload)
           due1 == DueAtTheEnd(m, bytes)
           r == RunningAfter(m)
           first == <<SYSEX>> \o payload
<1>1. payload \in Seq(Byte) /\ <<SYSEX>> \in Seq(Byte) /\ SYSEX \in Byte /\ Len(payload) \in Nat
  BY BytesAre, LenProperties
<1>2. /\ first \in Seq(Byte) /\ first # <<>> /\ Len(first) = Len(payload) + 1
      /\ \A i \in 1 .. 1 + Len(payload) : first[i] = IF i <= 1 THEN SYSEX ELSE payload[i - 1]
  <2>1. Len(<<SYSEX>>) = 1 /\ <<SYSEX>>[1] = SYSEX
    OBVIOUS
  <2>2. /\ first \in Seq(Byte) /\ Len(first) = 1 + Len(payload)
        /\ \A i \in 1 .. 1 + Len(payload) : first[i] = IF i <= 1 THEN <<SYSEX>>[i] ELSE payload[i - 1]
    BY <1>1, <2>1, ConcatProperties
  <2> HIDE DEF first
  <2>3. first # <<>>
    BY <1>1, <2>2, EmptySeq
  <2>4. QED
    BY <1>1, <2>1, <2>2, <2>3
<1>3. r = 0 /\ m.status = SYSEX /\ m.data = payload
  BY DEF RunningAfter, MidiMessage, SYSEX
<1>4. first[Len(first)] # SYSEX_END
  <2> HIDE DEF first
  <2>1. CASE Len(payload) = 0
    <3>1. first[1] = SYSEX /\ Len(first) = 1
      BY <1>1, <1>2, <2>1
    <3>2. QED
      BY <3>1 DEF SYSEX, SYSEX_END
  <2>2. CASE Len(payload) # 0
    <3>1. first[Len(first)] = payload[Len(payload)]
      BY <1>1, <1>2, <2>2
    <3>2. payload[Len(payload)] \in DataByte
      BY <1>1, <2>2, ElementOfSeq
    <3>3. QED
      BY <3>1, <3>2, BytesAre
  <2>3. QED
    BY <2>1, <2>2
<1>5. PICK end \in Endings : bytes = first \o end /\ (end = <<>> \/ end = <<SYSEX_END>>)
  <2>1. first \o <<>> = first
    BY <1>2, ConcatEmptySeq
  <2>2. bytes = first \o <<SYSEX_END>> \/ bytes = first
    BY DEF Frames
  <2>3. QED
    BY <2>1, <2>2 DEF Endings
<1> HIDE DEF first
<1>6. due1 = FrameDue(payload, end) /\ bytes \in Seq(Byte) /\ bytes # <<>>
  <2>1. CASE end = <<>>
    <3>1. bytes = first
      BY <1>2, <1>5, <2>1, ConcatEmptySeq
    <3>2. due1 = NOTHING
      BY <1>3, <1>4, <3>1 DEF DueAtTheEnd
    <3>3. QED
      BY <1>2, <2>1, <3>1, <3>2 DEF FrameDue
  <2>2. CASE end = <<SYSEX_END>>
    <3>1. bytes = Append(first, SYSEX_END)
      BY <1>2, <1>5, <2>2, AppendIsConcat, BytesAre
    <3>2. bytes \in Seq(Byte) /\ bytes # <<>> /\ bytes[Len(bytes)] = SYSEX_END
      BY <1>2, <3>1, AppendProperties, BytesAre
    <3>3. due1 = IF Len(payload) <= SysexSize THEN m ELSE NOTHING
      BY <1>3, <3>2 DEF DueAtTheEnd
    <3>4. end # <<>>
      BY <2>2
    <3>5. QED
      BY <3>2, <3>3, <3>4 DEF FrameDue
  <2>3. QED
    BY <1>5, <2>1, <2>2
<1>7. due1 \in MessageType /\ due1.status # SONG_POSITION
  BY <1>6 DEF FrameDue, MessageType, MidiMessage, NOTHING, SYSEX, SONG_POSITION
<1> HIDE DEF due1, r, m
<1>8. AtFrame(p, bytes, due1, r)
  BY <1>3, <1>5, <1>6 DEF AtFrame, Idle, first
<1>9. QED
  BY <1>3, <1>6, <1>7, <1>8 DEF Begun, Promise, due1, r, m

-----------------------------------------------------------------------------
(* After noise: what is still missing of the message that the noise began,  *)
(* and where the clean note stands while the decoder takes it for data.     *)
WaitsForStatus(p) ==
    p.state = "waiting" /\ (p.running = 0 \/ NumberOfBytes(p.running) = 1)
ProbeBytes(toGo) == IF toGo = <<>> THEN <<NOTE_ON, 60, 100>> ELSE toGo
MissesOne(p) == p.state = "progress" /\ Len(p.bytes) + 1 = p.need
Late(p, toGo) ==
    \/ toGo = <<>> /\ MissesOne(p)
    \/ toGo = <<60, 100>> /\ p.state = "waiting"
    \/ toGo = <<100>> /\ (MissesOne(p) \/ WaitsForStatus(p))

LEMMA LastByte ==
  ASSUME NEW p \in Parser, ParserSound(p), MissesOne(p), NEW b \in Byte
  PROVE  LET after == NewByte(p, b) IN ParserSound(after.parser) /\ after.parser.state = "waiting"
<1>1. NewByte(p, b) = NewMessageData(p, b)
  BY Branches DEF MissesOne
<1>2. QED
  BY <1>1, DataOfMessage DEF MissesOne

(* A data byte for a parser that waits: the first of a message of two, or   *)
(* the parser waits again.                                                  *)
LEMMA FirstByte ==
  ASSUME NEW p \in Parser, ParserSound(p), p.state = "waiting", NEW b \in DataByte
  PROVE  LET after == NewByte(p, b)
         IN  /\ ParserSound(after.parser)
             /\ MissesOne(after.parser) \/ WaitsForStatus(after.parser)
             /\ p.running = 0 \/ NumberOfBytes(p.running) = 1 => after.parser.state = "waiting"
<1> DEFINE after == NewByte(p, b)
<1>1. CASE p.running = 0
  <2>1. after.parser = p
    BY <1>1, IgnoredByte
  <2>2. QED
    BY <1>1, <2>1 DEF WaitsForStatus
<1>2. CASE p.running # 0
  <2>1. PICK q \in Parser : /\ ParserSound(q) /\ q.state = "progress" /\ q.bytes = <<>>
                            /\ q.status = p.running /\ after = NewMessageData(q, b)
    BY <1>2, RunningByte
  <2>2. q.need = NumberOfBytes(p.running) /\ q.need \in {1, 2}
    BY <2>1 DEF ParserSound, NumberOfBytes
  <2>3. Len(q.bytes) = 0 /\ b \in Byte
    BY <2>1, BytesAre
  <2> DEFINE bytes == Append(q.bytes, b)
  <2>4. /\ ParserSound(after.parser) /\ Len(bytes) = 1
        /\ Len(bytes) # q.need => after.parser.state = "progress" /\ after.parser.bytes = bytes
        /\ Len(bytes) = q.need => /\ after.parser.state = "waiting"
                                  /\ after.parser.running = RunningPast(q.status, bytes)
    <3> DEFINE of == NewMessageData(q, b)
    <3>1. /\ ParserSound(of.parser) /\ Len(bytes) = Len(q.bytes) + 1
          /\ Len(bytes) # q.need => of.parser.state = "progress" /\ of.parser.bytes = bytes
          /\ Len(bytes) = q.need => /\ of.parser.state = "waiting"
                                    /\ of.parser.running = RunningPast(q.status, bytes)
      BY <2>1, <2>3, DataOfMessage
    <3> HIDE DEF of, bytes, after
    <3>2. after = of
      BY <2>1 DEF of
    <3>3. QED
      BY <2>3, <3>1, <3>2
  <2> HIDE DEF bytes, after
  <2>5. CASE q.need = 1
    <3>1. after.parser.state = "waiting" /\ after.parser.running = RunningPast(q.status, bytes)
      BY <2>4, <2>5
    <3>2. after.parser.running \in {0, q.status}
      BY <3>1 DEF RunningPast, Running
    <3>3. NumberOfBytes(q.status) = 1
      BY <2>1, <2>2, <2>5
    <3>4. WaitsForStatus(after.parser)
      BY <3>1, <3>2, <3>3 DEF WaitsForStatus
    <3>5. QED
      BY <2>4, <3>1, <3>4 DEF after
  <2>6. CASE q.need = 2
    <3>1. after.parser.state = "progress" /\ Len(after.parser.bytes) = 1
      BY <2>4, <2>6
    <3>2. after.parser.need \in {1, 2} /\ 1 < after.parser.need
      BY <2>4, <3>1 DEF ParserSound, NumberOfBytes
    <3>3. MissesOne(after.parser)
      BY <3>1, <3>2 DEF MissesOne
    <3>4. QED
      BY <1>2, <2>2, <2>4, <2>6, <3>3 DEF after
  <2>7. QED
    BY <2>2, <2>5, <2>6 DEF after
<1>3. QED
  BY <1>1, <1>2

(* The end of a frame after noise. *)
LEMMA NoiseEnds ==
  ASSUME NEW p \in Parser, ParserSound(p)
  PROVE  LET after == NewByte(p, SYSEX_END)
         IN  /\ ParserSound(after.parser)
             /\ MissesOne(after.parser) \/ after.parser.state = "waiting"
<1> DEFINE after == NewByte(p, SYSEX_END)
<1>1. SYSEX_END \in Byte /\ SYSEX_END \in 128 .. 247 /\ ~Known(SYSEX_END) /\ SYSEX_END # SYSEX
  BY BytesAre DEF SYSEX_END, Known, SYSEX, SONG_POSITION
<1>2. CASE p.state = "progress"
  <2>1. after = NewMessageData(p, SYSEX_END)
    BY <1>2, Branches
  <2> DEFINE bytes == Append(p.bytes, SYSEX_END)
  <2>2. /\ ParserSound(after.parser) /\ Len(bytes) = Len(p.bytes) + 1
        /\ Len(bytes) # p.need => after.parser.state = "progress" /\ after.parser.bytes = bytes
        /\ Len(bytes) = p.need => after.parser.state = "waiting"
    BY <1>1, <1>2, <2>1, DataOfMessage
  <2> HIDE DEF bytes, after
  <2>3. CASE Len(bytes) = p.need
    BY <2>2, <2>3 DEF after
  <2>4. CASE Len(bytes) # p.need
    <3>1. /\ after.parser.state = "progress" /\ after.parser.need \in {1, 2}
          /\ Len(after.parser.bytes) < after.parser.need /\ Len(after.parser.bytes) = Len(p.bytes) + 1
      BY <2>2, <2>4 DEF ParserSound, NumberOfBytes
    <3>2. Len(p.bytes) \in Nat
      BY DEF Parser
    <3>3. QED
      BY <2>2, <3>1, <3>2 DEF MissesOne, after
  <2>5. QED
    BY <2>3, <2>4
<1>3. CASE p.state = "sysex"
  BY <1>3, EndOfFrame
<1>4. CASE p.state = "waiting"
  BY <1>1, <1>4, StatusByte
<1>5. QED
  BY <1>2, <1>3, <1>4 DEF Parser, State

LEMMA CleanNoteBegins ==
  ASSUME NEW p, p.state # "progress"
  PROVE  Promise(p, <<NOTE_ON, 60, 100>>, CleanNote, NOTE_ON)
<1>1. <<NOTE_ON, 60, 100>> = <<NOTE_ON>> \o <<60, 100>> /\ <<NOTE_ON, 60, 100>> # <<>>
  OBVIOUS
<1>2. <<60, 100>> \in Seq(DataByte) /\ Len(<<60, 100>>) = 2
  BY DEF DataByte
<1>3. /\ NOTE_ON \in 128 .. 246 /\ Known(NOTE_ON) /\ NumberOfBytes(NOTE_ON) = 2 /\ Accepted(NOTE_ON)
      /\ NOTE_ON # CONTROL_CHANGE /\ Running(NOTE_ON) = NOTE_ON
  BY DEF NOTE_ON, Known, NumberOfBytes, Accepted, SYSEX, CONTROL_CHANGE, Running
<1>4. Due(NOTE_ON, <<60, 100>>) = CleanNote
  BY <1>3 DEF Due, CleanNote
<1>5. RunningPast(NOTE_ON, <<60, 100>>) = NOTE_ON
  BY <1>3 DEF RunningPast, IsReset, MidiMessage
<1>6. AtStatus(p, <<NOTE_ON, 60, 100>>, CleanNote, NOTE_ON)
  BY <1>1, <1>2, <1>3, <1>4, <1>5 DEF AtStatus
<1>7. QED
  BY <1>1, <1>6 DEF Promise

(* A late parser stays late until the first note is over, and waits then.   *)
LEMMA LateKept ==
  ASSUME NEW p \in Parser, ParserSound(p), NEW toGo, Late(p, toGo)
  PROVE  LET g == ProbeBytes(toGo)
             after == NewByte(p, Head(g))
         IN  /\ ParserSound(after.parser) /\ g \in Seq(Byte) /\ g # <<>>
             /\ Len(g) = 1 => after.parser.state = "waiting"
             /\ Len(g) # 1 => Tail(g) # <<>> /\ Late(after.parser, Tail(g))
<1>1. CASE toGo = <<>> /\ MissesOne(p)
  <2> DEFINE g == <<NOTE_ON, 60, 100>>
  <2>1. ProbeBytes(toGo) = g
    BY <1>1 DEF ProbeBytes
  <2>2. Head(g) = NOTE_ON /\ Len(g) = 3 /\ g # <<>> /\ Tail(g) = <<60, 100>> /\ Tail(g) # <<>>
    OBVIOUS
  <2>3. NOTE_ON \in Byte /\ g \in Seq(Byte)
    BY DEF NOTE_ON, Byte
  <2> DEFINE after == NewByte(p, NOTE_ON)
  <2>4. Late(after.parser, <<60, 100>>) /\ ParserSound(after.parser)
    BY <1>1, <2>3, LastByte DEF Late
  <2> HIDE DEF g, after
  <2>6. Late(after.parser, Tail(g)) /\ NewByte(p, Head(g)) = after
    BY <2>2, <2>4, Zenon DEF after
  <2>7. Len(g) # 1
    BY <2>2
  <2>5. QED
    BY <2>1, <2>2, <2>3, <2>4, <2>6, <2>7, Zenon
<1>2. CASE toGo = <<60, 100>> /\ p.state = "waiting"
  <2> DEFINE g == <<60, 100>>
             after == NewByte(p, 60)
  <2>1. Head(g) = 60 /\ Len(g) = 2 /\ g # <<>> /\ Tail(g) = <<100>> /\ Tail(g) # <<>>
    OBVIOUS
  <2>2. 60 \in DataByte /\ g \in Seq(Byte)
    BY DEF DataByte, Byte
  <2> HIDE DEF g
  <2>3. ProbeBytes(toGo) = g
    BY <1>2, <2>1 DEF ProbeBytes, g
  <2>4. ParserSound(after.parser) /\ (MissesOne(after.parser) \/ WaitsForStatus(after.parser))
    BY <1>2, <2>2, FirstByte
  <2>5. Late(after.parser, <<100>>)
    BY <2>4 DEF Late
  <2> HIDE DEF after
  <2>6. Late(after.parser, Tail(g)) /\ NewByte(p, Head(g)) = after
    BY <2>1, <2>5, Zenon DEF after
  <2>7. Len(g) # 1
    BY <2>1
  <2>8. QED
    BY <2>1, <2>2, <2>3, <2>4, <2>6, <2>7, Zenon
<1>3. CASE toGo = <<100>> /\ (MissesOne(p) \/ WaitsForStatus(p))
  <2> DEFINE g == <<100>>
             after == NewByte(p, 100)
  <2>1. Head(g) = 100 /\ Len(g) = 1 /\ g # <<>>
    OBVIOUS
  <2>2. 100 \in DataByte /\ 100 \in Byte /\ g \in Seq(Byte)
    BY DEF DataByte, Byte
  <2> HIDE DEF g
  <2>3. ProbeBytes(toGo) = g
    BY <1>3, <2>1 DEF ProbeBytes, g
  <2>4. ParserSound(after.parser) /\ after.parser.state = "waiting"
    BY <1>3, <2>2, FirstByte, LastByte DEF WaitsForStatus
  <2>5. QED
    BY <2>1, <2>2, <2>3, <2>4
<1>4. QED
  BY <1>1, <1>2, <1>3 DEF Late

-----------------------------------------------------------------------------
(* The invariant of Resyncs.  Once the noise is over a note has been heard, *)
(* or the parser is at the note that is being sent, or the first note is    *)
(* not over and will find the parser waiting at its end.                    *)
NoProbe == [toGo |-> <<>>, sent |-> 0, heard |-> FALSE]
Probing ==
    /\ probe.toGo \in Seq(Byte) /\ probe.sent \in 0 .. 2
    /\ \/ probe.heard
       \/ probe.sent # 2 /\ Promise(parser, ProbeBytes(probe.toGo), CleanNote, NOTE_ON)
       \/ probe.sent = 0 /\ Late(parser, probe.toGo)
ResyncInv ==
    /\ mode \in {"messages", "noise", "probe"}
    /\ mode # "probe" => probe = NoProbe
    /\ mode # "messages" => /\ \A s \in Sources : sender[s].toGo = <<>>
                            /\ parser \in Parser /\ ParserSound(parser)
    /\ mode = "probe" => Probing

LEMMA ParserAtFirst ==
  ASSUME Init
  PROVE  parser \in Parser /\ ParserSound(parser) /\ parser.state = "waiting" /\ parser.running = 0
<1> DEFINE none == <<>>
<1>1. none \in Seq(Byte)
  OBVIOUS
<1>2. parser = [state |-> "waiting", status |-> 0, need |-> 0, bytes |-> none,
                running |-> 0, overflowed |-> FALSE]
  BY DEF Init
<1> HIDE DEF none
<1>3. parser \in Parser
  BY <1>1, <1>2 DEF Parser, State
<1>4. parser.state = "waiting" /\ parser.running = 0 /\ parser.bytes = none
  BY <1>2
<1>5. QED
  BY <1>3, <1>4 DEF ParserSound, none

LEMMA ProbeBytesAre ==
  ASSUME NEW toGo \in Seq(Byte)
  PROVE  LET g == ProbeBytes(toGo)
         IN  g \in Seq(Byte) /\ g # <<>> /\ (Len(g) = 1 <=> Tail(g) = <<>>)
             /\ Tail(g) \in Seq(Byte) /\ Head(g) \in Byte /\ (Tail(g) # <<>> => ProbeBytes(Tail(g)) = Tail(g))
<1> DEFINE g == ProbeBytes(toGo)
<1>1. <<NOTE_ON, 60, 100>> \in Seq(Byte) /\ <<NOTE_ON, 60, 100>> # <<>>
  BY DEF NOTE_ON, Byte
<1>2. g \in Seq(Byte) /\ g # <<>>
  BY <1>1 DEF ProbeBytes
<1> HIDE DEF g
<1>3. (Len(g) = 1 <=> Tail(g) = <<>>) /\ Tail(g) \in Seq(Byte) /\ Head(g) \in Byte
  BY <1>2, OneFirst
<1>4. Tail(g) # <<>> => ProbeBytes(Tail(g)) = Tail(g)
  BY Zenon DEF ProbeBytes
<1>5. QED
  BY <1>2, <1>3, <1>4 DEF g

LEMMA ProbeStep ==
  ASSUME SysexSize \in Nat, mode = "probe", ResyncInv, Probe
  PROVE  Probing' /\ parser' \in Parser /\ ParserSound(parser')
<1> DEFINE g == ProbeBytes(probe.toGo)
           after == NewByte(parser, Head(g))
<1>1. /\ parser \in Parser /\ ParserSound(parser) /\ probe.toGo \in Seq(Byte)
      /\ probe.sent \in 0 .. 2 /\ probe.sent < 2
  BY DEF ResyncInv, Probing, Probe
<1>2. /\ parser' = after.parser /\ heard' = after.heard
      /\ probe' = [toGo |-> Tail(g), heard |-> probe.heard \/ heard' = CleanNote,
                   sent |-> probe.sent + (IF Len(g) = 1 THEN 1 ELSE 0)]
  BY DEF Probe, Receive, ProbeBytes
<1>3. /\ g \in Seq(Byte) /\ g # <<>> /\ (Len(g) = 1 <=> Tail(g) = <<>>)
      /\ Tail(g) \in Seq(Byte) /\ Head(g) \in Byte /\ (Tail(g) # <<>> => ProbeBytes(Tail(g)) = Tail(g))
  BY <1>1, ProbeBytesAre
<1>4. ParserSound(after.parser)
  BY <1>1, <1>3, AnyByteSound
<1> HIDE DEF g
<1>5. /\ probe'.toGo = Tail(g) /\ probe'.toGo \in Seq(Byte)
      /\ probe'.heard = (probe.heard \/ heard' = CleanNote)
      /\ probe'.sent = probe.sent + (IF Len(g) = 1 THEN 1 ELSE 0) /\ probe'.sent \in 0 .. 2
  BY <1>1, <1>2, <1>3
<1>6. CASE probe.heard
  <2>1. probe'.heard
    BY <1>5, <1>6
  <2>2. QED
    BY <1>2, <1>4, <1>5, <2>1 DEF Probing, ParserSound
<1>7. CASE probe.sent # 2 /\ Promise(parser, g, CleanNote, NOTE_ON)
  <2>1. /\ Promise(after.parser, Tail(g), CleanNote, NOTE_ON)
        /\ after.heard = IF Len(g) = 1 THEN CleanNote ELSE NOTHING
    BY <1>1, <1>3, <1>7, PromiseKept DEF Kept
  <2> HIDE DEF after
  <2>2. CASE Len(g) = 1
    <3>1. probe'.heard
      BY <1>2, <1>5, <2>1, <2>2
    <3>2. QED
      BY <1>2, <1>4, <1>5, <3>1 DEF Probing, ParserSound
  <2>3. CASE Len(g) # 1
    <3>1. probe'.sent = probe.sent /\ probe'.sent # 2
      BY <1>1, <1>5, <2>3
    <3>2. ProbeBytes(probe'.toGo) = Tail(g)
      BY <1>3, <1>5, <2>3
    <3>3. Promise(parser', ProbeBytes(probe'.toGo), CleanNote, NOTE_ON)
      BY <1>2, <2>1, <3>2
    <3>4. QED
      BY <1>2, <1>4, <1>5, <3>1, <3>3 DEF Probing, ParserSound
  <2>4. QED
    BY <2>2, <2>3
<1>8. CASE probe.sent = 0 /\ Late(parser, probe.toGo)
  <2>1. /\ Len(g) = 1 => after.parser.state = "waiting"
        /\ Len(g) # 1 => Tail(g) # <<>> /\ Late(after.parser, Tail(g))
    BY <1>1, <1>8, LateKept DEF g
  <2> HIDE DEF after
  <2>2. CASE Len(g) = 1
    <3>1. probe'.sent # 2 /\ probe'.toGo = <<>>
      BY <1>3, <1>5, <1>8, <2>2
    <3>2. ProbeBytes(probe'.toGo) = <<NOTE_ON, 60, 100>>
      BY <3>1 DEF ProbeBytes
    <3>3. parser'.state # "progress"
      BY <1>2, <2>1, <2>2
    <3>4. Promise(parser', ProbeBytes(probe'.toGo), CleanNote, NOTE_ON)
      BY <3>2, <3>3, CleanNoteBegins
    <3>5. QED
      BY <1>2, <1>4, <1>5, <3>1, <3>4 DEF Probing, ParserSound
  <2>3. CASE Len(g) # 1
    <3>1. probe'.sent = 0 /\ Late(parser', probe'.toGo)
      BY <1>2, <1>5, <1>8, <2>1, <2>3
    <3>2. QED
      BY <1>2, <1>4, <1>5, <3>1 DEF Probing, ParserSound
  <2>4. QED
    BY <2>2, <2>3
<1>9. QED
  BY <1>6, <1>7, <1>8 DEF ResyncInv, Probing, g

LEMMA EndNoiseStep ==
  ASSUME ResyncInv, EndNoise
  PROVE  Probing' /\ parser' \in Parser /\ ParserSound(parser')
<1> DEFINE after == NewByte(parser, SYSEX_END)
<1>1. parser \in Parser /\ ParserSound(parser) /\ probe = NoProbe /\ probe' = probe
      /\ parser' = after.parser
  BY DEF ResyncInv, EndNoise, Receive
<1>2. ParserSound(after.parser) /\ (MissesOne(after.parser) \/ after.parser.state = "waiting")
  BY <1>1, NoiseEnds
<1> HIDE DEF after
<1> DEFINE none == <<>>
<1>3. none \in Seq(Byte)
  OBVIOUS
<1> HIDE DEF none
<1>4. probe'.toGo = none /\ probe'.sent = 0
  BY <1>1 DEF NoProbe, none
<1>5. CASE MissesOne(after.parser)
  <2>1. Late(parser', probe'.toGo)
    BY <1>1, <1>4, <1>5 DEF Late, none
  <2>2. QED
    BY <1>1, <1>2, <1>3, <1>4, <2>1 DEF Probing, ParserSound
<1>6. CASE after.parser.state = "waiting"
  <2>1. ProbeBytes(probe'.toGo) = <<NOTE_ON, 60, 100>>
    BY <1>4 DEF ProbeBytes, none
  <2>2. Promise(parser', ProbeBytes(probe'.toGo), CleanNote, NOTE_ON)
    BY <1>1, <1>6, <2>1, CleanNoteBegins
  <2>3. QED
    BY <1>1, <1>2, <1>3, <1>4, <2>2 DEF Probing, ParserSound
<1>7. QED
  BY <1>2, <1>5, <1>6

LEMMA ResyncStep ==
  ASSUME SysexSize \in Nat, NoiseBytes \subseteq Byte, ResyncInv, [Next]_vars
  PROVE  ResyncInv'
<1>1. CASE BeginMessage
  <2>1. mode = "messages" /\ mode' = mode /\ probe' = probe
    BY <1>1 DEF BeginMessage, Begin
  <2>2. QED
    BY <2>1 DEF ResyncInv, NoProbe
<1>2. CASE DecodeMidiIn
  <2>1. mode' = mode /\ probe' = probe /\ \E s \in Sources : sender[s].toGo # <<>>
    BY <1>2 DEF DecodeMidiIn
  <2>2. mode = "messages"
    BY <2>1 DEF ResyncInv
  <2>3. QED
    BY <2>1, <2>2 DEF ResyncInv, NoProbe
<1>3. CASE MidiClock \/ MidiStart \/ MidiContinue \/ MidiStop
  <2>1. mode = "messages" /\ mode' = mode /\ probe' = probe
    BY <1>3 DEF MidiClock, MidiStart, MidiContinue, MidiStop, RealTime
  <2>2. QED
    BY <2>1 DEF ResyncInv, NoProbe
<1>4. CASE Noise
  <2>1. PICK b \in NoiseBytes : parser' = NewByte(parser, b).parser
    BY <1>4 DEF Noise, Receive
  <2>2. mode = "noise" /\ mode' = mode /\ probe' = probe /\ sender' = sender
    BY <1>4 DEF Noise
  <2>3. ParserSound(parser')
    BY <2>1, <2>2, AnyByteSound DEF ResyncInv
  <2>4. QED
    BY <2>2, <2>3 DEF ResyncInv, NoProbe, ParserSound
<1>5. CASE EndNoise
  <2>1. mode = "noise" /\ mode' = "probe" /\ sender' = sender
    BY <1>5 DEF EndNoise
  <2>2. QED
    BY <1>5, <2>1, EndNoiseStep DEF ResyncInv
<1>6. CASE Probe
  <2>1. mode = "probe" /\ mode' = mode /\ sender' = sender
    BY <1>6 DEF Probe
  <2>2. QED
    BY <1>6, <2>1, ProbeStep DEF ResyncInv
<1>7. CASE UNCHANGED vars
  BY <1>7 DEF ResyncInv, Probing, NoProbe, vars
<1>8. QED
  BY <1>1, <1>2, <1>3, <1>4, <1>5, <1>6, <1>7 DEF Next

(* Whatever bytes came before, with the end of a frame and two clean notes  *)
(* MidiDecoder::newByte is back in step: one of the two is acted upon.      *)
THEOREM MidiInResyncs ==
  ASSUME SysexSize \in Nat, NoiseBytes \subseteq Byte
  PROVE  Spec => []Resyncs
<1>1. Init => ResyncInv
  <2> SUFFICES ASSUME Init PROVE ResyncInv
    OBVIOUS
  <2>1. mode \in {"messages", "noise"} /\ probe = NoProbe /\ \A s \in Sources : sender[s].toGo = <<>>
    BY DEF Init, NoProbe
  <2>2. QED
    BY <2>1, ParserAtFirst DEF ResyncInv
<1>2. ResyncInv /\ [Next]_vars => ResyncInv'
  BY ResyncStep
<1>3. ResyncInv => Resyncs
  BY DEF ResyncInv, Resyncs, Probing, NoProbe
<1>4. QED
  BY <1>1, <1>2, <1>3, PTL DEF Spec

-----------------------------------------------------------------------------
(* The invariant of DeliversWhatWasSent.  With one cable, the decoder is    *)
(* where the rest of the message in it needs it to be, and idle with the    *)
(* running status of its sender between two messages; its song position     *)
(* counts the whole steps of its master, who waits for one that is sent.    *)
OneCable == \A s, t \in Sources : s = t
PairOf(m) == m.status = SONG_POSITION => Len(m.data) = 2
Transport ==
    /\ clock \in [started : BOOLEAN, cpt : 0 .. 5, position : Nat]
    /\ master \in [running : BOOLEAN, clocks : Nat]
    /\ clock.started = master.running
    /\ 6 * clock.position <= master.clocks /\ master.clocks < 6 * clock.position + 6
    /\ clock.started => 6 * clock.position + clock.cpt = master.clocks
Sending ==
    /\ sender \in [Sources -> SenderType]
    /\ \A s \in Sources :
         /\ Promise(parser, sender[s].toGo, sender[s].message, sender[s].running)
         /\ PairOf(sender[s].message)
         /\ sender[s].toGo # <<>> /\ sender[s].message.status = SONG_POSITION => ~master.running
DeliverInv ==
    mode = "messages" => /\ parser \in Parser /\ ParserSound(parser)
                         /\ Sending /\ heard = due /\ Transport

LEMMA BeginKeeps ==
  ASSUME Senders, OneCable, ~RunsOnAfterReset, mode = "messages", DeliverInv, BeginMessage
  PROVE  DeliverInv'
<1>1. /\ parser \in Parser /\ ParserSound(parser) /\ Sending /\ Transport
      /\ SysexSize \in Nat
  BY DEF DeliverInv, Senders
<1>2. PICK s \in Sources :
         \/ \E m \in Messages : \E bytes \in Encodings(m, sender[s].running) : Begin(s, m, bytes)
         \/ \E payload \in Payloads : \E bytes \in Frames(payload) : Begin(s, MidiMessage(SYSEX, payload), bytes)
  BY DEF BeginMessage
<1> DEFINE running == sender[s].running
<1>3. PICK m, bytes : Begin(s, m, bytes) /\ (Idle(parser, running) => Begun(parser, m, bytes))
  <2>1. running \in {0} \cup 128 .. 239
    BY <1>1, <1>2 DEF Sending, SenderType
  <2>2. CASE \E m \in Messages : \E bytes \in Encodings(m, sender[s].running) : Begin(s, m, bytes)
    <3>1. PICK m \in Messages : \E bytes \in Encodings(m, running) : Begin(s, m, bytes)
      BY <2>2
    <3>8. PICK bytes \in Encodings(m, running) : Begin(s, m, bytes)
      BY <3>1
    <3>2. m = MidiMessage(m.status, m.data) /\ WellFormed(m)
      BY DEF Senders, MidiMessage
    <3> DEFINE st == m.status
               data == m.data
    <3>3. WellFormed(MidiMessage(st, data)) /\ bytes \in Encodings(MidiMessage(st, data), running)
      BY <3>2, <3>8
    <3> HIDE DEF st, data
    <3>4. Idle(parser, running) => Begun(parser, MidiMessage(st, data), bytes)
      BY <1>1, <2>1, <3>3, EncodingBegins
    <3>5. MidiMessage(st, data) = m
      BY <3>2 DEF st, data
    <3>6. Idle(parser, running) => Begun(parser, m, bytes)
      BY <3>4, <3>5
    <3>7. QED
      BY <3>6, <3>8
  <2>3. CASE \E payload \in Payloads : \E bytes \in Frames(payload) : Begin(s, MidiMessage(SYSEX, payload), bytes)
    <3>1. PICK payload \in Payloads : \E bytes \in Frames(payload) : Begin(s, MidiMessage(SYSEX, payload), bytes)
      BY <2>3
    <3>5. PICK bytes \in Frames(payload) : Begin(s, MidiMessage(SYSEX, payload), bytes)
      BY <3>1
    <3>2. payload \in Seq(DataByte)
      BY DEF Senders
    <3>3. Idle(parser, running) => Begun(parser, MidiMessage(SYSEX, payload), bytes)
      BY <1>1, <3>2, FrameBegins
    <3>4. QED
      BY <3>3, <3>5
  <2>4. QED
    BY <1>2, <2>2, <2>3
<1> DEFINE of == [toGo |-> bytes, message |-> DueAtTheEnd(m, bytes), running |-> RunningAfter(m)]
<1>4. /\ sender[s].toGo = <<>> /\ sender' = [sender EXCEPT ![s] = of]
      /\ m.status = SONG_POSITION => ~master.running
      /\ heard' = NOTHING /\ due' = NOTHING
      /\ parser' = parser /\ clock' = clock /\ master' = master /\ mode' = mode
  BY <1>3 DEF Begin
<1>5. Idle(parser, running)
  BY <1>1, <1>4 DEF Sending, Promise
<1>6. Begun(parser, m, bytes)
  BY <1>3, <1>5
<1>7. /\ of.toGo = bytes /\ of.message = DueAtTheEnd(m, bytes) /\ of.running = RunningAfter(m)
      /\ of \in SenderType
  BY <1>6 DEF Begun, SenderType
<1>8. PairOf(of.message) /\ (of.message.status = SONG_POSITION => ~master.running)
  BY <1>4, <1>6, <1>7 DEF Begun, PairOf
<1>9. Promise(parser, of.toGo, of.message, of.running)
  BY <1>6, <1>7 DEF Begun
<1> HIDE DEF of
<1>10. sender' \in [Sources -> SenderType] /\ sender'[s] = of /\ \A t \in Sources : t = s
  BY <1>1, <1>2, <1>4, <1>7 DEF Sending, OneCable
<1>11. Sending'
  BY <1>4, <1>8, <1>9, <1>10 DEF Sending
<1>12. Transport'
  BY <1>1, <1>4 DEF Transport
<1>13. QED
  BY <1>1, <1>4, <1>11, <1>12 DEF DeliverInv, ParserSound

(* What a message does to the song position and to its sender's.            *)
Answer(m, last) ==
    CASE last /\ m.status = SONG_POSITION ->
           [master EXCEPT !.clocks = ClocksPerStep * (m.data[1] + 128 * m.data[2])]
      [] last /\ m # NOTHING /\ IsReset(m) -> [master EXCEPT !.clocks = @ % ClocksPerStep]
      [] OTHER -> master

LEMMA TransportAnswers ==
  ASSUME Transport, NEW m \in MessageType, PairOf(m), NEW last \in BOOLEAN,
         last /\ m.status = SONG_POSITION => ~master.running,
         clock' = Moved(IF last THEN m ELSE NOTHING), master' = Answer(m, last)
  PROVE  Transport' /\ master'.running = master.running
<1> DEFINE at == clock.position
           now == master.clocks
<1>1. /\ clock \in [started : BOOLEAN, cpt : 0 .. 5, position : Nat]
      /\ master \in [running : BOOLEAN, clocks : Nat] /\ clock.started = master.running
      /\ 6 * at <= now /\ now < 6 * at + 6 /\ (clock.started => 6 * at + clock.cpt = now)
      /\ at \in Nat /\ now \in Nat /\ clock.cpt \in 0 .. 5
  BY DEF Transport
<1>2. NOTHING.status # SONG_POSITION /\ NOTHING.status # CONTROL_CHANGE /\ SONG_POSITION # CONTROL_CHANGE
  BY DEF NOTHING, SONG_POSITION, CONTROL_CHANGE
<1>3. CASE last /\ m.status = SONG_POSITION
  <2> DEFINE to == m.data[1] + 128 * m.data[2]
  <2>1. to \in Nat
    <3>1. m \in [status : 128 .. 246, data : Seq(DataByte)]
      BY <1>2, <1>3 DEF MessageType
    <3>2. m.data \in Seq(DataByte) /\ Len(m.data) = 2
      BY <1>3, <3>1 DEF PairOf
    <3>3. m.data[1] \in DataByte /\ m.data[2] \in DataByte
      BY <3>2, ElementOfSeq
    <3>4. \A a, b \in 0 .. 127 : a + 128 * b \in Nat
      OBVIOUS
    <3>5. QED
      BY <3>3, <3>4 DEF DataByte
  <2>2. clock' = [clock EXCEPT !.position = to]
    BY <1>3 DEF Moved
  <2>3. master' = [master EXCEPT !.clocks = 6 * to]
    <3>0. ~IsReset(m)
      BY <1>2, <1>3 DEF IsReset
    <3>1. Answer(m, last) = [master EXCEPT !.clocks = ClocksPerStep * to]
      BY <1>3, <3>0, Zenon DEF Answer
    <3>2. ClocksPerStep = 6
      BY DEF ClocksPerStep
    <3> HIDE DEF to
    <3>3. QED
      BY <3>1, <3>2
  <2> HIDE DEF to
  <2>4. ~clock.started /\ 6 * to \in Nat
    BY <1>1, <1>3, <2>1
  <2>5. QED
    BY <1>1, <2>1, <2>2, <2>3, <2>4 DEF Transport
<1>4. CASE last /\ m.status # SONG_POSITION /\ m # NOTHING /\ IsReset(m)
  <2>1. clock' = [clock EXCEPT !.position = 0]
    BY <1>4 DEF Moved
  <2>2. master' = [master EXCEPT !.clocks = now % 6]
    BY <1>4 DEF Answer, ClocksPerStep
  <2>3. now % 6 = now - 6 * at
    BY <1>1
  <2>4. QED
    BY <1>1, <2>1, <2>2, <2>3 DEF Transport
<1>5. CASE ~(last /\ m.status = SONG_POSITION) /\ ~(last /\ m # NOTHING /\ IsReset(m))
  <2>1. master' = master
    BY <1>5, Zenon DEF Answer
  <2> DEFINE x == IF last THEN m ELSE NOTHING
  <2>2. x.status # SONG_POSITION /\ ~(x # NOTHING /\ IsReset(x))
    BY <1>2, <1>5
  <2>3. clock' = [clock EXCEPT !.position = @]
    BY <2>2, Zenon DEF Moved
  <2>4. clock' = clock
    BY <1>1, <2>3
  <2>5. QED
    BY <1>1, <2>1, <2>4 DEF Transport
<1>6. QED
  BY <1>3, <1>4, <1>5

LEMMA DecodeKeeps ==
  ASSUME Senders, OneCable, mode = "messages", DeliverInv, DecodeMidiIn
  PROVE  DeliverInv'
<1>1. /\ parser \in Parser /\ ParserSound(parser) /\ Sending /\ Transport
      /\ SysexSize \in Nat
  BY DEF DeliverInv, Senders
<1>2. PICK s \in Sources :
         LET g == sender[s].toGo
             m == sender[s].message
             after == NewByte(parser, Head(g))
         IN  /\ g # <<>> /\ sender' = [sender EXCEPT ![s].toGo = Tail(@)]
             /\ due' = IF Len(g) = 1 THEN m ELSE NOTHING
             /\ master' = Answer(m, Len(g) = 1)
             /\ parser' = after.parser /\ heard' = after.heard /\ clock' = Moved(after.heard)
             /\ mode' = mode
  BY Zenon DEF DecodeMidiIn, Receive, Answer
<1> DEFINE x == sender[s]
           g == x.toGo
           m == x.message
           last == Len(g) = 1
<1>3. /\ x \in SenderType /\ g \in Seq(Byte) /\ m \in MessageType
      /\ Promise(parser, g, m, x.running) /\ PairOf(m)
      /\ m.status = SONG_POSITION => ~master.running
  BY <1>1, <1>2 DEF Sending, SenderType
<1>4. Kept(parser, g, m, x.running)
  BY <1>1, <1>2, <1>3, PromiseKept
<1>5. /\ parser' \in Parser /\ ParserSound(parser')
      /\ Promise(parser', Tail(g), m, x.running)
      /\ heard' = IF last THEN m ELSE NOTHING
  BY <1>2, <1>4 DEF Kept, ParserSound
<1>6. heard' = due'
  BY <1>2, <1>5
<1>7. clock' = Moved(IF last THEN m ELSE NOTHING) /\ master' = Answer(m, last) /\ last \in BOOLEAN
  BY <1>2, <1>5
<1>8. Transport' /\ master'.running = master.running
  <2> HIDE DEF last, m
  <2>1. QED
    BY <1>1, <1>3, <1>7, TransportAnswers
<1>9. /\ sender' \in [Sources -> SenderType] /\ sender'[s].toGo = Tail(g)
      /\ sender'[s].message = m /\ sender'[s].running = x.running /\ \A t \in Sources : t = s
  <2>1. Tail(g) \in Seq(Byte)
    BY <1>2, <1>3, OneFirst
  <2> DEFINE y == [x EXCEPT !.toGo = Tail(g)]
  <2>2. y \in SenderType /\ y.toGo = Tail(g) /\ y.message = m /\ y.running = x.running
    BY <1>3, <2>1 DEF SenderType
  <2>3. sender' = [sender EXCEPT ![s] = y]
    BY <1>1, <1>2 DEF Sending
  <2> HIDE DEF y
  <2>4. QED
    BY <1>1, <1>2, <2>2, <2>3 DEF Sending, OneCable
<1>10. Sending'
  BY <1>3, <1>5, <1>8, <1>9 DEF Sending
<1>11. QED
  BY <1>2, <1>5, <1>6, <1>8, <1>10 DEF DeliverInv

LEMMA RealTimeKeeps ==
  ASSUME mode = "messages", DeliverInv, MidiClock \/ MidiStart \/ MidiContinue \/ MidiStop
  PROVE  DeliverInv'
<1> DEFINE at == clock.position
           now == master.clocks
<1>1. /\ parser \in Parser /\ ParserSound(parser) /\ Sending
      /\ clock \in [started : BOOLEAN, cpt : 0 .. 5, position : Nat]
      /\ master \in [running : BOOLEAN, clocks : Nat] /\ clock.started = master.running
      /\ 6 * at <= now /\ now < 6 * at + 6 /\ (clock.started => 6 * at + clock.cpt = now)
      /\ at \in Nat /\ now \in Nat /\ clock.cpt \in 0 .. 5
  BY DEF DeliverInv, Transport
<1>2. parser' = parser /\ sender' = sender /\ mode' = mode /\ heard' = due'
  BY DEF MidiClock, MidiStart, MidiContinue, MidiStop, RealTime
<1>3. CASE MidiClock
  <2> DEFINE full == clock.cpt + 1 = 6
             cpt == IF full THEN 0 ELSE clock.cpt + 1
             step == IF full /\ clock.started THEN at + 1 ELSE at
             clocks == IF master.running THEN now + 1 ELSE now
  <2>1. clock' = [clock EXCEPT !.cpt = cpt, !.position = step]
    BY <1>3, Zenon DEF MidiClock, ClocksPerStep
  <2>2. master' = [master EXCEPT !.clocks = clocks]
    BY <1>1, <1>3 DEF MidiClock
  <2>3. /\ cpt \in 0 .. 5 /\ step \in Nat /\ clocks \in Nat
        /\ 6 * step <= clocks /\ clocks < 6 * step + 6
        /\ clock.started => 6 * step + cpt = clocks
    BY <1>1
  <2> HIDE DEF cpt, step, clocks
  <2>4. /\ clock'.started = clock.started /\ clock'.cpt = cpt /\ clock'.position = step
        /\ clock' \in [started : BOOLEAN, cpt : 0 .. 5, position : Nat]
        /\ master'.running = master.running /\ master'.clocks = clocks
        /\ master' \in [running : BOOLEAN, clocks : Nat]
    BY <1>1, <2>1, <2>2, <2>3
  <2>5. Transport'
    BY <1>1, <2>3, <2>4 DEF Transport
  <2>6. QED
    BY <1>1, <1>2, <2>4, <2>5 DEF DeliverInv, Sending, ParserSound
<1>4. CASE MidiStart \/ MidiContinue
  <2>1. ~master.running /\ MayStart
    BY <1>4 DEF MidiStart, MidiContinue, MayStart
  <2>2. ASSUME MidiStart PROVE Transport'
    <3>1. ~clock.started
      BY <1>1, <2>1
    <3>2. master' = [running |-> TRUE, clocks |-> 0] /\ clock' = [started |-> TRUE, cpt |-> 0, position |-> 0]
      BY <2>2, <3>1, Zenon DEF MidiStart
    <3>3. QED
      BY <3>2 DEF Transport
  <2>3. ASSUME MidiContinue PROVE Transport'
    <3>1. ~clock.started
      BY <1>1, <2>1
    <3>2. /\ master' = [running |-> TRUE, clocks |-> now - (now % 6)]
          /\ clock' = [clock EXCEPT !.started = TRUE, !.cpt = 0]
      BY <2>3, <3>1, Zenon DEF MidiContinue, ClocksPerStep
    <3>3. now % 6 = now - 6 * at
      BY <1>1
    <3>4. now - (now % 6) = 6 * at
      BY <1>1, <3>3
    <3> DEFINE clocks == now - (now % 6)
    <3>5. master' = [running |-> TRUE, clocks |-> clocks] /\ clocks = 6 * at
      BY <3>2, <3>4
    <3> HIDE DEF clocks
    <3>6. /\ master' \in [running : BOOLEAN, clocks : Nat] /\ master'.running = TRUE
          /\ master'.clocks = 6 * at
      BY <1>1, <3>5
    <3>7. /\ clock' \in [started : BOOLEAN, cpt : 0 .. 5, position : Nat]
          /\ clock'.started = TRUE /\ clock'.cpt = 0 /\ clock'.position = at
      <4> DEFINE c == [clock EXCEPT !.started = TRUE]
      <4>1. c \in [started : BOOLEAN, cpt : 0 .. 5, position : Nat] /\ c.started = TRUE /\ c.position = at
        BY <1>1
      <4>2. clock' = [c EXCEPT !.cpt = 0]
        BY <3>2, Zenon
      <4> HIDE DEF c
      <4>3. QED
        BY <4>1, <4>2
    <3>8. QED
      BY <1>1, <3>6, <3>7 DEF Transport
  <2>4. Transport'
    BY <1>4, <2>2, <2>3
  <2>5. QED
    BY <1>1, <1>2, <2>1, <2>4 DEF DeliverInv, Sending, ParserSound, MayStart
<1>5. CASE MidiStop
  <2>1. master' = [master EXCEPT !.running = FALSE] /\ clock' = [clock EXCEPT !.started = FALSE]
    BY <1>5 DEF MidiStop
  <2>2. Transport' /\ ~master'.running
    BY <1>1, <2>1 DEF Transport
  <2>3. QED
    BY <1>1, <1>2, <2>2 DEF DeliverInv, Sending, ParserSound
<1>6. QED
  BY <1>3, <1>4, <1>5

LEMMA DeliverStep ==
  ASSUME Senders, OneCable, ~RunsOnAfterReset, DeliverInv, [Next]_vars
  PROVE  DeliverInv'
<1>1. CASE BeginMessage
  <2>1. mode = "messages"
    BY <1>1 DEF BeginMessage, Begin
  <2>2. QED
    BY <1>1, <2>1, BeginKeeps
<1>2. CASE DecodeMidiIn
  <2>1. mode' = mode
    BY <1>2 DEF DecodeMidiIn
  <2>2. QED
    BY <1>2, <2>1, DecodeKeeps DEF DeliverInv
<1>3. CASE MidiClock \/ MidiStart \/ MidiContinue \/ MidiStop
  <2>1. mode = "messages"
    BY <1>3 DEF MidiClock, MidiStart, MidiContinue, MidiStop, RealTime
  <2>2. QED
    BY <1>3, <2>1, RealTimeKeeps
<1>4. CASE Noise \/ EndNoise \/ Probe
  <2>1. mode' # "messages"
    BY <1>4 DEF Noise, EndNoise, Probe
  <2>2. QED
    BY <2>1 DEF DeliverInv
<1>5. CASE UNCHANGED vars
  BY <1>5 DEF DeliverInv, Sending, Transport, vars, ParserSound
<1>6. QED
  BY <1>1, <1>2, <1>3, <1>4, <1>5 DEF Next

LEMMA DeliverFirst ==
  ASSUME Init
  PROVE  DeliverInv
<1> DEFINE none == <<>>
           of == [toGo |-> none, message |-> NOTHING, running |-> 0]
<1>1. none \in Seq(Byte)
  OBVIOUS
<1> HIDE DEF none
<1>2. /\ of \in SenderType /\ of.toGo = none /\ of.running = 0 /\ of.message = NOTHING
  BY <1>1 DEF SenderType, MessageType
<1>3. NOTHING.status # SONG_POSITION
  BY DEF NOTHING, SONG_POSITION
<1>4. sender = [s \in Sources |-> of]
  BY DEF Init, none
<1> HIDE DEF of
<1>5. Sending
  <2>1. Promise(parser, none, NOTHING, 0)
    BY ParserAtFirst DEF Promise, Idle, none
  <2>2. sender \in [Sources -> SenderType] /\ \A s \in Sources : sender[s] = of
    BY <1>2, <1>4
  <2>3. QED
    BY <1>2, <1>3, <2>1, <2>2 DEF Sending, PairOf
<1>6. Transport
  BY DEF Init, Transport
<1>7. QED
  BY <1>5, <1>6, ParserAtFirst DEF DeliverInv, Init

(* One sender that encodes messages as the decoder counts their data bytes, *)
(* and gives up its running status over CC_RESET as the decoder does, is    *)
(* understood: newByte acts upon each message at its last byte, upon nothing *)
(* else, and its song position is the sender's, realtime bytes or not.      *)
THEOREM MidiInDelivers ==
  ASSUME Senders, OneCable, ~RunsOnAfterReset
  PROVE  Spec => []DeliversWhatWasSent
<1>1. Init => DeliverInv
  BY DeliverFirst
<1>2. DeliverInv /\ [Next]_vars => DeliverInv'
  BY DeliverStep
<1>3. DeliverInv => DeliversWhatWasSent
  BY DEF DeliverInv, DeliversWhatWasSent, Transport, ClocksPerStep
<1>4. QED
  BY <1>1, <1>2, <1>3, PTL DEF Spec
=============================================================================
