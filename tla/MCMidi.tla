------------------------------- MODULE MCMidi -------------------------------
(* One TLC run for MIDI in both directions: the output ring, or the input   *)
(* parser.  `way' says whose behaviour this one is; the other never moves.  *)
EXTENDS MidiOut

VARIABLES way, parser, clock, heard, due, sender, master, mode, probe, count
inVars == <<parser, clock, heard, due, sender, master, mode, probe, count>>
midiVars == <<way, vars, inVars>>

(* One message of each kind of status byte: a note on the channel that is   *)
(* listened to and on another one, a control change, CC_RESET, a program,   *)
(* a song position, and two system common messages nobody knows.            *)
MCMessages ==
    {[status |-> s, data |-> <<1, 100>>] : s \in {144, 145, 176}}
    \cup {[status |-> 176, data |-> <<127, 0>>], [status |-> 192, data |-> <<1>>],
          [status |-> 242, data |-> <<1, 0>>], [status |-> 243, data |-> <<1>>],
          [status |-> 246, data |-> <<>>]}

(* Frames that are empty, fill the buffer, and overrun it by one and two.   *)
MCPayloads == {<<>>, <<125, 1, 100>>, <<1, 1, 1, 1>>, <<1, 1, 1, 1, 1>>}
MCNoise == {1, 127, 144, 145, 176, 192, 240, 242, 243, 247}

Input == INSTANCE MidiIn
    WITH Messages <- MCMessages, Payloads <- MCPayloads, NoiseBytes <- MCNoise,
         SysexSize <- 3, Sources <- {"din"}, RunsOnAfterReset <- FALSE,
         MaxMessages <- 3, MaxNoise <- 5, MaxClocks <- 7

MidiInit ==
    /\ way \in {"out", "in"}
    /\ Init /\ (way = "in" => callers = {"controller"})
    /\ Input!Init /\ (way = "out" => mode = "messages")

MidiNext ==
    /\ \/ way = "out" /\ Next /\ UNCHANGED inVars
       \/ way = "in" /\ Input!Next /\ UNCHANGED vars
    /\ UNCHANGED way

(* The fairness of MidiOut, when it is the one that moves. *)
Out(action) == way = "out" /\ action /\ UNCHANGED <<way, inVars>>
MidiSpec ==
    /\ MidiInit /\ [][MidiNext]_midiVars
    /\ WF_midiVars(Out(Shift)) /\ WF_midiVars(Out(UsartTx))
    /\ WF_midiVars(Out(MainStep /\ mPc # "idle"))

(* The properties of MidiIn of the same names. *)
DeliversWhatWasSent == Input!DeliversWhatWasSent
Resyncs == Input!Resyncs
=============================================================================
