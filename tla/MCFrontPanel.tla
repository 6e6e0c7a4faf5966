---------------------------- MODULE MCFrontPanel ----------------------------
(* One TLC run for three parts of the machine that share no state: the      *)
(* configuration file of the MIDI controller, the encoders and the display. *)
(* `device' says whose behaviour this one is; the others never move.        *)
EXTENDS ConfigFile

VARIABLES device,
    buttonPreviousState_, buttonTimer_, buttonUsedFromSomethingElse_, firstButtonDown_,
    lastMove_, timerAction_, encoderPush, gestures, history,
    tftActions, currentAction, envInQueue, tftDirtyBits, part, tftRefreshing,
    pushToTftInProgress, tftSpiOwnedByMain_, tftMustBeReset_, suspicious,
    memory, panel, spi, mainPc, loaded, refreshStatus_, asked, envelope, shown,
    excused, asks, fails

encoderVars == <<buttonPreviousState_, buttonTimer_, buttonUsedFromSomethingElse_, firstButtonDown_,
                 lastMove_, timerAction_, encoderPush, gestures, history>>
displayVars == <<tftActions, currentAction, envInQueue, tftDirtyBits, part, tftRefreshing,
                 pushToTftInProgress, tftSpiOwnedByMain_, tftMustBeReset_, suspicious,
                 memory, panel, spi, mainPc, loaded, refreshStatus_, asked, envelope, shown,
                 excused, asks, fails>>
panelVars == <<device, vars, encoderVars, displayVars>>

(* Three buttons, one of them an encoder's; a click after two scans and a   *)
(* long press after four.                                                   *)
Buttons_ == INSTANCE Encoders
    WITH Buttons <- {0, 1, 2}, PushButtons <- {2}, ClickTime <- 1, LongTime <- 3,
         PushChanges <- FALSE

Display == INSTANCE Tft
    WITH Parts <- 2, Capacity <- 4, RepaintRoom <- 2, MaxAsks <- 3, MaxFails <- 2,
         pc <- mainPc

PanelInit ==
    /\ device \in {"file", "encoders", "display"}
    /\ Init /\ (device # "file" => files.canonical = Absent)
    /\ Buttons_!Init /\ (device # "encoders" => encoderPush)
    /\ Display!Init

PanelNext ==
    /\ \/ device = "file" /\ Next /\ UNCHANGED <<encoderVars, displayVars>>
       \/ device = "encoders" /\ Buttons_!Next /\ UNCHANGED <<vars, displayVars>>
       \/ device = "display" /\ Display!Next /\ UNCHANGED <<vars, encoderVars>>
    /\ UNCHANGED device

(* The fairness of Tft, when it is the one that moves. *)
OfDisplay(action) == device = "display" /\ action /\ UNCHANGED <<device, vars, encoderVars>>
PanelSpec ==
    /\ PanelInit /\ [][PanelNext]_panelVars
    /\ WF_panelVars(OfDisplay(Display!PushToTft)) /\ WF_panelVars(OfDisplay(Display!DrawStep))
    /\ WF_panelVars(OfDisplay(Display!PushToTftFinished)) /\ WF_panelVars(OfDisplay(Display!Continue))

(* The properties of Encoders and Tft of the same names. *)
OneGesturePerPress == Buttons_!OneGesturePerPress
BusHasOneMaster == Display!BusHasOneMaster
ShowsWhatWasAsked == Display!ShowsWhatWasAsked
=============================================================================
