------------------------------ MODULE Encoders ------------------------------
(***************************************************************************)
(* The buttons and one encoder of the front panel (lib/Src/Encoders.cpp).   *)
(* Every second millisecond checkStatus reads the whole panel and turns     *)
(* what has changed into gestures: a button clicked, a long press, two      *)
(* buttons, an encoder turned, an encoder turned while a button is down.    *)
(* The gestures go into the ring actions_, which RingBuffer checks; here    *)
(* only those of the last scan are kept.                                    *)
(*                                                                          *)
(* Times are numbers of scans.  buttonTimer_ is compared with two of them   *)
(* and does not count beyond here.                                          *)
(***************************************************************************)
EXTENDS Naturals, Integers, FiniteSets, FiniteSetsExt

CONSTANTS
    Buttons,        \* 0 .. n - 1, the ones that are scanned first first
    PushButtons,    \* those of them that are scanned when encoderPush is set
    ClickTime, LongTime,    \* 15 and 350 scans; a click is the shorter one
    PushChanges     \* BOOLEAN: the user may change encoderPush at any time

NOBODY == -1

VARIABLES
    buttonPreviousState_, buttonTimer_, buttonUsedFromSomethingElse_,
    firstButtonDown_,
    lastMove_, timerAction_,    \* of the encoder
    encoderPush,                \* the setting: encoders can be pushed
    gestures,                   \* what the last scan inserted
    history                     \* of each button: what its present press, or
                                \* the one that has just ended, has caused
buttonVars == <<buttonPreviousState_, buttonTimer_, buttonUsedFromSomethingElse_, firstButtonDown_>>
encoderVars == <<lastMove_, timerAction_>>
vars == <<buttonVars, encoderVars, encoderPush, gestures, history>>

Scanned == IF encoderPush THEN Buttons ELSE Buttons \ PushButtons

(* clearState.  The timers start beyond the time of a click.                *)
Init ==
    /\ buttonPreviousState_ = [k \in Buttons |-> FALSE]
    /\ buttonTimer_ = [k \in Buttons |-> ClickTime + 1]
    /\ buttonUsedFromSomethingElse_ = [k \in Buttons |-> FALSE]
    /\ firstButtonDown_ = NOBODY
    /\ lastMove_ = 0 /\ timerAction_ = 0
    /\ encoderPush \in BOOLEAN
    /\ gestures = {} /\ history = [k \in Buttons |-> {}]

-----------------------------------------------------------------------------
(* The first loop of checkStatus, for one encoder.  A turn that reverses    *)
(* the last one is taken for a bounce until TurnTime scans are quiet.       *)
TurnTime == 2   \* bound: 60 scans in the code
Accepted(turn) == turn # 0 /\ lastMove_ # -turn
Turned(turn) ==
    IF ~Accepted(turn) THEN {}
    ELSE IF firstButtonDown_ = NOBODY THEN {[kind |-> "turned", turn |-> turn]}
    ELSE {[kind |-> "turnedWhile", turn |-> turn, button |-> firstButtonDown_]}

TurnEncoder(turn) ==
    IF Accepted(turn) THEN lastMove_' = turn /\ timerAction_' = TurnTime
    ELSE /\ timerAction_' = Max({timerAction_ - 1, 0})
         /\ lastMove_' = IF timerAction_ = 1 THEN 0 ELSE lastMove_

(* What a scan works on, button by button. *)
Panel(turn) ==
    [first |-> firstButtonDown_, timer |-> buttonTimer_, gestures |-> Turned(turn),
     used |-> [k \in Buttons |->
                 buttonUsedFromSomethingElse_[k] \/ (Accepted(turn) /\ k = firstButtonDown_)]]

JustPressedUnmarked(s, k) ==
    IF s.first = NOBODY
    THEN [s EXCEPT !.first = k, !.used[k] = FALSE]
    ELSE [s EXCEPT !.used[s.first] = TRUE,
                   !.gestures = @ \cup {[kind |-> "two", button |-> s.first, other |-> k]}]

JustPressed(s, k) ==
    IF s.first = NOBODY
    THEN [s EXCEPT !.first = k, !.used[k] = FALSE]
    ELSE [s EXCEPT !.used = [@ EXCEPT ![s.first] = TRUE, ![k] = TRUE],
                   !.gestures = @ \cup {[kind |-> "two", button |-> s.first, other |-> k]}]

StillPressed(s, k) ==
    IF s.timer[k] > LongTime /\ ~s.used[k]
    THEN [s EXCEPT !.used[k] = TRUE, !.gestures = @ \cup {[kind |-> "long", button |-> k]}]
    ELSE s

JustReleased(s, k) ==
    [s EXCEPT !.first = IF @ = k THEN NOBODY ELSE @,
              !.timer[k] = 0,
              !.gestures = IF ~s.used[k] /\ s.timer[k] > ClickTime
                           THEN @ \cup {[kind |-> "clicked", button |-> k]} ELSE @]

ScanButton(s, k, down) ==
    LET counted == [s EXCEPT !.timer[k] = Min({@ + 1, LongTime + 1})]
    IN  CASE down /\ ~buttonPreviousState_[k] -> JustPressed(counted, k)
          [] down /\ buttonPreviousState_[k] -> StillPressed(counted, k)
          [] ~down /\ buttonPreviousState_[k] -> JustReleased(s, k)
          [] OTHER -> s

(* The second loop of checkStatus, over the buttons in their order. *)
Scan(turn, pressed) ==
    LET after[k \in -1 .. Max(Buttons)] ==
          IF k = -1 THEN Panel(turn)
          ELSE IF k \in Scanned THEN ScanButton(after[k - 1], k, k \in pressed)
          ELSE after[k - 1]
    IN  after[Max(Buttons)]

Causes(s, k) ==
    {g.kind : g \in {g \in s.gestures : g.kind # "turned" /\ (g.button = k \/ (g.kind = "two" /\ g.other = k))}}

CheckStatus ==
    \E turn \in {-1, 0, 1}, pressed \in SUBSET Scanned :
        LET s == Scan(turn, pressed)
        IN  /\ TurnEncoder(turn)
            /\ buttonTimer_' = s.timer /\ buttonUsedFromSomethingElse_' = s.used
            /\ firstButtonDown_' = s.first
            /\ buttonPreviousState_' =
                 [k \in Buttons |-> IF k \in Scanned THEN k \in pressed ELSE buttonPreviousState_[k]]
            /\ gestures' = s.gestures
            /\ history' = [k \in Buttons |->
                 IF k \in pressed /\ ~buttonPreviousState_[k] THEN Causes(s, k)
                 ELSE IF buttonPreviousState_[k] THEN history[k] \cup Causes(s, k) ELSE {}]
            /\ UNCHANGED encoderPush

(* The user changes the setting.  Without PushChanges: while no button is   *)
(* down.                                                                    *)
SetEncoderPush ==
    /\ PushChanges \/ \A k \in Buttons : ~buttonPreviousState_[k]
    /\ encoderPush' = ~encoderPush
    /\ UNCHANGED <<buttonVars, encoderVars, gestures, history>>

Next == CheckStatus \/ SetEncoderPush
Spec == Init /\ [][Next]_vars

-----------------------------------------------------------------------------
TypeOK ==
    /\ buttonPreviousState_ \in [Buttons -> BOOLEAN]
    /\ buttonTimer_ \in [Buttons -> 0 .. LongTime + 1]
    /\ buttonUsedFromSomethingElse_ \in [Buttons -> BOOLEAN]
    /\ firstButtonDown_ \in Buttons \cup {NOBODY}
    /\ lastMove_ \in -1 .. 1 /\ timerAction_ \in 0 .. TurnTime

(* A press is one thing: one that ends in a click has caused nothing else;  *)
(* one that lasted is never without effect; a long press is told once.  And *)
(* the button that others are combined with is one that is down.            *)
OneGesturePerPress ==
    [][/\ \A k \in Buttons :
            /\ "clicked" \in history'[k] => history'[k] = {"clicked"}
            /\ "long" \in history[k] => [kind |-> "long", button |-> k] \notin gestures'
            /\ buttonPreviousState_[k] /\ ~buttonPreviousState_'[k] /\ buttonTimer_[k] > ClickTime
                 => history'[k] # {}
       /\ firstButtonDown_' # NOBODY => buttonPreviousState_'[firstButtonDown_']]_vars
=============================================================================
