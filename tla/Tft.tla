--------------------------------- MODULE Tft ---------------------------------
(***************************************************************************)
(* The display (lib/Src/TftDisplay.cpp, hardware/FirmwareTftDisplay.cpp).   *)
(* The main loop queues drawings; the millisecond interrupt takes them one  *)
(* by one, draws into a frame buffer and marks the parts it changed dirty;  *)
(* the same interrupt, every 20 ms, starts a DMA transfer of one dirty part *)
(* to the panel, whose completion is a third interrupt.  When the panel     *)
(* answers nonsense the queue is thrown away and the main loop takes the    *)
(* SPI bus for itself, initialises the panel and repaints everything.       *)
(*                                                                          *)
(* tftActions is a first-in first-out queue (RingBuffer checks the ring).   *)
(* What a part shows is a number: 0 is blank, NOISE an uninitialised panel. *)
(* DMA2D is done with a drawing before anybody looks at the frame buffer.   *)
(***************************************************************************)
EXTENDS Naturals, Integers, Sequences, FiniteSets

CONSTANTS
    Parts,          \* TFT_NUMBER_OF_PARTS, eight in the code
    Capacity,       \* bound: waiting actions (the ring holds 127)
    RepaintRoom,    \* a repaint pauses at so many waiting actions (100)
    MaxAsks,        \* bound: requests of the main loop
    MaxFails        \* bound: polls and transfers that fail

NOISE == MaxAsks + 1
Part == 0 .. Parts - 1

VARIABLES
    tftActions, currentAction,
    envInQueue,             \* int: env actions that wait, more or less
    tftDirtyBits, part, tftRefreshing,
    pushToTftInProgress, tftSpiOwnedByMain_, tftMustBeReset_,
    suspicious,             \* the last poll was bad: status_[3]
    memory, panel,          \* what the frame buffer and the panel show
    spi,                    \* the transfer on the bus, or IDLE
    pc, loaded,             \* where the main loop is; envInQueue as it read it
    refreshStatus_,         \* steps of a repaint that are to come
    asked,                  \* history: what each part should show
    envelope, shown,        \* the envelope and the one that was drawn last
    excused,                \* history: a queue was thrown away since the last ask
    asks, fails             \* bounds: requests and failures so far

mainVars == <<pc, loaded, refreshStatus_, asked, envelope, asks>>
busVars == <<pushToTftInProgress, spi, panel>>
gateVars == <<tftSpiOwnedByMain_, tftMustBeReset_>>
drawVars == <<tftDirtyBits, tftRefreshing, memory, shown>>
vars == <<tftActions, currentAction, envInQueue, part, suspicious, excused, fails,
          mainVars, busVars, gateVars, drawVars>>

IDLE == [part |-> -1, seen |-> 0]
NOP == [kind |-> "nop", part |-> 0, what |-> 0]
Draw(p, what) == [kind |-> "draw", part |-> p, what |-> what]
Fill(p) == [kind |-> "fill", part |-> p, what |-> 0]
Shape(step) == [kind |-> "shape", part |-> step, what |-> 0]
Pause == [kind |-> "pause", part |-> 0, what |-> 0]
Restart == [kind |-> "restart", part |-> 0, what |-> 0]

(* A repaint: pause, clear, every part, restart. *)
FullRepaint == Parts + 3

(* The first, blank screen has been pushed, part by part. *)
Init ==
    /\ tftActions = <<>> /\ currentAction = NOP /\ envInQueue = 0
    /\ tftDirtyBits = {} /\ part = 0 /\ tftRefreshing = TRUE
    /\ pushToTftInProgress = FALSE /\ tftSpiOwnedByMain_ = FALSE /\ tftMustBeReset_ = FALSE
    /\ suspicious = FALSE
    /\ memory = [p \in Part |-> 0] /\ panel = [p \in Part |-> 0] /\ spi = IDLE
    /\ pc = "idle" /\ loaded = 0 /\ refreshStatus_ = 0
    /\ asked = [p \in Part |-> 0] /\ envelope = 0 /\ shown = 0
    /\ excused = FALSE /\ asks = 0 /\ fails = 0

-----------------------------------------------------------------------------
(* The tic, in the order of its branches.  Every 500 ms it asks the panel   *)
(* for its state unless the bus is taken; two bad answers in a row make it  *)
(* throw the queue away and ask for a reset.                                *)
MayUseBusOfMain == ~pushToTftInProgress
MayUseBus == ~tftSpiOwnedByMain_ /\ ~pushToTftInProgress

PollGood ==
    /\ MayUseBus /\ suspicious
    /\ suspicious' = FALSE
    /\ UNCHANGED <<tftActions, currentAction, envInQueue, part, excused, fails,
                   mainVars, busVars, gateVars, drawVars>>

PollBad ==
    /\ MayUseBus /\ fails < MaxFails
    /\ fails' = fails + 1 /\ suspicious' = TRUE
    /\ IF suspicious
         THEN /\ tftActions' = <<>> /\ envInQueue' = 0 /\ tftMustBeReset_' = TRUE
              /\ excused' = TRUE
         ELSE UNCHANGED <<tftActions, envInQueue, tftMustBeReset_, excused>>
    /\ UNCHANGED <<currentAction, part, tftSpiOwnedByMain_, mainVars, busVars, drawVars>>

(* pushToTft: the next dirty part, round robin.  The part stays dirty when  *)
(* the transfer cannot be started.                                          *)
NextDirty(from) ==
    CHOOSE p \in tftDirtyBits : \A q \in tftDirtyBits :
        (p - from + Parts) % Parts <= (q - from + Parts) % Parts

PushToTft ==
    /\ MayUseBus /\ tftRefreshing /\ tftDirtyBits # {}
    /\ LET p == NextDirty(part)
       IN  /\ part' = (p + 1) % Parts
           /\ \/ /\ spi' = [part |-> p, seen |-> memory[p]]
                 /\ tftDirtyBits' = tftDirtyBits \ {p} /\ pushToTftInProgress' = TRUE
                 /\ UNCHANGED fails
              \/ /\ fails < MaxFails /\ fails' = fails + 1
                 /\ UNCHANGED <<spi, tftDirtyBits, pushToTftInProgress>>
    /\ UNCHANGED <<tftActions, currentAction, envInQueue, suspicious, excused, panel,
                   tftRefreshing, memory, shown, mainVars, gateVars>>

(* One step of a drawing; the next one is taken when there is none.         *)
(* additionalActions counts the shapes, and starts from zero whenever it    *)
(* sees the queue empty.                                                    *)
Drawn(action, waiting) ==
    /\ envInQueue' = LET seen == IF waiting = <<>> THEN 0 ELSE envInQueue
                     IN  IF action = Shape(1) THEN seen - 1 ELSE seen
    /\ shown' = IF action = Shape(1) THEN envelope ELSE shown
    /\ currentAction' = CASE action = Shape(0) -> Shape(1)
                          [] action.kind = "fill" /\ action.part > 0 -> Fill(action.part - 1)
                          [] OTHER -> NOP
    /\ memory' = IF action.kind \in {"draw", "fill"}
                 THEN [memory EXCEPT ![action.part] = action.what] ELSE memory
    /\ tftDirtyBits' = CASE action.kind = "draw" -> tftDirtyBits \cup {action.part}
                         [] action = Fill(0) -> Part
                         [] OTHER -> tftDirtyBits
    /\ tftRefreshing' = CASE action = Pause -> FALSE
                          [] action = Restart -> TRUE
                          [] OTHER -> tftRefreshing
    /\ part' = IF action = Restart THEN 0 ELSE part

DrawStep ==
    /\ \/ currentAction # NOP /\ Drawn(currentAction, tftActions) /\ UNCHANGED tftActions
       \/ /\ currentAction = NOP /\ tftActions # <<>>
          /\ tftActions' = Tail(tftActions)
          /\ Drawn(Head(tftActions), Tail(tftActions))
    /\ UNCHANGED <<suspicious, excused, fails, mainVars, busVars, gateVars>>

PushToTftFinishedCleans ==
    /\ spi # IDLE
    /\ panel' = [panel EXCEPT ![spi.part] = spi.seen]
    /\ spi' = IDLE /\ pushToTftInProgress' = FALSE
    /\ tftDirtyBits' = tftDirtyBits \ {spi.part}
    /\ UNCHANGED <<tftActions, currentAction, envInQueue, part, suspicious, excused, fails,
                   tftRefreshing, memory, shown, mainVars, gateVars>>

(* HAL_SPI_TxCpltCallback, pushToTftFinished.  (The transfer reads the      *)
(* frame buffer while it runs; that it read all of it at the start is the   *)
(* worst that can happen to a drawing.)                                     *)
PushToTftFinished ==
    /\ spi # IDLE
    /\ panel' = [panel EXCEPT ![spi.part] = spi.seen]
    /\ spi' = IDLE /\ pushToTftInProgress' = FALSE
    /\ UNCHANGED <<tftActions, currentAction, envInQueue, part, suspicious, excused, fails,
                   mainVars, gateVars, drawVars>>

-----------------------------------------------------------------------------
(* The main loop.  Each step below makes at most one access to a variable   *)
(* that the interrupt changes.                                              *)
Insert(action) == Len(tftActions) < Capacity /\ tftActions' = Append(tftActions, action)

(* Once a repaint is under way the loop does nothing else while the queue   *)
(* has room for its steps.                                                  *)
HasRoom == Len(tftActions) < RepaintRoom
AtLoop == pc = "idle" /\ (refreshStatus_ > 0 => ~HasRoom)

AskDrawing(p) ==
    /\ AtLoop /\ asks < MaxAsks /\ asks' = asks + 1
    /\ asked' = [asked EXCEPT ![p] = asks + 1]
    /\ Insert(Draw(p, asks + 1))
    /\ UNCHANGED <<currentAction, envInQueue, part, suspicious, excused, fails,
                   pc, loaded, refreshStatus_, envelope, busVars, gateVars, drawVars>>

(* oscilloBgSetEnvelope and oscilloBgActionEnvelope: two drawings that wait *)
(* are enough, since they use the values there are when they are drawn.     *)
AskShape ==
    /\ AtLoop /\ asks < MaxAsks /\ asks' = asks + 1
    /\ envelope' = asks + 1 /\ excused' = FALSE
    /\ loaded' = envInQueue
    /\ pc' = IF envInQueue >= 2 THEN "idle" ELSE "count"
    /\ UNCHANGED <<tftActions, currentAction, envInQueue, part, suspicious, fails,
                   refreshStatus_, asked, busVars, gateVars, drawVars>>

CountShape ==
    /\ pc = "count" /\ pc' = "insert"
    /\ envInQueue' = loaded + 1
    /\ UNCHANGED <<tftActions, currentAction, part, suspicious, excused, fails,
                   loaded, refreshStatus_, asked, envelope, asks, busVars, gateVars, drawVars>>

InsertShape ==
    /\ pc = "insert" /\ pc' = "idle" /\ loaded' = 0
    /\ Insert(Shape(0))
    /\ UNCHANGED <<currentAction, envInQueue, part, suspicious, excused, fails,
                   refreshStatus_, asked, envelope, asks, busVars, gateVars, drawVars>>

(* refreshAllScreenByStep *)
RepaintStep ==
    /\ pc = "idle" /\ refreshStatus_ > 0 /\ HasRoom
    /\ LET p == refreshStatus_ - 2
       IN  Insert(CASE refreshStatus_ = FullRepaint -> Pause
                    [] refreshStatus_ = FullRepaint - 1 -> Fill(Parts - 1)
                    [] p \in Part -> Draw(p, asked[p])
                    [] OTHER -> Restart)
    /\ refreshStatus_' = refreshStatus_ - 1
    /\ UNCHANGED <<currentAction, envInQueue, part, suspicious, excused, fails,
                   pc, loaded, asked, envelope, asks, busVars, gateVars, drawVars>>

(* FMDisplay3::newTimbre: the queue is thrown away, the new instrument's    *)
(* envelope is asked for, and everything is painted again.                  *)
NewTimbre ==
    /\ AtLoop /\ asks < MaxAsks /\ asks' = asks + 1
    /\ tftActions' = <<>> /\ envInQueue' = 0
    /\ envelope' = asks + 1 /\ excused' = FALSE
    /\ loaded' = 0 /\ pc' = "count"
    /\ refreshStatus_' = FullRepaint
    /\ UNCHANGED <<currentAction, part, suspicious, fails, asked, busVars, gateVars, drawVars>>

(* TftDisplay::reset, and the repaint that the loop asks for after it.      *)
ResetTakesBus ==
    /\ AtLoop /\ tftMustBeReset_
    /\ pc' = "wait" /\ tftSpiOwnedByMain_' = TRUE
    /\ UNCHANGED <<tftActions, currentAction, envInQueue, part, suspicious, excused, fails, tftMustBeReset_,
                   loaded, refreshStatus_, asked, envelope, asks, busVars, drawVars>>

ResetWaits ==
    /\ pc = "wait" /\ ~pushToTftInProgress
    /\ pc' = "flush"
    /\ UNCHANGED <<tftActions, currentAction, envInQueue, part, suspicious, excused, fails,
                   loaded, refreshStatus_, asked, envelope, asks, busVars, gateVars, drawVars>>

(* The transfer did not end in 100 ms and is aborted. *)
ResetAborts ==
    /\ pc = "wait" /\ pushToTftInProgress
    /\ pc' = "flush" /\ spi' = IDLE /\ pushToTftInProgress' = FALSE
    /\ UNCHANGED <<tftActions, currentAction, envInQueue, part, suspicious, excused, fails,
                   loaded, refreshStatus_, asked, envelope, asks, panel, gateVars, drawVars>>

ResetFlushes ==
    /\ pc = "flush" /\ pc' = "init"
    /\ tftActions' = <<>> /\ envInQueue' = 0 /\ excused' = TRUE
    /\ UNCHANGED <<currentAction, part, suspicious, fails,
                   loaded, refreshStatus_, asked, envelope, asks, busVars, gateVars, drawVars>>

ILI9341_Init ==
    /\ pc = "init" /\ pc' = "release"
    /\ panel' = [p \in Part |-> NOISE]
    /\ UNCHANGED <<tftActions, currentAction, envInQueue, part, suspicious, excused, fails, spi, pushToTftInProgress,
                   loaded, refreshStatus_, asked, envelope, asks, gateVars, drawVars>>

ResetReleasesBus ==
    /\ pc = "release" /\ pc' = "forget"
    /\ tftSpiOwnedByMain_' = FALSE
    /\ UNCHANGED <<tftActions, currentAction, envInQueue, part, suspicious, excused, fails, tftMustBeReset_,
                   loaded, refreshStatus_, asked, envelope, asks, busVars, drawVars>>

ResetForgets ==
    /\ pc = "forget" /\ pc' = "idle"
    /\ tftMustBeReset_' = FALSE /\ refreshStatus_' = FullRepaint
    /\ UNCHANGED <<tftActions, currentAction, envInQueue, part, suspicious, excused, fails, tftSpiOwnedByMain_,
                   loaded, asked, envelope, asks, busVars, drawVars>>

-----------------------------------------------------------------------------
Tic == PollGood \/ PollBad \/ PushToTft \/ DrawStep
Reset ==
    \/ ResetTakesBus \/ ResetWaits \/ ResetAborts \/ ResetFlushes
    \/ ILI9341_Init \/ ResetReleasesBus \/ ResetForgets
Request == (\E p \in Part : AskDrawing(p)) \/ AskShape \/ NewTimbre
Continue == CountShape \/ InsertShape \/ RepaintStep \/ Reset

Next == Tic \/ PushToTftFinished \/ Request \/ Continue

(* The tic comes every millisecond, and time for a push every 20 of them;   *)
(* a transfer ends, and the loop goes on with what it began.  Nobody has to *)
(* ask for a drawing, and polls are not needed.                             *)
Spec == Init /\ [][Next]_vars
        /\ WF_vars(PushToTft) /\ WF_vars(DrawStep) /\ WF_vars(PushToTftFinished) /\ WF_vars(Continue)

-----------------------------------------------------------------------------
TypeOK ==
    /\ currentAction.kind \in {"nop", "draw", "fill", "shape", "pause", "restart"}
    /\ Len(tftActions) <= Capacity /\ envInQueue \in -2 .. 3
    /\ tftDirtyBits \subseteq Part /\ part \in Part
    /\ pushToTftInProgress = (spi # IDLE)
    /\ pc \in {"idle", "count", "insert", "wait", "flush", "init", "release", "forget"}

(* "no two masters on SPI1" (TftDisplay.cpp:272): no transfer runs while    *)
(* the main loop initialises the panel.                                     *)
BusHasOneMaster == pc = "init" => spi = IDLE

(* In the end the panel shows all that was asked for, through pauses,       *)
(* repaints, resets and failed transfers, and the shape that was drawn last *)
(* is the present one: no lost update of envInQueue ever keeps a drawing    *)
(* out.  (A shape is not asked for again when a reset threw it away.)       *)
ShowsWhatWasAsked == <>[](panel = asked /\ (excused \/ shown = envelope))
=============================================================================
