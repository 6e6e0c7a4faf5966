--------------------------- MODULE FrontPanelProofs ---------------------------
(***************************************************************************)
(* Theorems about the display, Tft, and about the encoders, Encoders: for   *)
(* every number of parts, every size of the queue, any number of requests   *)
(* and failures, and for every set of buttons and the times of a click and  *)
(* of a long press.  The names of Encoders are those with "Enc!".           *)
(***************************************************************************)
EXTENDS Tft, SequenceTheorems, WellFoundedInduction, TLAPS

CONSTANTS Buttons, PushButtons, ClickTime, LongTime, PushChanges
VARIABLES
    buttonPreviousState_, buttonTimer_, buttonUsedFromSomethingElse_, firstButtonDown_,
    lastMove_, timerAction_, encoderPush, gestures, history

Enc == INSTANCE Encoders

-----------------------------------------------------------------------------

(* The flag tftSpiOwnedByMain_ stands as long as the main loop is between   *)
(* taking and releasing the bus.                                            *)
OwnerFlagged == pc \in {"wait", "flush", "init", "release"} => tftSpiOwnedByMain_

(* A transfer on the bus is flagged.  (A polled panel or a transfer that    *)
(* could not be started leaves nothing on it.)                              *)
TransferFlagged == spi # IDLE => pushToTftInProgress

(* Past the wait of reset() the bus is free: the tic starts nothing while   *)
(* it is owned, and what was running has ended or was aborted.              *)
BusFree == pc \in {"flush", "init", "release"} => spi = IDLE

BusInv == OwnerFlagged /\ TransferFlagged /\ BusFree

LEMMA BusInvInit == Init => BusInv
  BY DEF Init, BusInv, OwnerFlagged, TransferFlagged, BusFree

(* The steps of the interrupts leave the main loop where it is. *)
LEMMA BusInvInterrupts ==
  ASSUME BusInv, Tic \/ PushToTftFinished
  PROVE  BusInv'
<1> USE DEF BusInv, OwnerFlagged, TransferFlagged, BusFree, mainVars, busVars, gateVars
<1>1. CASE PollGood
  BY <1>1 DEF PollGood
<1>2. CASE PollBad
  BY <1>2 DEF PollBad
<1>3. CASE PushToTft
  <2>1. MayUseBus /\ UNCHANGED <<pc, tftSpiOwnedByMain_>>
    BY <1>3 DEF PushToTft
  <2>2. pc \notin {"wait", "flush", "init", "release"}
    BY <2>1 DEF MayUseBus
  <2>3. pushToTftInProgress' \/ UNCHANGED <<spi, pushToTftInProgress>>
    BY <1>3 DEF PushToTft
  <2>4. QED
    BY <2>1, <2>2, <2>3
<1>4. CASE DrawStep
  BY <1>4 DEF DrawStep
<1>5. CASE PushToTftFinished
  <2>1. spi' = IDLE /\ UNCHANGED <<pc, tftSpiOwnedByMain_>>
    BY <1>5 DEF PushToTftFinished
  <2>2. QED
    BY <2>1
<1>6. QED
  BY <1>1, <1>2, <1>3, <1>4, <1>5 DEF Tic

(* The main loop starts no transfer; it may end one. *)
LEMMA BusInvMain ==
  ASSUME BusInv, Request \/ Continue
  PROVE  BusInv'
<1> USE DEF BusInv, OwnerFlagged, TransferFlagged, BusFree, mainVars, busVars, gateVars
<1>1. CASE Request
  BY <1>1 DEF Request, AskDrawing, AskShape, NewTimbre, AtLoop
<1>2. CASE CountShape \/ InsertShape \/ RepaintStep
  BY <1>2 DEF CountShape, InsertShape, RepaintStep
<1>3. CASE ResetTakesBus
  BY <1>3 DEF ResetTakesBus
<1>4. CASE ResetWaits
  BY <1>4 DEF ResetWaits
<1>5. CASE ResetAborts
  BY <1>5 DEF ResetAborts
<1>6. CASE ResetFlushes \/ ILI9341_Init
  BY <1>6 DEF ResetFlushes, ILI9341_Init
<1>7. CASE ResetReleasesBus
  BY <1>7 DEF ResetReleasesBus
<1>8. CASE ResetForgets
  BY <1>8 DEF ResetForgets
<1>9. QED
  BY <1>1, <1>2, <1>3, <1>4, <1>5, <1>6, <1>7, <1>8 DEF Continue, Reset

LEMMA BusInvAlways == Init /\ [][Next]_vars => []BusInv
<1>1. BusInv /\ [Next]_vars => BusInv'
  <2>1. BusInv /\ Next => BusInv'
    BY BusInvInterrupts, BusInvMain DEF Next
  <2>2. BusInv /\ UNCHANGED vars => BusInv'
    BY DEF BusInv, OwnerFlagged, TransferFlagged, BusFree, vars, mainVars, busVars, gateVars
  <2>3. QED
    BY <2>1, <2>2
<1>2. QED
  BY BusInvInit, <1>1, PTL

(* No transfer of the tic runs while the main loop initialises the panel    *)
(* over the same bus, at any interleaving of the reset (TftDisplay.cpp:     *)
(* 271-301) with the tic and the end of a transfer.                         *)
THEOREM TftBusHasOneMaster == Spec => []BusHasOneMaster
<1>1. BusInv => BusHasOneMaster
  BY DEF BusInv, BusFree, BusHasOneMaster
<1>2. QED
  BY BusInvAlways, <1>1, PTL DEF Spec

-----------------------------------------------------------------------------
(* While the main loop owns the bus the interrupts do nothing on it but end *)
(* the transfer that was running (TftDisplay.cpp:352, :386).                *)
OwnedBusIsQuiet == tftSpiOwnedByMain_ /\ spi' # spi => spi' = IDLE

THEOREM TftOwnedBusIsQuiet == Spec => [][OwnedBusIsQuiet]_vars
<1> USE DEF OwnedBusIsQuiet, mainVars, busVars, gateVars
<1>1. Tic => OwnedBusIsQuiet
  BY DEF Tic, PollGood, PollBad, PushToTft, DrawStep, MayUseBus
<1>2. PushToTftFinished => OwnedBusIsQuiet
  BY DEF PushToTftFinished
<1>3. Request => OwnedBusIsQuiet
  BY DEF Request, AskDrawing, AskShape, NewTimbre
<1>4. Continue => OwnedBusIsQuiet
  BY DEF Continue, CountShape, InsertShape, RepaintStep, Reset, ResetTakesBus, ResetWaits,
         ResetAborts, ResetFlushes, ILI9341_Init, ResetReleasesBus, ResetForgets
<1>5. [Next]_vars => [OwnedBusIsQuiet]_vars
  BY <1>1, <1>2, <1>3, <1>4 DEF Next
<1>6. QED
  BY <1>5, PTL DEF Spec

-----------------------------------------------------------------------------
(* Sequences: what Append and Tail do, place by place.                      *)
LEMMA AppendIs ==
  ASSUME NEW S, NEW q \in Seq(S), NEW a \in S, NEW r, r = Append(q, a)
  PROVE  /\ r \in Seq(S) /\ Len(q) \in Nat /\ Len(r) = Len(q) + 1 /\ r[Len(q) + 1] = a
         /\ \A i \in 1 .. Len(q) : r[i] = q[i]
  OBVIOUS

LEMMA TailIs ==
  ASSUME NEW S, NEW q \in Seq(S), q # <<>>, NEW r, r = Tail(q)
  PROVE  /\ r \in Seq(S) /\ Len(r) \in Nat /\ Len(q) = Len(r) + 1
         /\ Head(q) \in S /\ Head(q) = q[1] /\ \A i \in 1 .. Len(r) : r[i] = q[i + 1]
  OBVIOUS

(* What waits in the queue: an action of B, or a as the last one that       *)
(* matters to B.                                                            *)
HasAny(q, B) == \E i \in 1 .. Len(q) : q[i] \in B
LastIs(q, a, B) == \E i \in 1 .. Len(q) : q[i] = a /\ \A j \in 1 .. Len(q) : j > i => q[j] \notin B

Action == {a \in [kind : {"nop", "draw", "fill", "shape", "pause", "restart"}, part : Nat, what : Int] :
             /\ a.kind \in {"draw", "fill"} => a.part \in Part
             /\ a.kind = "fill" => a.what = 0}

LEMMA AfterAppend ==
  ASSUME NEW q \in Seq(Action), NEW a \in Action, NEW r, r = Append(q, a), NEW B
  PROVE  /\ r \in Seq(Action)
         /\ HasAny(r, B) <=> HasAny(q, B) \/ a \in B
         /\ \A b : a \notin B /\ LastIs(q, b, B) => LastIs(r, b, B)
         /\ LastIs(r, a, B)
<1>1. /\ r \in Seq(Action) /\ Len(q) \in Nat /\ Len(r) = Len(q) + 1 /\ r[Len(q) + 1] = a
      /\ \A i \in 1 .. Len(q) : r[i] = q[i]
  BY AppendIs
<1>2. \A i \in 1 .. Len(r) : i \in 1 .. Len(q) \/ i = Len(q) + 1
  BY <1>1
<1>3. (\A i \in 1 .. Len(q) : i \in 1 .. Len(r)) /\ Len(q) + 1 \in 1 .. Len(r)
  BY <1>1
<1>4. HasAny(r, B) <=> HasAny(q, B) \/ a \in B
  BY <1>1, <1>2, <1>3 DEF HasAny
<1>5. ASSUME NEW b, a \notin B, LastIs(q, b, B) PROVE LastIs(r, b, B)
  <2>1. PICK i \in 1 .. Len(q) : q[i] = b /\ \A j \in 1 .. Len(q) : j > i => q[j] \notin B
    BY <1>5 DEF LastIs
  <2>2. i \in 1 .. Len(r) /\ r[i] = b
    BY <1>1, <1>3, <2>1
  <2>3. \A j \in 1 .. Len(r) : j > i => r[j] \notin B
    BY <1>1, <1>2, <1>5, <2>1
  <2>4. QED
    BY <2>2, <2>3 DEF LastIs
<1>6. LastIs(r, a, B)
  <2>1. \A j \in 1 .. Len(r) : ~(j > Len(q) + 1)
    BY <1>1
  <2>2. QED
    BY <1>1, <1>3, <2>1 DEF LastIs
<1>7. QED
  BY <1>1, <1>4, <1>5, <1>6

LEMMA AfterTail ==
  ASSUME NEW q \in Seq(Action), q # <<>>, NEW r, r = Tail(q), NEW B
  PROVE  /\ r \in Seq(Action) /\ Head(q) \in Action
         /\ HasAny(q, B) <=> HasAny(r, B) \/ Head(q) \in B
         /\ \A b : LastIs(q, b, B) => LastIs(r, b, B) \/ (~HasAny(r, B) /\ Head(q) = b)
<1>1. /\ r \in Seq(Action) /\ Len(r) \in Nat /\ Len(q) = Len(r) + 1
      /\ Head(q) \in Action /\ Head(q) = q[1] /\ \A i \in 1 .. Len(r) : r[i] = q[i + 1]
  BY TailIs
<1>2. \A i \in 1 .. Len(r) : i + 1 \in 1 .. Len(q)
  BY <1>1
<1>3. \A i \in 1 .. Len(q) : i = 1 \/ (i - 1 \in 1 .. Len(r) /\ r[i - 1] = q[i])
  <2>1. \A i \in 1 .. Len(q) : i = 1 \/ (i - 1 \in 1 .. Len(r) /\ (i - 1) + 1 = i)
    BY <1>1
  <2>2. QED
    BY <1>1, <2>1
<1>4. 1 \in 1 .. Len(q)
  BY <1>1
<1>5. HasAny(q, B) <=> HasAny(r, B) \/ Head(q) \in B
  <2>1. HasAny(q, B) => HasAny(r, B) \/ Head(q) \in B
    BY <1>1, <1>3 DEF HasAny
  <2>2. HasAny(r, B) \/ Head(q) \in B => HasAny(q, B)
    BY <1>1, <1>2, <1>4 DEF HasAny
  <2>3. QED
    BY <2>1, <2>2
<1>6. ASSUME NEW b, LastIs(q, b, B)
      PROVE  LastIs(r, b, B) \/ (~HasAny(r, B) /\ Head(q) = b)
  <2>1. PICK i \in 1 .. Len(q) : q[i] = b /\ \A j \in 1 .. Len(q) : j > i => q[j] \notin B
    BY <1>6 DEF LastIs
  <2>2. CASE i = 1
    <3>1. \A j \in 1 .. Len(r) : j + 1 > i
      BY <1>1, <2>2
    <3>2. ~HasAny(r, B)
      BY <1>1, <1>2, <2>1, <3>1 DEF HasAny
    <3>3. QED
      BY <1>1, <2>1, <2>2, <3>2
  <2>3. CASE i # 1
    <3>1. i - 1 \in 1 .. Len(r) /\ r[i - 1] = b
      BY <1>3, <2>1, <2>3
    <3>2. \A j \in 1 .. Len(r) : j > i - 1 => j + 1 > i
      BY <1>1
    <3>3. \A j \in 1 .. Len(r) : j > i - 1 => r[j] \notin B
      BY <1>1, <1>2, <2>1, <3>2
    <3>4. QED
      BY <3>1, <3>3 DEF LastIs
  <2>4. QED
    BY <2>2, <2>3
<1>7. QED
  BY <1>1, <1>5, <1>6

LEMMA NothingWaits ==
  ASSUME NEW a, NEW B
  PROVE  ~HasAny(<<>>, B) /\ ~LastIs(<<>>, a, B)
  BY DEF HasAny, LastIs

-----------------------------------------------------------------------------
(* The sizes of the display.                                                *)
DisplaySizes == Parts \in Nat \ {0} /\ MaxAsks \in Nat

DisplayTypes ==
    /\ tftActions \in Seq(Action)
    /\ currentAction \in Action /\ currentAction.kind \in {"nop", "fill", "shape"}
    /\ currentAction.kind = "nop" => currentAction = NOP
    /\ memory \in [Part -> Int] /\ panel \in [Part -> Int] /\ asked \in [Part -> Int]
    /\ tftDirtyBits \in SUBSET Part /\ part \in Part
    /\ spi \in [part : Int, seen : Int]
    /\ envInQueue \in Int /\ loaded \in Int
    /\ refreshStatus_ \in 0 .. FullRepaint /\ asks \in Nat

LEMMA ActionsAre ==
  ASSUME DisplaySizes
  PROVE  /\ NOP \in Action /\ Shape(0) \in Action /\ Shape(1) \in Action
         /\ Pause \in Action /\ Restart \in Action
         /\ \A p \in Part : Fill(p) \in Action /\ \A v \in Int : Draw(p, v) \in Action
         /\ Part \subseteq Nat /\ 0 \in Part /\ Parts - 1 \in Part
  BY DEF DisplaySizes, Part, Action, NOP, Shape, Pause, Restart, Fill, Draw

(* pushToTft takes a part that is dirty: the first one from `part' on.      *)
LEMMA MinExists ==
  ASSUME NEW S \in SUBSET Nat, S # {}
  PROVE  \E x \in S : \A y \in S : x <= y
<1> DEFINE R == {p \in Nat \X Nat : p[1] < p[2]}
<1>1. R = OpToRel(<, Nat)
  BY DEF OpToRel
<1>2. IsWellFoundedOn(R, Nat)
  BY <1>1, NatLessThanWellFounded
<1>3. PICK x \in S : \A y \in S : ~(<<y, x>> \in R)
  BY <1>2, WFMin
<1>4. \A y \in S : y \in Nat /\ x \in Nat /\ ~(y < x)
  BY <1>3
<1>5. QED
  BY <1>4

LEMMA NextDirtyIs ==
  ASSUME DisplaySizes, NEW from \in Part, tftDirtyBits \in SUBSET Part, tftDirtyBits # {}
  PROVE  NextDirty(from) \in tftDirtyBits
<1> DEFINE far(p) == (p - from + Parts) % Parts
           S == {far(p) : p \in tftDirtyBits}
<1>1. \A p \in Part : far(p) \in Nat
  BY DEF DisplaySizes, Part
<1>2. S \in SUBSET Nat /\ S # {}
  BY <1>1
<1>3. PICK x \in S : \A y \in S : x <= y
  BY <1>2, MinExists
<1>4. PICK p \in tftDirtyBits : x = far(p)
  BY <1>3
<1>5. \A q \in tftDirtyBits : far(p) <= far(q)
  BY <1>3, <1>4
<1>6. QED
  BY <1>5 DEF NextDirty

(* The effect of a step of a drawing, by its kind.                          *)
LEMMA DrawnIs ==
  ASSUME DisplaySizes, NEW a \in Action, NEW w, Drawn(a, w)
  PROVE  /\ a.kind = "draw" =>
              /\ currentAction' = NOP /\ memory' = [memory EXCEPT ![a.part] = a.what]
              /\ tftDirtyBits' = tftDirtyBits \cup {a.part}
         /\ a.kind = "fill" =>
              /\ currentAction' = (IF a.part > 0 THEN Fill(a.part - 1) ELSE NOP)
              /\ memory' = [memory EXCEPT ![a.part] = a.what]
              /\ tftDirtyBits' = tftDirtyBits \/ tftDirtyBits' = Part
              /\ a = Fill(0) => tftDirtyBits' = Part
         /\ a.kind \notin {"draw", "fill"} =>
              /\ memory' = memory /\ tftDirtyBits' = tftDirtyBits
              /\ currentAction' = (IF a = Shape(0) THEN Shape(1) ELSE NOP)
         /\ tftRefreshing' = (IF a = Pause THEN FALSE ELSE IF a = Restart THEN TRUE ELSE tftRefreshing)
         /\ part' = part \/ part' = 0
         /\ shown' = (IF a = Shape(1) THEN envelope ELSE shown)
         /\ envInQueue' \in {0, envInQueue} \/ (a = Shape(1) /\ envInQueue' \in {0 - 1, envInQueue - 1})
<1>1. /\ Shape(0).kind = "shape" /\ Fill(0).kind = "fill" /\ Pause.kind = "pause"
      /\ Restart.kind = "restart" /\ Shape(1) # Shape(0) /\ Fill(0).part = 0
  BY DEF Shape, Fill, Pause, Restart
<1>2. CASE a.kind = "draw"
  <2>1. a # Shape(0) /\ a # Fill(0) /\ a # Pause /\ a # Restart /\ a # Shape(1)
    BY <1>1, <1>2 DEF Shape
  <2>2. QED
    BY <1>2, <2>1, Zenon DEF Drawn
<1>3. CASE a.kind = "fill"
  <2>1. /\ a # Shape(0) /\ a # Pause /\ a # Restart /\ a # Shape(1)
        /\ a.kind # "draw" /\ a.kind \in {"draw", "fill"}
    BY <1>1, <1>3 DEF Shape
  <2>2. CASE a.part > 0
    <3>1. a # Fill(0)
      BY <1>1, <2>2
    <3>2. QED
      BY <1>3, <2>1, <2>2, <3>1, Zenon DEF Drawn
  <2>3. CASE ~(a.part > 0) /\ a = Fill(0)
    BY <1>3, <2>1, <2>3, Zenon DEF Drawn
  <2>4. CASE ~(a.part > 0) /\ a # Fill(0)
    BY <1>3, <2>1, <2>4, Zenon DEF Drawn
  <2>5. QED
    BY <2>2, <2>3, <2>4
<1>4. CASE a.kind \notin {"draw", "fill"}
  <2>1. a.kind # "draw" /\ a.kind # "fill" /\ a # Fill(0)
    BY <1>1, <1>4
  <2>2. /\ Pause # Restart /\ Pause # Shape(0) /\ Pause # Shape(1)
        /\ Restart # Shape(0) /\ Restart # Shape(1) /\ Shape(0) # Shape(1)
    BY DEF Pause, Restart, Shape
  <2>3. CASE a \in {Pause, Restart, Shape(0), Shape(1)}
    <3>1. CASE a = Pause
      BY <2>1, <2>2, <3>1, Zenon DEF Drawn
    <3>2. CASE a = Restart
      BY <2>1, <2>2, <3>2, Zenon DEF Drawn
    <3>3. CASE a = Shape(0)
      BY <2>1, <2>2, <3>3, Zenon DEF Drawn
    <3>4. CASE a = Shape(1)
      BY <2>1, <2>2, <3>4, Zenon DEF Drawn
    <3>5. QED
      BY <2>3, <3>1, <3>2, <3>3, <3>4
  <2>4. CASE a \notin {Pause, Restart, Shape(0), Shape(1)}
    BY <2>1, <2>4, Zenon DEF Drawn
  <2>5. QED
    BY <2>3, <2>4
<1>5. QED
  BY <1>2, <1>3, <1>4

-----------------------------------------------------------------------------
(* What keeps the display on its way to what was asked for.                 *)
Drawings(p) == {a \in Action : a.kind = "draw" /\ a.part = p}
Writers(p) == {a \in Action : a.kind = "fill" \/ (a.kind = "draw" /\ a.part = p)}

(* Part p is still to be painted again by the repaint under way.            *)
Repaints(p) == refreshStatus_ >= p + 2

(* The frame buffer has what was asked for, or the last drawing that waits  *)
(* brings it, or the repaint will.                                          *)
WillHold(p) ==
    \/ Repaints(p) \/ LastIs(tftActions, Draw(p, asked[p]), Writers(p))
    \/ /\ memory[p] = asked[p] /\ ~HasAny(tftActions, Writers(p))
       /\ ~(currentAction.kind = "fill" /\ currentAction.part >= p)

(* The panel has what the frame buffer has, or that is on the bus, or the   *)
(* part is dirty or is going to be.                                         *)
WillShow(p) ==
    \/ Repaints(p) \/ HasAny(tftActions, Drawings(p)) \/ p \in tftDirtyBits
    \/ currentAction.kind = "fill"
    \/ spi = [part |-> p, seen |-> memory[p]]
    \/ panel[p] = memory[p] /\ spi.part # p

(* Pushes go on, or the restart that ends a pause is still to come.         *)
WillRefresh ==
    \/ refreshStatus_ >= 1 \/ LastIs(tftActions, Restart, {Pause})
    \/ tftRefreshing /\ ~HasAny(tftActions, {Pause})

(* A queue that is thrown away is made up for by the repaint after a reset. *)
OnItsWay == tftMustBeReset_ \/ (WillRefresh /\ \A p \in Part : WillHold(p) /\ WillShow(p))
ResetStands == pc \in {"wait", "flush", "init", "release", "forget"} => tftMustBeReset_

(* The counter of queued shapes keeps no drawing out: it only stands at two *)
(* while one waits, or is about to be inserted.                             *)
ShapeWaits == currentAction = Shape(1) \/ HasAny(tftActions, {Shape(0)})
ShapeCounted ==
    /\ envInQueue <= 2 /\ (pc = "count" => loaded <= 1)
    /\ envInQueue >= 2 => ShapeWaits \/ pc = "insert"
    /\ excused \/ shown = envelope \/ ShapeWaits \/ pc \in {"count", "insert"}

ShowInv == DisplayTypes /\ TransferFlagged /\ ResetStands /\ OnItsWay /\ ShapeCounted

-----------------------------------------------------------------------------
LEMMA ShowInvInit == DisplaySizes /\ Init => ShowInv
<1> SUFFICES ASSUME DisplaySizes, Init PROVE ShowInv
  OBVIOUS
<1>1. NOP \in Action /\ NOP.kind = "nop" /\ Part \subseteq Nat /\ 0 \in Part
  BY ActionsAre DEF NOP
<1>2. DisplayTypes
  BY <1>1 DEF Init, DisplayTypes, IDLE, DisplaySizes, FullRepaint
<1>3. \A B : ~HasAny(tftActions, B)
  BY NothingWaits DEF Init
<1>4. IDLE.part \notin Part
  BY DEF IDLE, Part
<1>5. \A p \in Part : memory[p] = asked[p] /\ panel[p] = memory[p] /\ spi.part # p
  BY <1>4 DEF Init
<1>6. \A p \in Part : WillHold(p) /\ WillShow(p)
  BY <1>1, <1>3, <1>5 DEF WillHold, WillShow, Init
<1>7. WillRefresh
  BY <1>3 DEF WillRefresh, Init
<1>8. TransferFlagged /\ ResetStands /\ ShapeCounted
  BY DEF TransferFlagged, ResetStands, ShapeCounted, Init
<1>9. QED
  BY <1>2, <1>6, <1>7, <1>8 DEF ShowInv, OnItsWay

(* A step that leaves the display alone leaves it on its way.               *)
shownVars == <<tftActions, currentAction, memory, tftDirtyBits, tftRefreshing, spi, panel,
                 asked, refreshStatus_>>

LEMMA SameIsOnItsWay ==
  ASSUME OnItsWay, UNCHANGED shownVars, tftMustBeReset_ => tftMustBeReset_'
  PROVE  OnItsWay'
<1>1. WillRefresh => WillRefresh'
  BY DEF WillRefresh, shownVars
<1>2. \A p \in Part : WillHold(p) => WillHold(p)'
  BY DEF WillHold, Repaints, shownVars
<1>3. \A p \in Part : WillShow(p) => WillShow(p)'
  BY DEF WillShow, Repaints, shownVars
<1>4. QED
  BY <1>1, <1>2, <1>3 DEF OnItsWay

(* So does one more action that neither draws nor pauses.                   *)
LEMMA HarmlessAppend ==
  ASSUME DisplayTypes, NEW a \in Action, tftActions' = Append(tftActions, a),
         a.kind \notin {"draw", "fill", "pause"},
         UNCHANGED <<currentAction, memory, tftDirtyBits, tftRefreshing, spi, panel, asked, refreshStatus_>>
  PROVE  /\ WillRefresh => WillRefresh'
         /\ \A p \in Part : (WillHold(p) => WillHold(p)') /\ (WillShow(p) => WillShow(p)')
<1>1. \A B : /\ HasAny(tftActions', B) <=> HasAny(tftActions, B) \/ a \in B
             /\ \A b : a \notin B /\ LastIs(tftActions, b, B) => LastIs(tftActions', b, B)
  <2> SUFFICES ASSUME NEW B
               PROVE  /\ HasAny(tftActions', B) <=> HasAny(tftActions, B) \/ a \in B
                      /\ \A b : a \notin B /\ LastIs(tftActions, b, B) => LastIs(tftActions', b, B)
    BY Zenon
  <2>1. tftActions \in Seq(Action)
    BY DEF DisplayTypes
  <2>2. QED
    BY <2>1, AfterAppend, Zenon
<1>2. a \notin {Pause} /\ \A p \in Part : a \notin Writers(p)
  BY DEF Pause, Writers
<1>3. WillRefresh => WillRefresh'
  BY <1>1, <1>2 DEF WillRefresh
<1>4. ASSUME NEW p \in Part, WillHold(p) PROVE WillHold(p)'
  <2>1. CASE Repaints(p)
    BY <2>1 DEF WillHold, Repaints
  <2>2. CASE LastIs(tftActions, Draw(p, asked[p]), Writers(p))
    BY <1>1, <1>2, <2>2 DEF WillHold
  <2>3. CASE ~Repaints(p) /\ ~LastIs(tftActions, Draw(p, asked[p]), Writers(p))
    BY <1>1, <1>2, <1>4, <2>3 DEF WillHold
  <2>4. QED
    BY <2>1, <2>2, <2>3
<1>5. ASSUME NEW p \in Part, WillShow(p) PROVE WillShow(p)'
  BY <1>1, <1>5 DEF WillShow, Repaints
<1>6. QED
  BY <1>3, <1>4, <1>5

(* A step of a drawing: the action it takes, and what waits after it.       *)
Took(a, w) ==
    /\ a \in Action /\ Drawn(a, w) /\ tftActions' = w
    /\ \/ a = currentAction /\ w = tftActions /\ a.kind \in {"fill", "shape"}
       \/ currentAction = NOP /\ tftActions # <<>> /\ a = Head(tftActions) /\ w = Tail(tftActions)

LEMMA StepTakes ==
  ASSUME DisplaySizes, DisplayTypes, DrawStep
  PROVE  \E a, w : Took(a, w)
<1>1. currentAction \in Action /\ currentAction.kind \in {"nop", "fill", "shape"}
  BY DEF DisplayTypes
<1>2. CASE currentAction # NOP /\ Drawn(currentAction, tftActions) /\ UNCHANGED tftActions
  <2>1. currentAction.kind # "nop"
    BY <1>2 DEF DisplayTypes
  <2>2. Took(currentAction, tftActions)
    BY <1>1, <1>2, <2>1 DEF Took
  <2>3. QED
    BY <2>2
<1>3. CASE /\ currentAction = NOP /\ tftActions # <<>> /\ tftActions' = Tail(tftActions)
           /\ Drawn(Head(tftActions), Tail(tftActions))
  <2>1. Head(tftActions) \in Action
    <3>1. tftActions \in Seq(Action)
      BY DEF DisplayTypes
    <3>2. QED
      BY <1>3, <3>1, AfterTail, Zenon
  <2>2. Took(Head(tftActions), Tail(tftActions))
    BY <1>3, <2>1 DEF Took
  <2>3. QED
    BY <2>2
<1>4. QED
  BY <1>2, <1>3 DEF DrawStep

(* What waits after it is what waited, but for the action it takes.         *)
LEMMA TookLeaves ==
  ASSUME DisplayTypes, NEW a, NEW w, Took(a, w), NEW B
  PROVE  /\ w \in Seq(Action)
         /\ HasAny(w, B) => HasAny(tftActions, B)
         /\ HasAny(tftActions, B) => HasAny(w, B) \/ a \in B
         /\ ~HasAny(tftActions, B) => a \notin B \/ (a = currentAction /\ a.kind \in {"fill", "shape"})
         /\ \A b : LastIs(tftActions, b, B) => LastIs(w, b, B) \/ (~HasAny(w, B) /\ a = b)
<1>0. tftActions \in Seq(Action)
  BY DEF DisplayTypes
<1>1. CASE a = currentAction /\ w = tftActions /\ a.kind \in {"fill", "shape"}
  BY <1>0, <1>1, Zenon
<1>2. CASE tftActions # <<>> /\ a = Head(tftActions) /\ w = Tail(tftActions)
  <2>1. /\ w \in Seq(Action)
        /\ HasAny(tftActions, B) <=> HasAny(w, B) \/ Head(tftActions) \in B
        /\ \A b : LastIs(tftActions, b, B) => LastIs(w, b, B) \/ (~HasAny(w, B) /\ Head(tftActions) = b)
    BY <1>0, <1>2, AfterTail, Zenon
  <2>2. QED
    BY <1>2, <2>1, Zenon
<1>3. QED
  BY <1>1, <1>2 DEF Took

(* What is being drawn stays of the known kinds, every drawing is the right *)
(* one to a part, and the whole screen is dirty once it has been cleared.   *)
LEMMA TookTypes ==
  ASSUME DisplaySizes, DisplayTypes, NEW a, NEW w, Took(a, w),
         UNCHANGED <<mainVars, busVars>>
  PROVE  DisplayTypes'
<1>1. /\ a \in Action /\ Drawn(a, w) /\ tftActions' = w /\ w \in Seq(Action)
  BY TookLeaves DEF Took
<1>2. /\ a.kind \in {"nop", "draw", "fill", "shape", "pause", "restart"} /\ a.part \in Nat /\ a.what \in Int
      /\ a.kind \in {"draw", "fill"} => a.part \in Part
  BY <1>1 DEF Action
<1>3. /\ NOP \in Action /\ Shape(1) \in Action /\ \A p \in Part : Fill(p) \in Action
      /\ Part \subseteq Nat /\ 0 \in Part
      /\ NOP.kind = "nop" /\ Shape(1).kind = "shape" /\ \A p \in Part : Fill(p).kind = "fill"
  BY ActionsAre DEF NOP, Shape, Fill
<1>4. a.kind = "fill" /\ a.part > 0 => a.part - 1 \in Part
  BY <1>2 DEF Part, DisplaySizes
<1>5. /\ currentAction' \in Action /\ currentAction'.kind \in {"nop", "fill", "shape"}
      /\ currentAction'.kind = "nop" => currentAction' = NOP
  <2>1. CASE a.kind = "draw"
    BY <1>1, <1>3, <2>1, DrawnIs
  <2>2. CASE a.kind = "fill"
    <3>1. currentAction' = (IF a.part > 0 THEN Fill(a.part - 1) ELSE NOP)
      BY <1>1, <2>2, DrawnIs
    <3>2. QED
      BY <1>3, <1>4, <2>2, <3>1
  <2>3. CASE a.kind \notin {"draw", "fill"}
    <3>1. currentAction' = (IF a = Shape(0) THEN Shape(1) ELSE NOP)
      BY <1>1, <2>3, DrawnIs
    <3>2. QED
      BY <1>3, <3>1
  <2>4. QED
    BY <2>1, <2>2, <2>3
<1>6. memory' \in [Part -> Int] /\ tftDirtyBits' \in SUBSET Part
  <2>0. memory \in [Part -> Int] /\ tftDirtyBits \in SUBSET Part
    BY DEF DisplayTypes
  <2>1. CASE a.kind = "draw"
    <3>1. memory' = [memory EXCEPT ![a.part] = a.what] /\ tftDirtyBits' = tftDirtyBits \cup {a.part}
      BY <1>1, <2>1, DrawnIs
    <3>2. QED
      BY <1>2, <2>0, <2>1, <3>1
  <2>2. CASE a.kind = "fill"
    <3>1. /\ memory' = [memory EXCEPT ![a.part] = a.what]
          /\ tftDirtyBits' = tftDirtyBits \/ tftDirtyBits' = Part
      BY <1>1, <2>2, DrawnIs
    <3>2. QED
      BY <1>2, <2>0, <2>2, <3>1
  <2>3. CASE a.kind \notin {"draw", "fill"}
    <3>1. memory' = memory /\ tftDirtyBits' = tftDirtyBits
      BY <1>1, <2>3, DrawnIs
    <3>2. QED
      BY <2>0, <3>1
  <2>4. QED
    BY <2>1, <2>2, <2>3
<1>7. part' \in Part
  <2>1. part' = part \/ part' = 0
    BY <1>1, DrawnIs
  <2>2. QED
    BY <1>3, <2>1 DEF DisplayTypes
<1>8. envInQueue' \in Int
  <2>1. envInQueue' \in {0, envInQueue} \/ envInQueue' \in {0 - 1, envInQueue - 1}
    BY <1>1, DrawnIs
  <2>2. QED
    BY <2>1 DEF DisplayTypes
<1>9. QED
  BY <1>1, <1>5, <1>6, <1>7, <1>8 DEF DisplayTypes, mainVars, busVars

LEMMA TookRefreshes ==
  ASSUME DisplaySizes, DisplayTypes, NEW a, NEW w, Took(a, w), UNCHANGED mainVars, WillRefresh
  PROVE  WillRefresh'
<1>1. a \in Action /\ Drawn(a, w) /\ tftActions' = w
  BY DEF Took
<1>2. tftRefreshing' = (IF a = Pause THEN FALSE ELSE IF a = Restart THEN TRUE ELSE tftRefreshing)
  BY <1>1, DrawnIs
<1>3. Pause # Restart /\ Pause.kind = "pause"
  BY DEF Pause, Restart
<1>4. CASE refreshStatus_ >= 1
  BY <1>4 DEF WillRefresh, mainVars
<1>5. CASE LastIs(tftActions, Restart, {Pause})
  <2>1. LastIs(w, Restart, {Pause}) \/ (~HasAny(w, {Pause}) /\ a = Restart)
    BY <1>5, TookLeaves
  <2>2. QED
    BY <1>1, <1>2, <1>3, <2>1 DEF WillRefresh
<1>6. CASE tftRefreshing /\ ~HasAny(tftActions, {Pause})
  <2>1. ~HasAny(w, {Pause})
    BY <1>6, TookLeaves
  <2>2. a # Pause
    BY <1>3, <1>6, TookLeaves
  <2>3. QED
    BY <1>1, <1>2, <1>6, <2>1, <2>2 DEF WillRefresh
<1>7. QED
  BY <1>4, <1>5, <1>6 DEF WillRefresh

LEMMA TookHolds ==
  ASSUME DisplaySizes, DisplayTypes, NEW a, NEW w, Took(a, w), UNCHANGED mainVars,
         NEW p \in Part, WillHold(p)
  PROVE  WillHold(p)'
<1>1. a \in Action /\ Drawn(a, w) /\ tftActions' = w
  BY DEF Took
<1>2. memory \in [Part -> Int] /\ asked[p] \in Int /\ asked' = asked /\ refreshStatus_' = refreshStatus_
  BY DEF DisplayTypes, mainVars
<1>3. /\ a.part \in Nat /\ (a.kind \in {"draw", "fill"} => a.part \in Part)
      /\ NOP.kind = "nop" /\ Shape(1).kind = "shape"
      /\ \A q \in Part : Fill(q).kind = "fill" /\ Fill(q).part = q
  BY <1>1 DEF Action, NOP, Shape, Fill
<1>4. CASE Repaints(p)
  BY <1>2, <1>4 DEF WillHold, Repaints
<1>5. CASE LastIs(tftActions, Draw(p, asked[p]), Writers(p))
  <2>1. CASE LastIs(w, Draw(p, asked[p]), Writers(p))
    BY <1>1, <1>2, <2>1 DEF WillHold
  <2>2. CASE ~HasAny(w, Writers(p)) /\ a = Draw(p, asked[p])
    <3>1. a.kind = "draw" /\ a.part = p /\ a.what = asked[p]
      BY <2>2 DEF Draw
    <3>2. currentAction' = NOP /\ memory' = [memory EXCEPT ![a.part] = a.what]
      BY <1>1, <3>1, DrawnIs
    <3>3. memory'[p] = asked[p] /\ currentAction'.kind # "fill"
      BY <1>2, <1>3, <3>1, <3>2
    <3>4. QED
      BY <1>1, <1>2, <2>2, <3>3 DEF WillHold
  <2>3. QED
    BY <1>5, <2>1, <2>2, TookLeaves
<1>6. CASE /\ memory[p] = asked[p] /\ ~HasAny(tftActions, Writers(p))
           /\ ~(currentAction.kind = "fill" /\ currentAction.part >= p)
  <2>1. ~HasAny(w, Writers(p))
    BY <1>6, TookLeaves
  <2>2. a \notin Writers(p) \/ (a = currentAction /\ a.kind \in {"fill", "shape"})
    BY <1>6, TookLeaves
  <2>3. CASE a.kind = "draw"
    <3>1. a.part # p
      BY <1>1, <2>2, <2>3 DEF Writers
    <3>2. currentAction' = NOP /\ memory' = [memory EXCEPT ![a.part] = a.what]
      BY <1>1, <2>3, DrawnIs
    <3>3. memory'[p] = asked[p] /\ currentAction'.kind # "fill"
      BY <1>2, <1>3, <1>6, <2>3, <3>1, <3>2
    <3>4. QED
      BY <1>1, <1>2, <2>1, <3>3 DEF WillHold
  <2>4. CASE a.kind = "fill"
    <3>1. a = currentAction
      BY <1>1, <2>2, <2>4 DEF Writers
    <3>2. a.part \in Nat /\ a.part \in Part /\ p \in Nat /\ ~(a.part >= p)
      BY <1>3, <1>6, <2>4, <3>1 DEF Part
    <3>3. /\ currentAction' = (IF a.part > 0 THEN Fill(a.part - 1) ELSE NOP)
          /\ memory' = [memory EXCEPT ![a.part] = a.what]
      BY <1>1, <2>4, DrawnIs
    <3>4. memory'[p] = asked[p]
      BY <1>2, <1>6, <3>2, <3>3
    <3>5. ~(currentAction'.kind = "fill" /\ currentAction'.part >= p)
      <4>1. CASE a.part > 0
        <5>1. a.part - 1 \in Part
          BY <3>2, <4>1 DEF Part, DisplaySizes
        <5>2. currentAction'.part = a.part - 1
          BY <1>3, <3>3, <4>1, <5>1
        <5>3. QED
          BY <3>2, <5>2
      <4>2. CASE ~(a.part > 0)
        BY <1>3, <3>3, <4>2
      <4>3. QED
        BY <4>1, <4>2
    <3>6. QED
      BY <1>1, <1>2, <2>1, <3>4, <3>5 DEF WillHold
  <2>5. CASE a.kind \notin {"draw", "fill"}
    <3>1. memory' = memory /\ currentAction' = (IF a = Shape(0) THEN Shape(1) ELSE NOP)
      BY <1>1, <2>5, DrawnIs
    <3>2. currentAction'.kind # "fill"
      BY <1>3, <3>1
    <3>3. QED
      BY <1>1, <1>2, <1>6, <2>1, <3>1, <3>2 DEF WillHold
  <2>6. QED
    BY <2>3, <2>4, <2>5
<1>7. QED
  BY <1>4, <1>5, <1>6 DEF WillHold

LEMMA TookShows ==
  ASSUME DisplaySizes, DisplayTypes, NEW a, NEW w, Took(a, w), UNCHANGED <<mainVars, busVars>>,
         NEW p \in Part, WillShow(p)
  PROVE  WillShow(p)'
<1>1. a \in Action /\ Drawn(a, w) /\ tftActions' = w
  BY DEF Took
<1>2. /\ memory \in [Part -> Int] /\ refreshStatus_' = refreshStatus_ /\ spi' = spi /\ panel' = panel
      /\ tftDirtyBits \in SUBSET Part
  BY DEF DisplayTypes, mainVars, busVars
<1>3. /\ a.part \in Nat /\ (a.kind \in {"draw", "fill"} => a.part \in Part)
      /\ a.kind = "fill" => a.what = 0
      /\ NOP.kind = "nop" /\ \A q \in Part : Fill(q).kind = "fill"
  BY <1>1 DEF Action, NOP, Fill
(* A part that is drawn into is dirty, or all of them are going to be.      *)
<1>4. \/ p \in tftDirtyBits' \/ currentAction'.kind = "fill"
      \/ /\ memory'[p] = memory[p] /\ p \notin tftDirtyBits /\ currentAction.kind # "fill"
         /\ a \notin Drawings(p)
  <2>1. CASE a.kind = "draw"
    <3>1. /\ memory' = [memory EXCEPT ![a.part] = a.what]
          /\ tftDirtyBits' = tftDirtyBits \cup {a.part}
      BY <1>1, <2>1, DrawnIs
    <3>2. CASE a.part = p \/ p \in tftDirtyBits
      BY <3>1, <3>2
    <3>3. CASE a.part # p /\ p \notin tftDirtyBits
      <4>1. memory'[p] = memory[p] /\ a \notin Drawings(p)
        BY <1>2, <1>3, <2>1, <3>1, <3>3 DEF Drawings
      <4>2. currentAction = NOP
        BY <2>1 DEF Took
      <4>3. QED
        BY <1>3, <3>3, <4>1, <4>2
    <3>4. QED
      BY <3>2, <3>3
  <2>2. CASE a.kind = "fill"
    <3>1. /\ currentAction' = (IF a.part > 0 THEN Fill(a.part - 1) ELSE NOP)
          /\ a = Fill(0) => tftDirtyBits' = Part
      BY <1>1, <2>2, DrawnIs
    <3>2. CASE a.part > 0
      <4>1. a.part - 1 \in Part
        BY <1>3, <2>2, <3>2 DEF Part, DisplaySizes
      <4>2. QED
        BY <1>3, <3>1, <3>2, <4>1
    <3>3. CASE ~(a.part > 0)
      <4>1. a.part = 0 /\ a.what = 0
        BY <1>3, <2>2, <3>3
      <4>2. a = Fill(0)
        BY <1>1, <2>2, <4>1 DEF Action, Fill
      <4>3. QED
        BY <3>1, <4>2
    <3>4. QED
      BY <3>2, <3>3
  <2>3. CASE a.kind \notin {"draw", "fill"}
    <3>1. memory' = memory /\ tftDirtyBits' = tftDirtyBits
      BY <1>1, <2>3, DrawnIs
    <3>2. a \notin Drawings(p)
      BY <2>3 DEF Drawings
    <3>3. currentAction.kind # "fill"
      BY <1>3, <2>3 DEF Took
    <3>4. QED
      BY <3>1, <3>2, <3>3
  <2>4. QED
    BY <2>1, <2>2, <2>3
<1>5. HasAny(tftActions, Drawings(p)) => HasAny(w, Drawings(p)) \/ a \in Drawings(p)
  BY TookLeaves
<1>6. CASE p \in tftDirtyBits' \/ currentAction'.kind = "fill"
  BY <1>6 DEF WillShow
<1>7. CASE /\ memory'[p] = memory[p] /\ p \notin tftDirtyBits /\ currentAction.kind # "fill"
           /\ a \notin Drawings(p)
  BY <1>1, <1>2, <1>5, <1>7 DEF WillShow, Repaints
<1>8. QED
  BY <1>4, <1>6, <1>7

LEMMA TookCounts ==
  ASSUME DisplaySizes, DisplayTypes, NEW a, NEW w, Took(a, w), UNCHANGED mainVars,
         excused' = excused, ShapeCounted
  PROVE  ShapeCounted'
<1>1. a \in Action /\ Drawn(a, w) /\ tftActions' = w
  BY DEF Took
<1>2. pc' = pc /\ loaded' = loaded /\ envelope' = envelope /\ envInQueue \in Int /\ envInQueue <= 2
  BY DEF mainVars, DisplayTypes, ShapeCounted
<1>3. Shape(0) # Shape(1) /\ Shape(1) # NOP /\ Shape(0).kind \notin {"draw", "fill"}
  BY DEF Shape, NOP
<1>4. shown' = (IF a = Shape(1) THEN envelope ELSE shown)
  BY <1>1, DrawnIs
<1>5. /\ a = Shape(1) => envInQueue' \in {0 - 1, envInQueue - 1}
      /\ a # Shape(1) => envInQueue' \in {0, envInQueue}
  <2> DEFINE seen == IF w = <<>> THEN 0 ELSE envInQueue
  <2>1. envInQueue' = (IF a = Shape(1) THEN seen - 1 ELSE seen)
    BY <1>1, Zenon DEF Drawn
  <2>2. seen \in {0, envInQueue}
    OBVIOUS
  <2>3. QED
    BY <1>2, <2>1, <2>2
<1>6. CASE a = Shape(1)
  BY <1>2, <1>4, <1>5, <1>6 DEF ShapeCounted
<1>7. CASE a # Shape(1)
  <2>1. currentAction # Shape(1)
    BY <1>3, <1>7 DEF Took, ShapeCounted
  <2>2. a = Shape(0) => currentAction' = Shape(1)
    <3>1. SUFFICES ASSUME a = Shape(0) PROVE currentAction' = Shape(1)
      OBVIOUS
    <3>2. currentAction' = (IF a = Shape(0) THEN Shape(1) ELSE NOP)
      BY <1>1, <1>3, <3>1, DrawnIs
    <3>3. QED
      BY <3>1, <3>2
  <2>3. HasAny(tftActions, {Shape(0)}) => HasAny(w, {Shape(0)}) \/ a = Shape(0)
    BY TookLeaves
  <2>4. ShapeWaits => ShapeWaits'
    BY <1>1, <2>1, <2>2, <2>3 DEF ShapeWaits
  <2>5. QED
    BY <1>2, <1>4, <1>5, <1>7, <2>4 DEF ShapeCounted
<1>8. QED
  BY <1>6, <1>7

LEMMA DrawStepShows ==
  ASSUME DisplaySizes, ShowInv, DrawStep
  PROVE  ShowInv'
<1>1. /\ UNCHANGED <<mainVars, busVars>> /\ excused' = excused
      /\ UNCHANGED <<pc, spi, pushToTftInProgress, tftMustBeReset_>>
  BY DEF DrawStep, mainVars, busVars, gateVars
<1>2. PICK a : \E w : Took(a, w)
  BY StepTakes DEF ShowInv
<1>3. PICK w : Took(a, w)
  BY <1>2
<1>4. DisplayTypes
  BY DEF ShowInv
<1>5. DisplayTypes'
  BY <1>1, <1>3, <1>4, TookTypes
<1>6. OnItsWay'
  <2>1. WillRefresh => WillRefresh'
    BY <1>1, <1>3, <1>4, TookRefreshes
  <2>2. \A p \in Part : WillHold(p) => WillHold(p)'
    BY <1>1, <1>3, <1>4, TookHolds
  <2>3. \A p \in Part : WillShow(p) => WillShow(p)'
    BY <1>1, <1>3, <1>4, TookShows
  <2>4. QED
    BY <1>1, <2>1, <2>2, <2>3 DEF ShowInv, OnItsWay
<1>7. ShapeCounted'
  BY <1>1, <1>3, <1>4, TookCounts DEF ShowInv
<1>8. TransferFlagged' /\ ResetStands'
  BY <1>1 DEF ShowInv, TransferFlagged, ResetStands
<1>9. QED
  BY <1>5, <1>6, <1>7, <1>8 DEF ShowInv

(* The other steps of the interrupts.                                       *)
LEMMA PushShows ==
  ASSUME DisplaySizes, ShowInv, PushToTft
  PROVE  ShowInv'
<1>1. PICK p : /\ p = NextDirty(part) /\ part' = (p + 1) % Parts
               /\ \/ /\ spi' = [part |-> p, seen |-> memory[p]]
                     /\ tftDirtyBits' = tftDirtyBits \ {p} /\ pushToTftInProgress' = TRUE
                  \/ UNCHANGED <<spi, tftDirtyBits, pushToTftInProgress>>
  BY DEF PushToTft
<1>2. /\ UNCHANGED <<tftActions, currentAction, envInQueue, excused, panel, tftRefreshing, memory, shown>>
      /\ UNCHANGED <<pc, loaded, refreshStatus_, asked, envelope, asks, tftMustBeReset_>>
      /\ MayUseBus /\ tftDirtyBits # {}
  BY DEF PushToTft, mainVars, gateVars
<1>3. DisplayTypes /\ spi = IDLE
  BY <1>2 DEF ShowInv, TransferFlagged, MayUseBus
<1>4. p \in tftDirtyBits /\ p \in Part /\ memory[p] \in Int
  BY <1>1, <1>2, <1>3, NextDirtyIs DEF DisplayTypes
<1>5. part' \in Part
  BY <1>1, <1>4 DEF Part, DisplaySizes
<1>6. DisplayTypes'
  <2>1. spi' \in [part : Int, seen : Int] /\ tftDirtyBits' \in SUBSET Part
    <3>1. p \in Int
      BY <1>4 DEF Part
    <3>2. [part |-> p, seen |-> memory[p]] \in [part : Int, seen : Int]
      BY <1>4, <3>1
    <3>3. spi \in [part : Int, seen : Int] /\ tftDirtyBits \in SUBSET Part
      BY <1>3 DEF DisplayTypes
    <3>4. tftDirtyBits \ {p} \in SUBSET Part
      BY <3>3
    <3>5. QED
      BY <1>1, <3>2, <3>3, <3>4, Zenon
  <2>2. QED
    BY <1>2, <1>3, <1>5, <2>1 DEF DisplayTypes
<1>7. OnItsWay'
  <2>1. WillRefresh => WillRefresh'
    BY <1>2 DEF WillRefresh
  <2>2. \A q \in Part : WillHold(q) => WillHold(q)'
    BY <1>2 DEF WillHold, Repaints
  <2>3. ASSUME NEW q \in Part, WillShow(q) PROVE WillShow(q)'
    <3>1. CASE UNCHANGED <<spi, tftDirtyBits>>
      BY <1>2, <2>3, <3>1 DEF WillShow, Repaints
    <3>2. CASE spi' = [part |-> p, seen |-> memory[p]] /\ tftDirtyBits' = tftDirtyBits \ {p}
      <4>1. CASE q = p
        BY <1>2, <3>2, <4>1 DEF WillShow
      <4>2. CASE q # p
        <5>1. spi'.part # q /\ spi # [part |-> q, seen |-> memory[q]]
          BY <1>3, <3>2, <4>2 DEF IDLE, Part
        <5>2. QED
          BY <1>2, <2>3, <3>2, <4>2, <5>1 DEF WillShow, Repaints
      <4>3. QED
        BY <4>1, <4>2
    <3>3. QED
      BY <1>1, <3>1, <3>2
  <2>4. QED
    BY <1>2, <2>1, <2>2, <2>3 DEF ShowInv, OnItsWay
<1>8. TransferFlagged' /\ ResetStands' /\ ShapeCounted'
  BY <1>1, <1>2 DEF ShowInv, TransferFlagged, ResetStands, ShapeCounted, ShapeWaits
<1>9. QED
  BY <1>6, <1>7, <1>8 DEF ShowInv

LEMMA PushFinishedShows ==
  ASSUME DisplaySizes, ShowInv, PushToTftFinished
  PROVE  ShowInv'
<1>1. /\ spi # IDLE /\ spi' = IDLE /\ pushToTftInProgress' = FALSE
      /\ panel' = [panel EXCEPT ![spi.part] = spi.seen]
      /\ UNCHANGED <<tftActions, currentAction, envInQueue, excused, part>>
      /\ UNCHANGED <<tftRefreshing, memory, shown, tftDirtyBits>>
      /\ UNCHANGED <<pc, loaded, refreshStatus_, asked, envelope, asks, tftMustBeReset_>>
  BY DEF PushToTftFinished, mainVars, gateVars, drawVars
<1>2. DisplayTypes
  BY DEF ShowInv
<1>3. /\ spi.part \in Int /\ spi.seen \in Int /\ panel \in [Part -> Int]
      /\ IDLE \in [part : Int, seen : Int] /\ IDLE.part \notin Part
  BY <1>2 DEF DisplayTypes, IDLE, Part
<1>4. /\ panel' \in [Part -> Int]
      /\ \A q \in Part : panel'[q] = (IF q = spi.part THEN spi.seen ELSE panel[q])
  BY <1>1, <1>3
<1>5. DisplayTypes'
  BY <1>1, <1>2, <1>3, <1>4 DEF DisplayTypes
<1>6. OnItsWay'
  <2>1. WillRefresh => WillRefresh'
    BY <1>1 DEF WillRefresh
  <2>2. \A q \in Part : WillHold(q) => WillHold(q)'
    BY <1>1 DEF WillHold, Repaints
  <2>3. ASSUME NEW q \in Part, WillShow(q) PROVE WillShow(q)'
    <3>1. spi = [part |-> q, seen |-> memory[q]] => panel'[q] = memory[q]
      BY <1>3, <1>4
    <3>2. panel[q] = memory[q] /\ spi.part # q => panel'[q] = memory[q]
      BY <1>4
    <3>3. QED
      BY <1>1, <1>3, <2>3, <3>1, <3>2 DEF WillShow, Repaints
  <2>4. QED
    BY <1>1, <2>1, <2>2, <2>3 DEF ShowInv, OnItsWay
<1>7. TransferFlagged' /\ ResetStands' /\ ShapeCounted'
  BY <1>1 DEF ShowInv, TransferFlagged, ResetStands, ShapeCounted, ShapeWaits
<1>8. QED
  BY <1>5, <1>6, <1>7 DEF ShowInv

LEMMA EmptyTypes == <<>> \in Seq(Action)
  OBVIOUS

LEMMA PollShows ==
  ASSUME DisplaySizes, ShowInv, PollGood \/ PollBad
  PROVE  ShowInv'
<1>1. /\ UNCHANGED <<currentAction, part, tftRefreshing, memory, shown, tftDirtyBits, spi, panel>>
      /\ UNCHANGED <<pushToTftInProgress, pc, loaded, refreshStatus_, asked, envelope, asks>>
  BY DEF PollGood, PollBad, mainVars, busVars, drawVars
<1>2. CASE UNCHANGED <<tftActions, envInQueue, tftMustBeReset_, excused>>
  <2>1. DisplayTypes'
    BY <1>1, <1>2 DEF ShowInv, DisplayTypes
  <2>2. OnItsWay'
    BY <1>1, <1>2, SameIsOnItsWay DEF ShowInv, shownVars
  <2>3. QED
    BY <1>1, <1>2, <2>1, <2>2 DEF ShowInv, TransferFlagged, ResetStands, ShapeCounted, ShapeWaits
<1>3. CASE tftActions' = <<>> /\ envInQueue' = 0 /\ tftMustBeReset_' = TRUE /\ excused' = TRUE
  <2>1. DisplayTypes'
    BY <1>1, <1>3, EmptyTypes DEF ShowInv, DisplayTypes
  <2>2. QED
    BY <1>1, <1>3, <2>1 DEF ShowInv, OnItsWay, TransferFlagged, ResetStands, ShapeCounted
<1>4. QED
  BY <1>2, <1>3 DEF PollGood, PollBad, gateVars

LEMMA TicShows ==
  ASSUME DisplaySizes, ShowInv, Tic \/ PushToTftFinished
  PROVE  ShowInv'
  BY DrawStepShows, PushShows, PushFinishedShows, PollShows DEF Tic

-----------------------------------------------------------------------------
(* The requests of the main loop.                                           *)
LEMMA AskDrawingShows ==
  ASSUME DisplaySizes, ShowInv, NEW p \in Part, AskDrawing(p)
  PROVE  ShowInv'
<1> DEFINE a == Draw(p, asks + 1)
<1>1. /\ asked' = [asked EXCEPT ![p] = asks + 1] /\ asks' = asks + 1
      /\ tftActions' = Append(tftActions, a)
      /\ UNCHANGED <<currentAction, envInQueue, excused, part>>
      /\ UNCHANGED <<tftRefreshing, memory, shown, tftDirtyBits, spi, panel, pushToTftInProgress>>
      /\ UNCHANGED <<pc, loaded, refreshStatus_, envelope, tftMustBeReset_>>
  BY DEF AskDrawing, Insert, busVars, gateVars, drawVars
<1>2. DisplayTypes
  BY DEF ShowInv
<1>3. asks \in Nat /\ asked \in [Part -> Int] /\ tftActions \in Seq(Action)
  BY <1>2 DEF DisplayTypes
<1>4. a \in Action /\ a.kind = "draw" /\ a.part = p
  BY <1>3, ActionsAre DEF Draw
<1>5. asked' \in [Part -> Int] /\ \A q \in Part : asked'[q] = (IF q = p THEN asks + 1 ELSE asked[q])
  BY <1>1, <1>3
<1> HIDE DEF a
<1>6. /\ tftActions' \in Seq(Action)
      /\ \A B : /\ HasAny(tftActions', B) <=> HasAny(tftActions, B) \/ a \in B
                /\ \A b : a \notin B /\ LastIs(tftActions, b, B) => LastIs(tftActions', b, B)
                /\ LastIs(tftActions', a, B)
  BY <1>1, <1>3, <1>4, AfterAppend, Zenon
<1>7. DisplayTypes'
  BY <1>1, <1>2, <1>3, <1>5, <1>6 DEF DisplayTypes
<1>8. OnItsWay'
  <2>1. WillRefresh => WillRefresh'
    <3>1. a \notin {Pause}
      BY <1>4 DEF Pause
    <3>2. QED
      BY <1>1, <1>6, <3>1 DEF WillRefresh
  <2>2. ASSUME NEW q \in Part, WillHold(q) PROVE WillHold(q)'
    <3>1. CASE q = p
      <4>1. LastIs(tftActions', Draw(q, asked'[q]), Writers(q))
        BY <1>5, <1>6, <3>1 DEF a
      <4>2. QED
        BY <4>1 DEF WillHold
    <3>2. CASE q # p
      <4>1. a \notin Writers(q) /\ asked'[q] = asked[q]
        BY <1>4, <1>5, <3>2 DEF Writers
      <4>2. QED
        BY <1>1, <1>6, <2>2, <4>1 DEF WillHold, Repaints
    <3>3. QED
      BY <3>1, <3>2
  <2>3. \A q \in Part : WillShow(q) => WillShow(q)'
    BY <1>1, <1>6 DEF WillShow, Repaints
  <2>4. QED
    BY <1>1, <2>1, <2>2, <2>3 DEF ShowInv, OnItsWay
<1>9. ShapeCounted' /\ TransferFlagged' /\ ResetStands'
  BY <1>1, <1>6 DEF ShowInv, TransferFlagged, ResetStands, ShapeCounted, ShapeWaits
<1>10. QED
  BY <1>7, <1>8, <1>9 DEF ShowInv

LEMMA AskShapeShows ==
  ASSUME DisplaySizes, ShowInv, AskShape \/ CountShape
  PROVE  ShowInv'
<1>1. UNCHANGED shownVars /\ UNCHANGED <<part, shown, pushToTftInProgress, tftMustBeReset_>>
  BY DEF AskShape, CountShape, shownVars, busVars, gateVars, drawVars
<1>2. /\ DisplayTypes
      /\ envInQueue \in Int /\ envInQueue <= 2 /\ loaded \in Int
  BY DEF ShowInv, DisplayTypes, ShapeCounted
<1>3. OnItsWay'
  BY <1>1, SameIsOnItsWay DEF ShowInv
<1>4. CASE AskShape
  <2>1. /\ AtLoop /\ asks' = asks + 1 /\ loaded' = envInQueue /\ envInQueue' = envInQueue
        /\ pc' = (IF envInQueue >= 2 THEN "idle" ELSE "count")
    BY <1>4 DEF AskShape
  <2>2. DisplayTypes'
    BY <1>1, <1>2, <2>1 DEF DisplayTypes, shownVars
  <2>3. ShapeCounted' /\ ResetStands'
    BY <1>1, <1>2, <2>1 DEF ShowInv, ShapeCounted, ShapeWaits, ResetStands, shownVars, AtLoop
  <2>4. QED
    BY <1>1, <1>3, <2>2, <2>3 DEF ShowInv, TransferFlagged, shownVars
<1>5. CASE CountShape
  <2>1. /\ pc = "count" /\ asks' = asks /\ loaded' = loaded /\ envInQueue' = loaded + 1
        /\ pc' = "insert" /\ excused' = excused /\ envelope' = envelope
    BY <1>5 DEF CountShape
  <2>2. DisplayTypes'
    BY <1>1, <1>2, <2>1 DEF DisplayTypes, shownVars
  <2>3. ShapeCounted' /\ ResetStands'
    BY <1>1, <1>2, <2>1 DEF ShowInv, ShapeCounted, ShapeWaits, ResetStands, shownVars
  <2>4. QED
    BY <1>1, <1>3, <2>2, <2>3 DEF ShowInv, TransferFlagged, shownVars
<1>6. QED
  BY <1>4, <1>5

LEMMA InsertShapeShows ==
  ASSUME DisplaySizes, ShowInv, InsertShape
  PROVE  ShowInv'
<1>1. /\ pc = "insert" /\ pc' = "idle" /\ loaded' = 0
      /\ tftActions' = Append(tftActions, Shape(0))
      /\ UNCHANGED <<currentAction, envInQueue, excused, part>>
      /\ UNCHANGED <<tftRefreshing, memory, shown, tftDirtyBits, spi, panel, pushToTftInProgress>>
      /\ UNCHANGED <<asks, asked, refreshStatus_, envelope, tftMustBeReset_>>
  BY DEF InsertShape, Insert, busVars, gateVars, drawVars
<1>2. DisplayTypes
  BY DEF ShowInv
<1>3. Shape(0) \in Action /\ Shape(0).kind \notin {"draw", "fill", "pause"}
  BY ActionsAre DEF Shape
<1>4. OnItsWay'
  <2>1. /\ WillRefresh => WillRefresh'
        /\ \A p \in Part : (WillHold(p) => WillHold(p)') /\ (WillShow(p) => WillShow(p)')
    BY <1>1, <1>2, <1>3, HarmlessAppend
  <2>2. QED
    BY <1>1, <2>1 DEF ShowInv, OnItsWay
<1>5. tftActions' \in Seq(Action) /\ HasAny(tftActions', {Shape(0)})
  <2>1. tftActions \in Seq(Action)
    BY <1>2 DEF DisplayTypes
  <2>2. QED
    BY <1>1, <1>3, <2>1, AfterAppend
<1>6. DisplayTypes'
  BY <1>1, <1>2, <1>5 DEF DisplayTypes
<1>7. ShapeCounted' /\ ResetStands' /\ TransferFlagged'
  BY <1>1, <1>5 DEF ShowInv, ShapeCounted, ShapeWaits, ResetStands, TransferFlagged
<1>8. QED
  BY <1>4, <1>6, <1>7 DEF ShowInv

(* A full repaint paints every part.                                        *)
LEMMA FullRepaintIsOnItsWay ==
  ASSUME DisplaySizes, refreshStatus_' = FullRepaint
  PROVE  OnItsWay'
<1>1. FullRepaint >= 1 /\ \A p \in Part : FullRepaint >= p + 2
  BY DEF FullRepaint, Part, DisplaySizes
<1>2. QED
  BY <1>1 DEF OnItsWay, WillRefresh, WillHold, WillShow, Repaints

LEMMA NewTimbreShows ==
  ASSUME DisplaySizes, ShowInv, NewTimbre
  PROVE  ShowInv'
<1>1. /\ pc' = "count" /\ loaded' = 0 /\ tftActions' = <<>> /\ envInQueue' = 0
      /\ refreshStatus_' = FullRepaint /\ asks' = asks + 1
      /\ UNCHANGED <<currentAction, part, asked>>
      /\ UNCHANGED <<tftRefreshing, memory, shown, tftDirtyBits, spi, panel, pushToTftInProgress>>
  BY DEF NewTimbre, busVars, drawVars
<1>2. OnItsWay'
  BY <1>1, FullRepaintIsOnItsWay
<1>3. FullRepaint \in 0 .. FullRepaint
  BY DEF FullRepaint, DisplaySizes
<1>4. DisplayTypes'
  BY <1>1, <1>3, EmptyTypes DEF ShowInv, DisplayTypes
<1>5. ShapeCounted' /\ ResetStands' /\ TransferFlagged'
  BY <1>1 DEF ShowInv, ShapeCounted, ResetStands, TransferFlagged
<1>6. QED
  BY <1>2, <1>4, <1>5 DEF ShowInv

(* A step of the repaint: the part that it no longer owes is painted by the *)
(* action it queues, and the restart is the last of them.                   *)
LEMMA RepaintShows ==
  ASSUME DisplaySizes, ShowInv, RepaintStep
  PROVE  ShowInv'
<1> DEFINE r == refreshStatus_
           a == CASE r = FullRepaint -> Pause
                  [] r = FullRepaint - 1 -> Fill(Parts - 1)
                  [] r - 2 \in Part -> Draw(r - 2, asked[r - 2])
                  [] OTHER -> Restart
<1>1. /\ pc = "idle" /\ r > 0 /\ tftActions' = Append(tftActions, a) /\ refreshStatus_' = r - 1
      /\ UNCHANGED <<currentAction, envInQueue, excused, part>>
      /\ UNCHANGED <<tftRefreshing, memory, shown, tftDirtyBits, spi, panel, pushToTftInProgress>>
      /\ UNCHANGED <<asks, asked, pc, loaded, envelope, tftMustBeReset_>>
  BY DEF RepaintStep, Insert, busVars, gateVars, drawVars
<1>2. DisplayTypes
  BY DEF ShowInv
<1>3. /\ r \in Int /\ r <= Parts + 3 /\ r >= 1 /\ Parts \in Nat /\ FullRepaint = Parts + 3 /\ Parts >= 1
      /\ asked \in [Part -> Int] /\ tftActions \in Seq(Action)
      /\ Part = 0 .. Parts - 1
  BY <1>1, <1>2 DEF DisplayTypes, DisplaySizes, FullRepaint, Part
<1>4. /\ r >= Parts + 2 => a \in {Pause, Fill(Parts - 1)}
      /\ r - 2 \in Part => a = Draw(r - 2, asked[r - 2])
      /\ r = 1 => a = Restart
  <2>1. CASE r = Parts + 3
    <3>1. r = FullRepaint /\ r # 1 /\ r - 2 \notin Part /\ r # FullRepaint - 1
      BY <1>3, <2>1
    <3>2. a = Pause
      BY <3>1
    <3>3. QED
      BY <3>1, <3>2
  <2>2. CASE r = Parts + 2
    <3>1. r # FullRepaint /\ r # 1 /\ r - 2 \notin Part /\ r = FullRepaint - 1
      BY <1>3, <2>2
    <3>2. a = Fill(Parts - 1)
      BY <3>1
    <3>3. QED
      BY <3>1, <3>2
  <2>3. CASE r < Parts + 2
    <3>1. r # FullRepaint /\ r # FullRepaint - 1 /\ ~(r >= Parts + 2) /\ (r = 1 => r - 2 \notin Part)
      BY <1>3, <2>3
    <3>2. CASE r - 2 \in Part
      BY <3>1, <3>2, Zenon
    <3>3. CASE r - 2 \notin Part
      BY <3>1, <3>3, Zenon
    <3>4. QED
      BY <3>2, <3>3
  <2>4. QED
    BY <1>3, <2>1, <2>2, <2>3
<1>5. a \in {Pause, Fill(Parts - 1), Restart} \/ (r - 2 \in Part /\ a = Draw(r - 2, asked[r - 2]))
  <2>1. r >= Parts + 2 \/ r - 2 \in Part \/ r = 1
    BY <1>3
  <2>2. QED
    BY <1>4, <2>1
<1> HIDE DEF a
<1>6. a \in Action
  BY <1>3, <1>5, ActionsAre
<1>7. /\ tftActions' \in Seq(Action)
      /\ \A B : /\ HasAny(tftActions', B) <=> HasAny(tftActions, B) \/ a \in B
                /\ \A b : a \notin B /\ LastIs(tftActions, b, B) => LastIs(tftActions', b, B)
                /\ LastIs(tftActions', a, B)
  BY <1>1, <1>3, <1>6, AfterAppend, Zenon
<1>8. DisplayTypes'
  <2>1. refreshStatus_' \in 0 .. FullRepaint
    BY <1>1, <1>3
  <2>2. QED
    BY <1>1, <1>2, <1>7, <2>1 DEF DisplayTypes
<1>9. OnItsWay'
  <2>1. WillRefresh'
    <3>1. CASE r >= 2
      BY <1>1, <1>3, <3>1 DEF WillRefresh
    <3>2. CASE r = 1
      BY <1>4, <1>7, <3>2 DEF WillRefresh
    <3>3. QED
      BY <1>3, <3>1, <3>2
  <2>2. ASSUME NEW p \in Part, r >= p + 3 PROVE WillHold(p)' /\ WillShow(p)'
    <3>1. Repaints(p)'
      BY <1>1, <1>3, <2>2 DEF Repaints
    <3>2. QED
      BY <3>1 DEF WillHold, WillShow
  <2>3. ASSUME NEW p \in Part, r = p + 2 PROVE WillHold(p)' /\ WillShow(p)'
    <3>1. r - 2 = p
      BY <1>3, <2>3
    <3>2. a = Draw(p, asked[p])
      BY <1>4, <3>1
    <3>3. a \in Drawings(p)
      BY <1>6, <3>2 DEF Drawings, Draw
    <3>4. LastIs(tftActions', Draw(p, asked'[p]), Writers(p)) /\ HasAny(tftActions', Drawings(p))
      BY <1>1, <1>7, <3>2, <3>3
    <3>5. QED
      BY <3>4 DEF WillHold, WillShow
  <2>4. ASSUME NEW p \in Part, r < p + 2, WillHold(p), WillShow(p) PROVE WillHold(p)' /\ WillShow(p)'
    <3>1. ~Repaints(p)
      BY <1>3, <2>4 DEF Repaints
    <3>2. a = Restart \/ (a.kind = "draw" /\ a.part = r - 2)
      <4>1. r - 2 \in Part \/ r = 1
        BY <1>3, <2>4
      <4>2. QED
        BY <1>4, <4>1 DEF Draw
    <3>3. a \notin Writers(p)
      <4>1. r - 2 # p
        BY <1>3, <2>4
      <4>2. QED
        BY <3>2, <4>1 DEF Writers, Restart
    <3>4. WillHold(p)'
      BY <1>1, <1>7, <2>4, <3>1, <3>3 DEF WillHold
    <3>5. WillShow(p)'
      BY <1>1, <1>7, <2>4, <3>1 DEF WillShow
    <3>6. QED
      BY <3>4, <3>5
  <2>5. \A p \in Part : r >= p + 3 \/ r = p + 2 \/ r < p + 2
    BY <1>3
  <2>6. QED
    BY <1>1, <2>1, <2>2, <2>3, <2>4, <2>5 DEF ShowInv, OnItsWay
<1>10. ShapeCounted' /\ ResetStands' /\ TransferFlagged'
  BY <1>1, <1>7 DEF ShowInv, ShapeCounted, ShapeWaits, ResetStands, TransferFlagged
<1>11. QED
  BY <1>8, <1>9, <1>10 DEF ShowInv

-----------------------------------------------------------------------------
(* The reset: until the loop forgets it nothing has to be on its way, and   *)
(* then everything is painted again.                                        *)
LEMMA ResetShows ==
  ASSUME DisplaySizes, ShowInv, Reset
  PROVE  ShowInv'
<1>1. /\ UNCHANGED <<currentAction, part, tftRefreshing, memory, shown, tftDirtyBits>>
      /\ UNCHANGED <<loaded, asked, envelope, asks>>
      /\ tftMustBeReset_ /\ pc # "count" /\ pc # "insert" /\ pc' \notin {"count", "insert"}
  <2>1. /\ UNCHANGED <<currentAction, part, tftRefreshing, memory, shown, tftDirtyBits>>
        /\ UNCHANGED <<loaded, asked, envelope, asks>>
    BY DEF Reset, ResetTakesBus, ResetWaits, ResetAborts, ResetFlushes, ILI9341_Init,
           ResetReleasesBus, ResetForgets, drawVars
  <2>2. /\ pc \in {"wait", "flush", "init", "release", "forget"} \/ (pc = "idle" /\ tftMustBeReset_)
        /\ pc' \in {"idle", "wait", "flush", "init", "release", "forget"}
    BY DEF Reset, ResetTakesBus, ResetWaits, ResetAborts, ResetFlushes, ILI9341_Init,
           ResetReleasesBus, ResetForgets, AtLoop
  <2>3. QED
    BY <2>1, <2>2 DEF ShowInv, ResetStands
<1>2. /\ \/ UNCHANGED <<tftActions, envInQueue, excused>>
         \/ tftActions' = <<>> /\ envInQueue' = 0 /\ excused' = TRUE
      /\ \/ UNCHANGED <<spi, pushToTftInProgress>>
         \/ spi' = IDLE
      /\ \/ UNCHANGED panel
         \/ panel' = [p \in Part |-> NOISE]
      /\ \/ UNCHANGED <<tftMustBeReset_, refreshStatus_>>
         \/ tftMustBeReset_' = FALSE /\ refreshStatus_' = FullRepaint /\ pc' = "idle"
  BY DEF Reset, ResetTakesBus, ResetWaits, ResetAborts, ResetFlushes, ILI9341_Init,
         ResetReleasesBus, ResetForgets, busVars, gateVars
<1>3. DisplayTypes'
  <2>1. IDLE \in [part : Int, seen : Int]
    BY DEF IDLE
  <2>2. [p \in Part |-> NOISE] \in [Part -> Int] /\ FullRepaint \in 0 .. FullRepaint
    BY DEF NOISE, DisplaySizes, FullRepaint
  <2>3. DisplayTypes
    BY DEF ShowInv
  <2>4. tftActions' \in Seq(Action) /\ envInQueue' \in Int
    <3>1. tftActions \in Seq(Action) /\ envInQueue \in Int /\ 0 \in Int
      BY <2>3 DEF DisplayTypes
    <3>2. QED
      BY <1>2, <3>1, EmptyTypes, Zenon
  <2>5. spi' \in [part : Int, seen : Int] /\ panel' \in [Part -> Int] /\ refreshStatus_' \in 0 .. FullRepaint
    BY <1>2, <2>1, <2>2, <2>3 DEF DisplayTypes
  <2>6. QED
    BY <1>1, <2>3, <2>4, <2>5 DEF DisplayTypes
<1>4. OnItsWay'
  BY <1>1, <1>2, FullRepaintIsOnItsWay DEF OnItsWay
<1>5. ShapeCounted'
  <2>1. CASE UNCHANGED <<tftActions, envInQueue, excused>>
    BY <1>1, <2>1 DEF ShowInv, ShapeCounted, ShapeWaits
  <2>2. CASE envInQueue' = 0 /\ excused' = TRUE
    BY <1>1, <2>2 DEF ShapeCounted
  <2>3. QED
    BY <1>2, <2>1, <2>2
<1>6. ResetStands'
  BY <1>1, <1>2 DEF ResetStands
<1>7. TransferFlagged'
  BY <1>2 DEF ShowInv, TransferFlagged
<1>8. QED
  BY <1>3, <1>4, <1>5, <1>6, <1>7 DEF ShowInv

-----------------------------------------------------------------------------
(* The display is at rest: no action waits or is half drawn, no part is     *)
(* dirty or on the bus, no repaint or reset is under way.                   *)
Quiet ==
    /\ tftActions = <<>> /\ currentAction = NOP /\ tftDirtyBits = {} /\ spi = IDLE
    /\ pc = "idle" /\ refreshStatus_ = 0 /\ ~tftMustBeReset_

QuietShows == Quiet => panel = asked /\ tftRefreshing /\ (excused \/ shown = envelope)

LEMMA QuietShowsAlways ==
  ASSUME DisplaySizes
  PROVE  Init /\ [][Next]_vars => []QuietShows
<1>1. Init => ShowInv
  BY ShowInvInit
<1>2. ShowInv /\ [Next]_vars => ShowInv'
  <2>1. SUFFICES ASSUME ShowInv, [Next]_vars PROVE ShowInv'
    OBVIOUS
  <2>2. CASE Tic \/ PushToTftFinished
    BY <2>1, <2>2, TicShows
  <2>3. CASE Request
    BY <2>1, <2>3, AskDrawingShows, AskShapeShows, NewTimbreShows DEF Request
  <2>4. CASE Continue
    BY <2>1, <2>4, AskShapeShows, InsertShapeShows, RepaintShows, ResetShows DEF Continue
  <2>5. CASE UNCHANGED vars
    <3>1. UNCHANGED shownVars /\ UNCHANGED <<envInQueue, part, excused, pc, loaded, asks>>
      BY <2>5 DEF vars, mainVars, busVars, gateVars, drawVars, shownVars
    <3>2. UNCHANGED <<tftMustBeReset_, pushToTftInProgress, envelope, shown>>
      BY <2>5 DEF vars, mainVars, busVars, gateVars, drawVars
    <3>3. OnItsWay'
      BY <2>1, <3>1, <3>2, SameIsOnItsWay DEF ShowInv
    <3>4. DisplayTypes'
      BY <2>1, <3>1, <3>2 DEF ShowInv, DisplayTypes, shownVars
    <3>5. ShapeCounted' /\ ResetStands' /\ TransferFlagged'
      BY <2>1, <3>1, <3>2 DEF ShowInv, ShapeCounted, ShapeWaits, ResetStands, TransferFlagged, shownVars
    <3>6. QED
      BY <3>3, <3>4, <3>5 DEF ShowInv
  <2>6. QED
    BY <2>1, <2>2, <2>3, <2>4, <2>5 DEF Next
<1>3. ShowInv => QuietShows
  <2>1. SUFFICES ASSUME ShowInv, Quiet
                 PROVE  panel = asked /\ tftRefreshing /\ (excused \/ shown = envelope)
    BY DEF QuietShows
  <2>2. \A a, B : ~HasAny(tftActions, B) /\ ~LastIs(tftActions, a, B)
    BY <2>1, NothingWaits DEF Quiet
  <2>3. /\ currentAction.kind # "fill" /\ currentAction # Shape(1) /\ tftDirtyBits = {}
        /\ refreshStatus_ = 0 /\ ~tftMustBeReset_ /\ pc = "idle" /\ spi = IDLE
    BY <2>1 DEF Quiet, NOP, Shape
  <2>4. \A p \in Part : p \in Nat /\ ~Repaints(p) /\ spi # [part |-> p, seen |-> memory[p]]
    BY <2>3 DEF Part, Repaints, IDLE
  <2>5. \A p \in Part : WillHold(p) /\ WillShow(p)
    BY <2>1, <2>3 DEF ShowInv, OnItsWay
  <2>6. \A p \in Part : memory[p] = asked[p] /\ panel[p] = memory[p]
    BY <2>2, <2>3, <2>4, <2>5 DEF WillHold, WillShow
  <2>7. panel \in [Part -> Int] /\ asked \in [Part -> Int]
    BY <2>1 DEF ShowInv, DisplayTypes
  <2>8. panel = asked
    BY <2>6, <2>7
  <2>9. tftRefreshing
    BY <2>1, <2>2, <2>3 DEF ShowInv, OnItsWay, WillRefresh
  <2>10. excused \/ shown = envelope
    BY <2>1, <2>2, <2>3 DEF ShowInv, ShapeCounted, ShapeWaits
  <2>11. QED
    BY <2>8, <2>9, <2>10
<1>4. QED
  BY <1>1, <1>2, <1>3, PTL

(* Whenever the display has come to rest it shows what was asked for last,  *)
(* part by part, and the shape drawn last is the present one: no pause,     *)
(* repaint, discarded queue, reset or failed transfer loses a drawing, and  *)
(* pushes are never left paused.  (TftDisplay.cpp:260-420)                  *)
THEOREM TftQuietShows ==
  ASSUME DisplaySizes
  PROVE  Spec => []QuietShows
BY QuietShowsAlways, PTL DEF Spec

-----------------------------------------------------------------------------
(* The panel: numbered buttons, and times that are numbers of scans, that   *)
(* of a click not the longer one.                                           *)
PanelOK ==
    /\ Buttons # {} /\ \E n \in Nat : Buttons \subseteq 0 .. n
    /\ ClickTime \in Nat /\ LongTime \in Nat /\ ClickTime <= LongTime

-----------------------------------------------------------------------------
(* Numbers.                                                                 *)
LEMMA MinIsLeast ==
  ASSUME NEW S \in SUBSET Nat, S # {}
  PROVE  Enc!Min(S) \in S /\ \A y \in S : Enc!Min(S) <= y
<1>1. PICK x \in S : \A y \in S : x <= y
  BY MinExists
<1>2. QED
  BY <1>1 DEF Enc!Min

LEMMA MaxIsGreatest ==
  ASSUME NEW N \in Nat, NEW S \in SUBSET (0 .. N), S # {}
  PROVE  Enc!Max(S) \in S /\ \A y \in S : Enc!Max(S) >= y
<1> DEFINE below == {N - x : x \in S}
<1>0. \A x \in S : x \in Nat /\ N - x \in Nat
  OBVIOUS
<1>1. below \in SUBSET Nat /\ below # {}
  BY <1>0
<1>2. Enc!Min(below) \in below /\ \A y \in below : Enc!Min(below) <= y
  BY <1>1, MinIsLeast
<1>3. PICK x \in S : Enc!Min(below) = N - x
  BY <1>2
<1>4. \A y \in S : N - y \in below
  OBVIOUS
<1> HIDE DEF below
<1>5. \A y \in S : N - x <= N - y
  BY <1>2, <1>3, <1>4
<1>6. \A y \in S : x >= y
  BY <1>0, <1>5
<1>7. QED
  BY <1>6 DEF Enc!Max

(* What holds before the first button, and after a button whenever it holds *)
(* before it, holds after the last one.                                     *)
LEMMA ButtonByButton ==
  ASSUME NEW N \in Nat, NEW S \in SUBSET (-1 .. N), -1 \in S,
         \A k \in 0 .. N : k - 1 \in S => k \in S
  PROVE  S = -1 .. N
<1> DEFINE bad == (-1 .. N) \ S
<1> SUFFICES ASSUME bad # {} PROVE FALSE
  OBVIOUS
<1>1. bad \in SUBSET Nat
  OBVIOUS
<1>2. Enc!Min(bad) \in bad /\ \A y \in bad : Enc!Min(bad) <= y
  BY <1>1, MinIsLeast
<1>3. Enc!Min(bad) - 1 \notin bad /\ Enc!Min(bad) - 1 \in -1 .. N
  BY <1>2
<1>4. QED
  BY <1>2, <1>3

(* A loop over the buttons: what it makes of a state, button by button.     *)
Loops(g, n, S, first, f) ==
    g \in [-1 .. n -> S] /\ g[-1] = first /\ \A k \in 0 .. n : g[k] = f[<<k, g[k - 1]>>]

LEMMA LoopExists ==
  ASSUME NEW N \in Nat, NEW S, NEW first \in S, NEW f \in [(0 .. N) \X S -> S]
  PROVE  \E g : Loops(g, N, S, first, f)
<1> DEFINE good == {n \in -1 .. N : \E g : Loops(g, n, S, first, f)}
<1>1. -1 \in good
  <2>1. Loops([k \in -1 .. -1 |-> first], -1, S, first, f)
    BY DEF Loops
  <2>2. QED
    BY <2>1
<1>2. ASSUME NEW n \in 0 .. N, n - 1 \in good PROVE n \in good
  <2>1. PICK g : Loops(g, n - 1, S, first, f)
    BY <1>2
  <2> DEFINE last == f[<<n, g[n - 1]>>]
             h == [k \in -1 .. n |-> IF k = n THEN last ELSE g[k]]
  <2>2. g \in [-1 .. n - 1 -> S] /\ g[-1] = first /\ \A k \in 0 .. n - 1 : g[k] = f[<<k, g[k - 1]>>]
    BY <2>1 DEF Loops
  <2>3. last \in S
    BY <2>2
  <2>4. h \in [-1 .. n -> S] /\ h[-1] = first
    BY <2>2, <2>3
  <2>5. ASSUME NEW k \in 0 .. n PROVE h[k] = f[<<k, h[k - 1]>>]
    <3>1. CASE k = n
      <4>1. h[k] = last /\ h[k - 1] = g[n - 1]
        BY <3>1
      <4>2. QED
        BY <3>1, <4>1
    <3>2. CASE k # n
      <4>1. h[k] = g[k] /\ h[k - 1] = g[k - 1] /\ k \in 0 .. n - 1
        BY <3>2
      <4>2. QED
        BY <2>2, <4>1
    <3>3. QED
      BY <3>1, <3>2
  <2> HIDE DEF h
  <2>6. Loops(h, n, S, first, f)
    BY <2>4, <2>5 DEF Loops
  <2>7. QED
    BY <2>6
<1>3. good \in SUBSET (-1 .. N)
  OBVIOUS
<1> HIDE DEF good
<1>4. N \in good
  <2>1. good = -1 .. N
    BY <1>1, <1>2, <1>3, ButtonByButton
  <2>2. QED
    BY <2>1
<1>5. QED
  BY <1>4 DEF good

-----------------------------------------------------------------------------
(* What a scan works on.                                                    *)
Turn == {-1, 0, 1}
Times == 0 .. LongTime + 1
Gesture ==
    [kind : {"turned"}, turn : Turn] \cup [kind : {"turnedWhile"}, turn : Turn, button : Buttons]
      \cup [kind : {"two"}, button : Buttons, other : Buttons]
      \cup [kind : {"long", "clicked"}, button : Buttons]
ScanState == [first : Buttons \cup {Enc!NOBODY}, timer : [Buttons -> Times],
              gestures : SUBSET Gesture, used : [Buttons -> BOOLEAN]]
Two(k, l) == [kind |-> "two", button |-> k, other |-> l]
Long(k) == [kind |-> "long", button |-> k]
Clicked(k) == [kind |-> "clicked", button |-> k]

LEMMA NobodyIsNoButton ==
  ASSUME PanelOK
  PROVE  Enc!NOBODY \notin Buttons
BY DEF PanelOK, Enc!NOBODY

(* Another gesture adds its kind to what the buttons it is about caused.    *)
About(g, k) == g.kind # "turned" /\ (g.button = k \/ (g.kind = "two" /\ g.other = k))
Caused(G, k) == {g.kind : g \in {h \in G : About(h, k)}}

LEMMA CausesIsCaused ==
  ASSUME NEW s, NEW k
  PROVE  Enc!Causes(s, k) = Caused(s.gestures, k)
BY DEF Enc!Causes, Caused, About

LEMMA CausedIn ==
  ASSUME NEW G, NEW k, NEW x
  PROVE  x \in Caused(G, k) <=> \E g \in G : About(g, k) /\ g.kind = x
BY DEF Caused

LEMMA CausedMore ==
  ASSUME NEW G, NEW g, NEW k
  PROVE  Caused(G \cup {g}, k) = IF About(g, k) THEN Caused(G, k) \cup {g.kind} ELSE Caused(G, k)
<1> DEFINE H == G \cup {g}
<1>1. \A x : x \in Caused(H, k) <=> x \in Caused(G, k) \/ (About(g, k) /\ g.kind = x)
  BY CausedIn
<1> DEFINE kind == g.kind
           before == Caused(G, k)
           after == Caused(H, k)
<1>2. \A x : x \in after <=> x \in before \/ (About(g, k) /\ kind = x)
  BY <1>1
<1> HIDE DEF H, kind, before, after
<1>3. after = IF About(g, k) THEN before \cup {kind} ELSE before
  BY <1>2
<1>4. QED
  BY <1>3 DEF H, kind, before, after

LEMMA TwoCauses ==
  ASSUME NEW s, NEW t, NEW a, NEW b, NEW k, t.gestures = s.gestures \cup {Two(a, b)}
  PROVE  /\ k \in {a, b} => Enc!Causes(t, k) = Enc!Causes(s, k) \cup {"two"}
         /\ k \notin {a, b} => Enc!Causes(t, k) = Enc!Causes(s, k)
<1> DEFINE g == Two(a, b)
<1>1. g.kind = "two" /\ (About(g, k) <=> k \in {a, b})
  BY DEF Two, About
<1> HIDE DEF g
<1>2. Caused(s.gestures \cup {g}, k) = IF About(g, k) THEN Caused(s.gestures, k) \cup {g.kind}
                                       ELSE Caused(s.gestures, k)
  BY CausedMore
<1>3. Enc!Causes(s, k) = Caused(s.gestures, k) /\ Enc!Causes(t, k) = Caused(s.gestures \cup {g}, k)
  BY CausesIsCaused, Zenon DEF g
<1>4. QED
  BY <1>1, <1>2, <1>3

LEMMA LongCauses ==
  ASSUME NEW s, NEW t, NEW a, NEW k, t.gestures = s.gestures \cup {Long(a)}
  PROVE  /\ k = a => Enc!Causes(t, k) = Enc!Causes(s, k) \cup {"long"}
         /\ k # a => Enc!Causes(t, k) = Enc!Causes(s, k)
<1> DEFINE g == Long(a)
<1>1. g.kind = "long" /\ (About(g, k) <=> k = a)
  BY DEF Long, About
<1> HIDE DEF g
<1>2. Caused(s.gestures \cup {g}, k) = IF About(g, k) THEN Caused(s.gestures, k) \cup {g.kind}
                                       ELSE Caused(s.gestures, k)
  BY CausedMore
<1>3. Enc!Causes(s, k) = Caused(s.gestures, k) /\ Enc!Causes(t, k) = Caused(s.gestures \cup {g}, k)
  BY CausesIsCaused, Zenon DEF g
<1>4. QED
  BY <1>1, <1>2, <1>3

LEMMA ClickCauses ==
  ASSUME NEW s, NEW t, NEW a, NEW k, t.gestures = s.gestures \cup {Clicked(a)}
  PROVE  /\ k = a => Enc!Causes(t, k) = Enc!Causes(s, k) \cup {"clicked"}
         /\ k # a => Enc!Causes(t, k) = Enc!Causes(s, k)
<1> DEFINE g == Clicked(a)
<1>1. g.kind = "clicked" /\ (About(g, k) <=> k = a)
  BY DEF Clicked, About
<1> HIDE DEF g
<1>2. Caused(s.gestures \cup {g}, k) = IF About(g, k) THEN Caused(s.gestures, k) \cup {g.kind}
                                       ELSE Caused(s.gestures, k)
  BY CausedMore
<1>3. Enc!Causes(s, k) = Caused(s.gestures, k) /\ Enc!Causes(t, k) = Caused(s.gestures \cup {g}, k)
  BY CausesIsCaused, Zenon DEF g
<1>4. QED
  BY <1>1, <1>2, <1>3

-----------------------------------------------------------------------------
(* What each handler makes of the state of the scan.                        *)
Counted(s, k) == [s EXCEPT !.timer[k] = Enc!Min({@ + 1, LongTime + 1})]
OtherUses(s, t, K) == \A l \in Buttons \ K : t.used[l] = s.used[l]
OtherTimes(s, t, k) == \A l \in Buttons : l # k => t.timer[l] = s.timer[l]

LEMMA CountedIs ==
  ASSUME PanelOK, NEW s \in ScanState, NEW k \in Buttons
  PROVE  /\ Counted(s, k) \in ScanState /\ OtherTimes(s, Counted(s, k), k)
         /\ Counted(s, k).first = s.first /\ Counted(s, k).gestures = s.gestures
         /\ Counted(s, k).used = s.used
<1> DEFINE time == Enc!Min({s.timer[k] + 1, LongTime + 1})
           timers == [s.timer EXCEPT ![k] = time]
<1>1. s.timer \in [Buttons -> Times] /\ LongTime \in Nat
  BY DEF ScanState, PanelOK
<1>2. s.timer[k] \in Times /\ s.timer[k] \in Nat /\ s.timer[k] + 1 \in Nat /\ LongTime + 1 \in Nat
  BY <1>1 DEF Times
<1>3. time \in {s.timer[k] + 1, LongTime + 1} /\ time <= LongTime + 1
  BY <1>2, MinIsLeast
<1>4. time \in Times
  BY <1>1, <1>2, <1>3 DEF Times
<1> HIDE DEF time
<1>5. timers \in [Buttons -> Times] /\ \A l \in Buttons : l # k => timers[l] = s.timer[l]
  BY <1>1, <1>4
<1>6. Counted(s, k) = [s EXCEPT !.timer = timers]
  BY DEF Counted, ScanState, time
<1> HIDE DEF timers
<1>7. QED
  BY <1>5, <1>6 DEF ScanState, OtherTimes

LEMMA JustPressedIs ==
  ASSUME PanelOK, NEW s \in ScanState, NEW k \in Buttons, NEW t, t = Enc!JustPressed(s, k)
  PROVE  /\ t \in ScanState /\ t.timer = s.timer
         /\ s.first = Enc!NOBODY =>
              /\ t.first = k /\ t.gestures = s.gestures
              /\ OtherUses(s, t, {k}) /\ t.used[k] = FALSE
         /\ s.first # Enc!NOBODY =>
              /\ t.first = s.first /\ t.gestures = s.gestures \cup {Two(s.first, k)}
              /\ OtherUses(s, t, {s.first, k}) /\ t.used[s.first] = TRUE /\ t.used[k] = TRUE
<1>1. CASE s.first = Enc!NOBODY
  <2> DEFINE used == [s.used EXCEPT ![k] = FALSE]
  <2>1. used \in [Buttons -> BOOLEAN]
        /\ \A l \in Buttons : used[l] = (IF l = k THEN FALSE ELSE s.used[l])
    BY DEF ScanState
  <2>2. t = [s EXCEPT !.first = k, !.used = used]
    BY <1>1 DEF Enc!JustPressed, ScanState
  <2> HIDE DEF used
  <2>3. QED
    BY <1>1, <2>1, <2>2 DEF ScanState, OtherUses
<1>2. CASE s.first # Enc!NOBODY
  <2> DEFINE one == [s.used EXCEPT ![s.first] = TRUE]
             used == [one EXCEPT ![k] = TRUE]
             more == s.gestures \cup {Two(s.first, k)}
  <2>1. one \in [Buttons -> BOOLEAN] /\ s.first \in Buttons
        /\ \A l \in Buttons : one[l] = (IF l = s.first THEN TRUE ELSE s.used[l])
    BY <1>2 DEF ScanState
  <2>2. t = [s EXCEPT !.used = used, !.gestures = more]
    BY <1>2 DEF Enc!JustPressed, ScanState, Two
  <2>3. more \in SUBSET Gesture
    BY <2>1 DEF ScanState, Two, Gesture
  <2> HIDE DEF one, more
  <2>4. used \in [Buttons -> BOOLEAN]
        /\ \A l \in Buttons : used[l] = (IF l \in {s.first, k} THEN TRUE ELSE s.used[l])
    BY <2>1
  <2> HIDE DEF used
  <2>5. t \in ScanState /\ t.timer = s.timer /\ t.first = s.first /\ t.gestures = more /\ t.used = used
    BY <2>2, <2>3, <2>4 DEF ScanState
  <2>6. QED
    BY <1>2, <2>1, <2>4, <2>5 DEF more, OtherUses
<1>3. QED
  BY <1>1, <1>2

LEMMA StillPressedIs ==
  ASSUME PanelOK, NEW s \in ScanState, NEW k \in Buttons, NEW t, t = Enc!StillPressed(s, k)
  PROVE  /\ t \in ScanState /\ t.timer = s.timer /\ t.first = s.first
         /\ \/ t.gestures = s.gestures /\ t.used = s.used
            \/ /\ ~s.used[k] /\ t.gestures = s.gestures \cup {Long(k)}
               /\ OtherUses(s, t, {k}) /\ t.used[k] = TRUE
<1>1. CASE s.timer[k] > LongTime /\ ~s.used[k]
  <2> DEFINE used == [s.used EXCEPT ![k] = TRUE]
             more == s.gestures \cup {Long(k)}
  <2>1. used \in [Buttons -> BOOLEAN]
        /\ \A l \in Buttons : used[l] = (IF l = k THEN TRUE ELSE s.used[l])
    BY DEF ScanState
  <2>2. more \in SUBSET Gesture
    BY DEF ScanState, Long, Gesture
  <2>3. t = [s EXCEPT !.used = used, !.gestures = more]
    BY <1>1 DEF Enc!StillPressed, ScanState, Long
  <2> HIDE DEF used, more
  <2>4. t \in ScanState /\ t.timer = s.timer /\ t.first = s.first /\ t.gestures = more /\ t.used = used
    BY <2>1, <2>2, <2>3 DEF ScanState
  <2>5. QED
    BY <1>1, <2>1, <2>4 DEF more, OtherUses
<1>2. CASE ~(s.timer[k] > LongTime /\ ~s.used[k])
  BY <1>2 DEF Enc!StillPressed
<1>3. QED
  BY <1>1, <1>2

LEMMA JustReleasedIs ==
  ASSUME PanelOK, NEW s \in ScanState, NEW k \in Buttons, NEW t, t = Enc!JustReleased(s, k)
  PROVE  /\ t \in ScanState /\ t.used = s.used /\ OtherTimes(s, t, k)
         /\ t.first = (IF s.first = k THEN Enc!NOBODY ELSE s.first)
         /\ t.gestures = IF ~s.used[k] /\ s.timer[k] > ClickTime
                         THEN s.gestures \cup {Clicked(k)} ELSE s.gestures
<1> DEFINE first == IF s.first = k THEN Enc!NOBODY ELSE s.first
           timers == [s.timer EXCEPT ![k] = 0]
           click == ~s.used[k] /\ s.timer[k] > ClickTime
           more == IF click THEN s.gestures \cup {Clicked(k)} ELSE s.gestures
<1>1. timers \in [Buttons -> Times] /\ \A l \in Buttons : l # k => timers[l] = s.timer[l]
  BY DEF ScanState, Times, PanelOK
<1>2. more \in SUBSET Gesture
  BY DEF ScanState, Clicked, Gesture
<1>3. first \in Buttons \cup {Enc!NOBODY}
  BY DEF ScanState
<1>4. t = [s EXCEPT !.first = first, !.timer = timers, !.gestures = more]
  BY DEF Enc!JustReleased, ScanState, Clicked
<1> HIDE DEF timers, more, first
<1>5. t \in ScanState /\ t.timer = timers /\ t.first = first /\ t.gestures = more /\ t.used = s.used
  BY <1>1, <1>2, <1>3, <1>4 DEF ScanState
<1>6. QED
  BY <1>1, <1>5 DEF OtherTimes, first, more

-----------------------------------------------------------------------------
(* The invariant of the loop.  After button i is scanned, a button is as it *)
(* is found if it was scanned, and as it was before the scan if not.        *)
Now(k, i, pressed) == IF k <= i /\ k \in Enc!Scanned THEN k \in pressed ELSE buttonPreviousState_[k]

(* A button that is now down is marked as used when its press has caused    *)
(* something, earlier or in this scan; one that is up has told its click,   *)
(* and nothing besides, or it was used, or its press was short.             *)
Told(s, k, now, c) ==
    /\ s.first = k => now
    /\ ~buttonPreviousState_[k] /\ ~now => c = {}
    /\ now => /\ s.used[k] <=> (buttonPreviousState_[k] /\ buttonUsedFromSomethingElse_[k]) \/ c # {}
              /\ "clicked" \notin c
    /\ "long" \in c => buttonPreviousState_[k] /\ now /\ ~buttonUsedFromSomethingElse_[k]
    /\ buttonPreviousState_[k] /\ ~now =>
         /\ "clicked" \in c => c = {"clicked"} /\ ~buttonUsedFromSomethingElse_[k]
         /\ buttonTimer_[k] > ClickTime => c # {} \/ buttonUsedFromSomethingElse_[k]

(* A button that is still to be scanned has its time, and no long press.    *)
Waits(s, k, c) == s.timer[k] = buttonTimer_[k] /\ "long" \notin c
AllTold(s, i, pressed) ==
    \A k \in Buttons : /\ Told(s, k, Now(k, i, pressed), Enc!Causes(s, k))
                       /\ k > i => Waits(s, k, Enc!Causes(s, k))

EncTypes ==
    /\ buttonPreviousState_ \in [Buttons -> BOOLEAN]
    /\ buttonTimer_ \in [Buttons -> Times]
    /\ buttonUsedFromSomethingElse_ \in [Buttons -> BOOLEAN]
    /\ firstButtonDown_ \in Buttons \cup {Enc!NOBODY}

LEMMA NowIs ==
  ASSUME PanelOK, NEW i \in Buttons, NEW pressed
  PROVE  /\ \A k \in Buttons \ {i} : Now(k, i, pressed) = Now(k, i - 1, pressed)
         /\ Now(i, i - 1, pressed) = buttonPreviousState_[i]
         /\ i \notin Enc!Scanned => Now(i, i, pressed) = buttonPreviousState_[i]
         /\ i \in Enc!Scanned /\ i \in pressed => Now(i, i, pressed) = TRUE
         /\ i \in Enc!Scanned /\ i \notin pressed => Now(i, i, pressed) = FALSE
<1>1. Buttons \subseteq Nat /\ i \in Nat
  BY DEF PanelOK
<1>2. \A k \in Buttons \ {i} : k <= i <=> k <= i - 1
  BY <1>1
<1>3. ~(i <= i - 1) /\ i <= i
  BY <1>1
<1>4. \A k \in Buttons \ {i} : Now(k, i, pressed) = Now(k, i - 1, pressed)
  BY <1>2, Zenon DEF Now
<1>5. Now(i, i - 1, pressed) = buttonPreviousState_[i]
  BY <1>3, Zenon DEF Now
<1>6. i \notin Enc!Scanned => Now(i, i, pressed) = buttonPreviousState_[i]
  BY <1>3, Zenon DEF Now
<1>7. i \in Enc!Scanned /\ i \in pressed => Now(i, i, pressed) = TRUE
  BY <1>3 DEF Now
<1>8. i \in Enc!Scanned /\ i \notin pressed => Now(i, i, pressed) = FALSE
  BY <1>3 DEF Now
<1>9. QED
  BY <1>4, <1>5, <1>6, <1>7, <1>8

(* The other buttons, when a handler tells nothing about them.              *)
LEMMA ToldElsewhere ==
  ASSUME PanelOK, NEW i \in Buttons, NEW pressed, NEW s \in ScanState, NEW t \in ScanState,
         AllTold(s, i - 1, pressed), NEW k \in Buttons, k # i,
         t.used[k] = s.used[k], t.first = k => s.first = k, t.timer[k] = s.timer[k],
         Enc!Causes(t, k) = Enc!Causes(s, k)
  PROVE  /\ Told(t, k, Now(k, i, pressed), Enc!Causes(t, k))
         /\ k > i => Waits(t, k, Enc!Causes(t, k))
<1>1. Told(s, k, Now(k, i, pressed), Enc!Causes(s, k)) /\ (k > i - 1 => Waits(s, k, Enc!Causes(s, k)))
  BY NowIs DEF AllTold
<1>2. k > i => k > i - 1
  BY DEF PanelOK
<1>3. QED
  BY <1>1, <1>2 DEF Told, Waits

(* The button that is scanned: nobody has told anything of it in this scan  *)
(* but turns of the encoder and presses that joined it.                     *)
LEMMA ToldBefore ==
  ASSUME PanelOK, NEW i \in Buttons, NEW pressed, NEW s, AllTold(s, i - 1, pressed)
  PROVE  Told(s, i, buttonPreviousState_[i], Enc!Causes(s, i)) /\ Waits(s, i, Enc!Causes(s, i))
<1>1. i > i - 1
  BY DEF PanelOK
<1>2. QED
  BY <1>1, NowIs DEF AllTold

LEMMA PressTold ==
  ASSUME PanelOK, NEW i \in Buttons, i \in Enc!Scanned, NEW pressed, i \in pressed,
         ~buttonPreviousState_[i], NEW s \in ScanState, AllTold(s, i - 1, pressed),
         NEW t, t = Enc!JustPressed(Counted(s, i), i)
  PROVE  t \in ScanState /\ AllTold(t, i, pressed)
<1> DEFINE u == Counted(s, i)
<1>1. /\ u \in ScanState /\ OtherTimes(s, u, i)
      /\ u.first = s.first /\ u.gestures = s.gestures /\ u.used = s.used
  BY CountedIs
<1> HIDE DEF u
<1>2. t = Enc!JustPressed(u, i)
  BY DEF u
<1>p. /\ t \in ScanState /\ t.timer = u.timer
      /\ u.first = Enc!NOBODY =>
            /\ t.first = i /\ t.gestures = u.gestures
            /\ OtherUses(u, t, {i}) /\ t.used[i] = FALSE
      /\ u.first # Enc!NOBODY =>
            /\ t.first = u.first /\ t.gestures = u.gestures \cup {Two(u.first, i)}
            /\ OtherUses(u, t, {u.first, i}) /\ t.used[u.first] = TRUE /\ t.used[i] = TRUE
  BY <1>1, <1>2, JustPressedIs
<1>3. Now(i, i, pressed) = TRUE /\ Enc!Causes(s, i) = {}
  BY NowIs, ToldBefore DEF Told
<1>4. i \in Nat /\ ~(i > i) /\ Enc!NOBODY \notin Buttons
  <2>1. i \in Nat
    BY DEF PanelOK
  <2>2. QED
    BY <2>1, NobodyIsNoButton
<1>5. CASE s.first = Enc!NOBODY
  <2>1. /\ t \in ScanState /\ t.timer = u.timer /\ t.first = i /\ t.gestures = s.gestures
        /\ OtherUses(s, t, {i}) /\ t.used[i] = FALSE
    BY <1>1, <1>5, <1>p DEF OtherUses
  <2>2. \A k \in Buttons : Enc!Causes(t, k) = Enc!Causes(s, k)
    BY <2>1 DEF Enc!Causes
  <2>3. Told(t, i, Now(i, i, pressed), Enc!Causes(t, i))
    BY <1>3, <2>1, <2>2 DEF Told
  <2>4. ASSUME NEW k \in Buttons, k # i
        PROVE  Told(t, k, Now(k, i, pressed), Enc!Causes(t, k)) /\ (k > i => Waits(t, k, Enc!Causes(t, k)))
    <3>1. t.used[k] = s.used[k] /\ t.first # k /\ t.timer[k] = s.timer[k] /\ Enc!Causes(t, k) = Enc!Causes(s, k)
      BY <1>1, <2>1, <2>2, <2>4 DEF OtherTimes, OtherUses
    <3>2. QED
      BY <2>1, <2>4, <3>1, ToldElsewhere
  <2>5. QED
    BY <1>4, <2>1, <2>3, <2>4 DEF AllTold
<1>6. CASE s.first # Enc!NOBODY
  <2> DEFINE f == s.first
  <2>1. /\ t \in ScanState /\ t.timer = u.timer /\ t.first = f /\ t.gestures = s.gestures \cup {Two(f, i)}
        /\ OtherUses(s, t, {f, i}) /\ t.used[f] = TRUE /\ t.used[i] = TRUE
    BY <1>1, <1>6, <1>p DEF OtherUses
  <2>2. f \in Buttons
    BY <1>6 DEF ScanState
  <2>3. f # i
    BY ToldBefore DEF Told
  <2>4. \A k \in Buttons : /\ k \in {f, i} => Enc!Causes(t, k) = Enc!Causes(s, k) \cup {"two"}
                           /\ k \notin {f, i} => Enc!Causes(t, k) = Enc!Causes(s, k)
    BY <2>1, TwoCauses
  <2>5. Told(t, i, Now(i, i, pressed), Enc!Causes(t, i))
    <3>1. Enc!Causes(t, i) = {"two"} /\ t.used[i] = TRUE /\ t.first # i
      BY <1>3, <2>1, <2>3, <2>4
    <3>2. QED
      BY <1>3, <3>1 DEF Told
  <2>6. /\ Told(t, f, Now(f, i, pressed), Enc!Causes(t, f))
        /\ f > i => Waits(t, f, Enc!Causes(t, f))
    <3> DEFINE c == Enc!Causes(s, f)
    <3>1. Told(s, f, Now(f, i, pressed), c) /\ (f > i - 1 => Waits(s, f, c))
      BY <2>2, <2>3, NowIs DEF AllTold
    <3>2. Now(f, i, pressed)
      BY <3>1 DEF Told
    <3>3. Enc!Causes(t, f) = c \cup {"two"} /\ t.used[f] = TRUE /\ t.timer[f] = s.timer[f]
      BY <1>1, <2>1, <2>2, <2>3, <2>4 DEF OtherTimes
    <3> HIDE DEF c, f
    <3>4. f > i => f > i - 1
      BY <2>2 DEF PanelOK
    <3>5. Told(t, f, Now(f, i, pressed), Enc!Causes(t, f))
      BY <3>1, <3>2, <3>3 DEF Told
    <3>6. f > i => Waits(t, f, Enc!Causes(t, f))
      BY <3>1, <3>3, <3>4 DEF Waits
    <3>7. QED
      BY <3>5, <3>6
  <2>7. ASSUME NEW k \in Buttons, k # i, k # f
        PROVE  Told(t, k, Now(k, i, pressed), Enc!Causes(t, k)) /\ (k > i => Waits(t, k, Enc!Causes(t, k)))
    <3>1. t.used[k] = s.used[k] /\ t.first # k /\ t.timer[k] = s.timer[k] /\ Enc!Causes(t, k) = Enc!Causes(s, k)
      BY <1>1, <2>1, <2>4, <2>7 DEF OtherTimes, OtherUses
    <3>2. QED
      BY <2>1, <2>7, <3>1, ToldElsewhere
  <2>8. QED
    BY <1>4, <2>1, <2>5, <2>6, <2>7 DEF AllTold
<1>7. QED
  BY <1>5, <1>6

LEMMA HoldTold ==
  ASSUME PanelOK, EncTypes, NEW i \in Buttons, i \in Enc!Scanned, NEW pressed, i \in pressed,
         buttonPreviousState_[i], NEW s \in ScanState, AllTold(s, i - 1, pressed),
         NEW t, t = Enc!StillPressed(Counted(s, i), i)
  PROVE  t \in ScanState /\ AllTold(t, i, pressed)
<1> DEFINE u == Counted(s, i)
<1>1. /\ u \in ScanState /\ OtherTimes(s, u, i)
      /\ u.first = s.first /\ u.gestures = s.gestures /\ u.used = s.used
  BY CountedIs
<1> HIDE DEF u
<1>2. /\ t \in ScanState /\ t.timer = u.timer /\ t.first = s.first
      /\ \/ t.gestures = s.gestures /\ t.used = s.used
         \/ /\ ~s.used[i] /\ t.gestures = s.gestures \cup {Long(i)}
            /\ OtherUses(s, t, {i}) /\ t.used[i] = TRUE
  <2>1. t = Enc!StillPressed(u, i)
    BY DEF u
  <2>2. /\ t \in ScanState /\ t.timer = u.timer /\ t.first = u.first
        /\ \/ t.gestures = u.gestures /\ t.used = u.used
           \/ /\ ~u.used[i] /\ t.gestures = u.gestures \cup {Long(i)}
              /\ OtherUses(u, t, {i}) /\ t.used[i] = TRUE
    BY <1>1, <2>1, StillPressedIs, Zenon
  <2>3. QED
    BY <1>1, <2>2 DEF OtherUses
<1>3. Now(i, i, pressed) = TRUE /\ Told(s, i, TRUE, Enc!Causes(s, i))
  <2>1. buttonPreviousState_[i] = TRUE
    BY DEF EncTypes
  <2>2. QED
    BY <2>1, NowIs, ToldBefore
<1>4. i \in Nat /\ ~(i > i)
  BY DEF PanelOK
<1>5. ASSUME NEW k \in Buttons, k # i
      PROVE  Told(t, k, Now(k, i, pressed), Enc!Causes(t, k)) /\ (k > i => Waits(t, k, Enc!Causes(t, k)))
  <2>1. t.used[k] = s.used[k] /\ t.first = s.first /\ t.timer[k] = s.timer[k]
    BY <1>1, <1>2, <1>5 DEF OtherTimes, OtherUses
  <2>2. Enc!Causes(t, k) = Enc!Causes(s, k)
    <3>1. t.gestures = s.gestures => Enc!Causes(t, k) = Enc!Causes(s, k)
      BY DEF Enc!Causes
    <3>2. t.gestures = s.gestures \cup {Long(i)} => Enc!Causes(t, k) = Enc!Causes(s, k)
      BY <1>5, LongCauses
    <3>3. QED
      BY <1>2, <3>1, <3>2
  <2>3. QED
    BY <1>2, <1>5, <2>1, <2>2, ToldElsewhere
<1>6. Told(t, i, Now(i, i, pressed), Enc!Causes(t, i))
  <2>1. CASE t.gestures = s.gestures /\ t.used = s.used
    <3>1. Enc!Causes(t, i) = Enc!Causes(s, i)
      BY <2>1 DEF Enc!Causes
    <3>2. QED
      BY <1>2, <1>3, <2>1, <3>1 DEF Told
  <2>2. CASE /\ ~s.used[i] /\ t.gestures = s.gestures \cup {Long(i)}
             /\ OtherUses(s, t, {i}) /\ t.used[i] = TRUE
    <3> DEFINE c == Enc!Causes(s, i)
    <3>1. Enc!Causes(t, i) = c \cup {"long"} /\ t.used[i] = TRUE
      <4>1. Enc!Causes(t, i) = Enc!Causes(s, i) \cup {"long"}
        BY <2>2, LongCauses
      <4>2. QED
        BY <2>2, <4>1
    <3> HIDE DEF c
    <3>2. ~buttonUsedFromSomethingElse_[i] /\ "clicked" \notin c
      BY <1>3, <2>2 DEF Told, c
    <3>3. QED
      BY <1>3, <3>1, <3>2 DEF Told
  <2>3. QED
    BY <1>2, <2>1, <2>2
<1>7. QED
  BY <1>2, <1>4, <1>5, <1>6 DEF AllTold

LEMMA ReleaseTold ==
  ASSUME PanelOK, EncTypes, NEW i \in Buttons, i \in Enc!Scanned, NEW pressed, i \notin pressed,
         buttonPreviousState_[i], NEW s \in ScanState, AllTold(s, i - 1, pressed),
         NEW t, t = Enc!JustReleased(s, i)
  PROVE  t \in ScanState /\ AllTold(t, i, pressed)
<1>1. /\ t \in ScanState /\ t.used = s.used /\ OtherTimes(s, t, i)
      /\ t.first = (IF s.first = i THEN Enc!NOBODY ELSE s.first)
      /\ t.gestures = IF ~s.used[i] /\ s.timer[i] > ClickTime
                      THEN s.gestures \cup {Clicked(i)} ELSE s.gestures
  BY JustReleasedIs
<1>2. Now(i, i, pressed) = FALSE
  BY NowIs
<1>3. Told(s, i, TRUE, Enc!Causes(s, i)) /\ Waits(s, i, Enc!Causes(s, i))
  <2>1. buttonPreviousState_[i] = TRUE
    BY DEF EncTypes
  <2>2. QED
    BY <2>1, ToldBefore
<1>4. i \in Nat /\ ~(i > i) /\ Enc!NOBODY \notin Buttons
  <2>1. i \in Nat
    BY DEF PanelOK
  <2>2. QED
    BY <2>1, NobodyIsNoButton
<1>5. ASSUME NEW k \in Buttons, k # i
      PROVE  Told(t, k, Now(k, i, pressed), Enc!Causes(t, k)) /\ (k > i => Waits(t, k, Enc!Causes(t, k)))
  <2>1. t.used[k] = s.used[k] /\ (t.first = k => s.first = k) /\ t.timer[k] = s.timer[k]
    BY <1>1, <1>4, <1>5 DEF OtherTimes
  <2>2. Enc!Causes(t, k) = Enc!Causes(s, k)
    <3>1. t.gestures = s.gestures => Enc!Causes(t, k) = Enc!Causes(s, k)
      BY DEF Enc!Causes
    <3>2. t.gestures = s.gestures \cup {Clicked(i)} => Enc!Causes(t, k) = Enc!Causes(s, k)
      BY <1>5, ClickCauses
    <3>3. QED
      BY <1>1, <3>1, <3>2
  <2>3. QED
    BY <1>1, <1>5, <2>1, <2>2, ToldElsewhere
<1>6. Told(t, i, Now(i, i, pressed), Enc!Causes(t, i))
  <2> DEFINE c == Enc!Causes(s, i)
             d == Enc!Causes(t, i)
  <2>1. t.first # i
    BY <1>1, <1>4
  <2>2. CASE ~s.used[i] /\ s.timer[i] > ClickTime
    <3>1. d = c \cup {"clicked"}
      <4>1. t.gestures = s.gestures \cup {Clicked(i)}
        BY <1>1, <2>2
      <4>2. QED
        BY <4>1, ClickCauses
    <3>2. c = {} /\ ~buttonUsedFromSomethingElse_[i]
      BY <1>3, <2>2 DEF Told
    <3> HIDE DEF c, d
    <3>3. d = {"clicked"}
      BY <3>1, <3>2
    <3>4. Told(t, i, FALSE, d)
      BY <2>1, <3>2, <3>3 DEF Told
    <3>5. QED
      BY <1>2, <3>4 DEF d
  <2>3. CASE ~(~s.used[i] /\ s.timer[i] > ClickTime)
    <3>1. d = c
      BY <1>1, <2>3 DEF Enc!Causes
    <3>2. "clicked" \notin c /\ "long" \notin c /\ s.timer[i] = buttonTimer_[i]
      BY <1>3 DEF Told, Waits
    <3>3. s.used[i] => c # {} \/ buttonUsedFromSomethingElse_[i]
      BY <1>3 DEF Told
    <3> HIDE DEF c, d
    <3>4. Told(t, i, FALSE, d)
      BY <2>1, <2>3, <3>1, <3>2, <3>3 DEF Told
    <3>5. QED
      BY <1>2, <3>4 DEF d
  <2>4. QED
    BY <2>2, <2>3
<1>7. QED
  BY <1>1, <1>4, <1>5, <1>6 DEF AllTold

LEMMA ScanButtonTyped ==
  ASSUME PanelOK, NEW k \in Buttons, NEW s \in ScanState, NEW down
  PROVE  Enc!ScanButton(s, k, down) \in ScanState
<1> DEFINE u == Counted(s, k)
<1>1. u \in ScanState
  BY CountedIs
<1> HIDE DEF u
<1>2. Enc!JustPressed(u, k) \in ScanState /\ Enc!StillPressed(u, k) \in ScanState
      /\ Enc!JustReleased(s, k) \in ScanState
  BY <1>1, JustPressedIs, StillPressedIs, JustReleasedIs
<1>3. Enc!ScanButton(s, k, down) \in {Enc!JustPressed(u, k), Enc!StillPressed(u, k), Enc!JustReleased(s, k), s}
  BY Zenon DEF Enc!ScanButton, Counted, u
<1>4. QED
  BY <1>2, <1>3

(* One turn of the loop keeps its invariant.                                *)
LEMMA ScanButtonTold ==
  ASSUME PanelOK, EncTypes, NEW i \in Buttons, i \in Enc!Scanned, NEW pressed,
         NEW s \in ScanState, AllTold(s, i - 1, pressed)
  PROVE  AllTold(Enc!ScanButton(s, i, i \in pressed), i, pressed)
<1> DEFINE t == Enc!ScanButton(s, i, i \in pressed)
<1>1. CASE i \in pressed /\ ~buttonPreviousState_[i]
  <2>1. t = Enc!JustPressed(Counted(s, i), i)
    BY <1>1, Zenon DEF Enc!ScanButton, Counted
  <2>2. QED
    BY <1>1, <2>1, PressTold
<1>2. CASE i \in pressed /\ buttonPreviousState_[i]
  <2>1. t = Enc!StillPressed(Counted(s, i), i)
    BY <1>2, Zenon DEF Enc!ScanButton, Counted
  <2>2. QED
    BY <1>2, <2>1, HoldTold
<1>3. CASE i \notin pressed /\ buttonPreviousState_[i]
  <2>1. t = Enc!JustReleased(s, i)
    BY <1>3, Zenon DEF Enc!ScanButton
  <2>2. QED
    BY <1>3, <2>1, ReleaseTold
<1>4. CASE i \notin pressed /\ ~buttonPreviousState_[i]
  <2>1. t = s
    BY <1>4, Zenon DEF Enc!ScanButton
  <2>2. Now(i, i, pressed) = Now(i, i - 1, pressed)
    <3>1. buttonPreviousState_[i] = FALSE
      BY <1>4 DEF EncTypes
    <3>2. QED
      BY <1>4, <3>1, NowIs
  <2>3. ASSUME NEW k \in Buttons
        PROVE  Now(k, i, pressed) = Now(k, i - 1, pressed) /\ (k > i => k > i - 1)
    <3>1. k \in Nat /\ i \in Nat
      BY DEF PanelOK
    <3>2. Now(k, i, pressed) = Now(k, i - 1, pressed)
      BY <2>2, NowIs
    <3>3. QED
      BY <3>1, <3>2
  <2>4. QED
    BY <2>1, <2>3 DEF AllTold
<1>5. QED
  BY <1>1, <1>2, <1>3, <1>4

LEMMA SkipTold ==
  ASSUME PanelOK, NEW i \in Nat, i \notin Enc!Scanned, NEW pressed, NEW s, AllTold(s, i - 1, pressed)
  PROVE  AllTold(s, i, pressed)
<1>1. ASSUME NEW k \in Buttons
      PROVE  Now(k, i, pressed) = Now(k, i - 1, pressed) /\ (k > i => k > i - 1)
  <2>1. k \in Nat
    BY DEF PanelOK
  <2>2. k # i => (k <= i <=> k <= i - 1)
    BY <2>1
  <2>3. k = i => ~(k <= i /\ k \in Enc!Scanned) /\ ~(k <= i - 1 /\ k \in Enc!Scanned)
    BY <2>1
  <2>4. (k <= i /\ k \in Enc!Scanned) <=> (k <= i - 1 /\ k \in Enc!Scanned)
    BY <2>2, <2>3
  <2>5. Now(k, i, pressed) = Now(k, i - 1, pressed)
    BY <2>4, Zenon DEF Now
  <2>6. QED
    BY <2>1, <2>5
<1>2. QED
  BY <1>1 DEF AllTold

-----------------------------------------------------------------------------
(* The invariant of the module.  While a button is down, it is marked as    *)
(* used when its press has caused something.                                *)
Kind == {"turnedWhile", "two", "long", "clicked"}
EncInv ==
    /\ EncTypes
    /\ firstButtonDown_ # Enc!NOBODY => buttonPreviousState_[firstButtonDown_]
    /\ \A k \in Buttons :
         /\ buttonPreviousState_[k] =>
              /\ k \in Enc!Scanned
              /\ buttonUsedFromSomethingElse_[k] <=> history[k] # {}
              /\ "clicked" \notin history[k]
         /\ "clicked" \in history[k] => history[k] = {"clicked"}
         /\ Long(k) \in gestures => buttonPreviousState_[k]

LEMMA FirstTold ==
  ASSUME PanelOK, EncInv, NEW turn \in Turn, NEW pressed
  PROVE  Enc!Panel(turn) \in ScanState /\ AllTold(Enc!Panel(turn), -1, pressed)
<1> DEFINE s == Enc!Panel(turn)
           used == [k \in Buttons |->
                      buttonUsedFromSomethingElse_[k] \/ (Enc!Accepted(turn) /\ k = firstButtonDown_)]
<1>1. used \in [Buttons -> BOOLEAN]
  BY DEF EncInv, EncTypes
<1>2. Enc!Turned(turn) \in SUBSET Gesture
  BY DEF Enc!Turned, Gesture, EncInv, EncTypes
<1>3. s = [first |-> firstButtonDown_, timer |-> buttonTimer_, gestures |-> Enc!Turned(turn), used |-> used]
  BY DEF Enc!Panel
<1>4. /\ s \in ScanState /\ s.first = firstButtonDown_ /\ s.timer = buttonTimer_
      /\ s.gestures = Enc!Turned(turn) /\ s.used = used
  <2> HIDE DEF used, s
  <2>1. QED
    BY <1>1, <1>2, <1>3 DEF ScanState, EncInv, EncTypes
<1>5. ASSUME NEW k \in Buttons
      PROVE  Told(s, k, Now(k, -1, pressed), Enc!Causes(s, k)) /\ Waits(s, k, Enc!Causes(s, k))
  <2> DEFINE c == Enc!Causes(s, k)
             while == [kind |-> "turnedWhile", turn |-> turn, button |-> firstButtonDown_]
  <2>1. k \in Nat /\ Enc!NOBODY \notin Buttons
    BY NobodyIsNoButton DEF PanelOK
  <2>2. Now(k, -1, pressed) = buttonPreviousState_[k]
    <3>1. ~(k <= -1)
      BY <2>1
    <3>2. QED
      BY <3>1, Zenon DEF Now
  <2>3. c = IF Enc!Accepted(turn) /\ k = firstButtonDown_ THEN {"turnedWhile"} ELSE {}
    <3>1. c = Caused(Enc!Turned(turn), k)
      BY <1>4, CausesIsCaused
    <3>2. CASE ~Enc!Accepted(turn)
      BY <3>1, <3>2 DEF Enc!Turned, Caused
    <3>3. CASE Enc!Accepted(turn) /\ firstButtonDown_ = Enc!NOBODY
      BY <2>1, <3>1, <3>3 DEF Enc!Turned, Caused, About
    <3>4. CASE Enc!Accepted(turn) /\ firstButtonDown_ # Enc!NOBODY
      <4>1. Enc!Turned(turn) = {while}
        BY <3>4 DEF Enc!Turned
      <4>2. while.kind = "turnedWhile" /\ (About(while, k) <=> k = firstButtonDown_)
        BY DEF About
      <4> HIDE DEF while
      <4>3. QED
        BY <3>1, <3>4, <4>1, <4>2 DEF Caused
    <3>5. QED
      BY <3>2, <3>3, <3>4
  <2>4. used[k] <=> buttonUsedFromSomethingElse_[k] \/ (Enc!Accepted(turn) /\ k = firstButtonDown_)
    OBVIOUS
  <2>5. k = firstButtonDown_ => buttonPreviousState_[k]
    BY <2>1 DEF EncInv
  <2> HIDE DEF c, used, s
  <2>6. Told(s, k, buttonPreviousState_[k], c)
    BY <1>4, <2>3, <2>4, <2>5 DEF Told
  <2>7. Waits(s, k, c)
    BY <1>4, <2>3 DEF Waits
  <2>8. QED
    BY <2>2, <2>6, <2>7 DEF c
<1>6. QED
  BY <1>4, <1>5 DEF AllTold

(* The loop is a function over the buttons; it exists, and its invariant    *)
(* holds after the last one.                                                *)
LEMMA ScanTold ==
  ASSUME PanelOK, EncInv, NEW turn \in Turn, NEW pressed
  PROVE  /\ Enc!Scan(turn, pressed) \in ScanState
         /\ AllTold(Enc!Scan(turn, pressed), Enc!Max(Buttons), pressed)
         /\ \A k \in Buttons : k <= Enc!Max(Buttons)
<1> DEFINE N == Enc!Max(Buttons)
           after[k \in -1 .. N] ==
             IF k = -1 THEN Enc!Panel(turn)
             ELSE IF k \in Enc!Scanned THEN Enc!ScanButton(after[k - 1], k, k \in pressed)
             ELSE after[k - 1]
<1>1. N \in Buttons /\ Buttons \subseteq Nat /\ \A k \in Buttons : k <= N
  <2>1. PICK n \in Nat : Buttons \subseteq 0 .. n
    BY DEF PanelOK
  <2>2. N \in Buttons /\ \A k \in Buttons : N >= k
    BY <2>1, MaxIsGreatest DEF PanelOK
  <2> HIDE DEF N
  <2>3. QED
    BY <2>1, <2>2
<1>2. Enc!Scan(turn, pressed) = after[N]
  BY DEF Enc!Scan
<1> DEFINE step(k, s) == IF k \in Enc!Scanned THEN Enc!ScanButton(s, k, k \in pressed) ELSE s
           f == [x \in (0 .. N) \X ScanState |-> step(x[1], x[2])]
<1>3. Enc!Scanned \subseteq Buttons
  BY DEF Enc!Scanned
<1>4. \A k, s : s \in ScanState => step(k, s) \in ScanState
  BY <1>3, ScanButtonTyped
<1> HIDE DEF N, step
<1>5. f \in [(0 .. N) \X ScanState -> ScanState]
  BY <1>4
<1>6. \A k \in 0 .. N, s \in ScanState : f[<<k, s>>] = step(k, s)
  OBVIOUS
<1> HIDE DEF f
<1>7. Enc!Panel(turn) \in ScanState /\ AllTold(Enc!Panel(turn), -1, pressed)
  BY FirstTold
<1>8. PICK g : Loops(g, N, ScanState, Enc!Panel(turn), f)
  BY <1>1, <1>5, <1>7, LoopExists
<1>9. g \in [-1 .. N -> ScanState] /\ g[-1] = Enc!Panel(turn) /\ \A k \in 0 .. N : g[k] = step(k, g[k - 1])
  <2>1. g \in [-1 .. N -> ScanState] /\ g[-1] = Enc!Panel(turn)
        /\ \A k \in 0 .. N : g[k] = f[<<k, g[k - 1]>>]
    BY <1>8 DEF Loops
  <2>2. \A k \in 0 .. N : k - 1 \in -1 .. N
    BY <1>1
  <2>3. \A k \in 0 .. N : g[k - 1] \in ScanState
    BY <2>1, <2>2
  <2>4. QED
    BY <1>6, <2>1, <2>3
<1>10. g = [k \in -1 .. N |-> IF k = -1 THEN Enc!Panel(turn)
                              ELSE IF k \in Enc!Scanned THEN Enc!ScanButton(g[k - 1], k, k \in pressed)
                              ELSE g[k - 1]]
  BY <1>9 DEF step
<1>11. after = [k \in -1 .. N |-> IF k = -1 THEN Enc!Panel(turn)
                                  ELSE IF k \in Enc!Scanned THEN Enc!ScanButton(after[k - 1], k, k \in pressed)
                                  ELSE after[k - 1]]
  BY <1>10
<1> HIDE DEF after
<1>12. after[-1] = Enc!Panel(turn) /\ \A k \in 0 .. N : after[k] = step(k, after[k - 1])
  <2>1. -1 \in -1 .. N /\ \A k \in 0 .. N : k \in -1 .. N /\ k # -1
    BY <1>1
  <2>2. \A k \in -1 .. N : after[k] = IF k = -1 THEN Enc!Panel(turn)
                                      ELSE IF k \in Enc!Scanned THEN Enc!ScanButton(after[k - 1], k, k \in pressed)
                                      ELSE after[k - 1]
    BY <1>11
  <2>3. QED
    BY <2>1, <2>2 DEF step
<1> DEFINE good == {k \in -1 .. N : after[k] \in ScanState /\ AllTold(after[k], k, pressed)}
<1>13. good = -1 .. N
  <2>1. good \in SUBSET (-1 .. N) /\ -1 \in good
    BY <1>1, <1>7, <1>12
  <2>2. ASSUME NEW k \in 0 .. N, k - 1 \in good PROVE k \in good
    <3>1. after[k - 1] \in ScanState /\ AllTold(after[k - 1], k - 1, pressed)
      BY <2>2
    <3>2. after[k] = step(k, after[k - 1])
      BY <1>12
    <3>3. after[k] \in ScanState
      BY <1>4, <3>1, <3>2
    <3>4. AllTold(after[k], k, pressed)
      <4>1. CASE k \in Enc!Scanned
        BY <1>3, <3>1, <3>2, <4>1, ScanButtonTold DEF step, EncInv
      <4>2. CASE k \notin Enc!Scanned
        BY <3>1, <3>2, <4>2, SkipTold DEF step
      <4>3. QED
        BY <4>1, <4>2
    <3>5. k \in -1 .. N
      OBVIOUS
    <3>6. QED
      BY <3>3, <3>4, <3>5
  <2> HIDE DEF good
  <2>3. QED
    BY <1>1, <2>1, <2>2, ButtonByButton
<1>14. N \in -1 .. N
  BY <1>1
<1>15. QED
  BY <1>1, <1>2, <1>13, <1>14 DEF N

(* What a scan leaves of each button, from the invariant of its loop.       *)
Afterwards(s, k, now, c) ==
    LET told == IF now /\ ~buttonPreviousState_[k] THEN c
                ELSE IF buttonPreviousState_[k] THEN history[k] \cup c ELSE {}
    IN  /\ now => (s.used[k] <=> told # {}) /\ "clicked" \notin told
        /\ "clicked" \in told => told = {"clicked"}
        /\ "long" \in c => now /\ "long" \notin history[k]
        /\ buttonPreviousState_[k] /\ ~now /\ buttonTimer_[k] > ClickTime => told # {}

LEMMA ToldAfterwards ==
  ASSUME EncInv, NEW k \in Buttons, NEW s, NEW now, NEW c, Told(s, k, now, c)
  PROVE  Afterwards(s, k, now, c)
<1> DEFINE h == history[k]
<1>1. /\ buttonPreviousState_[k] => (buttonUsedFromSomethingElse_[k] <=> h # {}) /\ "clicked" \notin h
      /\ "clicked" \in h => h = {"clicked"}
  BY DEF EncInv
<1> HIDE DEF h
<1>2. CASE now /\ ~buttonPreviousState_[k]
  BY <1>1, <1>2 DEF Told, Afterwards
<1>3. CASE now /\ buttonPreviousState_[k]
  <2> DEFINE told == h \cup c
  <2>1. told # {} <=> h # {} \/ c # {}
    OBVIOUS
  <2>2. "clicked" \notin told /\ ("long" \in c => h = {})
    BY <1>1, <1>3 DEF Told
  <2>3. (s.used[k] <=> told # {})
    BY <1>1, <1>3, <2>1 DEF Told
  <2> HIDE DEF told
  <2>4. QED
    BY <1>3, <2>2, <2>3 DEF Afterwards, h, told
<1>4. CASE ~now /\ buttonPreviousState_[k]
  <2> DEFINE told == h \cup c
  <2>1. "clicked" \in told => told = {"clicked"}
    BY <1>1, <1>4 DEF Told
  <2>2. buttonTimer_[k] > ClickTime => told # {}
    BY <1>1, <1>4 DEF Told
  <2>3. "long" \notin c
    BY <1>4 DEF Told
  <2> HIDE DEF told
  <2>4. QED
    BY <1>4, <2>1, <2>2, <2>3 DEF Afterwards, h, told
<1>5. CASE ~now /\ ~buttonPreviousState_[k]
  BY <1>5 DEF Told, Afterwards
<1>6. QED
  BY <1>2, <1>3, <1>4, <1>5

(* A step and what OneGesturePerPress says of it.                           *)
OneGesture ==
    /\ \A k \in Buttons :
         /\ "clicked" \in history'[k] => history'[k] = {"clicked"}
         /\ "long" \in history[k] => [kind |-> "long", button |-> k] \notin gestures'
         /\ buttonPreviousState_[k] /\ ~buttonPreviousState_'[k] /\ buttonTimer_[k] > ClickTime
              => history'[k] # {}
    /\ firstButtonDown_' # Enc!NOBODY => buttonPreviousState_'[firstButtonDown_']

(* What a scan of these inputs leaves, the encoder's own state apart.        *)
ScansTo(turn, pressed) ==
    LET s == Enc!Scan(turn, pressed)
    IN  /\ buttonTimer_' = s.timer /\ buttonUsedFromSomethingElse_' = s.used
        /\ firstButtonDown_' = s.first
        /\ buttonPreviousState_' =
             [k \in Buttons |-> IF k \in Enc!Scanned THEN k \in pressed ELSE buttonPreviousState_[k]]
        /\ gestures' = s.gestures
        /\ history' = [k \in Buttons |->
             IF k \in pressed /\ ~buttonPreviousState_[k] THEN Enc!Causes(s, k)
             ELSE IF buttonPreviousState_[k] THEN history[k] \cup Enc!Causes(s, k) ELSE {}]
        /\ UNCHANGED encoderPush

LEMMA CheckStatusKeeps ==
  ASSUME PanelOK, EncInv, Enc!CheckStatus
  PROVE  EncInv' /\ OneGesture
<1>1. PICK turn \in Turn : \E pressed \in SUBSET Enc!Scanned : ScansTo(turn, pressed)
  BY Zenon DEF Enc!CheckStatus, Turn, ScansTo
<1>2. PICK pressed \in SUBSET Enc!Scanned : ScansTo(turn, pressed)
  BY <1>1
<1> DEFINE s == Enc!Scan(turn, pressed)
           now(k) == IF k \in Enc!Scanned THEN k \in pressed ELSE buttonPreviousState_[k]
           told(k) == IF k \in pressed /\ ~buttonPreviousState_[k] THEN Enc!Causes(s, k)
                      ELSE IF buttonPreviousState_[k] THEN history[k] \cup Enc!Causes(s, k) ELSE {}
<1>3. s \in ScanState /\ \A k \in Buttons : Told(s, k, now(k), Enc!Causes(s, k))
  <2>1. /\ s \in ScanState /\ AllTold(s, Enc!Max(Buttons), pressed)
        /\ \A k \in Buttons : k <= Enc!Max(Buttons)
    BY ScanTold
  <2>2. \A k \in Buttons : Now(k, Enc!Max(Buttons), pressed) = now(k)
    BY <2>1, Zenon DEF Now
  <2> HIDE DEF s, now
  <2>3. QED
    BY <2>1, <2>2 DEF AllTold
<1> HIDE DEF s
<1>4. /\ buttonTimer_' = s.timer /\ buttonUsedFromSomethingElse_' = s.used /\ firstButtonDown_' = s.first
      /\ buttonPreviousState_' = [k \in Buttons |-> now(k)]
      /\ gestures' = s.gestures /\ history' = [k \in Buttons |-> told(k)] /\ encoderPush' = encoderPush
  BY <1>2 DEF s, ScansTo
<1>5. Enc!Scanned' = Enc!Scanned
  BY <1>4 DEF Enc!Scanned
<1>6. \A k \in Buttons : now(k) => k \in pressed /\ k \in Enc!Scanned
  BY DEF EncInv
<1>7. \A k \in Buttons : (k \in pressed /\ ~buttonPreviousState_[k]) <=> (now(k) /\ ~buttonPreviousState_[k])
  OBVIOUS
<1>8. ASSUME NEW k \in Buttons PROVE now(k) \in BOOLEAN
  <2>1. CASE k \in Enc!Scanned
    <3>1. (k \in pressed) = TRUE \/ (k \in pressed) = FALSE
      OBVIOUS
    <3>2. now(k) = TRUE \/ now(k) = FALSE
      BY <2>1, <3>1, Zenon
    <3>3. QED
      BY <3>2
  <2>2. CASE k \notin Enc!Scanned
    BY <2>2, Zenon DEF EncInv, EncTypes
  <2>3. QED
    BY <2>1, <2>2
<1>9. \A k \in Buttons : buttonPreviousState_'[k] = now(k) /\ history'[k] = told(k)
  BY <1>4
<1>10. ASSUME NEW k \in Buttons
       PROVE  /\ now(k) => (s.used[k] <=> told(k) # {}) /\ "clicked" \notin told(k)
              /\ "clicked" \in told(k) => told(k) = {"clicked"}
              /\ "long" \in Enc!Causes(s, k) => now(k) /\ "long" \notin history[k]
              /\ buttonPreviousState_[k] /\ ~now(k) /\ buttonTimer_[k] > ClickTime => told(k) # {}
  <2>1. Afterwards(s, k, now(k), Enc!Causes(s, k))
    BY <1>3, ToldAfterwards
  <2>2. told(k) = IF now(k) /\ ~buttonPreviousState_[k] THEN Enc!Causes(s, k)
                  ELSE IF buttonPreviousState_[k] THEN history[k] \cup Enc!Causes(s, k) ELSE {}
    BY <1>7
  <2> HIDE DEF now, told
  <2>3. QED
    BY <2>1, <2>2, Zenon DEF Afterwards
<1>11. \A k \in Buttons : s.first = k => now(k)
  BY <1>3 DEF Told
<1>12. \A k \in Buttons : Long(k) \in s.gestures => "long" \in Enc!Causes(s, k)
  <2>1. \A k : Long(k).kind = "long" /\ About(Long(k), k)
    BY DEF Long, About
  <2>2. QED
    BY <2>1, CausesIsCaused, CausedIn
<1>13. buttonPreviousState_' \in [Buttons -> BOOLEAN]
  <2> HIDE DEF now
  <2>1. QED
    BY <1>4, <1>8
<1> HIDE DEF now, told
<1>14. EncTypes'
  BY <1>3, <1>4, <1>13 DEF EncTypes, ScanState
<1>15. firstButtonDown_' # Enc!NOBODY => buttonPreviousState_'[firstButtonDown_']
  BY <1>3, <1>4, <1>9, <1>11 DEF ScanState
<1>16. ASSUME NEW k \in Buttons
       PROVE  /\ buttonPreviousState_'[k] =>
                   /\ k \in Enc!Scanned'
                   /\ buttonUsedFromSomethingElse_'[k] <=> history'[k] # {}
                   /\ "clicked" \notin history'[k]
              /\ "clicked" \in history'[k] => history'[k] = {"clicked"}
              /\ Long(k) \in gestures' => buttonPreviousState_'[k]
  BY <1>4, <1>5, <1>6, <1>9, <1>10, <1>12
<1>17. OneGesture
  <2>1. ASSUME NEW k \in Buttons
        PROVE  /\ "clicked" \in history'[k] => history'[k] = {"clicked"}
               /\ "long" \in history[k] => Long(k) \notin gestures'
               /\ buttonPreviousState_[k] /\ ~buttonPreviousState_'[k] /\ buttonTimer_[k] > ClickTime
                    => history'[k] # {}
    BY <1>4, <1>9, <1>10, <1>12
  <2>2. QED
    BY <1>15, <2>1 DEF OneGesture, Long
<1>18. QED
  BY <1>14, <1>15, <1>16, <1>17 DEF EncInv

LEMMA SetEncoderPushKeeps ==
  ASSUME EncInv, ~PushChanges, Enc!SetEncoderPush
  PROVE  EncInv' /\ OneGesture
<1>1. /\ \A k \in Buttons : ~buttonPreviousState_[k]
      /\ UNCHANGED <<buttonPreviousState_, buttonTimer_, buttonUsedFromSomethingElse_,
                     firstButtonDown_, gestures, history>>
  BY DEF Enc!SetEncoderPush, Enc!buttonVars
<1>2. firstButtonDown_ = Enc!NOBODY
  BY <1>1 DEF EncInv, EncTypes
<1>3. EncTypes'
  BY <1>1 DEF EncInv, EncTypes
<1>4. \A k \in Buttons : Long(k) \notin gestures
  BY <1>1 DEF EncInv
<1>5. EncInv'
  BY <1>1, <1>2, <1>3 DEF EncInv
<1>6. OneGesture
  BY <1>1, <1>2, <1>4 DEF EncInv, OneGesture, Long
<1>7. QED
  BY <1>5, <1>6

LEMMA EncInit ==
  ASSUME PanelOK, Enc!Init
  PROVE  EncInv
<1>1. EncTypes
  BY DEF PanelOK, Enc!Init, EncTypes, Times
<1>2. firstButtonDown_ = Enc!NOBODY /\ \A k \in Buttons : ~buttonPreviousState_[k] /\ history[k] = {}
  BY DEF Enc!Init
<1>3. gestures = {}
  BY DEF Enc!Init
<1>4. QED
  BY <1>1, <1>2, <1>3 DEF EncInv

LEMMA OneGestureAlways ==
  ASSUME PanelOK, ~PushChanges
  PROVE  Enc!Spec => [][OneGesture]_Enc!vars
<1>1. EncInv /\ Enc!Next => EncInv' /\ OneGesture
  BY CheckStatusKeeps, SetEncoderPushKeeps DEF Enc!Next
<1>2. EncInv /\ UNCHANGED Enc!vars => EncInv'
  BY DEF EncInv, EncTypes, Enc!Scanned, Enc!vars, Enc!buttonVars
<1>3. EncInv /\ [Enc!Next]_Enc!vars => EncInv' /\ [OneGesture]_Enc!vars
  BY <1>1, <1>2
<1>4. Enc!Init => EncInv
  BY EncInit
<1>5. QED
  BY <1>3, <1>4, PTL DEF Enc!Spec

(* A press is one gesture, whatever is pressed, held, turned and released   *)
(* meanwhile (Encoders::checkStatus); for every set of buttons and both     *)
(* times, if the setting of the encoders only changes while nothing is down.*)
THEOREM EncOneGesturePerPress ==
  ASSUME PanelOK, ~PushChanges
  PROVE  Enc!Spec => Enc!OneGesturePerPress
<1>1. [][OneGesture]_Enc!vars => Enc!OneGesturePerPress
  BY PTL DEF OneGesture, Enc!OneGesturePerPress
<1>2. QED
  BY <1>1, OneGestureAlways
=============================================================================
