----------------------------- MODULE TouchInput -----------------------------
(***************************************************************************)
(* Touch and pad input of the Switch port of the game client: PollInput    *)
(* (switch_input.cpp), the touch HUD (TouchControlsUI), and the turn of    *)
(* NewApp::Run they are part of.  Every PeekMessage polls the input first, *)
(* which gives each finger to the HUD or to the mouse and appends mouse    *)
(* messages to the queue, and then takes one message out; only a turn      *)
(* that finds the queue empty runs the frame, FrameMove of the HUD in it.  *)
(*                                                                         *)
(* A position on the screen is the control that is drawn there.  A finger  *)
(* stands for its slot of g_touch: there are 16 and the screen reports no  *)
(* more fingers.  Left out: the menu and camera buttons of the HUD, the    *)
(* other buttons of the pad and the keyboard they open, the right mouse    *)
(* button, the programme in the background, and a character that has       *)
(* learned no skill.                                                       *)
(***************************************************************************)
EXTENDS Integers, Sequences

CONSTANTS
  Fingers,     \* the fingers (TouchSlot)
  Skills,      \* the skill buttons of the HUD, as positions
  Simple,      \* its attack and look buttons
  MaxInputs,   \* changes of the fingers and the pad (bound)
  MaxPackets,  \* messages of the server (bound)
  MaxMoves     \* messages that wait when another move is left out (bound)

Buttons == Skills \union Simple

\* Away: not on the screen.  "cell": where the skill picker draws its cells
\* while it is open; "ui": on a native control of the game.
Away   == "away"
Places == Buttons \union {"world", "ui", "toggle", "cell"}

Nobody  == "nobody"
NoSkill == "no skill"

ASSUME TouchAssumption ==
  /\ Nobody \notin Fingers /\ NoSkill \notin Skills
  /\ Skills \intersect Simple = {}
  /\ Buttons \intersect
       {Away, "world", "ui", "toggle", "cell", "back", "none"} = {}
  /\ MaxInputs \in Nat /\ MaxPackets \in Nat /\ MaxMoves \in Nat \ {0}

VARIABLES
  touch,    \* where each finger is on the screen
  stick,    \* the left stick is deflected
  buttonA,  \* A or ZR is held
  scene,    \* the current scene is the field, the field without the
            \* character of the player (m_pMyHuman), or another one
  panel,    \* a native panel of the field is open, or an item on the cursor
  hud,      \* TouchControlsUI: see HudType
  at,       \* lastX, lastY of each active slot, Away for a free one
  owner,    \* who has the slot: the HUD, the mouse (g_mouseFinger) or nobody
  delay,    \* g_touchPressDelay
  release,  \* g_touchReleasePending
  lmb,      \* g_lmbDown
  padMoving,  \* g_padMoving
  dirMoving,  \* m_bDirMoving
  pc,       \* where the main thread is in its turn
  todo,     \* the fingers of hidGetTouchScreenStates not looked at yet
  queue,    \* g_queue
  inputs, packets,  \* the bounds
  owed,     \* history: the press of the last mouse finger is not injected yet
  walking   \* history: the last step of the stick in this scene was no stop

envVars  == <<touch, stick, buttonA, inputs, packets>>
gameVars == <<scene, panel>>
padVars  == <<padMoving, dirMoving, walking>>
tapVars  == <<delay, release, owed>>
vars == <<envVars, gameVars, hud, at, owner, tapVars, lmb, padVars, pc, todo,
          queue>>

HudType == [overlay : BOOLEAN,   \* m_bOverlayOn
            blocked : BOOLEAN,   \* m_bUiBlocked
            picker  : Skills \union {NoSkill},  \* m_bPickerOpen, m_equipSlot
            held    : [Buttons -> Fingers \union {Nobody}],  \* m_...Finger
            fired   : [Skills -> BOOLEAN]]      \* m_bSkillFired

\* At rest, in a scene and with the HUD switched on or off.
Init ==
  /\ touch = [f \in Fingers |-> Away] /\ stick = FALSE /\ buttonA = FALSE
  /\ scene \in {"field", "other"} /\ panel = FALSE
  /\ \E on \in BOOLEAN :
       hud = [overlay |-> on, blocked |-> FALSE, picker |-> NoSkill,
              held |-> [b \in Buttons |-> Nobody],
              fired |-> [k \in Skills |-> FALSE]]
  /\ at = [f \in Fingers |-> Away] /\ owner = [f \in Fingers |-> "none"]
  /\ delay = 0 /\ release = FALSE /\ lmb = FALSE
  /\ padMoving = FALSE /\ dirMoving = FALSE
  /\ pc = "loop" /\ todo = {} /\ queue = <<>> /\ inputs = 0 /\ packets = 0
  /\ owed = FALSE /\ walking = FALSE

-----------------------------------------------------------------------------
(* The player and the server, between two turns.                           *)

MoveFinger(f, p) ==
  /\ pc = "loop" /\ inputs < MaxInputs /\ touch[f] # p
  /\ touch' = [touch EXCEPT ![f] = p] /\ inputs' = inputs + 1
  /\ UNCHANGED <<stick, buttonA, packets, gameVars, hud, at, owner, tapVars,
                 lmb, padVars, pc, todo, queue>>

UsePad ==
  /\ pc = "loop" /\ inputs < MaxInputs
  /\ \/ stick' = ~stick /\ UNCHANGED buttonA
     \/ buttonA' = ~buttonA /\ UNCHANGED stick
  /\ inputs' = inputs + 1
  /\ UNCHANGED <<touch, packets, gameVars, hud, at, owner, tapVars, lmb,
                 padVars, pc, todo, queue>>

PacketArrives ==
  /\ pc = "loop" /\ packets < MaxPackets
  /\ packets' = packets + 1 /\ queue' = Append(queue, "packet")
  /\ UNCHANGED <<touch, stick, buttonA, inputs, gameVars, hud, at, owner,
                 tapVars, lmb, padVars, pc, todo>>

-----------------------------------------------------------------------------
(* The touch HUD.  Each operator gives the HUD after the call.             *)

Scenes == {"field", "bare field", "other"}

\* The HUD asks only for the type of the scene; PollInput also for the
\* character (WYD_Linux_InFieldScene).
FieldScene == scene \in {"field", "bare field"}
InField    == scene = "field"

IsGameUiBlocking == FieldScene /\ panel

HitTest(h, p) ==
  IF p = "toggle" THEN "toggle"
  ELSE IF ~h.overlay \/ h.blocked THEN "none"
  ELSE IF h.picker # NoSkill THEN IF p = "cell" THEN "cell" ELSE "back"
  ELSE IF p \in Buttons THEN p ELSE "none"

ClearPointer(h, f) ==
  [h EXCEPT !.held = [b \in Buttons |-> IF @[b] = f THEN Nobody ELSE @[b]]]

CloseSkillPicker(h) == [h EXCEPT !.picker = NoSkill]

Press(h, f, b) ==
  [h EXCEPT !.held[b] = f,
            !.fired   = [k \in Skills |-> k # b /\ @[k]]]

OnPointerDown(h, f, z) ==
  CASE z = "toggle"   -> CloseSkillPicker(ClearPointer(
                           [h EXCEPT !.overlay = ~h.overlay], f))
    [] z = "cell"     -> CloseSkillPicker(h)
    [] z \in Buttons  -> Press(h, f, z)
    [] z \in {"none", "back"} -> h

\* A long press opens the picker as soon as the finger is seen again.
OnPointerMove(h, f) ==
  IF ~h.overlay THEN {h}
  ELSE IF h.blocked \/ IsGameUiBlocking THEN {ClearPointer(h, f)}
  ELSE {h} \union {[h EXCEPT !.fired[k] = TRUE, !.picker = k] :
                     k \in {s \in Skills : h.held[s] = f /\ ~h.fired[s]}}

\* Whatever it does with the picker, the finger holds no button afterwards.
\* A skill whose press was short is fired, otherwise its picker is opened.
Release(h, f, p) ==
  LET free == ClearPointer(h, f)
      mine == {k \in Skills : h.held[k] = f}
      onPicker == p = "cell" \/ HitTest(h, p) = "back"
  IN  IF h.picker # NoSkill /\ (mine # {} \/ onPicker)
      THEN {IF p = "cell" THEN free ELSE CloseSkillPicker(free)}
      ELSE {free} \union {[free EXCEPT !.picker = k] :
                            k \in {s \in mine : ~h.fired[s]}}

\* Fault: while a panel blocks the HUD the release is not looked at.
UpIgnoredWhenBlocked(h, f, p) ==
  IF h.blocked \/ IsGameUiBlocking THEN {h} ELSE Release(h, f, p)

OnPointerUp(h, f, p) ==
  IF h.blocked \/ IsGameUiBlocking THEN {ClearPointer(h, f)}
  ELSE Release(h, f, p)

ResetTransientInput(h) ==
  [h EXCEPT !.picker = NoSkill, !.held = [b \in Buttons |-> Nobody],
            !.fired = [k \in Skills |-> FALSE]]

FrameMove(h) ==
  IF ~FieldScene \/ h.blocked = IsGameUiBlocking THEN h
  ELSE [ResetTransientInput(h) EXCEPT !.blocked = IsGameUiBlocking]

-----------------------------------------------------------------------------
(* PollInput: the sticks, the fingers one by one, the buttons.             *)

Mouse == [lmb |-> lmb, queue |-> queue]

\* Out of the field a finger and the stick append two moves a poll, and the
\* queue grows for ever; the bound leaves out those behind MaxMoves messages.
InjectMouseMove(m) ==
  [m EXCEPT !.queue = IF Len(@) < MaxMoves THEN Append(@, "move") ELSE @]

\* Fault: the state of the button is not compared.
SetMouseAgain(m, down) ==
  [lmb |-> down, queue |-> Append(m.queue, IF down THEN "down" ELSE "up")]

SetMouse(m, down) ==
  IF m.lmb = down THEN m
  ELSE [lmb |-> down, queue |-> Append(m.queue, IF down THEN "down" ELSE "up")]

IsMouse(m) == lmb' = m.lmb /\ queue' = m.queue

\* PadMove gives a step order at most every 100 ms.
PadMove ==
  /\ stick /\ padMoving' = TRUE
  /\ \/ dirMoving' = TRUE /\ walking' = TRUE
     \/ UNCHANGED <<dirMoving, walking>>

PadStop ==
  /\ ~stick /\ padMoving' = FALSE
  /\ dirMoving' = (dirMoving /\ ~padMoving)
  /\ walking' = (walking /\ ~(dirMoving /\ padMoving))

MapSticks ==
  /\ pc = "loop"
  /\ IF InField
     THEN (PadMove \/ PadStop) /\ UNCHANGED queue
     ELSE /\ padMoving' = FALSE /\ UNCHANGED <<dirMoving, walking>>
          /\ queue' = IF stick THEN InjectMouseMove(Mouse).queue ELSE queue
  /\ pc' = "touch" /\ todo' = {f \in Fingers : touch[f] # Away}
  /\ UNCHANGED <<envVars, gameVars, hud, at, owner, tapVars, lmb>>

NoMouseFinger == \A f \in Fingers : owner[f] # "mouse"
HitsGameUi(p) == FieldScene /\ p = "ui"

\* Fault: a longer delay.
LongerPressDelay == 3

kTouchPressDelayFrames == 2

\* The finger becomes the mouse: the cursor goes there at once, the press
\* waits unless the finger is on a native control.
TakeMouse(f) ==
  LET m == SetMouse(InjectMouseMove(Mouse), FALSE)
  IN  /\ owner' = [owner EXCEPT ![f] = "mouse"]
      /\ release' = FALSE
      /\ IF HitsGameUi(touch[f])
         THEN delay' = 0 /\ owed' = FALSE /\ IsMouse(SetMouse(m, TRUE))
         ELSE delay' = kTouchPressDelayFrames /\ owed' = TRUE /\ IsMouse(m)

FingerDown(f) ==
  /\ pc = "touch" /\ f \in todo /\ at[f] = Away
  /\ LET z == HitTest(hud, touch[f])
     IN  /\ hud' = OnPointerDown(hud, f, z)
         /\ \/ /\ z # "none"
               /\ owner' = [owner EXCEPT ![f] = "hud"]
               /\ UNCHANGED <<tapVars, lmb, queue>>
            \/ z = "none" /\ NoMouseFinger /\ TakeMouse(f)
            \/ /\ z = "none" /\ ~NoMouseFinger
               /\ UNCHANGED <<owner, tapVars, lmb, queue>>
  /\ at' = [at EXCEPT ![f] = touch[f]]
  /\ todo' = todo \ {f}
  /\ UNCHANGED <<envVars, gameVars, padVars, pc>>

FingerMove(f) ==
  /\ pc = "touch" /\ f \in todo /\ at[f] # Away
  /\ hud' \in IF owner[f] = "hud" THEN OnPointerMove(hud, f) ELSE {hud}
  /\ queue' = IF owner[f] = "mouse" THEN InjectMouseMove(Mouse).queue
              ELSE queue
  /\ at' = [at EXCEPT ![f] = touch[f]]
  /\ todo' = todo \ {f}
  /\ UNCHANGED <<envVars, gameVars, owner, tapVars, lmb, padVars, pc>>

Lifted(f) == touch[f] = Away /\ at[f] # Away

FingerUp(f) ==
  /\ pc = "touch" /\ todo = {} /\ Lifted(f)
  /\ hud' \in IF owner[f] = "hud" THEN OnPointerUp(hud, f, at[f]) ELSE {hud}
  /\ IF owner[f] = "mouse" /\ delay > 0
     THEN release' = TRUE /\ UNCHANGED <<lmb, queue>>
     ELSE /\ IsMouse(IF owner[f] = "mouse" THEN SetMouse(Mouse, FALSE)
                     ELSE Mouse)
          /\ UNCHANGED release
  /\ owner' = [owner EXCEPT ![f] = "none"]
  /\ at' = [at EXCEPT ![f] = Away]
  /\ UNCHANGED <<envVars, gameVars, delay, owed, padVars, pc, todo>>

\* The end of MapTouch: the delayed press, and the release it kept waiting.
PressDue == delay = 1
PressLate(m) ==
  IF ~PressDue THEN m
  ELSE IF release THEN SetMouse(SetMouse(m, TRUE), FALSE) ELSE SetMouse(m, TRUE)

\* Fault: in the field the buttons leave the mouse as it is.
ButtonsOutOfField(m) ==
  IF NoMouseFinger /\ ~InField THEN SetMouse(m, buttonA) ELSE m

\* MapButtons: the buttons have the left mouse button while no finger is the
\* mouse; in the field none of them presses it.
ButtonsOnMouse(m) ==
  IF NoMouseFinger THEN SetMouse(m, ~InField /\ buttonA) ELSE m

MapButtons ==
  /\ pc = "touch" /\ todo = {} /\ \A f \in Fingers : ~Lifted(f)
  /\ IsMouse(ButtonsOnMouse(PressLate(Mouse)))
  /\ delay' = IF delay > 0 THEN delay - 1 ELSE 0
  /\ release' = (release /\ ~PressDue)
  /\ owed' = (owed /\ ~PressDue)
  /\ pc' = "handle"
  /\ UNCHANGED <<envVars, gameVars, hud, at, owner, padVars, todo>>

-----------------------------------------------------------------------------
(* The rest of the turn.                                                   *)

\* A packet may bring another scene, or take the character of the player out
\* of the field; a field gets its character when it is initialised.
NextScene ==
  \/ scene' = (IF FieldScene THEN "other" ELSE "field") /\ panel' = FALSE
  \/ InField /\ scene' = "bare field" /\ UNCHANGED panel

\* A click or a packet may open or close a panel of the field; a packet may
\* also change the scene.
HandleMessage ==
  /\ pc = "handle" /\ queue # <<>>
  /\ queue' = Tail(queue)
  /\ CASE Head(queue) = "move" -> UNCHANGED <<gameVars, walking>>
       [] Head(queue) \in {"down", "up"} ->
            /\ panel' \in IF FieldScene THEN BOOLEAN ELSE {FALSE}
            /\ UNCHANGED <<scene, walking>>
       [] Head(queue) = "packet" ->
            \/ FieldScene /\ panel' \in BOOLEAN
                 /\ UNCHANGED <<scene, walking>>
            \/ NextScene /\ walking' = FALSE
  /\ pc' = "loop"
  /\ UNCHANGED <<envVars, hud, at, owner, tapVars, lmb, padMoving, dirMoving,
                 todo>>

Frame ==
  /\ pc = "handle" /\ queue = <<>>
  /\ hud' = FrameMove(hud)
  /\ pc' = "loop"
  /\ UNCHANGED <<envVars, gameVars, at, owner, tapVars, lmb, padVars, todo,
                 queue>>

Turn ==
  \/ MapSticks
  \/ \E f \in Fingers : FingerDown(f) \/ FingerMove(f) \/ FingerUp(f)
  \/ MapButtons \/ HandleMessage \/ Frame

Next ==
  \/ \E f \in Fingers, p \in Places \union {Away} : MoveFinger(f, p)
  \/ UsePad
  \/ PacketArrives
  \/ Turn

\* NewApp::Run takes one turn after another.
Fairness == WF_vars(Turn)

Spec == Init /\ [][Next]_vars /\ Fairness

-----------------------------------------------------------------------------
TypeOK ==
  /\ touch \in [Fingers -> Places \union {Away}]
  /\ stick \in BOOLEAN /\ buttonA \in BOOLEAN
  /\ scene \in Scenes /\ panel \in BOOLEAN
  /\ hud \in HudType
  /\ at \in [Fingers -> Places \union {Away}]
  /\ owner \in [Fingers -> {"hud", "mouse", "none"}]
  /\ delay \in 0 .. kTouchPressDelayFrames
  /\ release \in BOOLEAN /\ lmb \in BOOLEAN
  /\ padMoving \in BOOLEAN /\ dirMoving \in BOOLEAN
  /\ pc \in {"loop", "touch", "handle"} /\ todo \subseteq Fingers
  /\ queue \in Seq({"move", "down", "up", "packet"})
  /\ inputs \in 0 .. MaxInputs /\ packets \in 0 .. MaxPackets
  /\ owed \in BOOLEAN /\ walking \in BOOLEAN

Polled == pc # "touch"

\* A button of the HUD is held only by a finger that the HUD was given and
\* that was still on the screen at the last poll, and while the HUD is
\* blocked by a native panel nothing is held and no picker is open: neither
\* a finger lifted over a panel nor a change of scene leaves a button behind.
HudHolds ==
  /\ \A b \in Buttons : hud.held[b] # Nobody =>
       LET f == hud.held[b] IN owner[f] = "hud" /\ at[f] # Away
  /\ hud.blocked =>
       hud.picker = NoSkill /\ \A b \in Buttons : hud.held[b] = Nobody

\* Every finger that became the mouse has its press injected before another
\* one can become the mouse, and no release waits without a finger: a tap
\* shorter than the delay is not lost.
TapsNotLost == Polled /\ NoMouseFinger => ~owed /\ ~release /\ delay = 0

\* Nothing goes on after the player lets go: after a poll the left button is
\* down only for a finger that is the mouse or, without a character in the
\* field, for a held button, and the character walks by the stick only while
\* it is deflected.
NothingStuck ==
  pc = "handle" =>
    /\ lmb => ~NoMouseFinger \/ (~InField /\ buttonA)
    /\ walking /\ InField => stick

\* The game runs its frames for ever, unless from some point on a finger is
\* always the mouse or, without a character in the field, the stick always
\* moves the cursor: these append a message at every poll, and a turn takes
\* only one out.
MovesCursor == ~NoMouseFinger \/ (~InField /\ stick)
FramesGoOn  == []<><<Frame>>_vars \/ <>[]MovesCursor

=============================================================================
