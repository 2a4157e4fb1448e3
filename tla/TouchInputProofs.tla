-------------------------- MODULE TouchInputProofs --------------------------
(***************************************************************************)
(* For any number of fingers and skill buttons: no button of the HUD stays *)
(* held by a finger that is gone, no tap is lost, nothing stays pressed.   *)
(***************************************************************************)
EXTENDS TouchInput, TLAPS

\* Nothing is held or open on a HUD that is blocked.
Empty(h) == \A b \in Buttons : h.held[b] = Nobody
Clear(h) == h.blocked => h.picker = NoSkill /\ Empty(h)

\* Who holds a button was given to the HUD and is on the screen.
HoldersKnown ==
  \A b \in Buttons : \A f \in Fingers :
    hud.held[b] = f => owner[f] = "hud" /\ at[f] # Away

\* A slot that is free has no owner.
FreeSlots == \A f \in Fingers : at[f] = Away => owner[f] = "none"

\* The fingers still to be looked at are on the screen.
TodoOnScreen ==
  /\ Polled => todo = {}
  /\ \A f \in todo : touch[f] # Away

\* A press that is owed, or a release that waits, has its delay running; a
\* delay that has just begun belongs to a finger that is still there.
DelayRuns ==
  /\ owed \/ release => delay # 0
  /\ Polled => delay # 2 /\ (NoMouseFinger => delay = 0)
  /\ delay = 2 => \E f \in Fingers : owner[f] = "mouse" /\ touch[f] # Away

\* The character walks by the stick only in the field and with both flags
\* that lead to PadStop up.
WalkingIsKnown ==
  /\ walking => scene = "field" /\ padMoving /\ dirMoving
  /\ walking /\ pc # "loop" => stick

ButtonIsKnown ==
  pc = "handle" /\ lmb => ~NoMouseFinger \/ (scene # "field" /\ buttonA)

\* The parts of TypeOK.
EnvTyped ==
  /\ touch \in [Fingers -> Places \union {Away}]
  /\ stick \in BOOLEAN /\ buttonA \in BOOLEAN
  /\ inputs \in 0 .. MaxInputs /\ packets \in 0 .. MaxPackets
GameTyped == scene \in Scenes /\ panel \in BOOLEAN
SlotsTyped ==
  /\ hud \in HudType
  /\ at \in [Fingers -> Places \union {Away}]
  /\ owner \in [Fingers -> {"hud", "mouse", "none"}]
TapTyped == delay \in {0, 1, 2} /\ release \in BOOLEAN /\ owed \in BOOLEAN
PadTyped == padMoving \in BOOLEAN /\ dirMoving \in BOOLEAN /\ walking \in BOOLEAN
PcTyped == pc \in {"loop", "touch", "handle"} /\ todo \subseteq Fingers
Messages  == {"move", "down", "up", "packet"}
MsgTyped == lmb \in BOOLEAN /\ queue \in Seq(Messages)

Rest == /\ TodoOnScreen /\ FreeSlots /\ HoldersKnown /\ Clear(hud)
        /\ DelayRuns /\ WalkingIsKnown /\ ButtonIsKnown
IInv == TypeOK /\ Rest

-----------------------------------------------------------------------------
(* The operators of the HUD: what they give and what they leave alone.     *)

\* h holds what g holds, but for the finger f, which holds nothing.
Without(h, g, f) ==
  \A b \in Buttons : h.held[b] # f /\ h.held[b] \in {g.held[b], Nobody}

\* The finger f holds nothing in ClearPointer, and nobody else loses a button.
LEMMA ClearPointerFacts ==
  ASSUME NEW h \in HudType, NEW f \in Fingers
  PROVE  /\ ClearPointer(h, f) \in HudType
         /\ Without(ClearPointer(h, f), h, f)
         /\ ClearPointer(h, f).picker = h.picker
         /\ ClearPointer(h, f).blocked = h.blocked
<1> DEFINE free == [b \in Buttons |-> IF h.held[b] = f THEN Nobody ELSE h.held[b]]
<1>1. f # Nobody
  BY TouchAssumption
<1>2. ClearPointer(h, f) = [h EXCEPT !.held = free]
  BY DEF ClearPointer, HudType
<1>3. free \in [Buttons -> Fingers \union {Nobody}]
  BY DEF HudType
<1>4. \A b \in Buttons : free[b] # f /\ free[b] \in {h.held[b], Nobody}
  BY <1>1
<1> HIDE DEF free
<1> QED
  BY <1>2, <1>3, <1>4 DEF HudType, Without

LEMMA CloseSkillPickerFacts ==
  ASSUME NEW h \in HudType
  PROVE  /\ CloseSkillPicker(h) \in HudType
         /\ CloseSkillPicker(h).held = h.held
         /\ CloseSkillPicker(h).blocked = h.blocked
         /\ CloseSkillPicker(h).picker = NoSkill
BY DEF CloseSkillPicker, HudType

LEMMA OpenFacts ==
  ASSUME NEW h \in HudType, NEW k \in Skills
  PROVE  /\ [h EXCEPT !.picker = k] \in HudType
         /\ [h EXCEPT !.picker = k].held = h.held
         /\ [h EXCEPT !.picker = k].blocked = h.blocked
         /\ [h EXCEPT !.fired[k] = TRUE, !.picker = k] \in HudType
         /\ [h EXCEPT !.fired[k] = TRUE, !.picker = k].held = h.held
         /\ [h EXCEPT !.fired[k] = TRUE, !.picker = k].blocked = h.blocked
BY DEF HudType

LEMMA PressFacts ==
  ASSUME NEW h \in HudType, NEW f \in Fingers, NEW b \in Buttons
  PROVE  /\ Press(h, f, b) \in HudType
         /\ \A c \in Buttons : Press(h, f, b).held[c] \in {h.held[c], f}
         /\ Press(h, f, b).blocked = h.blocked
<1> DEFINE held  == [h.held EXCEPT ![b] = f]
           fired == [k \in Skills |-> k # b /\ h.fired[k]]
<1>1. fired \in [Skills -> BOOLEAN]
  BY DEF HudType
<1>2. /\ held \in [Buttons -> Fingers \union {Nobody}]
      /\ \A c \in Buttons : held[c] \in {h.held[c], f}
  BY DEF HudType
<1>3. Press(h, f, b) = [h EXCEPT !.held = held, !.fired = fired]
  BY DEF Press, HudType
<1> HIDE DEF held, fired
<1>4. LET d == [h EXCEPT !.held = held, !.fired = fired]
      IN  d \in HudType /\ d.held = held /\ d.blocked = h.blocked
  BY <1>1, <1>2 DEF HudType
<1> QED
  BY <1>2, <1>3, <1>4

LEMMA ResetFacts ==
  ASSUME NEW h \in HudType
  PROVE  /\ ResetTransientInput(h) \in HudType
         /\ Empty(ResetTransientInput(h))
         /\ ResetTransientInput(h).picker = NoSkill
<1> DEFINE none == [b \in Buttons |-> Nobody]
           unfired == [k \in Skills |-> FALSE]
<1>1. none \in [Buttons -> Fingers \union {Nobody}]
      /\ \A b \in Buttons : none[b] = Nobody
  OBVIOUS
<1>2. unfired \in [Skills -> BOOLEAN]
  OBVIOUS
<1>3. ResetTransientInput(h) =
        [h EXCEPT !.picker = NoSkill, !.held = none, !.fired = unfired]
  BY DEF ResetTransientInput
<1> HIDE DEF none, unfired
<1> QED
  BY <1>1, <1>2, <1>3 DEF HudType, Empty

\* What the calls of a finger do to the HUD, as far as HudHolds is concerned.
LEMMA DownFacts ==
  ASSUME NEW h \in HudType, NEW f \in Fingers, NEW p \in Places, Clear(h)
  PROVE  LET z == HitTest(h, p)
             d == OnPointerDown(h, f, z)
         IN  /\ d \in HudType
             /\ \A b \in Buttons : d.held[b] \in {h.held[b], f, Nobody}
             /\ z = "none" => d = h
             /\ Clear(d)
<1> DEFINE z == HitTest(h, p)
           d == OnPointerDown(h, f, z)
<1>1. z \in {"toggle", "cell", "back", "none"} \union Buttons
  BY DEF HitTest
<1>2. h.blocked => z \in {"toggle", "none"}
  BY DEF HitTest
<1>3. /\ Buttons \intersect {"toggle", "cell", "back", "none"} = {}
      /\ Skills \subseteq Buttons
  BY TouchAssumption DEF Buttons
<1> HIDE DEF z
<1>4. CASE z = "toggle"
  <2> DEFINE t == [h EXCEPT !.overlay = ~h.overlay]
             c == ClearPointer(t, f)
  <2>1. d = CloseSkillPicker(c)
    BY <1>3, <1>4 DEF OnPointerDown
  <2>2. t \in HudType /\ t.held = h.held /\ t.blocked = h.blocked
    BY DEF HudType
  <2> HIDE DEF t
  <2>3. /\ c \in HudType /\ Without(c, t, f) /\ c.blocked = t.blocked
    BY <2>2, ClearPointerFacts
  <2> HIDE DEF c
  <2>4. d \in HudType /\ d.held = c.held /\ d.blocked = c.blocked
        /\ d.picker = NoSkill
    BY <2>1, <2>3, CloseSkillPickerFacts
  <2>5. \A b \in Buttons : d.held[b] \in {h.held[b], Nobody}
    BY <2>2, <2>3, <2>4 DEF Without
  <2>6. Clear(d)
    BY <2>2, <2>3, <2>4, <2>5 DEF Clear, Empty
  <2> HIDE DEF d
  <2> QED
    BY <1>4, <2>4, <2>5, <2>6 DEF z, d
<1>5. CASE z = "cell"
  <2>1. d = CloseSkillPicker(h) /\ ~h.blocked
    BY <1>2, <1>3, <1>5 DEF OnPointerDown
  <2>2. d \in HudType /\ d.held = h.held /\ d.blocked = h.blocked
    BY <2>1, CloseSkillPickerFacts
  <2> HIDE DEF d
  <2> QED
    BY <1>5, <2>1, <2>2 DEF z, d, Clear
<1>6. CASE z \in Buttons
  <2>1. d = Press(h, f, z) /\ ~h.blocked
    BY <1>2, <1>3, <1>6 DEF OnPointerDown
  <2>2. /\ d \in HudType /\ d.blocked = h.blocked
        /\ \A b \in Buttons : d.held[b] \in {h.held[b], f}
    BY <1>6, <2>1, PressFacts
  <2> HIDE DEF d
  <2> QED
    BY <1>3, <1>6, <2>1, <2>2 DEF z, d, Clear
<1>7. CASE z \in {"back", "none"}
  <2>1. d = h
    BY <1>3, <1>7 DEF OnPointerDown
  <2> HIDE DEF d
  <2> QED
    BY <2>1 DEF z, d
<1> QED
  BY <1>1, <1>4, <1>5, <1>6, <1>7

\* After a move the finger holds what it held; a picker may have opened, but
\* not on a HUD that is blocked.
LEMMA MoveFacts ==
  ASSUME NEW h \in HudType, NEW f \in Fingers, Clear(h),
         NEW d \in OnPointerMove(h, f)
  PROVE  /\ d \in HudType
         /\ \A b \in Buttons : d.held[b] \in {h.held[b], Nobody}
         /\ Clear(d)
<1>1. CASE d = h
  BY <1>1
<1>2. CASE d = ClearPointer(h, f)
  <2>1. d \in HudType /\ Without(d, h, f) /\ d.picker = h.picker
        /\ d.blocked = h.blocked
    BY <1>2, ClearPointerFacts
  <2> QED
    BY <2>1 DEF Without, Clear, Empty
<1>3. ASSUME NEW k \in Skills, ~h.blocked,
             d = [h EXCEPT !.fired[k] = TRUE, !.picker = k]
      PROVE  /\ d \in HudType
             /\ \A b \in Buttons : d.held[b] \in {h.held[b], Nobody}
             /\ Clear(d)
  <2>1. d \in HudType /\ d.held = h.held /\ d.blocked = h.blocked
    BY <1>3, OpenFacts
  <2> QED
    BY <1>3, <2>1 DEF Clear
<1>4. \/ d = h \/ d = ClearPointer(h, f)
      \/ ~h.blocked /\ \E k \in Skills :
           d = [h EXCEPT !.fired[k] = TRUE, !.picker = k]
  BY DEF OnPointerMove
<1> QED
  BY <1>1, <1>2, <1>3, <1>4

\* After it has been lifted a finger holds nothing.
LEMMA UpFacts ==
  ASSUME NEW h \in HudType, NEW f \in Fingers, NEW p, Clear(h),
         NEW d \in OnPointerUp(h, f, p)
  PROVE  d \in HudType /\ Without(d, h, f) /\ Clear(d)
<1> DEFINE free == ClearPointer(h, f)
<1>1. free \in HudType /\ Without(free, h, f) /\ free.picker = h.picker
      /\ free.blocked = h.blocked
  BY ClearPointerFacts
<1>2. \/ d = free
      \/ ~h.blocked /\ d = CloseSkillPicker(free)
      \/ ~h.blocked /\ \E k \in Skills : d = [free EXCEPT !.picker = k]
  BY DEF OnPointerUp, Release
<1> HIDE DEF free
<1>3. CASE d = free
  BY <1>1, <1>3 DEF Without, Clear, Empty
<1>4. CASE ~h.blocked /\ d = CloseSkillPicker(free)
  <2>1. d \in HudType /\ d.held = free.held /\ d.blocked = free.blocked
    BY <1>1, <1>4, CloseSkillPickerFacts
  <2> QED
    BY <1>1, <1>4, <2>1 DEF Without, Clear
<1>5. ASSUME NEW k \in Skills, ~h.blocked, d = [free EXCEPT !.picker = k]
      PROVE  d \in HudType /\ Without(d, h, f) /\ Clear(d)
  <2>1. d \in HudType /\ d.held = free.held /\ d.blocked = free.blocked
    BY <1>1, <1>5, OpenFacts
  <2> QED
    BY <1>1, <1>5, <2>1 DEF Without, Clear
<1> QED
  BY <1>2, <1>3, <1>4, <1>5

\* A frame leaves the HUD as it is or empties it.
LEMMA FrameFacts ==
  ASSUME NEW h \in HudType, TypeOK, Clear(h)
  PROVE  /\ FrameMove(h) \in HudType
         /\ \A b \in Buttons : FrameMove(h).held[b] \in {h.held[b], Nobody}
         /\ Clear(FrameMove(h))
<1>1. CASE ~FieldScene \/ h.blocked = IsGameUiBlocking
  BY <1>1 DEF FrameMove
<1>2. CASE ~(~FieldScene \/ h.blocked = IsGameUiBlocking)
  <2> DEFINE r == ResetTransientInput(h)
             d == FrameMove(h)
  <2>1. d = [r EXCEPT !.blocked = IsGameUiBlocking]
    BY <1>2 DEF FrameMove
  <2>2. r \in HudType /\ Empty(r) /\ r.picker = NoSkill
    BY ResetFacts
  <2>3. IsGameUiBlocking \in BOOLEAN
    BY DEF IsGameUiBlocking, TypeOK
  <2> HIDE DEF r, d
  <2>4. d \in HudType /\ d.held = r.held /\ d.picker = r.picker
    BY <2>1, <2>2, <2>3 DEF HudType
  <2>5. Empty(d) /\ d.picker = NoSkill
    BY <2>2, <2>4 DEF Empty
  <2> QED
    BY <2>4, <2>5 DEF Clear, Empty, d
<1> QED
  BY <1>1, <1>2

-----------------------------------------------------------------------------
(* The operators of the mouse.                                             *)

MouseType == [lmb : BOOLEAN, queue : Seq(Messages)]

LEMMA InjectFacts ==
  ASSUME NEW m \in MouseType
  PROVE  InjectMouseMove(m) \in MouseType
<1>1. m = [lmb |-> m.lmb, queue |-> m.queue]
      /\ m.lmb \in BOOLEAN /\ m.queue \in Seq(Messages)
  BY DEF MouseType
<1> DEFINE q == IF Len(m.queue) < MaxMoves THEN Append(m.queue, "move")
                ELSE m.queue
<1>2. q \in Seq(Messages)
  BY <1>1 DEF Messages
<1>3. InjectMouseMove(m) = [m EXCEPT !.queue = q]
  BY DEF InjectMouseMove
<1> HIDE DEF q
<1> QED
  BY <1>2, <1>3 DEF MouseType

LEMMA SetFacts ==
  ASSUME NEW m \in MouseType, NEW down \in BOOLEAN
  PROVE  SetMouse(m, down) \in MouseType /\ SetMouse(m, down).lmb = down
<1> DEFINE q == Append(m.queue, IF down THEN "down" ELSE "up")
<1>1. q \in Seq(Messages)
  BY DEF MouseType, Messages
<1>2. SetMouse(m, down) = IF m.lmb = down THEN m ELSE [lmb |-> down, queue |-> q]
  BY DEF SetMouse
<1> HIDE DEF q
<1> QED
  BY <1>1, <1>2 DEF MouseType

LEMMA MouseTyped ==
  ASSUME TypeOK PROVE Mouse \in MouseType
BY DEF TypeOK, Mouse, MouseType, Messages

LEMMA SetTyped ==
  ASSUME NEW m \in MouseType, IsMouse(m)
  PROVE  lmb' \in BOOLEAN /\ queue' \in Seq(Messages)
BY DEF MouseType, IsMouse

LEMMA PressFactsLate ==
  ASSUME NEW m \in MouseType
  PROVE  PressLate(m) \in MouseType
<1>1. SetMouse(m, TRUE) \in MouseType
  BY SetFacts
<1>2. SetMouse(SetMouse(m, TRUE), FALSE) \in MouseType
  BY <1>1, SetFacts
<1> QED
  BY <1>1, <1>2 DEF PressLate

-----------------------------------------------------------------------------
(* The invariant.                                                          *)

LEMMA Typing ==
  TypeOK <=> /\ EnvTyped /\ GameTyped /\ SlotsTyped /\ TapTyped /\ PadTyped
             /\ PcTyped /\ MsgTyped
<1>1. \A x : x \in 0 .. kTouchPressDelayFrames <=> x \in {0, 1, 2}
  BY DEF kTouchPressDelayFrames
<1>2. delay \in 0 .. kTouchPressDelayFrames <=> delay \in {0, 1, 2}
  BY <1>1
<1>3. Messages = {"move", "down", "up", "packet"}
  BY DEF Messages
<1> QED
  BY <1>2, <1>3, Zenon DEF TypeOK, EnvTyped, GameTyped, SlotsTyped, TapTyped,
    PadTyped, PcTyped, MsgTyped

LEMMA InitIInv == Init => IInv
<1> SUFFICES ASSUME Init PROVE IInv
  OBVIOUS
<1>1. PICK on \in BOOLEAN :
        hud = [overlay |-> on, blocked |-> FALSE, picker |-> NoSkill,
               held |-> [b \in Buttons |-> Nobody],
               fired |-> [k \in Skills |-> FALSE]]
  BY DEF Init
<1>2. hud \in HudType /\ Empty(hud) /\ ~hud.blocked
  BY <1>1 DEF HudType, Empty
<1>3. TypeOK
  <2>1. EnvTyped
    <3>1. /\ touch = [f \in Fingers |-> Away] /\ stick = FALSE
          /\ buttonA = FALSE /\ inputs = 0 /\ packets = 0
      BY Zenon DEF Init
    <3>2. touch \in [Fingers -> Places \union {Away}]
      BY <3>1
    <3>3. 0 \in 0 .. MaxInputs /\ 0 \in 0 .. MaxPackets
      BY TouchAssumption
    <3> QED
      BY <3>1, <3>2, <3>3, Zenon DEF EnvTyped
  <2>2. SlotsTyped
    BY <1>2 DEF Init, SlotsTyped
  <2>3. GameTyped /\ TapTyped /\ PadTyped /\ PcTyped
    BY DEF Init, GameTyped, Scenes, TapTyped, PadTyped, PcTyped
  <2>4. MsgTyped
    <3>1. lmb = FALSE /\ queue = <<>>
      BY Zenon DEF Init
    <3>2. <<>> \in Seq(Messages)
      OBVIOUS
    <3> QED
      BY <3>1, <3>2, Zenon DEF MsgTyped
  <2> QED
    BY <2>1, <2>2, <2>3, <2>4, Typing
<1>4. HoldersKnown
  BY <1>2, TouchAssumption DEF HoldersKnown, Empty
<1>5. TodoOnScreen /\ Clear(hud) /\ DelayRuns /\ WalkingIsKnown /\ ButtonIsKnown
  BY <1>2 DEF Init, TodoOnScreen, Clear, DelayRuns, WalkingIsKnown,
    ButtonIsKnown, Polled, NoMouseFinger
<1>6. FreeSlots
  BY DEF Init, FreeSlots
<1> QED
  BY <1>3, <1>4, <1>5, <1>6 DEF IInv, Rest

LEMMA MoveFingerIInv ==
  ASSUME IInv, NEW f \in Fingers, NEW p \in Places \union {Away},
         MoveFinger(f, p)
  PROVE  IInv'
<1> USE DEF MoveFinger, gameVars, tapVars, padVars
<1>1. TypeOK'
  <2>1. EnvTyped /\ inputs < MaxInputs
    BY Typing DEF IInv
  <2>2. EnvTyped'
    BY <2>1, TouchAssumption DEF EnvTyped
  <2>3. (GameTyped /\ SlotsTyped /\ TapTyped /\ PadTyped /\ PcTyped /\ MsgTyped)'
    BY Typing DEF IInv, GameTyped, SlotsTyped, TapTyped, PadTyped, PcTyped,
      MsgTyped
  <2> QED
    BY <2>2, <2>3, Typing, PTL
<1>2. TodoOnScreen' /\ DelayRuns'
  <2>1. Polled /\ todo = {} /\ delay # 2
    BY DEF IInv, Rest, TodoOnScreen, DelayRuns, Polled
  <2> QED
    BY <2>1 DEF IInv, Rest, TodoOnScreen, DelayRuns, Polled, NoMouseFinger
<1>3. FreeSlots' /\ HoldersKnown' /\ Clear(hud)'
  BY DEF IInv, Rest, FreeSlots, HoldersKnown, Clear, Empty
<1>4. WalkingIsKnown' /\ ButtonIsKnown'
  BY DEF IInv, Rest, WalkingIsKnown, ButtonIsKnown, NoMouseFinger
<1> QED
  BY <1>1, <1>2, <1>3, <1>4 DEF IInv, Rest

LEMMA UsePadIInv ==
  ASSUME IInv, UsePad PROVE IInv'
<1> USE DEF UsePad, gameVars, tapVars, padVars
<1>1. TypeOK'
  <2>1. EnvTyped'
    <3>1. EnvTyped /\ inputs < MaxInputs /\ inputs' = inputs + 1
      BY Typing DEF IInv
    <3>2. inputs' \in 0 .. MaxInputs
      BY <3>1, TouchAssumption DEF EnvTyped
    <3>3. stick' \in BOOLEAN /\ buttonA' \in BOOLEAN
      BY <3>1, Zenon DEF EnvTyped
    <3> QED
      BY <3>1, <3>2, <3>3 DEF EnvTyped
  <2>2. (GameTyped /\ SlotsTyped /\ TapTyped /\ PadTyped /\ PcTyped /\ MsgTyped)'
    BY Typing DEF IInv, GameTyped, SlotsTyped, TapTyped, PadTyped, PcTyped,
      MsgTyped
  <2> QED
    BY <2>1, <2>2, Typing, PTL
<1>2. TodoOnScreen' /\ DelayRuns'
  BY DEF IInv, Rest, TodoOnScreen, DelayRuns, Polled, NoMouseFinger
<1>3. FreeSlots' /\ HoldersKnown' /\ Clear(hud)'
  BY DEF IInv, Rest, FreeSlots, HoldersKnown, Clear, Empty
<1>4. WalkingIsKnown' /\ ButtonIsKnown'
  BY DEF IInv, Rest, WalkingIsKnown, ButtonIsKnown, NoMouseFinger
<1> QED
  BY <1>1, <1>2, <1>3, <1>4 DEF IInv, Rest

LEMMA PacketArrivesIInv ==
  ASSUME IInv, PacketArrives PROVE IInv'
<1> USE DEF PacketArrives, gameVars, tapVars, padVars
<1>1. TypeOK'
  <2>1. EnvTyped'
    <3>1. EnvTyped /\ packets < MaxPackets
      BY Typing DEF IInv
    <3> QED
      BY <3>1, TouchAssumption DEF EnvTyped
  <2>2. (GameTyped /\ SlotsTyped /\ TapTyped /\ PadTyped /\ PcTyped)'
    BY Typing DEF IInv, GameTyped, SlotsTyped, TapTyped, PadTyped, PcTyped
  <2>3. MsgTyped'
    BY Typing DEF IInv, MsgTyped, Messages
  <2> QED
    BY <2>1, <2>2, <2>3, Typing, PTL
<1>2. TodoOnScreen' /\ DelayRuns'
  BY DEF IInv, Rest, TodoOnScreen, DelayRuns, Polled, NoMouseFinger
<1>3. FreeSlots' /\ HoldersKnown' /\ Clear(hud)'
  BY DEF IInv, Rest, FreeSlots, HoldersKnown, Clear, Empty
<1>4. WalkingIsKnown' /\ ButtonIsKnown'
  BY DEF IInv, Rest, WalkingIsKnown, ButtonIsKnown, NoMouseFinger
<1> QED
  BY <1>1, <1>2, <1>3, <1>4 DEF IInv, Rest

LEMMA MapSticksIInv ==
  ASSUME IInv, MapSticks PROVE IInv'
<1>1. /\ pc = "loop" /\ pc' = "touch" /\ todo' = {f \in Fingers : touch[f] # Away}
      /\ UNCHANGED <<touch, stick, buttonA, inputs, packets, scene, panel, hud,
                     at, owner, delay, release, owed, lmb>>
  BY DEF MapSticks, envVars, gameVars, tapVars
<1>2. \/ scene = "field" /\ (PadMove \/ PadStop) /\ queue' = queue
      \/ /\ scene # "field" /\ padMoving' = FALSE
         /\ UNCHANGED <<dirMoving, walking>>
         /\ queue' \in {queue, InjectMouseMove(Mouse).queue}
  BY DEF MapSticks, InField
<1>3. TypeOK'
  <2>1. (EnvTyped /\ GameTyped /\ SlotsTyped /\ TapTyped /\ PcTyped)'
    BY <1>1, Typing DEF IInv, EnvTyped, GameTyped, SlotsTyped, TapTyped, PcTyped
  <2>2. PadTyped'
    BY <1>2, Typing, Zenon DEF IInv, PadTyped, PadMove, PadStop
  <2>3. InjectMouseMove(Mouse) \in MouseType
    BY MouseTyped, InjectFacts DEF IInv
  <2>4. MsgTyped'
    BY <1>1, <1>2, <2>3, Typing DEF IInv, MsgTyped, MouseType
  <2> QED
    BY <2>1, <2>2, <2>4, Typing, PTL
<1>4. TodoOnScreen' /\ DelayRuns'
  BY <1>1 DEF IInv, Rest, TodoOnScreen, DelayRuns, Polled, NoMouseFinger
<1>5. FreeSlots' /\ HoldersKnown' /\ Clear(hud)'
  BY <1>1 DEF IInv, Rest, FreeSlots, HoldersKnown, Clear, Empty
<1>6. WalkingIsKnown'
  <2>1. walking => scene = "field" /\ padMoving /\ dirMoving
    BY DEF IInv, Rest, WalkingIsKnown
  <2>2. walking \in BOOLEAN /\ padMoving \in BOOLEAN /\ dirMoving \in BOOLEAN
        /\ stick \in BOOLEAN
    BY DEF IInv, TypeOK
  <2>3. CASE scene # "field"
    BY <1>1, <1>2, <2>1, <2>3 DEF WalkingIsKnown
  <2>4. CASE scene = "field" /\ PadMove
    BY <1>1, <2>1, <2>4 DEF WalkingIsKnown, PadMove
  <2>5. CASE scene = "field" /\ PadStop
    BY <1>1, <2>1, <2>2, <2>5, Zenon DEF WalkingIsKnown, PadStop
  <2> QED
    BY <1>2, <2>3, <2>4, <2>5
<1>7. ButtonIsKnown'
  BY <1>1 DEF ButtonIsKnown
<1> QED
  BY <1>3, <1>4, <1>5, <1>6, <1>7 DEF IInv, Rest

LEMMA FingerDownIInv ==
  ASSUME IInv, NEW f \in Fingers, FingerDown(f)
  PROVE  IInv'
<1> DEFINE z == HitTest(hud, touch[f])
<1>1. /\ pc = "touch" /\ f \in todo /\ at[f] = Away /\ pc' = pc
      /\ at' = [at EXCEPT ![f] = touch[f]] /\ todo' = todo \ {f}
      /\ UNCHANGED <<touch, stick, buttonA, inputs, packets, scene, panel,
                     padMoving, dirMoving, walking>>
  BY DEF FingerDown, envVars, gameVars, padVars
<1>2. hud' = OnPointerDown(hud, f, z)
  BY DEF FingerDown
<1>3. \/ /\ z # "none" /\ owner' = [owner EXCEPT ![f] = "hud"]
         /\ UNCHANGED <<delay, release, owed, lmb, queue>>
      \/ z = "none" /\ NoMouseFinger /\ TakeMouse(f)
      \/ /\ z = "none" /\ ~NoMouseFinger
         /\ UNCHANGED <<owner, delay, release, owed, lmb, queue>>
  BY DEF FingerDown, tapVars
<1>4. touch[f] \in Places /\ touch[f] # Away
  BY <1>1 DEF IInv, Rest, TodoOnScreen, TypeOK
<1>5. hud \in HudType /\ Clear(hud)
  BY DEF IInv, Rest, TypeOK
<1>6. /\ hud' \in HudType
      /\ \A b \in Buttons : hud'.held[b] \in {hud.held[b], f, Nobody}
      /\ z = "none" => hud' = hud
      /\ Clear(hud')
  BY <1>2, <1>4, <1>5, DownFacts
<1> HIDE DEF z
<1>7. TakeMouse(f) =>
        /\ owner' = [owner EXCEPT ![f] = "mouse"] /\ release' = FALSE
        /\ (delay' = 0 /\ owed' = FALSE) \/ (delay' = 2 /\ owed' = TRUE)
        /\ lmb' \in BOOLEAN /\ queue' \in Seq(Messages)
  <2> DEFINE m == SetMouse(InjectMouseMove(Mouse), FALSE)
  <2>1. SUFFICES ASSUME TakeMouse(f)
                 PROVE  /\ owner' = [owner EXCEPT ![f] = "mouse"]
                        /\ release' = FALSE
                        /\ (delay' = 0 /\ owed' = FALSE) \/ (delay' = 2 /\ owed' = TRUE)
                        /\ lmb' \in BOOLEAN /\ queue' \in Seq(Messages)
    OBVIOUS
  <2>2. m \in MouseType
    BY MouseTyped, InjectFacts, SetFacts DEF IInv
  <2>3. /\ owner' = [owner EXCEPT ![f] = "mouse"] /\ release' = FALSE
        /\ \/ delay' = 0 /\ owed' = FALSE /\ IsMouse(SetMouse(m, TRUE))
           \/ delay' = 2 /\ owed' = TRUE /\ IsMouse(m)
    BY <2>1 DEF TakeMouse, kTouchPressDelayFrames
  <2> HIDE DEF m
  <2>4. SetMouse(m, TRUE) \in MouseType
    BY <2>2, SetFacts
  <2>5. lmb' \in BOOLEAN /\ queue' \in Seq(Messages)
    BY <2>2, <2>3, <2>4, SetTyped
  <2> QED
    BY <2>3, <2>5
<1>8. TypeOK'
  <2>1. (EnvTyped /\ GameTyped /\ PadTyped /\ PcTyped)'
    BY <1>1, Typing DEF IInv, EnvTyped, GameTyped, PadTyped, PcTyped
  <2>2. SlotsTyped'
    <3>1. SlotsTyped
      BY Typing DEF IInv
    <3>2. at' \in [Fingers -> Places \union {Away}]
      BY <1>1, <1>4, <3>1 DEF SlotsTyped
    <3>3. owner' \in [Fingers -> {"hud", "mouse", "none"}]
      BY <1>3, <1>7, <3>1 DEF SlotsTyped
    <3> QED
      BY <1>6, <3>2, <3>3 DEF SlotsTyped
  <2>3. TapTyped' /\ MsgTyped'
    BY <1>3, <1>7, Typing DEF IInv, TapTyped, MsgTyped
  <2> QED
    BY <2>1, <2>2, <2>3, Typing, PTL
<1>9. TodoOnScreen'
  BY <1>1 DEF IInv, Rest, TodoOnScreen, Polled
<1>10. HoldersKnown'
  <2>1. \A b \in Buttons : hud.held[b] # f
    BY <1>1 DEF IInv, Rest, HoldersKnown
  <2> SUFFICES ASSUME NEW b \in Buttons, NEW g \in Fingers, hud'.held[b] = g
               PROVE  owner'[g] = "hud" /\ at'[g] # Away
    BY DEF HoldersKnown
  <2>2. g # Nobody
    BY TouchAssumption
  <2>3. CASE g = f
    <3>1. z # "none"
      BY <1>6, <2>1, <2>3
    <3>2. owner' = [owner EXCEPT ![f] = "hud"]
      BY <1>3, <3>1
    <3> QED
      BY <1>1, <1>4, <2>3, <3>2 DEF IInv, TypeOK
  <2>4. CASE g # f
    <3>1. hud.held[b] = g
      BY <1>6, <2>2, <2>4
    <3>2. owner[g] = "hud" /\ at[g] # Away
      BY <3>1 DEF IInv, Rest, HoldersKnown
    <3>3. owner'[g] = owner[g]
      BY <1>3, <1>7, <2>4 DEF IInv, TypeOK
    <3>4. at'[g] = at[g]
      BY <1>1, <2>4 DEF IInv, TypeOK
    <3> QED
      BY <3>2, <3>3, <3>4
  <2> QED
    BY <2>3, <2>4
<1>11. DelayRuns'
  <2>1. DelayRuns /\ owner \in [Fingers -> {"hud", "mouse", "none"}]
    BY DEF IInv, Rest, TypeOK
  <2>2. CASE owner' = [owner EXCEPT ![f] = "hud"] /\ UNCHANGED <<delay, release, owed>>
    <3>1. owner[f] = "none"
      BY <1>1 DEF IInv, Rest, FreeSlots
    <3> QED
      BY <1>1, <2>1, <2>2, <3>1 DEF DelayRuns, Polled
  <2>3. CASE TakeMouse(f)
    BY <1>1, <1>4, <1>7, <2>1, <2>3 DEF DelayRuns, Polled
  <2>4. CASE UNCHANGED <<owner, delay, release, owed>>
    BY <1>1, <2>1, <2>4 DEF DelayRuns, Polled
  <2> QED
    BY <1>3, <2>2, <2>3, <2>4
<1>12. WalkingIsKnown' /\ ButtonIsKnown'
  BY <1>1 DEF IInv, Rest, WalkingIsKnown, ButtonIsKnown
<1>13. FreeSlots'
  <2> SUFFICES ASSUME NEW g \in Fingers, at'[g] = Away
               PROVE  owner'[g] = "none"
    BY DEF FreeSlots
  <2>1. g # f /\ at[g] = Away
    BY <1>1, <1>4 DEF IInv, TypeOK
  <2>2. owner[g] = "none"
    BY <2>1 DEF IInv, Rest, FreeSlots
  <2> QED
    BY <1>3, <1>7, <2>1, <2>2 DEF IInv, TypeOK
<1> QED
  BY <1>6, <1>8, <1>9, <1>10, <1>11, <1>12, <1>13 DEF IInv, Rest

LEMMA FingerMoveIInv ==
  ASSUME IInv, NEW f \in Fingers, FingerMove(f)
  PROVE  IInv'
<1>1. /\ pc = "touch" /\ f \in todo /\ at[f] # Away /\ pc' = pc
      /\ at' = [at EXCEPT ![f] = touch[f]] /\ todo' = todo \ {f}
      /\ queue' \in {queue, InjectMouseMove(Mouse).queue}
      /\ UNCHANGED <<touch, stick, buttonA, inputs, packets, scene, panel,
                     owner, delay, release, owed, lmb,
                     padMoving, dirMoving, walking>>
  BY DEF FingerMove, envVars, gameVars, tapVars, padVars
<1>2. hud' = hud \/ hud' \in OnPointerMove(hud, f)
  BY DEF FingerMove
<1>3. touch[f] # Away
  BY <1>1 DEF IInv, Rest, TodoOnScreen
<1>4. hud \in HudType /\ Clear(hud)
  BY DEF IInv, Rest, TypeOK
<1>5. /\ hud' \in HudType
      /\ \A b \in Buttons : hud'.held[b] \in {hud.held[b], Nobody}
      /\ Clear(hud')
  BY <1>2, <1>4, MoveFacts
<1>6. TypeOK'
  <2>1. (EnvTyped /\ GameTyped /\ TapTyped /\ PadTyped /\ PcTyped)'
    BY <1>1, Typing DEF IInv, EnvTyped, GameTyped, TapTyped, PadTyped, PcTyped
  <2>2. SlotsTyped'
    BY <1>1, <1>5, Typing DEF IInv, SlotsTyped, EnvTyped
  <2>3. InjectMouseMove(Mouse) \in MouseType
    BY MouseTyped, InjectFacts DEF IInv
  <2>4. MsgTyped'
    BY <1>1, <2>3, Typing DEF IInv, MsgTyped, MouseType
  <2> QED
    BY <2>1, <2>2, <2>4, Typing, PTL
<1>7. TodoOnScreen' /\ DelayRuns'
  BY <1>1 DEF IInv, Rest, TodoOnScreen, DelayRuns, Polled, NoMouseFinger
<1>8. FreeSlots'
  BY <1>1, <1>3 DEF IInv, Rest, FreeSlots, TypeOK
<1>9. HoldersKnown'
  <2> SUFFICES ASSUME NEW b \in Buttons, NEW g \in Fingers, hud'.held[b] = g
               PROVE  owner'[g] = "hud" /\ at'[g] # Away
    BY DEF HoldersKnown
  <2>1. g # Nobody
    BY TouchAssumption
  <2>2. hud.held[b] = g
    BY <1>5, <2>1
  <2>3. owner[g] = "hud" /\ at[g] # Away
    BY <2>2 DEF IInv, Rest, HoldersKnown
  <2> QED
    BY <1>1, <1>3, <2>3 DEF IInv, TypeOK
<1>10. WalkingIsKnown' /\ ButtonIsKnown'
  BY <1>1 DEF IInv, Rest, WalkingIsKnown, ButtonIsKnown
<1> QED
  BY <1>5, <1>6, <1>7, <1>8, <1>9, <1>10 DEF IInv, Rest

LEMMA FingerUpIInv ==
  ASSUME IInv, NEW f \in Fingers, FingerUp(f)
  PROVE  IInv'
<1>1. /\ pc = "touch" /\ todo = {} /\ Lifted(f) /\ pc' = pc
      /\ at' = [at EXCEPT ![f] = Away] /\ todo' = todo
      /\ owner' = [owner EXCEPT ![f] = "none"]
      /\ UNCHANGED <<touch, stick, buttonA, inputs, packets, scene, panel,
                     delay, owed, padMoving, dirMoving, walking>>
  BY DEF FingerUp, envVars, gameVars, padVars
<1>2. \/ owner[f] # "hud" /\ hud' = hud
      \/ owner[f] = "hud" /\ hud' \in OnPointerUp(hud, f, at[f])
  BY DEF FingerUp
<1>3. \/ delay > 0 /\ release' = TRUE /\ UNCHANGED <<lmb, queue>>
      \/ UNCHANGED release /\ IsMouse(SetMouse(Mouse, FALSE))
      \/ UNCHANGED release /\ IsMouse(Mouse)
  BY DEF FingerUp
<1>4. hud \in HudType /\ Clear(hud)
  BY DEF IInv, Rest, TypeOK
<1>5. hud' \in HudType /\ Without(hud', hud, f) /\ Clear(hud')
  <2>1. CASE owner[f] # "hud" /\ hud' = hud
    <3>1. \A b \in Buttons : hud.held[b] # f
      BY <2>1 DEF IInv, Rest, HoldersKnown
    <3> QED
      BY <1>4, <2>1, <3>1 DEF Without
  <2>2. CASE hud' \in OnPointerUp(hud, f, at[f])
    BY <1>4, <2>2, UpFacts
  <2> QED
    BY <1>2, <2>1, <2>2
<1>6. TypeOK'
  <2>1. (EnvTyped /\ GameTyped /\ PadTyped /\ PcTyped)'
    BY <1>1, Typing DEF IInv, EnvTyped, GameTyped, PadTyped, PcTyped
  <2>2. SlotsTyped'
    BY <1>1, <1>5, Typing DEF IInv, SlotsTyped
  <2>3. TapTyped'
    BY <1>1, <1>3, Typing DEF IInv, TapTyped
  <2>4. Mouse \in MouseType /\ SetMouse(Mouse, FALSE) \in MouseType
    BY MouseTyped, SetFacts DEF IInv
  <2>5. MsgTyped'
    BY <1>3, <2>4, SetTyped, Typing DEF IInv, MsgTyped
  <2> QED
    BY <2>1, <2>2, <2>3, <2>5, Typing, PTL
<1>7. TodoOnScreen'
  BY <1>1 DEF IInv, Rest, TodoOnScreen, Polled
<1>8. FreeSlots'
  BY <1>1 DEF IInv, Rest, FreeSlots, TypeOK
<1>9. HoldersKnown'
  <2> SUFFICES ASSUME NEW b \in Buttons, NEW g \in Fingers, hud'.held[b] = g
               PROVE  owner'[g] = "hud" /\ at'[g] # Away
    BY DEF HoldersKnown
  <2>1. g # f /\ hud.held[b] = g
    BY <1>5, TouchAssumption DEF Without
  <2>2. owner[g] = "hud" /\ at[g] # Away
    BY <2>1 DEF IInv, Rest, HoldersKnown
  <2> QED
    BY <1>1, <2>1, <2>2 DEF IInv, TypeOK
<1>10. DelayRuns'
  <2>1. DelayRuns /\ delay \in {0, 1, 2}
        /\ owner \in [Fingers -> {"hud", "mouse", "none"}]
    BY Typing DEF IInv, Rest, TapTyped, SlotsTyped
  <2>2. owed' \/ release' => delay' # 0
    <3>1. delay > 0 => delay # 0
      BY <2>1
    <3>2. delay' = delay /\ owed' = owed /\ (delay > 0 \/ release' = release)
      BY <1>1, <1>3, Zenon
    <3>3. owed \/ release => delay # 0
      BY <2>1, Zenon DEF DelayRuns
    <3> QED
      BY <3>1, <3>2, <3>3, Zenon
  <2>3. delay' = 2 => \E g \in Fingers : owner'[g] = "mouse" /\ touch'[g] # Away
    BY <1>1, <2>1 DEF DelayRuns, Lifted
  <2> QED
    BY <1>1, <2>2, <2>3 DEF DelayRuns, Polled
<1>11. WalkingIsKnown' /\ ButtonIsKnown'
  BY <1>1 DEF IInv, Rest, WalkingIsKnown, ButtonIsKnown
<1> QED
  BY <1>5, <1>6, <1>7, <1>8, <1>9, <1>10, <1>11 DEF IInv, Rest

LEMMA MapButtonsIInv ==
  ASSUME IInv, MapButtons PROVE IInv'
<1>1. /\ pc = "touch" /\ todo = {} /\ pc' = "handle"
      /\ delay' = IF delay > 0 THEN delay - 1 ELSE 0
      /\ UNCHANGED <<touch, stick, buttonA, inputs, packets, scene, panel, hud,
                     at, owner, padMoving, dirMoving, walking, todo>>
  BY DEF MapButtons, envVars, gameVars, padVars
<1>2. release' = (release /\ ~PressDue) /\ owed' = (owed /\ ~PressDue)
  BY DEF MapButtons
<1>3. IsMouse(ButtonsOnMouse(PressLate(Mouse)))
  BY DEF MapButtons
<1>4. TapTyped /\ GameTyped /\ EnvTyped
  BY Typing DEF IInv
<1>5. PressLate(Mouse) \in MouseType
  BY MouseTyped, PressFactsLate DEF IInv
<1>6. /\ ButtonsOnMouse(PressLate(Mouse)) \in MouseType
      /\ NoMouseFinger =>
           ButtonsOnMouse(PressLate(Mouse)).lmb = (scene # "field" /\ buttonA)
  <2>1. (scene # "field" /\ buttonA) \in BOOLEAN
    OBVIOUS
  <2>2. SetMouse(PressLate(Mouse), scene # "field" /\ buttonA) \in MouseType
        /\ SetMouse(PressLate(Mouse), scene # "field" /\ buttonA).lmb
             = (scene # "field" /\ buttonA)
    BY <1>5, <2>1, SetFacts, Zenon
  <2> QED
    BY <1>5, <2>2, Zenon DEF ButtonsOnMouse, InField
<1>7. TypeOK'
  <2>1. (EnvTyped /\ GameTyped /\ SlotsTyped /\ PadTyped /\ PcTyped)'
    BY <1>1, Typing DEF IInv, EnvTyped, GameTyped, SlotsTyped, PadTyped, PcTyped
  <2>2. release' \in BOOLEAN /\ owed' \in BOOLEAN
    BY <1>2, Zenon
  <2>3. delay' \in {0, 1, 2}
    BY <1>1, <1>4 DEF TapTyped
  <2>4. TapTyped'
    BY <2>2, <2>3 DEF TapTyped
  <2>5. MsgTyped'
    BY <1>3, <1>6, SetTyped DEF MsgTyped
  <2> QED
    BY <2>1, <2>4, <2>5, Typing, PTL
<1>8. TodoOnScreen' /\ FreeSlots' /\ HoldersKnown' /\ Clear(hud)'
  BY <1>1 DEF IInv, Rest, TodoOnScreen, FreeSlots, HoldersKnown, Clear, Empty
<1>9. DelayRuns'
  <2>1. DelayRuns
    BY DEF IInv, Rest
  <2>2. CASE delay = 0
    <3>1. ~owed /\ ~release
      BY <2>1, <2>2 DEF DelayRuns
    <3>2. ~owed' /\ ~release'
      BY <1>2, <3>1, Zenon
    <3> QED
      BY <1>1, <2>2, <3>2 DEF DelayRuns
  <2>3. CASE delay = 1
    <3>1. ~owed' /\ ~release'
      BY <1>2, <2>3, Zenon DEF PressDue
    <3> QED
      BY <1>1, <2>3, <3>1 DEF DelayRuns
  <2>4. CASE delay = 2
    <3>1. delay' = 1 /\ ~NoMouseFinger
      BY <1>1, <2>1, <2>4 DEF DelayRuns, NoMouseFinger
    <3> QED
      BY <1>1, <3>1 DEF DelayRuns, NoMouseFinger
  <2> QED
    BY <1>4, <2>2, <2>3, <2>4 DEF TapTyped
<1>10. WalkingIsKnown'
  BY <1>1 DEF IInv, Rest, WalkingIsKnown
<1>11. ButtonIsKnown'
  <2>1. NoMouseFinger' <=> NoMouseFinger
    BY <1>1 DEF NoMouseFinger
  <2>2. NoMouseFinger => lmb' = (scene # "field" /\ buttonA)
    BY <1>3, <1>6 DEF IsMouse
  <2>3. scene' = scene /\ buttonA' = buttonA
    BY <1>1
  <2> QED
    BY <2>1, <2>2, <2>3 DEF ButtonIsKnown
<1> QED
  BY <1>7, <1>8, <1>9, <1>10, <1>11 DEF IInv, Rest

LEMMA HandleMessageIInv ==
  ASSUME IInv, HandleMessage PROVE IInv'
<1>1. /\ pc = "handle" /\ queue # <<>> /\ pc' = "loop" /\ queue' = Tail(queue)
      /\ UNCHANGED <<touch, stick, buttonA, inputs, packets, hud, at, owner,
                     delay, release, owed, lmb, padMoving, dirMoving, todo>>
  BY DEF HandleMessage, envVars, tapVars
<1>2. GameTyped /\ PadTyped /\ MsgTyped
  BY Typing DEF IInv
<1>3. Head(queue) \in Messages
  BY <1>1, <1>2 DEF MsgTyped
<1>4. /\ scene' \in Scenes /\ panel' \in BOOLEAN
      /\ (walking' = walking /\ scene' = scene) \/ walking' = FALSE
  <2>1. CASE Head(queue) = "move"
    BY <1>2, <2>1 DEF HandleMessage, GameTyped, gameVars
  <2>2. CASE Head(queue) \in {"down", "up"}
    BY <1>2, <2>2 DEF HandleMessage, GameTyped, gameVars
  <2>3. CASE Head(queue) = "packet"
    BY <1>2, <2>3 DEF HandleMessage, NextScene, Scenes, GameTyped, gameVars
  <2> QED
    BY <1>3, <2>1, <2>2, <2>3 DEF Messages
<1>5. TypeOK'
  <2>1. (EnvTyped /\ SlotsTyped /\ TapTyped /\ PcTyped)'
    BY <1>1, Typing DEF IInv, EnvTyped, SlotsTyped, TapTyped, PcTyped
  <2>2. GameTyped' /\ PadTyped'
    BY <1>1, <1>2, <1>4 DEF GameTyped, PadTyped
  <2>3. MsgTyped'
    BY <1>1, <1>2 DEF MsgTyped
  <2> QED
    BY <2>1, <2>2, <2>3, Typing, PTL
<1>6. TodoOnScreen' /\ FreeSlots' /\ HoldersKnown' /\ Clear(hud)' /\ DelayRuns'
  BY <1>1 DEF IInv, Rest, TodoOnScreen, FreeSlots, HoldersKnown, Clear, Empty,
    DelayRuns, Polled, NoMouseFinger
<1>7. WalkingIsKnown' /\ ButtonIsKnown'
  BY <1>1, <1>4 DEF IInv, Rest, WalkingIsKnown, ButtonIsKnown
<1> QED
  BY <1>5, <1>6, <1>7 DEF IInv, Rest

LEMMA FrameIInv ==
  ASSUME IInv, Frame PROVE IInv'
<1>1. /\ pc = "handle" /\ pc' = "loop" /\ hud' = FrameMove(hud)
      /\ UNCHANGED <<touch, stick, buttonA, inputs, packets, scene, panel, at,
                     owner, delay, release, owed, lmb, padMoving, dirMoving,
                     walking, todo, queue>>
  BY DEF Frame, envVars, gameVars, tapVars, padVars
<1>2. TypeOK /\ hud \in HudType /\ Clear(hud)
  BY DEF IInv, Rest, TypeOK
<1>3. /\ hud' \in HudType
      /\ \A b \in Buttons : hud'.held[b] \in {hud.held[b], Nobody}
      /\ Clear(hud')
  BY <1>1, <1>2, FrameFacts
<1>4. TypeOK'
  <2>1. (EnvTyped /\ GameTyped /\ TapTyped /\ PadTyped /\ PcTyped /\ MsgTyped)'
    BY <1>1, Typing DEF IInv, EnvTyped, GameTyped, TapTyped, PadTyped, PcTyped,
      MsgTyped
  <2>2. SlotsTyped'
    BY <1>1, <1>3, Typing DEF IInv, SlotsTyped
  <2> QED
    BY <2>1, <2>2, Typing, PTL
<1>5. TodoOnScreen' /\ FreeSlots' /\ DelayRuns' /\ WalkingIsKnown' /\ ButtonIsKnown'
  BY <1>1 DEF IInv, Rest, TodoOnScreen, FreeSlots, DelayRuns, Polled,
    NoMouseFinger, WalkingIsKnown, ButtonIsKnown
<1>6. HoldersKnown'
  BY <1>1, <1>3, TouchAssumption DEF IInv, Rest, HoldersKnown
<1> QED
  BY <1>3, <1>4, <1>5, <1>6 DEF IInv, Rest

LEMMA StutterIInv ==
  ASSUME IInv, UNCHANGED vars PROVE IInv'
<1> USE DEF vars, envVars, gameVars, tapVars, padVars
<1>1. TypeOK'
  BY DEF IInv, TypeOK
<1>2. TodoOnScreen' /\ FreeSlots' /\ HoldersKnown' /\ Clear(hud)' /\ DelayRuns'
  BY DEF IInv, Rest, TodoOnScreen, FreeSlots, HoldersKnown, Clear, Empty,
    DelayRuns, Polled, NoMouseFinger
<1>3. WalkingIsKnown' /\ ButtonIsKnown'
  BY DEF IInv, Rest, WalkingIsKnown, ButtonIsKnown, NoMouseFinger
<1> QED
  BY <1>1, <1>2, <1>3 DEF IInv, Rest

-----------------------------------------------------------------------------

\* The invariant holds in every state.
THEOREM SpecIInv == Spec => []IInv
<1>1. IInv /\ [Next]_vars => IInv'
  <2> SUFFICES ASSUME IInv, [Next]_vars PROVE IInv'
    OBVIOUS
  <2>1. ASSUME NEW f \in Fingers, NEW p \in Places \union {Away}, MoveFinger(f, p)
        PROVE  IInv'
    BY <2>1, MoveFingerIInv
  <2>2. CASE UsePad
    BY <2>2, UsePadIInv
  <2>3. CASE PacketArrives
    BY <2>3, PacketArrivesIInv
  <2>4. CASE MapSticks
    BY <2>4, MapSticksIInv
  <2>5. ASSUME NEW f \in Fingers, FingerDown(f) \/ FingerMove(f) \/ FingerUp(f)
        PROVE  IInv'
    BY <2>5, FingerDownIInv, FingerMoveIInv, FingerUpIInv
  <2>6. CASE MapButtons
    BY <2>6, MapButtonsIInv
  <2>7. CASE HandleMessage
    BY <2>7, HandleMessageIInv
  <2>8. CASE Frame
    BY <2>8, FrameIInv
  <2>9. CASE UNCHANGED vars
    BY <2>9, StutterIInv
  <2> QED
    BY <2>1, <2>2, <2>3, <2>4, <2>5, <2>6, <2>7, <2>8, <2>9 DEF Next, Turn
<1> QED
  BY <1>1, InitIInv, PTL DEF Spec

\* Every variable has its type; in particular the delay of a press never gets
\* out of its range.
THEOREM TypeCorrect == Spec => []TypeOK
<1>1. IInv => TypeOK
  BY DEF IInv
<1> QED
  BY <1>1, SpecIInv, PTL

\* A button of the HUD is held only by a finger on the screen that the HUD was
\* given, and a blocked HUD holds nothing (TouchControlsUI, MapTouch).
THEOREM NoButtonLeftBehind == Spec => []HudHolds
<1>1. IInv => HudHolds
  <2> SUFFICES ASSUME IInv PROVE HudHolds
    OBVIOUS
  <2>1. \A b \in Buttons : hud.held[b] \in Fingers \union {Nobody}
    BY DEF IInv, TypeOK, HudType
  <2>2. \A b \in Buttons : hud.held[b] # Nobody =>
          owner[hud.held[b]] = "hud" /\ at[hud.held[b]] # Away
    BY <2>1 DEF IInv, Rest, HoldersKnown
  <2> QED
    BY <2>2 DEF IInv, Rest, Clear, Empty, HudHolds
<1> QED
  BY <1>1, SpecIInv, PTL

\* Once no finger is the mouse nothing is owed to one: each tap had its press
\* and its release (MapTouch).
THEOREM NoTapIsLost == Spec => []TapsNotLost
<1>1. IInv => TapsNotLost
  BY DEF IInv, Rest, DelayRuns, TapsNotLost
<1> QED
  BY <1>1, SpecIInv, PTL

\* After a poll the left button and the walk are down for somebody who holds
\* them (MapButtons, PadStop).
THEOREM NothingGoesOnAlone == Spec => []NothingStuck
<1>1. IInv => NothingStuck
  BY DEF IInv, Rest, WalkingIsKnown, ButtonIsKnown, NothingStuck, InField
<1> QED
  BY <1>1, SpecIInv, PTL

=============================================================================
