------------------------ MODULE PointerInput_proofs -------------------------
(***************************************************************************)
(* Proofs about PointerInput: where the finger of the device is once       *)
(* everything the user did is handled, for any number of acts and for both *)
(* ways of injecting.                                                      *)
(***************************************************************************)
EXTENDS PointerInput, TLAPS

-----------------------------------------------------------------------------
\* The type invariant.

LEMMA TypeInit == Init => TypeOK
  <1>1. 0 \in 0..MaxActs /\ 0 \in 0..MaxFails
    BY BoundsAssumption
  <1>2. <<>> \in Seq(Events) /\ <<>> \in Seq(Messages)
    OBVIOUS
  <1>3. QED
    BY <1>1, <1>2 DEF Init, TypeOK

LEMMA ScreenCoordType ==
    ASSUME NEW place \in Places, ~OverToolbar(place)
    PROVE  ScreenCoord(place) \in Points
  BY PlacesAssumption DEF Places, OverToolbar, ScreenCoord

LEMMA ActType ==
    ASSUME TypeOK, NEW event \in Events, Act(event)
    PROVE  /\ acts' \in 0..MaxActs
           /\ sdl' \in Seq(Events)
           /\ UNCHANGED <<channel, mode, device, swallowed>>
  BY BoundsAssumption DEF TypeOK, Act

\* One event is handled: at most one message is sent, of a type that goes with
\* the event.
LEMMA HandleType ==
    ASSUME TypeOK, HandleEvent
    PROVE  /\ sdl' \in Seq(Events)
           /\ channel' \in Seq(Messages)
           /\ swallowed' \in BOOLEAN
  <1>1. Head(sdl) \in Events /\ sdl' \in Seq(Events)
    BY DEF HandleEvent, TypeOK
  <1>2. ASSUME NEW msg \in Messages, Send(msg) PROVE channel' \in Seq(Messages)
    BY <1>2 DEF Send, TypeOK
  <1>3. [type |-> "RECENTS"] \in Messages /\ [type |-> "UP"] \in Messages
    BY DEF Messages
  <1>4. \A type \in {"DOWN", "MOVE", "SCROLL"}, point \in Points :
            [type |-> type, at |-> point] \in Messages
    BY DEF Messages
  <1>5. CASE HandleDown(Head(sdl))
    <2>1. Head(sdl).place \in Places
      BY <1>1, <1>5 DEF HandleDown, Events
    <2>2. CASE Head(sdl).place = Recents
      BY <1>1, <1>2, <1>3, <1>5, <2>2 DEF HandleDown, TypeOK
    <2>3. CASE Head(sdl).place = Toolbar
      BY <1>1, <1>5, <2>3 DEF HandleDown, TypeOK, Toolbar, Recents
    <2>4. CASE Head(sdl).place \notin {Recents, Toolbar}
      <3>1. ScreenCoord(Head(sdl).place) \in Points
        BY <2>1, <2>4, ScreenCoordType DEF OverToolbar
      <3>2. QED
        BY <1>1, <1>2, <1>4, <1>5, <2>4, <3>1 DEF HandleDown, TypeOK
    <2>5. QED
      BY <2>2, <2>3, <2>4
  <1>6. CASE HandleUp(Head(sdl))
    <2>1. channel' \in Seq(Messages)
      BY <1>2, <1>3, <1>6 DEF HandleUp, TypeOK
    <2>2. QED
      BY <1>1, <1>6, <2>1 DEF HandleUp, OverToolbar
  <1>7. CASE HandleMotion(Head(sdl))
    <2>1. Head(sdl).place \in Places
      BY <1>1, <1>7 DEF HandleMotion, Events
    <2>2. ~OverToolbar(Head(sdl).place) => ScreenCoord(Head(sdl).place) \in Points
      BY <2>1, ScreenCoordType
    <2>3. channel' \in Seq(Messages)
      BY <1>2, <1>4, <1>7, <2>2 DEF HandleMotion, TypeOK
    <2>4. QED
      BY <1>1, <1>7, <2>3 DEF HandleMotion, TypeOK
  <1>8. CASE HandleWheel(Head(sdl))
    <2>1. ~OverToolbar(pointer) => ScreenCoord(pointer) \in Points
      BY ScreenCoordType DEF TypeOK
    <2>2. channel' \in Seq(Messages)
      BY <1>2, <1>4, <1>8, <2>1 DEF HandleWheel, TypeOK
    <2>3. QED
      BY <1>1, <1>8, <2>2 DEF HandleWheel, TypeOK
  <1>9. QED
    BY <1>5, <1>6, <1>7, <1>8 DEF HandleEvent

LEMMA InjectType ==
    ASSUME TypeOK, Inject \/ InjectFails
    PROVE  /\ channel' \in Seq(Messages)
           /\ touching' \in BOOLEAN
           /\ finger' \in Points \cup {SoftKey, None}
           /\ fails' \in 0..MaxFails
  <1>1. Head(channel) \in Messages /\ channel' \in Seq(Messages)
    <2>1. channel # <<>> /\ channel' = Tail(channel)
      BY DEF Inject, InjectFails
    <2>2. QED
      BY <2>1 DEF TypeOK
  <1>2. Head(channel).type \in {"DOWN", "MOVE", "SCROLL"} => Head(channel).at \in Points
    BY <1>1 DEF Messages
  <1>3. touching' \in BOOLEAN
    <2>1. CASE Inject
      BY <2>1 DEF Inject, InjectDown, InjectMove, InjectUp, InjectScroll, InjectRecents,
                  TypeOK, Uinput
    <2>2. CASE InjectFails
      BY <2>2 DEF InjectFails, TypeOK, Uinput
    <2>3. QED
      BY <2>1, <2>2
  <1>4. finger' \in Points \cup {SoftKey, None}
    <2>1. CASE Inject
      BY <1>2, <2>1 DEF Inject, InjectDown, InjectMove, InjectUp, InjectScroll,
                        InjectRecents, TypeOK
    <2>2. CASE InjectFails
      BY <1>2, <2>2 DEF InjectFails, TypeOK
    <2>3. QED
      BY <2>1, <2>2
  <1>5. fails' \in 0..MaxFails
    BY BoundsAssumption DEF Inject, InjectFails, TypeOK
  <1>6. QED
    BY <1>1, <1>3, <1>4, <1>5

LEMMA TypeStep == TypeOK /\ [Next]_vars => TypeOK'
  <1> SUFFICES ASSUME TypeOK, [Next]_vars PROVE TypeOK'
    OBVIOUS
  <1>1. ASSUME NEW button \in Buttons, Press(button) \/ Release(button) PROVE TypeOK'
    <2>1. PICK event \in Events : Act(event)
      BY <1>1 DEF Press, Release, TypeOK, Events
    <2>2. /\ acts' \in 0..MaxActs /\ sdl' \in Seq(Events)
          /\ UNCHANGED <<channel, mode, device, swallowed>>
      BY <2>1, ActType
    <2>3. drag' \in BOOLEAN /\ held' \subseteq Buttons /\ pointer' = pointer
      BY <1>1 DEF Press, Release, TypeOK
    <2>4. QED
      BY <2>2, <2>3 DEF TypeOK, device
  <1>2. ASSUME NEW place \in Places, Move(place) PROVE TypeOK'
    <2>1. PICK event \in Events : Act(event)
      <3>1. [type |-> "motion", place |-> place, left |-> "left" \in held] \in Events
        BY DEF Events
      <3>2. QED
        BY <1>2, <3>1 DEF Move
    <2>2. /\ acts' \in 0..MaxActs /\ sdl' \in Seq(Events)
          /\ UNCHANGED <<channel, mode, device, swallowed>>
      BY <2>1, ActType
    <2>3. QED
      BY <1>2, <2>2 DEF Move, TypeOK, device
  <1>3. CASE Wheel
    <2>1. PICK event \in Events : Act(event)
      BY <1>3 DEF Wheel, Events
    <2>2. /\ acts' \in 0..MaxActs /\ sdl' \in Seq(Events)
          /\ UNCHANGED <<channel, mode, device, swallowed>>
      BY <2>1, ActType
    <2>3. QED
      BY <1>3, <2>2 DEF Wheel, TypeOK, device
  <1>4. CASE HandleEvent
    <2>1. sdl' \in Seq(Events) /\ channel' \in Seq(Messages) /\ swallowed' \in BOOLEAN
      BY <1>4, HandleType
    <2>2. UNCHANGED <<user, mode, device>>
      BY <1>4 DEF HandleEvent
    <2>3. QED
      BY <2>1, <2>2 DEF TypeOK, user, device
  <1>5. CASE Inject \/ InjectFails
    <2>1. /\ channel' \in Seq(Messages) /\ touching' \in BOOLEAN
          /\ finger' \in Points \cup {SoftKey, None} /\ fails' \in 0..MaxFails
      BY <1>5, InjectType
    <2>2. UNCHANGED <<user, sdl, mode, swallowed>>
      BY <1>5 DEF Inject, InjectFails
    <2>3. QED
      BY <2>1, <2>2 DEF TypeOK, user
  <1>6. CASE UNCHANGED vars
    BY <1>6 DEF vars, user, device, TypeOK
  <1>7. QED
    BY <1>1, <1>2, <1>3, <1>4, <1>5, <1>6 DEF Next

\* Only points of the screen are ever sent to the device.
THEOREM TypeCorrect == Spec => []TypeOK
  BY TypeInit, TypeStep, PTL DEF Spec

-----------------------------------------------------------------------------
\* uinput's touching.

LEMMA TouchingStep == TypeOK /\ TouchingIfFinger /\ [Next]_vars => TouchingIfFinger'
  <1> SUFFICES ASSUME TypeOK, TouchingIfFinger, [Next]_vars PROVE TouchingIfFinger'
    OBVIOUS
  <1>1. CASE Inject
    <2>1. mode' = mode /\ fails' = fails
      BY <1>1 DEF Inject
    <2>2. SUFFICES ASSUME Uinput, fails = 0, finger' # None PROVE touching'
      BY <2>1 DEF TouchingIfFinger, Uinput
    <2>3. finger # None => touching
      BY <2>2 DEF TouchingIfFinger
    <2>4. CASE InjectDown(Head(channel))
      BY <2>2, <2>4 DEF InjectDown
    <2>5. CASE InjectMove(Head(channel))
      BY <2>2, <2>3, <2>5 DEF InjectMove
    <2>6. CASE \/ InjectUp(Head(channel))
               \/ InjectScroll(Head(channel))
               \/ InjectRecents(Head(channel))
      BY <2>2, <2>6 DEF InjectUp, InjectScroll, InjectRecents
    <2>7. QED
      BY <1>1, <2>4, <2>5, <2>6 DEF Inject
  <1>2. CASE InjectFails
    BY <1>2 DEF InjectFails, TouchingIfFinger, TypeOK
  <1>3. ASSUME UNCHANGED <<device, mode>> PROVE TouchingIfFinger'
    BY <1>3 DEF device, TouchingIfFinger, Uinput
  <1>4. QED
    BY <1>1, <1>2, <1>3 DEF Next, Press, Release, Move, Wheel, Act, HandleEvent, vars

\* uinput never drops a move of a touch, unless a write has failed.
THEOREM MovesArrive == Spec => []TouchingIfFinger
  <1>1. Init => TouchingIfFinger
    BY DEF Init, TouchingIfFinger
  <1>2. QED
    BY <1>1, TypeInit, TypeStep, TouchingStep, PTL DEF Spec

-----------------------------------------------------------------------------
(***************************************************************************)
(* No button is held: the last thing that can change a finger, wherever it *)
(* is on its way, lifts it, or was a release over the toolbar.             *)
(***************************************************************************)
Harmless(event) == event.type = "wheel" \/ (event.type = "motion" /\ ~event.left)

LastIsUp ==
    \E i \in 1..Len(sdl) :
        /\ sdl[i].type = "up"
        /\ \A j \in i + 1..Len(sdl) : Harmless(sdl[j])

EndsLifted ==
    IF channel = <<>> THEN finger = None
                      ELSE channel[Len(channel)].type \in {"UP", "SCROLL", "RECENTS"}

LiftHolds ==
    held = {} /\ fails = 0 =>
        \/ LastIsUp
        \/ (\A i \in 1..Len(sdl) : Harmless(sdl[i])) /\ (swallowed \/ EndsLifted)

(***************************************************************************)
(* The left button drags: the press is on its way with nothing but motions *)
(* behind it, or it has put the finger on the screen.                      *)
(***************************************************************************)
Dragging(event) == event.type = "motion" /\ event.left

PressQueued ==
    \E i \in 1..Len(sdl) :
        /\ sdl[i].type = "down" /\ ~OverToolbar(sdl[i].place)
        /\ \A j \in i + 1..Len(sdl) : Dragging(sdl[j])

DownSent ==
    \E i \in 1..Len(channel) :
        /\ channel[i].type = "DOWN"
        /\ \A j \in i + 1..Len(channel) : channel[j].type = "MOVE"

FingerDown ==
    finger \in Points /\ \A i \in 1..Len(channel) : channel[i].type = "MOVE"

\* Where the finger will be once everything that is queued is handled.
EndsAtPointer ==
    IF sdl # <<>> THEN sdl[Len(sdl)].place = pointer
    ELSE ~OverToolbar(pointer) =>
            IF channel # <<>> THEN channel[Len(channel)].at = ScreenCoord(pointer)
                              ELSE finger = ScreenCoord(pointer)

DragHolds ==
    drag /\ fails = 0 =>
        /\ "left" \in held
        /\ \/ PressQueued
           \/ (\A i \in 1..Len(sdl) : Dragging(sdl[i])) /\ (DownSent \/ FingerDown)
        /\ EndsAtPointer

\* The first of a queue is taken from it, or one more is put into it.
LEMMA TailFacts ==
    ASSUME NEW S, NEW s \in Seq(S), s # <<>>
    PROVE  /\ Len(s) \in Nat /\ Len(s) >= 1
           /\ Len(Tail(s)) = Len(s) - 1
           /\ Head(s) = s[1] /\ s[1] \in S
           /\ \A i \in 1..Len(s) - 1 : Tail(s)[i] = s[i + 1]
           /\ Tail(s) \in Seq(S)
  OBVIOUS

LEMMA AppendFacts ==
    ASSUME NEW S, NEW s \in Seq(S), NEW e \in S
    PROVE  /\ Len(s) \in Nat
           /\ Len(Append(s, e)) = Len(s) + 1
           /\ Append(s, e)[Len(s) + 1] = e
           /\ \A i \in 1..Len(s) : Append(s, e)[i] = s[i]
           /\ Append(s, e) # <<>>
           /\ Append(s, e) \in Seq(S)
  OBVIOUS

LEMMA LenZero == ASSUME NEW S, NEW s \in Seq(S) PROVE Len(s) = 0 <=> s = <<>>
  OBVIOUS

\* The user acts: one more event is behind the others.
LEMMA UserActs ==
    ASSUME TypeOK, NEW event \in Events, Act(event)
    PROVE  /\ Len(sdl) \in Nat
           /\ Len(sdl') = Len(sdl) + 1
           /\ sdl'[Len(sdl) + 1] = event
           /\ \A i \in 1..Len(sdl) : sdl'[i] = sdl[i]
           /\ sdl' # <<>>
           /\ UNCHANGED <<channel, mode, touching, finger, fails, swallowed>>
  <1>1. sdl \in Seq(Events) /\ sdl' = Append(sdl, event)
    BY DEF TypeOK, Act
  <1>2. UNCHANGED <<channel, mode, touching, finger, fails, swallowed>>
    BY DEF Act, device
  <1>3. QED
    BY <1>1, <1>2, AppendFacts

-----------------------------------------------------------------------------
\* The lifting.

\* An event that sends nothing to a finger that is up.
LEMMA HarmlessLift ==
    ASSUME TypeOK, LiftHolds, NEW event \in Events, Act(event), Harmless(event),
           held' = held
    PROVE  LiftHolds'
  <1>1. SUFFICES ASSUME held = {}, fails' = 0
                 PROVE  \/ LastIsUp'
                        \/ /\ \A i \in 1..Len(sdl') : Harmless(sdl'[i])
                           /\ swallowed' \/ EndsLifted'
    BY DEF LiftHolds
  <1>2. PICK n \in Nat :
           /\ n = Len(sdl) /\ Len(sdl') = n + 1
           /\ sdl'[n + 1] = event
           /\ \A i \in 1..n : sdl'[i] = sdl[i]
    BY UserActs
  <1>3. channel' = channel /\ finger' = finger /\ fails' = fails /\ swallowed' = swallowed
    BY UserActs
  <1>4. CASE LastIsUp
    <2>1. PICK i \in 1..n :
             /\ sdl[i].type = "up"
             /\ \A j \in i + 1..n : Harmless(sdl[j])
      BY <1>2, <1>4 DEF LastIsUp
    <2>2. i \in 1..Len(sdl') /\ sdl'[i].type = "up"
      BY <1>2, <2>1
    <2>3. ASSUME NEW j \in i + 1..Len(sdl') PROVE Harmless(sdl'[j])
      <3>1. CASE j = n + 1
        BY <1>2, <3>1
      <3>2. CASE j # n + 1
        <4>1. j \in 1..n /\ j \in i + 1..n
          BY <1>2, <3>2
        <4>2. QED
          BY <1>2, <2>1, <4>1
      <3>3. QED
        BY <3>1, <3>2
    <2>4. QED
      BY <2>2, <2>3 DEF LastIsUp
  <1>5. CASE ~LastIsUp
    <2>1. (\A i \in 1..n : Harmless(sdl[i])) /\ (swallowed \/ EndsLifted)
      BY <1>1, <1>2, <1>3, <1>5 DEF LiftHolds
    <2>2. ASSUME NEW i \in 1..Len(sdl') PROVE Harmless(sdl'[i])
      <3>1. CASE i = n + 1
        BY <1>2, <3>1
      <3>2. CASE i # n + 1
        <4>1. i \in 1..n
          BY <1>2, <3>2
        <4>2. QED
          BY <1>2, <2>1, <4>1
      <3>3. QED
        BY <3>1, <3>2
    <2>3. swallowed' \/ EndsLifted'
      BY <1>3, <2>1 DEF EndsLifted
    <2>4. QED
      BY <2>2, <2>3
  <1>6. QED
    BY <1>4, <1>5

LEMMA UserLift ==
    ASSUME TypeOK, LiftHolds,
           \/ \E button \in Buttons : Press(button) \/ Release(button)
           \/ \E place \in Places : Move(place)
           \/ Wheel
    PROVE  LiftHolds'
  <1>1. ASSUME NEW button \in Buttons, Press(button) PROVE LiftHolds'
    BY <1>1 DEF Press, LiftHolds
  <1>2. ASSUME NEW button \in Buttons, Release(button) PROVE LiftHolds'
    <2>1. PICK event \in Events : event.type = "up" /\ Act(event)
      BY <1>2 DEF Release, Events, TypeOK
    <2>2. Len(sdl) + 1 \in 1..Len(sdl') /\ sdl'[Len(sdl) + 1].type = "up"
      BY <2>1, UserActs
    <2>3. Len(sdl) + 1 + 1..Len(sdl') = {}
      BY <2>1, UserActs
    <2>4. LastIsUp'
      BY <2>2, <2>3 DEF LastIsUp
    <2>5. QED
      BY <2>4 DEF LiftHolds
  <1>3. ASSUME NEW place \in Places, Move(place) PROVE LiftHolds'
    <2> DEFINE event == [type |-> "motion", place |-> place, left |-> "left" \in held]
    <2>1. event \in Events /\ Act(event) /\ held' = held
      BY <1>3 DEF Move, Events
    <2>2. CASE held = {}
      <3>1. Harmless(event)
        BY <2>2 DEF Harmless
      <3>2. QED
        BY <2>1, <3>1, HarmlessLift
    <2>3. CASE held # {}
      BY <2>1, <2>3 DEF LiftHolds
    <2>4. QED
      BY <2>2, <2>3
  <1>4. CASE Wheel
    <2>1. PICK event \in Events : event.type = "wheel" /\ Act(event) /\ held' = held
      BY <1>4 DEF Wheel, Events
    <2>2. QED
      BY <2>1, HarmlessLift DEF Harmless
  <1>5. QED
    BY <1>1, <1>2, <1>3, <1>4

\* The event loop.
LEMMA SendLifts ==
    ASSUME TypeOK, NEW msg \in Messages, Send(msg), msg.type \in {"UP", "SCROLL", "RECENTS"}
    PROVE  EndsLifted'
  <1>1. channel \in Seq(Messages) /\ channel' = Append(channel, msg)
    BY DEF TypeOK, Send
  <1>2. channel' # <<>> /\ channel'[Len(channel')] = msg
    BY <1>1, AppendFacts
  <1>3. QED
    BY <1>2 DEF EndsLifted

LEMMA HandleLift == ASSUME TypeOK, LiftHolds, HandleEvent PROVE LiftHolds'
  <1>1. held' = held /\ fails' = fails /\ finger' = finger
    BY DEF HandleEvent, user, device
  <1>2. SUFFICES ASSUME held = {}, fails = 0
                 PROVE  \/ LastIsUp'
                        \/ /\ \A i \in 1..Len(sdl') : Harmless(sdl'[i])
                           /\ swallowed' \/ EndsLifted'
    BY <1>1 DEF LiftHolds
  <1>3. PICK n \in Nat, e \in Events :
           /\ Len(sdl) = n + 1 /\ n = Len(sdl')
           /\ e = Head(sdl) /\ e = sdl[1]
           /\ \A i \in 1..n : sdl'[i] = sdl[i + 1]
    <2>1. sdl # <<>> /\ sdl' = Tail(sdl) /\ sdl \in Seq(Events)
      BY DEF HandleEvent, TypeOK
    <2>2. QED
      BY <2>1, TailFacts
  <1>4. HandleDown(e) \/ HandleUp(e) \/ HandleMotion(e) \/ HandleWheel(e)
    BY <1>3 DEF HandleEvent
  <1>5. ASSUME NEW i \in 1..n + 1, sdl[i].type = "up",
               \A j \in i + 1..n + 1 : Harmless(sdl[j])
        PROVE  LastIsUp' \/ (i = 1 /\ \A j \in 1..n : Harmless(sdl'[j]))
    <2>1. ASSUME NEW j \in 1..n, j >= i PROVE Harmless(sdl'[j])
      <3>1. j + 1 \in i + 1..n + 1
        BY <2>1
      <3>2. QED
        BY <1>3, <1>5, <3>1
    <2>2. CASE i = 1
      BY <2>1, <2>2
    <2>3. CASE i # 1
      <3>1. i - 1 \in 1..n /\ (i - 1) + 1 = i
        BY <2>3
      <3>2. sdl'[i - 1].type = "up"
        BY <1>3, <1>5, <3>1
      <3>3. \A j \in (i - 1) + 1..n : j \in 1..n /\ j >= i
        BY <3>1
      <3>4. QED
        BY <1>3, <2>1, <3>1, <3>2, <3>3 DEF LastIsUp
    <2>4. QED
      BY <2>2, <2>3
  <1>6. CASE LastIsUp
    <2>1. PICK i \in 1..n + 1 :
             /\ sdl[i].type = "up"
             /\ \A j \in i + 1..n + 1 : Harmless(sdl[j])
      BY <1>3, <1>6 DEF LastIsUp
    <2>2. SUFFICES ASSUME i = 1, \A j \in 1..n : Harmless(sdl'[j])
                   PROVE  swallowed' \/ EndsLifted'
      BY <1>3, <1>5, <2>1
    <2>3. HandleUp(e)
      BY <1>3, <1>4, <2>1, <2>2 DEF HandleDown, HandleMotion, HandleWheel
    <2>4. CASE OverToolbar(e.place)
      BY <2>3, <2>4 DEF HandleUp
    <2>5. CASE ~OverToolbar(e.place)
      <3>1. [type |-> "UP"] \in Messages
        BY DEF Messages
      <3>2. Send([type |-> "UP"])
        BY <2>3, <2>5 DEF HandleUp
      <3>3. QED
        BY <3>1, <3>2, SendLifts
    <2>6. QED
      BY <2>4, <2>5
  <1>7. CASE ~LastIsUp
    <2>1. \A i \in 1..n + 1 : Harmless(sdl[i])
      BY <1>2, <1>3, <1>7 DEF LiftHolds
    <2>2. swallowed \/ EndsLifted
      BY <1>2, <1>7 DEF LiftHolds
    <2>3. ASSUME NEW i \in 1..n PROVE Harmless(sdl'[i])
      <3>1. i + 1 \in 1..n + 1
        OBVIOUS
      <3>2. QED
        BY <1>3, <2>1, <3>1
    <2>4. Harmless(e)
      BY <1>3, <2>1
    <2>5. swallowed' = swallowed
      BY <1>4, <2>4 DEF Harmless, HandleDown, HandleUp, HandleMotion, HandleWheel
    <2>6. CASE channel' = channel
      BY <1>1, <1>3, <2>2, <2>3, <2>5, <2>6 DEF EndsLifted
    <2>7. CASE channel' # channel
      <3>1. HandleWheel(e)
        BY <1>4, <2>4, <2>7 DEF Harmless, HandleDown, HandleUp, HandleMotion
      <3>2. ~OverToolbar(pointer) /\ Send([type |-> "SCROLL", at |-> ScreenCoord(pointer)])
        BY <2>7, <3>1 DEF HandleWheel
      <3>3. ScreenCoord(pointer) \in Points
        BY <3>2, ScreenCoordType DEF TypeOK
      <3>4. [type |-> "SCROLL", at |-> ScreenCoord(pointer)] \in Messages
        BY <3>3 DEF Messages
      <3>5. EndsLifted'
        BY <3>2, <3>4, SendLifts
      <3>6. QED
        BY <1>3, <2>3, <3>5
    <2>8. QED
      BY <2>6, <2>7
  <1>8. QED
    BY <1>6, <1>7

\* The injector.
LEMMA InjectLift == ASSUME TypeOK, LiftHolds, Inject \/ InjectFails PROVE LiftHolds'
  <1>1. sdl' = sdl /\ swallowed' = swallowed /\ held' = held
    BY DEF Inject, InjectFails, user
  <1>2. SUFFICES ASSUME fails' = 0, EndsLifted PROVE EndsLifted'
    BY <1>1 DEF LiftHolds, LastIsUp, TypeOK, Inject, InjectFails
  <1>3. Inject
    BY <1>2 DEF InjectFails, TypeOK
  <1>4. PICK n \in Nat, m \in Messages :
           /\ Len(channel) = n + 1 /\ n = Len(channel')
           /\ m = Head(channel) /\ m = channel[1]
           /\ \A i \in 1..n : channel'[i] = channel[i + 1]
           /\ channel # <<>>
           /\ channel' \in Seq(Messages)
    <2>1. channel # <<>> /\ channel' = Tail(channel) /\ channel \in Seq(Messages)
      BY <1>3 DEF Inject, TypeOK
    <2>2. QED
      BY <2>1, TailFacts
  <1>5. channel[n + 1].type \in {"UP", "SCROLL", "RECENTS"}
    BY <1>2, <1>4 DEF EndsLifted
  <1>6. CASE n = 0
    <2>1. channel' = <<>>
      BY <1>4, <1>6, LenZero
    <2>2. finger' = None
      BY <1>3, <1>4, <1>5, <1>6
         DEF Inject, InjectDown, InjectMove, InjectUp, InjectScroll, InjectRecents
    <2>3. QED
      BY <2>1, <2>2 DEF EndsLifted
  <1>7. CASE n # 0
    <2>1. channel' # <<>>
      BY <1>4, <1>7, LenZero
    <2>2. channel'[n] = channel[n + 1]
      BY <1>4, <1>7
    <2>3. QED
      BY <1>4, <1>5, <2>1, <2>2 DEF EndsLifted
  <1>8. QED
    BY <1>6, <1>7

LEMMA LiftStep == TypeOK /\ LiftHolds /\ [Next]_vars => LiftHolds'
  <1> SUFFICES ASSUME TypeOK, LiftHolds, [Next]_vars PROVE LiftHolds'
    OBVIOUS
  <1>1. CASE UNCHANGED vars
    <2>1. UNCHANGED <<sdl, channel, held, finger, fails, swallowed>>
      BY <1>1 DEF vars, user, device
    <2>2. QED
      BY <2>1 DEF LiftHolds, LastIsUp, EndsLifted
  <1>2. QED
    BY <1>1, UserLift, HandleLift, InjectLift DEF Next

\* With no button held, only a release over the toolbar, or a write that failed,
\* has left the finger down, for any number of presses of both buttons, turns of
\* the wheel and taps on Recents.
THEOREM LiftedInTheEnd == Spec => []StuckOnlyByToolbarRelease
  <1>1. Init => LiftHolds
    <2>1. SUFFICES ASSUME Init PROVE EndsLifted /\ \A i \in 1..Len(sdl) : Harmless(sdl[i])
      BY DEF LiftHolds
    <2>2. Len(sdl) = 0
      BY <2>1 DEF Init
    <2>3. QED
      BY <2>1, <2>2 DEF Init, EndsLifted
  <1>2. TypeOK /\ LiftHolds => StuckOnlyByToolbarRelease
    <2>1. SUFFICES ASSUME TypeOK, LiftHolds, Drained, held = {}, finger # None
                   PROVE  swallowed \/ fails > 0
      BY DEF StuckOnlyByToolbarRelease
    <2>2. ~EndsLifted
      BY <2>1 DEF Drained, EndsLifted
    <2>3. ~LastIsUp
      BY <2>1 DEF Drained, LastIsUp
    <2>4. fails = 0 \/ fails > 0
      BY <2>1, BoundsAssumption DEF TypeOK
    <2>5. QED
      BY <2>1, <2>2, <2>3, <2>4 DEF LiftHolds
  <1>3. QED
    BY <1>1, <1>2, TypeInit, TypeStep, LiftStep, PTL DEF Spec

-----------------------------------------------------------------------------
\* The dragging.

LEMMA UserDrag ==
    ASSUME TypeOK, DragHolds,
           \/ \E button \in Buttons : Press(button) \/ Release(button)
           \/ \E place \in Places : Move(place)
           \/ Wheel
    PROVE  DragHolds'
  <1>1. ASSUME NEW button \in Buttons, Press(button) PROVE DragHolds'
    <2>1. SUFFICES ASSUME drag' PROVE "left" \in held' /\ PressQueued' /\ EndsAtPointer'
      BY DEF DragHolds
    <2>2. button = "left" /\ ~OverToolbar(pointer) /\ pointer' = pointer
      BY <1>1, <2>1, PlacesAssumption DEF Press, OverToolbar
    <2>3. PICK event \in Events :
             event.type = "down" /\ event.place = pointer /\ Act(event)
      BY <1>1 DEF Press, Events, TypeOK
    <2>4. PICK n \in Nat : n = Len(sdl') /\ n \in 1..n /\ sdl'[n] = event /\ sdl' # <<>>
      BY <2>3, UserActs
    <2>5. n + 1..Len(sdl') = {}
      BY <2>4
    <2>6. PressQueued'
      BY <2>2, <2>3, <2>4, <2>5 DEF PressQueued
    <2>7. EndsAtPointer'
      BY <2>2, <2>3, <2>4 DEF EndsAtPointer
    <2>8. "left" \in held'
      BY <1>1, <2>2 DEF Press
    <2>9. QED
      BY <2>6, <2>7, <2>8
  <1>2. ASSUME NEW button \in Buttons, Release(button) PROVE DragHolds'
    BY <1>2 DEF Release, DragHolds
  <1>3. CASE Wheel
    BY <1>3 DEF Wheel, DragHolds
  <1>4. ASSUME NEW place \in Places, Move(place) PROVE DragHolds'
    <2> DEFINE event == [type |-> "motion", place |-> place, left |-> "left" \in held]
    <2>1. event \in Events /\ Act(event) /\ held' = held /\ drag' = drag /\ pointer' = place
      BY <1>4 DEF Move, Events
    <2>2. PICK n \in Nat :
             /\ n = Len(sdl) /\ Len(sdl') = n + 1
             /\ sdl'[n + 1] = event
             /\ \A i \in 1..n : sdl'[i] = sdl[i]
             /\ sdl' # <<>>
      BY <2>1, UserActs
    <2>3. channel' = channel /\ finger' = finger /\ fails' = fails
      BY <2>1, UserActs
    <2>4. SUFFICES ASSUME drag, fails = 0
                   PROVE  /\ "left" \in held
                          /\ \/ PressQueued'
                             \/ /\ \A i \in 1..Len(sdl') : Dragging(sdl'[i])
                                /\ DownSent \/ FingerDown
                          /\ EndsAtPointer'
      BY <2>1, <2>3 DEF DragHolds, DownSent, FingerDown
    <2>5. "left" \in held
      BY <2>4 DEF DragHolds
    <2>6. Dragging(event)
      BY <2>5 DEF Dragging
    <2>7. EndsAtPointer'
      BY <2>1, <2>2 DEF EndsAtPointer
    <2>8. CASE PressQueued
      <3>1. PICK i \in 1..n :
               /\ sdl[i].type = "down" /\ ~OverToolbar(sdl[i].place)
               /\ \A j \in i + 1..n : Dragging(sdl[j])
        BY <2>2, <2>8 DEF PressQueued
      <3>2. ASSUME NEW j \in i + 1..Len(sdl') PROVE Dragging(sdl'[j])
        <4>1. CASE j = n + 1
          BY <2>2, <2>6, <4>1
        <4>2. CASE j # n + 1
          <5>1. j \in 1..n /\ j \in i + 1..n
            BY <2>2, <4>2
          <5>2. QED
            BY <2>2, <3>1, <5>1
        <4>3. QED
          BY <4>1, <4>2
      <3>3. i \in 1..Len(sdl') /\ sdl'[i] = sdl[i]
        BY <2>2
      <3>4. PressQueued'
        BY <3>1, <3>2, <3>3 DEF PressQueued
      <3>5. QED
        BY <2>5, <2>7, <3>4
    <2>9. CASE ~PressQueued
      <3>1. (\A i \in 1..n : Dragging(sdl[i])) /\ (DownSent \/ FingerDown)
        BY <2>2, <2>4, <2>9 DEF DragHolds
      <3>2. ASSUME NEW j \in 1..Len(sdl') PROVE Dragging(sdl'[j])
        <4>1. CASE j = n + 1
          BY <2>2, <2>6, <4>1
        <4>2. CASE j # n + 1
          <5>1. j \in 1..n
            BY <2>2, <4>2
          <5>2. QED
            BY <2>2, <3>1, <5>1
        <4>3. QED
          BY <4>1, <4>2
      <3>3. QED
        BY <2>5, <2>7, <3>1, <3>2
    <2>10. QED
      BY <2>8, <2>9
  <1>5. QED
    BY <1>1, <1>2, <1>3, <1>4

\* What is sent for a press or for a motion of a drag.
LEMMA SendDown ==
    ASSUME TypeOK, NEW msg \in Messages, Send(msg), msg.type = "DOWN"
    PROVE  DownSent'
  <1>1. channel \in Seq(Messages) /\ channel' = Append(channel, msg)
    BY DEF TypeOK, Send
  <1>2. PICK n \in Nat : n = Len(channel') /\ n \in 1..n /\ channel'[n] = msg
    BY <1>1, AppendFacts
  <1>3. n + 1..Len(channel') = {}
    BY <1>2
  <1>4. QED
    BY <1>2, <1>3 DEF DownSent

LEMMA SendMove ==
    ASSUME TypeOK, NEW msg \in Messages, Send(msg), msg.type = "MOVE", finger' = finger,
           DownSent \/ FingerDown
    PROVE  DownSent' \/ FingerDown'
  <1>1. PICK n \in Nat :
           /\ n = Len(channel) /\ Len(channel') = n + 1
           /\ channel'[n + 1] = msg
           /\ \A i \in 1..n : channel'[i] = channel[i]
    <2>1. channel \in Seq(Messages) /\ channel' = Append(channel, msg)
      BY DEF TypeOK, Send
    <2>2. QED
      BY <2>1, AppendFacts
  <1>2. CASE DownSent
    <2>1. PICK i \in 1..n :
             /\ channel[i].type = "DOWN"
             /\ \A j \in i + 1..n : channel[j].type = "MOVE"
      BY <1>1, <1>2 DEF DownSent
    <2>2. ASSUME NEW j \in i + 1..Len(channel') PROVE channel'[j].type = "MOVE"
      <3>1. CASE j = n + 1
        BY <1>1, <3>1
      <3>2. CASE j # n + 1
        <4>1. j \in 1..n /\ j \in i + 1..n
          BY <1>1, <3>2
        <4>2. QED
          BY <1>1, <2>1, <4>1
      <3>3. QED
        BY <3>1, <3>2
    <2>3. i \in 1..Len(channel') /\ channel'[i] = channel[i]
      BY <1>1
    <2>4. QED
      BY <2>1, <2>2, <2>3 DEF DownSent
  <1>3. CASE FingerDown
    <2>1. ASSUME NEW j \in 1..Len(channel') PROVE channel'[j].type = "MOVE"
      <3>1. CASE j = n + 1
        BY <1>1, <3>1
      <3>2. CASE j # n + 1
        <4>1. j \in 1..n
          BY <1>1, <3>2
        <4>2. QED
          BY <1>1, <1>3, <4>1 DEF FingerDown
      <3>3. QED
        BY <3>1, <3>2
    <2>2. QED
      BY <1>3, <2>1 DEF FingerDown
  <1>4. QED
    BY <1>2, <1>3

LEMMA SentAtPointer ==
    ASSUME TypeOK, NEW msg \in Messages, Send(msg), sdl' = <<>>, pointer' = pointer,
           msg.at = ScreenCoord(pointer)
    PROVE  EndsAtPointer'
  <1>1. channel \in Seq(Messages) /\ channel' = Append(channel, msg)
    BY DEF TypeOK, Send
  <1>2. channel' # <<>> /\ channel'[Len(channel')] = msg
    BY <1>1, AppendFacts
  <1>3. QED
    BY <1>2 DEF EndsAtPointer

LEMMA HandleDrag == ASSUME TypeOK, DragHolds, HandleEvent PROVE DragHolds'
  <1>1. UNCHANGED <<held, drag, pointer, fails, finger>>
    BY DEF HandleEvent, user, device
  <1>2. SUFFICES ASSUME drag, fails = 0
                 PROVE  /\ \/ PressQueued'
                           \/ /\ \A i \in 1..Len(sdl') : Dragging(sdl'[i])
                              /\ DownSent' \/ FingerDown'
                        /\ EndsAtPointer'
    BY <1>1 DEF DragHolds
  <1>3. PICK n \in Nat, e \in Events :
           /\ Len(sdl) = n + 1 /\ n = Len(sdl')
           /\ e = Head(sdl) /\ e = sdl[1]
           /\ \A i \in 1..n : sdl'[i] = sdl[i + 1]
           /\ sdl # <<>> /\ sdl' \in Seq(Events)
    <2>1. sdl # <<>> /\ sdl' = Tail(sdl) /\ sdl \in Seq(Events)
      BY DEF HandleEvent, TypeOK
    <2>2. QED
      BY <2>1, TailFacts
  <1>4. HandleDown(e) \/ HandleUp(e) \/ HandleMotion(e) \/ HandleWheel(e)
    BY <1>3 DEF HandleEvent
  <1>5. n = 0 <=> sdl' = <<>>
    BY <1>3, LenZero
  <1>6. sdl[n + 1].place = pointer
    BY <1>2, <1>3 DEF DragHolds, EndsAtPointer
  <1>7. n # 0 => EndsAtPointer'
    <2>1. SUFFICES ASSUME n # 0 PROVE sdl'[n].place = pointer
      BY <1>1, <1>3, <1>5 DEF EndsAtPointer
    <2>2. sdl'[n] = sdl[n + 1]
      BY <1>3, <2>1
    <2>3. QED
      BY <1>6, <2>2
  <1>8. CASE PressQueued
    <2>1. PICK i \in 1..n + 1 :
             /\ sdl[i].type = "down" /\ ~OverToolbar(sdl[i].place)
             /\ \A j \in i + 1..n + 1 : Dragging(sdl[j])
      BY <1>3, <1>8 DEF PressQueued
    <2>2. ASSUME NEW j \in 1..n, j >= i PROVE Dragging(sdl'[j])
      <3>1. j + 1 \in i + 1..n + 1
        BY <2>2
      <3>2. QED
        BY <1>3, <2>1, <3>1
    <2>3. CASE i = 1
      <3>1. e.type = "down" /\ ~OverToolbar(e.place)
        BY <1>3, <2>1, <2>3
      <3>2. HandleDown(e)
        BY <1>4, <3>1 DEF HandleUp, HandleMotion, HandleWheel
      <3>3. e.place \in Places
        BY <3>1 DEF Events
      <3>4. e.place # Recents /\ e.place # Toolbar
        BY <3>1 DEF OverToolbar
      <3>5. Send([type |-> "DOWN", at |-> ScreenCoord(e.place)])
        BY <3>2, <3>4, Zenon DEF HandleDown
      <3>6. [type |-> "DOWN", at |-> ScreenCoord(e.place)] \in Messages
        BY <3>1, <3>3, ScreenCoordType DEF Messages
      <3>7. DownSent'
        BY <3>5, <3>6, SendDown
      <3>8. n = 0 => EndsAtPointer'
        <4>1. SUFFICES ASSUME n = 0 PROVE EndsAtPointer'
          OBVIOUS
        <4>2. e.place = pointer /\ sdl' = <<>>
          BY <1>3, <1>5, <1>6, <4>1
        <4>3. QED
          BY <1>1, <3>5, <3>6, <4>2, SentAtPointer
      <3>9. \A j \in 1..Len(sdl') : Dragging(sdl'[j])
        BY <1>3, <2>2, <2>3
      <3>10. QED
        BY <1>7, <3>7, <3>8, <3>9
    <2>4. CASE i # 1
      <3>1. i - 1 \in 1..n /\ (i - 1) + 1 = i /\ n # 0
        BY <2>4
      <3>2. sdl'[i - 1] = sdl[i]
        BY <1>3, <3>1
      <3>3. \A j \in (i - 1) + 1..n : j \in 1..n /\ j >= i
        BY <3>1
      <3>4. PressQueued'
        BY <1>3, <2>1, <2>2, <3>1, <3>2, <3>3 DEF PressQueued
      <3>5. QED
        BY <1>7, <3>1, <3>4
    <2>5. QED
      BY <2>3, <2>4
  <1>9. CASE ~PressQueued
    <2>1. (\A i \in 1..n + 1 : Dragging(sdl[i])) /\ (DownSent \/ FingerDown)
      BY <1>2, <1>3, <1>9 DEF DragHolds
    <2>2. ASSUME NEW i \in 1..n PROVE Dragging(sdl'[i])
      <3>1. i + 1 \in 1..n + 1
        OBVIOUS
      <3>2. QED
        BY <1>3, <2>1, <3>1
    <2>3. Dragging(e)
      BY <1>3, <2>1
    <2>4. HandleMotion(e) /\ e.place \in Places
      BY <1>4, <2>3 DEF Dragging, HandleDown, HandleUp, HandleWheel, Events
    <2>5. n = 0 => e.place = pointer
      BY <1>3, <1>6
    <2>6. CASE OverToolbar(e.place)
      <3>1. channel' = channel
        BY <2>4, <2>6 DEF HandleMotion
      <3>2. DownSent' \/ FingerDown'
        BY <1>1, <2>1, <3>1 DEF DownSent, FingerDown
      <3>3. n = 0 => EndsAtPointer'
        BY <1>1, <1>5, <2>5, <2>6 DEF EndsAtPointer, OverToolbar
      <3>4. QED
        BY <1>3, <1>7, <2>2, <3>2, <3>3
    <2>7. CASE ~OverToolbar(e.place)
      <3>1. Send([type |-> "MOVE", at |-> ScreenCoord(e.place)])
        BY <2>3, <2>4, <2>7 DEF HandleMotion, Dragging
      <3>2. [type |-> "MOVE", at |-> ScreenCoord(e.place)] \in Messages
        BY <2>4, <2>7, ScreenCoordType DEF Messages
      <3>3. DownSent' \/ FingerDown'
        BY <1>1, <2>1, <3>1, <3>2, SendMove
      <3>4. n = 0 => EndsAtPointer'
        BY <1>1, <1>5, <2>5, <3>1, <3>2, SentAtPointer
      <3>5. QED
        BY <1>3, <1>7, <2>2, <3>3, <3>4
    <2>8. QED
      BY <2>6, <2>7
  <1>10. QED
    BY <1>8, <1>9

LEMMA InjectDrag ==
    ASSUME TypeOK, TouchingIfFinger, DragHolds, Inject \/ InjectFails
    PROVE  DragHolds'
  <1>1. UNCHANGED <<sdl, held, drag, pointer>>
    BY DEF Inject, InjectFails, user
  <1>2. SUFFICES ASSUME fails' = 0, fails = 0, Inject, DownSent \/ FingerDown
                 PROVE  /\ DownSent' \/ FingerDown'
                        /\ sdl = <<>> /\ EndsAtPointer => EndsAtPointer'
    <2>1. fails' = 0 => fails = 0 /\ Inject
      BY DEF Inject, InjectFails, TypeOK
    <2>2. PressQueued' <=> PressQueued
      BY <1>1 DEF PressQueued
    <2>3. sdl = <<>> => ~PressQueued
      BY DEF PressQueued
    <2>4. sdl # <<>> => (EndsAtPointer' <=> EndsAtPointer)
      BY <1>1 DEF EndsAtPointer
    <2>5. QED
      BY <1>1, <2>1, <2>2, <2>3, <2>4 DEF DragHolds
  <1>3. PICK n \in Nat, m \in Messages :
           /\ Len(channel) = n + 1 /\ n = Len(channel')
           /\ m = Head(channel) /\ m = channel[1]
           /\ \A i \in 1..n : channel'[i] = channel[i + 1]
           /\ channel # <<>>
           /\ channel' \in Seq(Messages)
    <2>1. channel # <<>> /\ channel' = Tail(channel) /\ channel \in Seq(Messages)
      BY <1>2 DEF Inject, TypeOK
    <2>2. QED
      BY <2>1, TailFacts
  <1>4. \/ /\ DownSent'
           /\ n # 0
        \/ /\ m.type = "DOWN" \/ (m.type = "MOVE" /\ finger \in Points)
           /\ \A i \in 1..n : channel'[i].type = "MOVE"
    <2>1. CASE DownSent
      <3>1. PICK i \in 1..n + 1 :
               /\ channel[i].type = "DOWN"
               /\ \A j \in i + 1..n + 1 : channel[j].type = "MOVE"
        BY <1>3, <2>1 DEF DownSent
      <3>2. ASSUME NEW j \in 1..n, j >= i PROVE channel'[j].type = "MOVE"
        <4>1. j + 1 \in i + 1..n + 1
          BY <3>2
        <4>2. QED
          BY <1>3, <3>1, <4>1
      <3>3. CASE i = 1
        BY <1>3, <3>1, <3>2, <3>3
      <3>4. CASE i # 1
        <4>1. i - 1 \in 1..n /\ (i - 1) + 1 = i /\ n # 0
          BY <3>4
        <4>2. channel'[i - 1].type = "DOWN"
          BY <1>3, <3>1, <4>1
        <4>3. \A j \in (i - 1) + 1..n : j \in 1..n /\ j >= i
          BY <4>1
        <4>4. QED
          BY <1>3, <3>2, <4>1, <4>2, <4>3 DEF DownSent
      <3>5. QED
        BY <3>3, <3>4
    <2>2. CASE FingerDown
      <3>1. m.type = "MOVE" /\ finger \in Points
        BY <1>3, <2>2 DEF FingerDown
      <3>2. ASSUME NEW i \in 1..n PROVE channel'[i].type = "MOVE"
        <4>1. i + 1 \in 1..n + 1
          OBVIOUS
        <4>2. QED
          BY <1>3, <2>2, <4>1 DEF FingerDown
      <3>3. QED
        BY <3>1, <3>2
    <2>3. QED
      BY <1>2, <2>1, <2>2
  <1>5. n # 0 /\ sdl = <<>> /\ EndsAtPointer => EndsAtPointer'
    <2>1. SUFFICES ASSUME n # 0, sdl = <<>>, EndsAtPointer PROVE EndsAtPointer'
      OBVIOUS
    <2>2. channel' # <<>>
      BY <1>3, <2>1, LenZero
    <2>3. channel'[n] = channel[n + 1]
      BY <1>3, <2>1
    <2>4. QED
      BY <1>1, <1>3, <2>1, <2>2, <2>3 DEF EndsAtPointer
  <1>6. CASE DownSent' /\ n # 0
    BY <1>5, <1>6
  <1>7. CASE /\ m.type = "DOWN" \/ (m.type = "MOVE" /\ finger \in Points)
             /\ \A i \in 1..n : channel'[i].type = "MOVE"
    <2>1. m.at \in Points
      BY <1>7 DEF Messages
    <2>2. finger' = m.at
      <3>1. CASE m.type = "DOWN"
        BY <1>2, <1>3, <3>1
           DEF Inject, InjectDown, InjectMove, InjectUp, InjectScroll, InjectRecents
      <3>2. CASE m.type = "MOVE" /\ finger \in Points
        <4>1. finger # None
          BY <3>2, PlacesAssumption
        <4>2. Uinput => touching
          BY <1>2, <4>1 DEF TouchingIfFinger
        <4>3. InjectMove(m)
          BY <1>2, <1>3, <3>2
             DEF Inject, InjectDown, InjectUp, InjectScroll, InjectRecents
        <4>4. QED
          BY <4>1, <4>2, <4>3 DEF InjectMove
      <3>3. QED
        BY <1>7, <3>1, <3>2
    <2>3. FingerDown'
      BY <1>3, <1>7, <2>1, <2>2 DEF FingerDown
    <2>4. n = 0 /\ sdl = <<>> /\ EndsAtPointer => EndsAtPointer'
      <3>1. SUFFICES ASSUME n = 0, sdl = <<>>, EndsAtPointer PROVE EndsAtPointer'
        OBVIOUS
      <3>2. channel' = <<>>
        BY <1>3, <3>1, LenZero
      <3>3. QED
        BY <1>1, <1>3, <2>2, <3>1, <3>2 DEF EndsAtPointer
    <2>5. QED
      BY <1>5, <2>3, <2>4
  <1>8. QED
    BY <1>4, <1>6, <1>7

LEMMA DragStep == TypeOK /\ TouchingIfFinger /\ DragHolds /\ [Next]_vars => DragHolds'
  <1> SUFFICES ASSUME TypeOK, TouchingIfFinger, DragHolds, [Next]_vars PROVE DragHolds'
    OBVIOUS
  <1>1. CASE UNCHANGED vars
    <2>1. UNCHANGED <<sdl, channel, held, finger, fails, drag, pointer>>
      BY <1>1 DEF vars, user, device
    <2>2. QED
      BY <2>1 DEF DragHolds, PressQueued, DownSent, FingerDown, EndsAtPointer
  <1>2. QED
    BY <1>1, UserDrag, HandleDrag, InjectDrag DEF Next

\* While the left button drags, from a press on a point of the screen and whatever was
\* queued before it, the finger ends on the screen, and where the pointer is if that is
\* a point of it, for any number of motions and for both ways of injecting.
THEOREM FingerFollows == Spec => []DragFollows
  <1>1. Init => DragHolds /\ TouchingIfFinger
    BY DEF Init, DragHolds, TouchingIfFinger
  <1>2. DragHolds => DragFollows
    <2>1. SUFFICES ASSUME DragHolds, Drained, drag, fails = 0
                   PROVE  /\ finger \in Points
                          /\ ~OverToolbar(pointer) => finger = ScreenCoord(pointer)
      BY PlacesAssumption DEF DragFollows, OverToolbar, ScreenCoord
    <2>2. ~PressQueued /\ ~DownSent
      BY <2>1 DEF Drained, PressQueued, DownSent
    <2>3. QED
      BY <2>1, <2>2 DEF DragHolds, FingerDown, EndsAtPointer, Drained
  <1>3. QED
    BY <1>1, <1>2, TypeInit, TypeStep, TouchingStep, DragStep, PTL DEF Spec
=============================================================================
