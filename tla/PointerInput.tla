---------------------------- MODULE PointerInput ----------------------------
(***************************************************************************)
(* The mouse, from the hand of the user to the finger on the device: the   *)
(* event loop of the client (main.c, toolbar.c, input_handler.c), the      *)
(* control channel, and the injector of the server (input_injector.c).     *)
(*                                                                         *)
(* The control channel is the FIFO that ControlChannel implements as long  *)
(* as no message is torn.  A place is a point of the mirrored screen, a    *)
(* black border beside it, the Recents button of the toolbar, or the rest  *)
(* of the toolbar (the other buttons send keys, which this module leaves   *)
(* out).  The device has one finger: every touch is sent with pointerId 0, *)
(* and uinput has one slot.                                                *)
(***************************************************************************)
EXTENDS Naturals, Sequences

CONSTANTS
    Points,     \* points of the mirrored screen
    Edge,       \* the one of them a border is clamped to
    SoftKey,    \* where the injector taps for Recents
    None,       \* no finger
    MaxActs,    \* bound: acts of the user
    MaxFails    \* bound: writes to uinput that fail

Border == "border"
Recents == "recents"
Toolbar == "toolbar"
Places == Points \cup {Border, Recents, Toolbar}
Buttons == {"left", "right"}

ASSUME PlacesAssumption ==
    /\ Edge \in Points
    /\ None \notin Points \cup {SoftKey}
    /\ Points \cap {Border, Recents, Toolbar} = {}

ASSUME BoundsAssumption == MaxActs \in Nat /\ MaxFails \in Nat

VARIABLES
    pointer,    \* where the pointer is
    held,       \* the buttons that are down
    acts,       \* how often the user has acted
    sdl,        \* the event queue of SDL
    channel,    \* control messages on their way
    mode,       \* g_inputMode: "ohinput" or "uinput"
    touching,   \* g_uinput.touching
    finger,     \* where the finger of the device is, or None
    fails,      \* writes that have failed
    swallowed,  \* history: the last release the client handled sent nothing
    drag        \* history: all acts since a press of the left button on a
                \* point of the screen were motions

user == <<pointer, held, acts, drag>>
device == <<touching, finger, fails>>
vars == <<user, sdl, channel, mode, device, swallowed>>

Init ==
    /\ pointer \in Places
    /\ held = {}
    /\ acts = 0
    /\ sdl = <<>>
    /\ channel = <<>>
    /\ mode \in {"ohinput", "uinput"}
    /\ touching = FALSE
    /\ finger = None
    /\ fails = 0
    /\ swallowed = FALSE
    /\ drag = FALSE

OverToolbar(place) == place \in {Recents, Toolbar}

-----------------------------------------------------------------------------
\* The user; SDL queues an event for every act.

Act(event) ==
    /\ acts < MaxActs
    /\ acts' = acts + 1
    /\ sdl' = Append(sdl, event)
    /\ UNCHANGED <<channel, mode, device, swallowed>>

Press(button) ==
    /\ button \notin held
    /\ held' = held \cup {button}
    /\ drag' = (button = "left" /\ pointer \in Points)
    /\ Act([type |-> "down", place |-> pointer])
    /\ UNCHANGED pointer

Release(button) ==
    /\ button \in held
    /\ held' = held \ {button}
    /\ drag' = FALSE
    /\ Act([type |-> "up", place |-> pointer])
    /\ UNCHANGED pointer

Move(place) ==
    /\ place # pointer
    /\ pointer' = place
    /\ Act([type |-> "motion", place |-> place, left |-> "left" \in held])
    /\ UNCHANGED <<held, drag>>

Wheel ==
    /\ drag' = FALSE
    /\ Act([type |-> "wheel"])
    /\ UNCHANGED <<pointer, held>>

-----------------------------------------------------------------------------
\* The event loop of the client takes one event.

\* Mutant: no clamping.
NoClamp(place) == place

\* window_to_screen_coord clamps a border to the edge of the screen.
ScreenCoord(place) == IF place = Border THEN Edge ELSE place

Send(msg) == channel' = Append(channel, msg)

\* toolbar_handle_mouse_click comes first; only a press can hit a button of it.
\* Any button of the mouse will do, and all of them send the same touch.
HandleDown(event) ==
    /\ event.type = "down"
    /\ CASE event.place = Recents -> Send([type |-> "RECENTS"])
         [] event.place = Toolbar -> UNCHANGED channel
         [] OTHER -> Send([type |-> "DOWN", at |-> ScreenCoord(event.place)])
    /\ UNCHANGED swallowed

\* Mutant: the pointer is asked for, as for a wheel event.
HandleUpAtPointer(event) ==
    /\ event.type = "up"
    /\ IF OverToolbar(pointer)
       THEN UNCHANGED channel
       ELSE Send([type |-> "UP"])
    /\ swallowed' = OverToolbar(event.place)

\* A release over the toolbar is sent nowhere.
HandleUp(event) ==
    /\ event.type = "up"
    /\ IF OverToolbar(event.place)
       THEN UNCHANGED channel
       ELSE Send([type |-> "UP"])
    /\ swallowed' = OverToolbar(event.place)

\* A motion over the screen is a move while the left button is down, wherever
\* it was pressed.
HandleMotion(event) ==
    /\ event.type = "motion"
    /\ IF ~OverToolbar(event.place) /\ event.left
       THEN Send([type |-> "MOVE", at |-> ScreenCoord(event.place)])
       ELSE UNCHANGED channel
    /\ UNCHANGED swallowed

\* A wheel event has no place: SDL_GetMouseState says where the pointer is NOW.
HandleWheel(event) ==
    /\ event.type = "wheel"
    /\ IF OverToolbar(pointer)
       THEN UNCHANGED channel
       ELSE Send([type |-> "SCROLL", at |-> ScreenCoord(pointer)])
    /\ UNCHANGED swallowed

HandleEvent ==
    /\ sdl # <<>>
    /\ sdl' = Tail(sdl)
    /\ LET event == Head(sdl) IN
        HandleDown(event) \/ HandleUp(event) \/ HandleMotion(event) \/ HandleWheel(event)
    /\ UNCHANGED <<user, mode, device>>

-----------------------------------------------------------------------------
\* The server injects one message; the thread does nothing else meanwhile.

Uinput == mode = "uinput"

\* Mutant: touching is not set.
InjectDownOnly(msg) ==
    /\ msg.type = "DOWN"
    /\ finger' = msg.at
    /\ UNCHANGED touching

InjectDown(msg) ==
    /\ msg.type = "DOWN"
    /\ touching' = (touching \/ Uinput)
    /\ finger' = msg.at

\* Mutant: OH_Input looks at touching too.
InjectMoveIfTouching(msg) ==
    /\ msg.type = "MOVE"
    /\ finger' = IF finger # None /\ touching THEN msg.at ELSE finger
    /\ UNCHANGED touching

\* uinput drops a move without a DOWN; OH_Input injects it, to no finger.
InjectMove(msg) ==
    /\ msg.type = "MOVE"
    /\ finger' = IF finger # None /\ (Uinput => touching) THEN msg.at ELSE finger
    /\ UNCHANGED touching

InjectUp(msg) ==
    /\ msg.type = "UP"
    /\ touching' = (touching /\ ~Uinput)
    /\ finger' = None

\* Mutant: the UP of a scroll is missing.
ScrollWithoutUp(msg) ==
    /\ msg.type = "SCROLL"
    /\ finger' = msg.at
    /\ UNCHANGED touching

\* A scroll is a DOWN, a MOVE and an UP in the same slot.  It leaves touching
\* alone.
InjectScroll(msg) ==
    /\ msg.type = "SCROLL"
    /\ finger' = None
    /\ UNCHANGED touching

\* A tap on the soft key: a DOWN, and the UP 80 ms later.
InjectRecents(msg) ==
    /\ msg.type = "RECENTS"
    /\ touching' = (touching /\ ~Uinput)
    /\ finger' = None

Inject ==
    /\ channel # <<>>
    /\ channel' = Tail(channel)
    /\ LET msg == Head(channel) IN
        \/ InjectDown(msg) \/ InjectMove(msg) \/ InjectUp(msg)
        \/ InjectScroll(msg) \/ InjectRecents(msg)
    /\ UNCHANGED <<user, sdl, mode, fails, swallowed>>

\* An injection fails, once or several times for one message.  Under uinput
\* touching has been set or cleared before the write; a scroll stops where it is,
\* under OH_Input it goes on; the tap for Recents always goes on to its UP.
InjectFails ==
    /\ fails < MaxFails
    /\ channel # <<>>
    /\ channel' = Tail(channel)
    /\ fails' = fails + 1
    /\ LET msg == Head(channel) IN
        \/ /\ msg.type = "DOWN"
           /\ touching' = (touching \/ Uinput)
           /\ UNCHANGED finger
        \/ /\ msg.type = "MOVE"
           /\ Uinput => touching
           /\ UNCHANGED <<touching, finger>>
        \/ /\ msg.type = "UP"
           /\ touching' = (touching /\ ~Uinput)
           /\ UNCHANGED finger
        \/ /\ msg.type = "SCROLL"
           /\ finger' \in {finger, msg.at} \cup (IF Uinput THEN {} ELSE {None})
           /\ UNCHANGED touching
        \/ /\ msg.type = "RECENTS"
           /\ touching' = (touching /\ ~Uinput)
           /\ finger' \in {finger, SoftKey, None}
    /\ UNCHANGED <<user, sdl, mode, swallowed>>

Next ==
    \/ \E button \in Buttons : Press(button) \/ Release(button)
    \/ \E place \in Places : Move(place)
    \/ Wheel
    \/ HandleEvent
    \/ Inject
    \/ InjectFails

Spec == Init /\ [][Next]_vars

\* The event loop and the control thread go on; the user does as he likes.
Fairness == WF_vars(HandleEvent) /\ WF_vars(Inject \/ InjectFails)

FairSpec == Spec /\ Fairness

-----------------------------------------------------------------------------
Events ==
    [type : {"down", "up"}, place : Places]
        \cup [type : {"motion"}, place : Places, left : BOOLEAN]
        \cup [type : {"wheel"}]

Messages ==
    [type : {"DOWN", "MOVE", "SCROLL"}, at : Points] \cup [type : {"UP", "RECENTS"}]

\* Only points of the screen, its edge included, are ever sent to the device, though the
\* pointer may be anywhere when an event is handled (input_handler_process_mouse_event).
TypeOK ==
    /\ pointer \in Places
    /\ held \subseteq Buttons
    /\ acts \in 0..MaxActs
    /\ drag \in BOOLEAN
    /\ sdl \in Seq(Events)
    /\ channel \in Seq(Messages)
    /\ mode \in {"ohinput", "uinput"}
    /\ touching \in BOOLEAN
    /\ finger \in Points \cup {SoftKey, None}
    /\ fails \in 0..MaxFails
    /\ swallowed \in BOOLEAN

\* Everything the user has done has reached the device.
Drained == sdl = <<>> /\ channel = <<>>

\* When no button is held, a finger that is still down was left there by a
\* release over the toolbar (main.c hands it to nobody) or by an injection that
\* failed: neither a second button, nor a press that began on the toolbar, nor a
\* scroll or a tap in the middle of a touch leaves one.
StuckOnlyByToolbarRelease ==
    Drained /\ held = {} /\ finger # None => swallowed \/ fails > 0

\* While the left button alone drags, whatever was queued before it, the finger is
\* on the screen and, wherever the drag has passed, under the pointer once that is on
\* the screen again.
DragFollows ==
    Drained /\ drag /\ fails = 0 =>
        /\ finger \in Points
        /\ pointer \in Points => finger = pointer

\* As long as no write has failed, uinput's touching is TRUE whenever the finger
\* is down, so that no move of a drag is dropped; a scroll or a tap may have
\* lifted the finger behind its back.
TouchingIfFinger == Uinput /\ fails = 0 /\ finger # None => touching

\* A release beside the toolbar lifts the finger in the end, whatever the other
\* button and the wheel have done before it.
ReleaseLifts ==
    sdl # <<>> /\ Head(sdl).type = "up" /\ ~OverToolbar(Head(sdl).place)
        ~> finger = None \/ fails > 0

\* docs/operation-guide.md: dragging with the left button simulates a swipe of
\* one finger; when all buttons are up, so is the finger.
NoFingerLeftDown == Drained /\ held = {} => finger = None

\* docs/operation-guide.md: the border does not trigger a click; the client sends
\* nothing for a press on it.
BorderDoesNotClick ==
    [][HandleEvent /\ Head(sdl).type = "down" /\ Head(sdl).place = Border
        => UNCHANGED channel]_vars
=============================================================================
