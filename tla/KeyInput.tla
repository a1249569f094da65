------------------------------ MODULE KeyInput ------------------------------
(***************************************************************************)
(* The keyboard, from the hand of the user to the keys of the device: the  *)
(* event loop of the client (main.c, input_handler.c), the control         *)
(* channel, and the injector of the server (input_injector.c).             *)
(*                                                                         *)
(* The control channel is the FIFO that ControlChannel implements as long  *)
(* as no message is torn.  With Alt down a shortcut key stands for one     *)
(* system key of the device; the module has one system key for each.       *)
(***************************************************************************)
EXTENDS Naturals, Sequences

CONSTANTS
    ShortcutKeys,   \* mapped keys that are a shortcut with Alt: B, H, M, P, up, down
    PlainKeys,      \* the other mapped keys: letters, digits, Shift, Ctrl, Enter, ...
    AppKeys,        \* keys that are a shortcut with Alt and nothing without: Application
    UnmappedKeys,   \* keys the client knows nothing of
    Alt, Esc,       \* mapped, and treated in a way of their own
    MaxActs,        \* bound: acts of the user
    MaxFails        \* bound: injections that fail

\* sdl_keycode_to_linux_keycode gives these a code.
MappedKeys == ShortcutKeys \cup PlainKeys \cup {Alt, Esc}

\* input_handler_get_shortcut gives these, with Alt, a system key.
ChordKeys == ShortcutKeys \cup AppKeys

Keys == MappedKeys \cup AppKeys \cup UnmappedKeys

ASSUME KeysAssumption ==
    /\ Alt # Esc
    /\ {Alt, Esc} \cap (ShortcutKeys \cup PlainKeys) = {}
    /\ ShortcutKeys \cap PlainKeys = {}
    /\ AppKeys \cap MappedKeys = {}
    /\ UnmappedKeys \cap (MappedKeys \cup AppKeys) = {}

ASSUME BoundsAssumption == MaxActs \in Nat /\ MaxFails \in Nat

VARIABLES
    held,       \* the keys the user holds
    acts,       \* how often the user has acted
    sdl,        \* the event queue of SDL
    channel,    \* control messages on their way
    pressed,    \* the mapped keys that are down on the device
    stuck,      \* the keys whose system key is down on the device
    fired,      \* per key with a system key, how often that has gone down
    fails,      \* injections that have failed
    chords,     \* history: per key with a system key, its presses and repeats with Alt
    underAlt    \* history: shortcut keys whose last event came with Alt down

user == <<held, acts, chords, underAlt>>
device == <<pressed, stuck, fired, fails>>
vars == <<user, sdl, channel, device>>

Init ==
    /\ held = {}
    /\ acts = 0
    /\ sdl = <<>>
    /\ channel = <<>>
    /\ pressed = {}
    /\ stuck = {}
    /\ fired = [key \in ChordKeys |-> 0]
    /\ fails = 0
    /\ chords = [key \in ChordKeys |-> 0]
    /\ underAlt = {}

-----------------------------------------------------------------------------
\* The user.  SDL queues an event for every act, with the modifiers after it.

Act(type, key) ==
    /\ acts < MaxActs
    /\ acts' = acts + 1
    /\ sdl' = Append(sdl, [type |-> type, key |-> key, alt |-> Alt \in held'])
    /\ underAlt' = IF key \in ShortcutKeys /\ Alt \in held
                   THEN underAlt \cup {key}
                   ELSE underAlt \ {key}
    /\ chords' = [k \in ChordKeys |->
                    IF k = key /\ type = "down" /\ Alt \in held
                    THEN chords[k] + 1
                    ELSE chords[k]]
    /\ UNCHANGED <<channel, device>>

Press(key) ==
    /\ key \notin held
    /\ held' = held \cup {key}
    /\ Act("down", key)

\* A key that is held repeats its event.
Repeat(key) ==
    /\ key \in held
    /\ UNCHANGED held
    /\ Act("down", key)

Release(key) ==
    /\ key \in held
    /\ held' = held \ {key}
    /\ Act("up", key)

-----------------------------------------------------------------------------
\* The event loop of the client takes one event.

\* The press of Esc (or F11, which is not mapped) goes to the renderer, the
\* release does not.
ForRenderer(event) == event.type = "down" /\ event.key = Esc

\* Mutants: the state of Alt when the event is handled; the release only.
IsShortcutNow(event) == Alt \in held /\ event.key \in ChordKeys
IsShortcutRelease(event) == event.type = "up" /\ event.alt /\ event.key \in ChordKeys

\* input_handler_get_shortcut does not look at the type of the event.
IsShortcut(event) == event.alt /\ event.key \in ChordKeys

ToMessage(event) ==
    IF IsShortcut(event)
    THEN [type |-> "system", key |-> event.key]
    ELSE [type |-> event.type, key |-> event.key]

\* Mutants: with Alt down, only shortcuts are passed on; keys without a code are.
SendsPlainWithoutAlt(event) ==
    /\ ~ForRenderer(event)
    /\ event.key \in MappedKeys \cup ChordKeys
    /\ event.alt => event.key \in ChordKeys \cup {Alt}
SendsUnmapped(event) == ~ForRenderer(event)

\* A shortcut is looked for before the code of the key.
Sends(event) ==
    /\ ~ForRenderer(event)
    /\ IsShortcut(event) \/ event.key \in MappedKeys

HandleEvent ==
    /\ sdl # <<>>
    /\ sdl' = Tail(sdl)
    /\ LET event == Head(sdl) IN
        channel' = IF Sends(event) THEN Append(channel, ToMessage(event)) ELSE channel
    /\ UNCHANGED <<user, device>>

-----------------------------------------------------------------------------
\* Mutant: a release presses.
InjectPress(msg) ==
    /\ msg.type # "system"
    /\ pressed' = pressed \cup {msg.key}
    /\ UNCHANGED <<stuck, fired>>

\* The server injects one message.  A press of a key that is down, or a release
\* of one that is up, changes nothing on the device.

InjectKey(msg) ==
    /\ msg.type # "system"
    /\ pressed' = IF msg.type = "down" THEN pressed \cup {msg.key} ELSE pressed \ {msg.key}
    /\ UNCHANGED <<stuck, fired>>

\* A system key goes down and up in one call.
InjectSystemKey(msg) ==
    /\ msg.type = "system"
    /\ fired' = [fired EXCEPT ![msg.key] = @ + 1]
    /\ stuck' = stuck \ {msg.key}
    /\ UNCHANGED pressed

Inject ==
    /\ channel # <<>>
    /\ channel' = Tail(channel)
    /\ LET msg == Head(channel) IN InjectKey(msg) \/ InjectSystemKey(msg)
    /\ UNCHANGED <<user, sdl, fails>>

\* An injection fails.  Of a system key, the DOWN may fail, whose result is not
\* looked at, the UP, or both.
InjectFails ==
    /\ fails < MaxFails
    /\ fails' = fails + 1
    /\ channel # <<>>
    /\ channel' = Tail(channel)
    /\ LET msg == Head(channel) IN
        \/ msg.type # "system" /\ UNCHANGED <<stuck, fired>>
        \/ msg.type = "system" /\ stuck' \in {stuck, stuck \ {msg.key}} /\ UNCHANGED fired
        \/ /\ msg.type = "system"
           /\ stuck' = stuck \cup {msg.key}
           /\ fired' = [fired EXCEPT ![msg.key] = @ + 1]
    /\ UNCHANGED <<user, sdl, pressed>>

Next ==
    \/ \E key \in Keys : Press(key) \/ Repeat(key) \/ Release(key)
    \/ HandleEvent
    \/ Inject
    \/ InjectFails

Spec == Init /\ [][Next]_vars

\* The event loop and the control thread go on; the user does as he likes.
Fairness == WF_vars(HandleEvent) /\ WF_vars(Inject \/ InjectFails)

FairSpec == Spec /\ Fairness

-----------------------------------------------------------------------------
\* The channel carries keys that have a code, and system keys only for keys that are
\* shortcuts (input_handler_process_key_event).
TypeOK ==
    /\ held \subseteq Keys
    /\ acts \in 0..MaxActs
    /\ sdl \in Seq([type : {"down", "up"}, key : Keys, alt : BOOLEAN])
    /\ channel \in Seq([type : {"down", "up"}, key : MappedKeys]
                        \cup [type : {"system"}, key : ChordKeys])
    /\ pressed \subseteq MappedKeys
    /\ stuck \subseteq ChordKeys
    /\ fired \in [ChordKeys -> Nat]
    /\ fails \in 0..MaxFails
    /\ chords \in [ChordKeys -> Nat]
    /\ underAlt \subseteq ShortcutKeys

\* Everything the user has done has reached the device.
Drained == sdl = <<>> /\ channel = <<>>

\* Once all events are handled and no injection has failed, the device holds
\* exactly the plain keys, and Alt, that the user holds.
PlainKeysAgree ==
    Drained /\ fails = 0 =>
        pressed \cap (PlainKeys \cup {Alt}) = held \cap (PlainKeys \cup {Alt})

\* The same for a shortcut key, unless its last event came while Alt was down:
\* then the press, or the release, of the key itself was turned into the system
\* key and the device has not seen it.
ShortcutKeysAgree ==
    Drained /\ fails = 0 =>
        pressed \cap (ShortcutKeys \ underAlt) = held \cap (ShortcutKeys \ underAlt)

\* Every press of a shortcut with Alt down, and every repeat of it, makes the device
\* see its system key at least once; its release with Alt down does so again.
EveryChordFires ==
    Drained /\ fails = 0 => \A key \in ChordKeys : fired[key] >= chords[key]

\* A plain key that is released goes up on the device in the end, unless it is
\* pressed again or an injection fails.
ReleaseArrives ==
    \A key \in PlainKeys :
        key \notin held ~> key \notin pressed \/ key \in held \/ fails > 0

\* docs/operation-guide.md lists Esc among the keys that are passed on to the device.
EscPassesThrough == Drained /\ fails = 0 => (Esc \in pressed <=> Esc \in held)

\* docs/operation-guide.md gives each shortcut one system key: the device sees it as
\* often as the shortcut is pressed or repeats, and not once more.
ChordFiresOnce ==
    Drained /\ fails = 0 => \A key \in ChordKeys : fired[key] = chords[key]
=============================================================================
