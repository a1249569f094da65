-------------------------- MODULE KeyInput_proofs ---------------------------
(***************************************************************************)
(* Proofs about KeyInput: what the device holds once everything the user   *)
(* did is handled, and that no shortcut is lost on the way.                *)
(***************************************************************************)
EXTENDS KeyInput, Integers, FiniteSetTheorems, TLAPS

-----------------------------------------------------------------------------
\* The type invariant.

Events == [type : {"down", "up"}, key : Keys, alt : BOOLEAN]
Messages ==
    [type : {"down", "up"}, key : MappedKeys] \cup [type : {"system"}, key : ChordKeys]

LEMMA TypeInit == Init => TypeOK
  BY BoundsAssumption DEF Init, TypeOK

LEMMA ActType ==
    ASSUME TypeOK, NEW type \in {"down", "up"}, NEW key \in Keys, Act(type, key)
    PROVE  /\ acts' \in 0..MaxActs
           /\ sdl' \in Seq(Events)
           /\ underAlt' \subseteq ShortcutKeys
           /\ chords' \in [ChordKeys -> Nat]
           /\ UNCHANGED <<channel, device>>
  <1>1. sdl \in Seq(Events) /\ acts' \in 0..MaxActs
    BY BoundsAssumption DEF TypeOK, Act, Events
  <1>2. [type |-> type, key |-> key, alt |-> Alt \in held'] \in Events
    BY DEF Events
  <1>3. sdl' \in Seq(Events)
    BY <1>1, <1>2 DEF Act
  <1>4. underAlt' \subseteq ShortcutKeys
    BY DEF TypeOK, Act
  <1>5. chords' \in [ChordKeys -> Nat]
    BY DEF TypeOK, Act
  <1>6. QED
    BY <1>1, <1>3, <1>4, <1>5 DEF Act

\* What the event loop sends is a message.
LEMMA SentType ==
    ASSUME NEW event \in Events, Sends(event)
    PROVE  ToMessage(event) \in Messages
  <1>1. CASE IsShortcut(event)
    BY <1>1 DEF IsShortcut, ToMessage, Messages
  <1>2. CASE ~IsShortcut(event)
    BY <1>2 DEF ToMessage, Messages, Sends, Events
  <1>3. QED
    BY <1>1, <1>2

LEMMA TypeStep == TypeOK /\ [Next]_vars => TypeOK'
  <1> SUFFICES ASSUME TypeOK, [Next]_vars PROVE TypeOK'
    OBVIOUS
  <1>0. sdl \in Seq(Events) /\ channel \in Seq(Messages)
    BY DEF TypeOK, Events, Messages
  <1>1. ASSUME NEW key \in Keys, Press(key) \/ Repeat(key) \/ Release(key)
        PROVE  TypeOK'
    <2>1. PICK type \in {"down", "up"} : Act(type, key)
      BY <1>1 DEF Press, Repeat, Release
    <2>2. /\ acts' \in 0..MaxActs /\ sdl' \in Seq(Events) /\ underAlt' \subseteq ShortcutKeys
          /\ chords' \in [ChordKeys -> Nat]
          /\ UNCHANGED <<channel, device>>
      BY <2>1, ActType
    <2>3. held' \subseteq Keys
      BY <1>1 DEF Press, Repeat, Release, TypeOK
    <2>4. QED
      BY <2>2, <2>3 DEF TypeOK, Events, device
  <1>2. CASE HandleEvent
    <2>1. Head(sdl) \in Events /\ sdl' \in Seq(Events)
      BY <1>0, <1>2 DEF HandleEvent
    <2>2. channel' \in Seq(Messages)
      BY <1>0, <1>2, <2>1, SentType DEF HandleEvent
    <2>3. QED
      BY <1>2, <2>1, <2>2 DEF HandleEvent, TypeOK, Events, Messages, user, device
  <1>3. CASE Inject
    <2>1. Head(channel) \in Messages /\ channel' \in Seq(Messages)
      BY <1>0, <1>3 DEF Inject
    <2>2. CASE InjectKey(Head(channel))
      <3>1. Head(channel).key \in MappedKeys
        BY <2>1, <2>2 DEF Messages, InjectKey
      <3>2. pressed' \subseteq MappedKeys
        BY <2>2, <3>1 DEF InjectKey, TypeOK
      <3>3. QED
        BY <1>3, <2>1, <2>2, <3>2 DEF Inject, InjectKey, TypeOK, Events, Messages, user
    <2>3. CASE InjectSystemKey(Head(channel))
      <3>1. Head(channel).key \in ChordKeys
        BY <2>1, <2>3 DEF InjectSystemKey, Messages
      <3>2. fired' \in [ChordKeys -> Nat]
        BY <2>3, <3>1 DEF InjectSystemKey, TypeOK
      <3>3. stuck' \subseteq ChordKeys
        BY <2>3 DEF InjectSystemKey, TypeOK
      <3>4. QED
        BY <1>3, <2>1, <2>3, <3>2, <3>3 DEF Inject, InjectSystemKey, TypeOK, Events, Messages, user
    <2>4. QED
      BY <1>3, <2>2, <2>3 DEF Inject
  <1>4. CASE InjectFails
    <2>1. Head(channel) \in Messages /\ channel' \in Seq(Messages)
      BY <1>0, <1>4 DEF InjectFails
    <2>2. fails' \in 0..MaxFails
      BY <1>4, BoundsAssumption DEF InjectFails, TypeOK
    <2>3. Head(channel).type = "system" => Head(channel).key \in ChordKeys
      BY <2>1 DEF Messages
    <2>4. fired' \in [ChordKeys -> Nat]
      <3>1. \/ fired' = fired
            \/ /\ Head(channel).type = "system"
               /\ fired' = [fired EXCEPT ![Head(channel).key] = @ + 1]
        BY <1>4, Zenon DEF InjectFails
      <3>2. QED
        BY <2>3, <3>1 DEF TypeOK
    <2>5. stuck' \subseteq ChordKeys
      BY <1>4, <2>3, Zenon DEF InjectFails, TypeOK
    <2>6. QED
      BY <1>4, <2>1, <2>2, <2>4, <2>5 DEF InjectFails, TypeOK, Events, Messages, user
  <1>5. CASE UNCHANGED vars
    BY <1>5 DEF vars, user, device, TypeOK
  <1>6. QED
    BY <1>1, <1>2, <1>3, <1>4, <1>5 DEF Next

\* KeyInput has the types it states: only keys that have a code are sent, and only keys
\* that are shortcuts as system keys (input_handler_process_key_event).
THEOREM TypeCorrect == Spec => []TypeOK
  BY TypeInit, TypeStep, PTL DEF Spec

-----------------------------------------------------------------------------
(***************************************************************************)
(* The last event of a key, wherever it is on its way, says whether the    *)
(* user holds the key: in SDL's queue, else in the channel, else on the    *)
(* device.                                                                 *)
(***************************************************************************)
\* The keys whose own presses and releases reach the device.
Watched == PlainKeys \cup {Alt} \cup (ShortcutKeys \ underAlt)

In(queue, key) == \E i \in 1..Len(queue) : queue[i].key = key
IsLast(queue, i) == \A j \in i + 1..Len(queue) : queue[j].key # queue[i].key

LastEvents ==
    \A i \in 1..Len(sdl) :
        IsLast(sdl, i) /\ sdl[i].key \in Watched =>
            /\ sdl[i].type = "down" <=> sdl[i].key \in held
            /\ ~IsShortcut(sdl[i])

LastMessages ==
    \A i \in 1..Len(channel) :
        IsLast(channel, i) /\ channel[i].key \in Watched /\ ~In(sdl, channel[i].key) =>
            /\ channel[i].type # "system"
            /\ channel[i].type = "down" <=> channel[i].key \in held

DeviceAgrees ==
    fails = 0 =>
        \A key \in Watched :
            ~In(sdl, key) /\ ~In(channel, key) => (key \in pressed <=> key \in held)

Agree == LastEvents /\ LastMessages /\ DeviceAgrees

LEMMA AgreeInit == Init => Agree
  BY DEF Init, Agree, LastEvents, LastMessages, DeviceAgrees, In, IsLast, Watched

\* The user acts: the new event is the last one of its key.
LEMMA ActAgree ==
    ASSUME TypeOK, Agree, NEW key \in Keys, Press(key) \/ Repeat(key) \/ Release(key)
    PROVE  Agree'
  <1>1. PICK type \in {"down", "up"} :
           /\ Act(type, key)
           /\ type = "down" <=> key \in held'
           /\ \A k : k # key => (k \in held' <=> k \in held)
    BY DEF Press, Repeat, Release
  <1>2. PICK e \in Events :
           /\ e.type = type /\ e.key = key /\ e.alt = (Alt \in held')
           /\ sdl' = Append(sdl, e)
    <2>1. [type |-> type, key |-> key, alt |-> Alt \in held'] \in Events
      BY DEF Events
    <2>2. QED
      BY <1>1, <2>1 DEF Act
  <1>3. PICK n \in Nat :
           /\ n = Len(sdl) /\ Len(sdl') = n + 1
           /\ sdl'[n + 1] = e
           /\ \A i \in 1..n : sdl'[i] = sdl[i]
    <2>1. sdl \in Seq(Events)
      BY DEF TypeOK, Events
    <2>2. QED
      BY <1>2, <2>1
  <1>4. channel' = channel /\ pressed' = pressed /\ fails' = fails
    BY <1>1 DEF Act, device
  <1>5. \A k : k # key => (k \in Watched' <=> k \in Watched)
    BY <1>1 DEF Act, Watched
  <1>6. In(sdl', key) /\ \A k : k # key => (In(sdl', k) <=> In(sdl, k))
    BY <1>2, <1>3 DEF In
  <1>7. LastEvents'
    <2>1. SUFFICES ASSUME NEW i \in 1..n + 1, IsLast(sdl', i), sdl'[i].key \in Watched'
                   PROVE  /\ sdl'[i].type = "down" <=> sdl'[i].key \in held'
                          /\ ~IsShortcut(sdl'[i])
      BY <1>3 DEF LastEvents
    <2>2. CASE i = n + 1
      <3>1. sdl'[i] = e
        BY <1>3, <2>2
      <3>2. key \in ShortcutKeys => ~(Alt \in held)
        BY <1>1, <1>2, <2>1, <3>1, KeysAssumption DEF Act, Watched
      <3>3. /\ key \in ShortcutKeys => key # Alt
            /\ key \in ChordKeys => key \in ShortcutKeys
        BY <1>2, <2>1, <3>1, KeysAssumption DEF Watched, ChordKeys, MappedKeys
      <3>4. ~IsShortcut(e)
        BY <1>1, <1>2, <3>2, <3>3 DEF IsShortcut
      <3>5. QED
        BY <1>1, <1>2, <3>1, <3>4
    <2>3. CASE i # n + 1
      <3>1. i \in 1..n /\ n + 1 \in i + 1..Len(sdl')
        BY <1>3, <2>3
      <3>2. sdl'[i] = sdl[i] /\ sdl[i].key # key
        BY <1>2, <1>3, <2>1, <3>1 DEF IsLast
      <3>3. IsLast(sdl, i)
        <4>1. \A j \in i + 1..n : j \in i + 1..Len(sdl') /\ sdl'[j] = sdl[j]
          BY <1>3, <3>1
        <4>2. QED
          BY <1>3, <2>1, <3>2, <4>1 DEF IsLast
      <3>4. sdl[i].key \in Watched
        BY <1>5, <2>1, <3>2
      <3>5. QED
        BY <1>1, <1>3, <3>1, <3>2, <3>3, <3>4 DEF Agree, LastEvents
    <2>4. QED
      BY <2>2, <2>3
  <1>8. LastMessages'
    <2>1. SUFFICES ASSUME NEW i \in 1..Len(channel), IsLast(channel, i),
                          channel[i].key \in Watched', ~In(sdl', channel[i].key)
                   PROVE  /\ channel[i].type # "system"
                          /\ channel[i].type = "down" <=> channel[i].key \in held'
      BY <1>4 DEF LastMessages
    <2>2. channel[i].key # key
      BY <1>6, <2>1
    <2>3. QED
      BY <1>1, <1>5, <1>6, <2>1, <2>2 DEF Agree, LastMessages
  <1>9. DeviceAgrees'
    <2>1. SUFFICES ASSUME fails = 0, NEW k \in Watched', ~In(sdl', k), ~In(channel, k)
                   PROVE  k \in pressed <=> k \in held'
      BY <1>4 DEF DeviceAgrees
    <2>2. k # key
      BY <1>6, <2>1
    <2>3. QED
      BY <1>1, <1>5, <1>6, <2>1, <2>2 DEF Agree, DeviceAgrees
  <1>10. QED
    BY <1>7, <1>8, <1>9 DEF Agree

\* The event loop: the event of a watched key is passed on as it is.
LEMMA HandleAgree == ASSUME TypeOK, Agree, HandleEvent PROVE Agree'
  <1>1. sdl \in Seq(Events) /\ channel \in Seq(Messages)
    BY DEF TypeOK, Events, Messages
  <1>2. PICK e \in Events : e = Head(sdl) /\ e = sdl[1]
    BY <1>1 DEF HandleEvent
  <1>3. PICK n \in Nat :
           /\ n = Len(sdl') /\ Len(sdl) = n + 1
           /\ \A i \in 1..n : sdl'[i] = sdl[i + 1]
    <2>1. sdl' = Tail(sdl) /\ sdl # <<>>
      BY DEF HandleEvent
    <2>2. QED
      BY <1>1, <2>1
  <1>4. held' = held /\ underAlt' = underAlt /\ pressed' = pressed /\ fails' = fails
    BY DEF HandleEvent, user, device
  <1>5. Watched' = Watched
    BY <1>4 DEF Watched
  <1>6. \A k : k # e.key => (In(sdl', k) <=> In(sdl, k))
    <2>1. ASSUME NEW k, k # e.key, In(sdl, k) PROVE In(sdl', k)
      <3>1. PICK i \in 1..n + 1 : sdl[i].key = k
        BY <1>3, <2>1 DEF In
      <3>2. i # 1
        BY <1>2, <2>1, <3>1
      <3>3. i - 1 \in 1..n /\ (i - 1) + 1 = i
        BY <3>2
      <3>4. sdl'[i - 1] = sdl[i]
        BY <1>3, <3>3
      <3>5. QED
        BY <1>3, <3>1, <3>3, <3>4 DEF In
    <2>2. ASSUME NEW k, In(sdl', k) PROVE In(sdl, k)
      <3>1. PICK i \in 1..n : sdl'[i].key = k
        BY <1>3, <2>2 DEF In
      <3>2. i + 1 \in 1..Len(sdl)
        BY <1>3
      <3>3. QED
        BY <1>3, <3>1, <3>2 DEF In
    <2>3. QED
      BY <2>1, <2>2
  <1>7. ~In(sdl', e.key) => IsLast(sdl, 1)
    <2>1. SUFFICES ASSUME ~In(sdl', e.key), NEW j \in 2..n + 1 PROVE sdl[j].key # e.key
      BY <1>2, <1>3 DEF IsLast
    <2>2. j - 1 \in 1..n /\ (j - 1) + 1 = j
      OBVIOUS
    <2>3. sdl'[j - 1] = sdl[j]
      BY <1>3, <2>2
    <2>4. QED
      BY <1>3, <2>1, <2>2, <2>3 DEF In
  <1>8. e.key \in Watched => Sends(e)
    BY KeysAssumption DEF Watched, Sends, ForRenderer, MappedKeys
  <1>9. e.key \in Watched /\ ~In(sdl', e.key) =>
            /\ e.type = "down" <=> e.key \in held
            /\ ~IsShortcut(e)
    BY <1>2, <1>3, <1>7 DEF Agree, LastEvents
  <1>10. LastEvents'
    <2>1. SUFFICES ASSUME NEW i \in 1..n, IsLast(sdl', i), sdl'[i].key \in Watched
                   PROVE  /\ sdl'[i].type = "down" <=> sdl'[i].key \in held
                          /\ ~IsShortcut(sdl'[i])
      BY <1>3, <1>4, <1>5 DEF LastEvents
    <2>2. i + 1 \in 1..Len(sdl) /\ sdl'[i] = sdl[i + 1]
      BY <1>3
    <2>3. IsLast(sdl, i + 1)
      <3>1. SUFFICES ASSUME NEW j \in i + 2..n + 1 PROVE sdl[j].key # sdl[i + 1].key
        BY <1>3 DEF IsLast
      <3>2. j - 1 \in i + 1..n /\ j - 1 \in 1..n /\ (j - 1) + 1 = j
        OBVIOUS
      <3>3. sdl'[j - 1] = sdl[j]
        BY <1>3, <3>2
      <3>4. QED
        BY <1>3, <2>1, <2>2, <3>2, <3>3 DEF IsLast
    <2>4. QED
      BY <2>1, <2>2, <2>3 DEF Agree, LastEvents
  <1>11. CASE Sends(e)
    <2>1. PICK m \in Messages : m = ToMessage(e) /\ channel' = Append(channel, m)
      BY <1>2, <1>11, SentType DEF HandleEvent
    <2>2. m.key = e.key /\ (~IsShortcut(e) => m.type = e.type)
      BY <2>1 DEF ToMessage
    <2>3. PICK c \in Nat :
             /\ c = Len(channel) /\ Len(channel') = c + 1
             /\ channel'[c + 1] = m
             /\ \A i \in 1..c : channel'[i] = channel[i]
      BY <1>1, <2>1
    <2>4. LastMessages'
      <3>1. SUFFICES ASSUME NEW i \in 1..c + 1, IsLast(channel', i),
                            channel'[i].key \in Watched, ~In(sdl', channel'[i].key)
                     PROVE  /\ channel'[i].type # "system"
                            /\ channel'[i].type = "down" <=> channel'[i].key \in held
        BY <1>4, <1>5, <2>3 DEF LastMessages
      <3>2. CASE i = c + 1
        <4>1. channel'[i] = m
          BY <2>3, <3>2
        <4>2. /\ e.type = "down" <=> e.key \in held
              /\ ~IsShortcut(e)
          BY <1>9, <2>2, <3>1, <4>1
        <4>3. e.type # "system"
          BY DEF Events
        <4>4. QED
          BY <2>2, <4>1, <4>2, <4>3
      <3>3. CASE i # c + 1
        <4>1. i \in 1..c /\ c + 1 \in i + 1..Len(channel')
          BY <2>3, <3>3
        <4>2. channel'[i] = channel[i] /\ channel[i].key # e.key
          BY <2>2, <2>3, <3>1, <4>1 DEF IsLast
        <4>3. IsLast(channel, i)
          <5>1. \A j \in i + 1..c : j \in i + 1..Len(channel') /\ channel'[j] = channel[j]
            BY <2>3, <4>1
          <5>2. QED
            BY <2>3, <3>1, <4>2, <5>1 DEF IsLast
        <4>4. ~In(sdl, channel[i].key)
          BY <1>6, <3>1, <4>2
        <4>5. QED
          BY <2>3, <3>1, <4>1, <4>2, <4>3, <4>4 DEF Agree, LastMessages
      <3>4. QED
        BY <3>2, <3>3
    <2>5. DeviceAgrees'
      <3>1. SUFFICES ASSUME fails = 0, NEW k \in Watched, ~In(sdl', k), ~In(channel', k)
                     PROVE  k \in pressed <=> k \in held
        BY <1>4, <1>5 DEF DeviceAgrees
      <3>2. c + 1 \in 1..Len(channel') /\ channel'[c + 1].key = e.key
        BY <2>2, <2>3
      <3>3. k # e.key
        BY <3>1, <3>2 DEF In
      <3>4. ~In(sdl, k)
        BY <1>6, <3>1, <3>3
      <3>5. ~In(channel, k)
        <4>1. \A i \in 1..c : i \in 1..Len(channel') /\ channel'[i] = channel[i]
          BY <2>3
        <4>2. QED
          BY <2>3, <3>1, <4>1 DEF In
      <3>6. QED
        BY <3>1, <3>4, <3>5 DEF Agree, DeviceAgrees
    <2>6. QED
      BY <1>10, <2>4, <2>5 DEF Agree
  <1>12. CASE ~Sends(e)
    <2>1. channel' = channel /\ e.key \notin Watched
      BY <1>2, <1>8, <1>12 DEF HandleEvent
    <2>2. \A k \in Watched : In(sdl', k) <=> In(sdl, k)
      BY <1>6, <2>1
    <2>3. LastMessages'
      BY <1>4, <1>5, <2>1, <2>2 DEF Agree, LastMessages
    <2>4. DeviceAgrees'
      BY <1>4, <1>5, <2>1, <2>2 DEF Agree, DeviceAgrees
    <2>5. QED
      BY <1>10, <2>3, <2>4 DEF Agree
  <1>13. QED
    BY <1>11, <1>12

\* The injector: the last message of a watched key is a press or a release.
LEMMA InjectAgree == ASSUME TypeOK, Agree, Inject \/ InjectFails PROVE Agree'
  <1>1. sdl \in Seq(Events) /\ channel \in Seq(Messages)
    BY DEF TypeOK, Events, Messages
  <1>2. channel' = Tail(channel) /\ channel # <<>>
    BY DEF Inject, InjectFails
  <1>3. PICK m \in Messages : m = Head(channel) /\ m = channel[1]
    BY <1>1, <1>2
  <1>4. PICK n \in Nat :
           /\ n = Len(channel') /\ Len(channel) = n + 1
           /\ \A i \in 1..n : channel'[i] = channel[i + 1]
    BY <1>1, <1>2
  <1>5. held' = held /\ underAlt' = underAlt /\ sdl' = sdl
    BY DEF Inject, InjectFails, user
  <1>6. Watched' = Watched
    BY <1>5 DEF Watched
  <1>7. LastEvents'
    BY <1>5, <1>6 DEF Agree, LastEvents
  <1>8. LastMessages'
    <2>1. SUFFICES ASSUME NEW i \in 1..n, IsLast(channel', i),
                          channel'[i].key \in Watched, ~In(sdl, channel'[i].key)
                   PROVE  /\ channel'[i].type # "system"
                          /\ channel'[i].type = "down" <=> channel'[i].key \in held
      BY <1>4, <1>5, <1>6 DEF LastMessages
    <2>2. i + 1 \in 1..Len(channel) /\ channel'[i] = channel[i + 1]
      BY <1>4
    <2>3. IsLast(channel, i + 1)
      <3>1. SUFFICES ASSUME NEW j \in i + 2..n + 1
                     PROVE  channel[j].key # channel[i + 1].key
        BY <1>4 DEF IsLast
      <3>2. j - 1 \in i + 1..n /\ j - 1 \in 1..n /\ (j - 1) + 1 = j
        OBVIOUS
      <3>3. channel'[j - 1] = channel[j]
        BY <1>4, <3>2
      <3>4. QED
        BY <1>4, <2>1, <2>2, <3>2, <3>3 DEF IsLast
    <2>4. QED
      BY <2>1, <2>2, <2>3 DEF Agree, LastMessages
  <1>9. DeviceAgrees'
    <2>1. SUFFICES ASSUME fails' = 0, NEW k \in Watched, ~In(sdl, k), ~In(channel', k)
                   PROVE  k \in pressed' <=> k \in held
      BY <1>5, <1>6 DEF DeviceAgrees
    <2>2. Inject /\ fails = 0
      BY <2>1 DEF Inject, InjectFails, TypeOK
    <2>3. CASE m.key = k
      <3>1. IsLast(channel, 1)
        <4>1. SUFFICES ASSUME NEW j \in 2..n + 1 PROVE channel[j].key # m.key
          BY <1>3, <1>4 DEF IsLast
        <4>2. j - 1 \in 1..n /\ (j - 1) + 1 = j
          OBVIOUS
        <4>3. channel'[j - 1] = channel[j]
          BY <1>4, <4>2
        <4>4. QED
          BY <1>4, <2>1, <2>3, <4>2, <4>3 DEF In
      <3>2. m.type # "system" /\ (m.type = "down" <=> k \in held)
        BY <1>3, <1>4, <2>1, <2>3, <3>1 DEF Agree, LastMessages
      <3>3. InjectKey(m)
        BY <1>3, <2>2, <3>2 DEF Inject, InjectSystemKey
      <3>4. QED
        BY <2>3, <3>2, <3>3 DEF InjectKey
    <2>4. CASE m.key # k
      <3>1. ~In(channel, k)
        <4>1. SUFFICES ASSUME NEW j \in 1..n + 1 PROVE channel[j].key # k
          BY <1>4 DEF In
        <4>2. CASE j = 1
          BY <1>3, <2>4, <4>2
        <4>3. CASE j # 1
          <5>1. j - 1 \in 1..n /\ (j - 1) + 1 = j
            BY <4>3
          <5>2. channel'[j - 1] = channel[j]
            BY <1>4, <5>1
          <5>3. QED
            BY <1>4, <2>1, <5>1, <5>2 DEF In
        <4>4. QED
          BY <4>2, <4>3
      <3>2. k \in pressed <=> k \in held
        BY <2>1, <2>2, <3>1 DEF Agree, DeviceAgrees
      <3>3. k \in pressed' <=> k \in pressed
        BY <1>3, <2>2, <2>4 DEF Inject, InjectKey, InjectSystemKey
      <3>4. QED
        BY <3>2, <3>3
    <2>5. QED
      BY <2>3, <2>4
  <1>10. QED
    BY <1>7, <1>8, <1>9 DEF Agree

LEMMA AgreeStep == TypeOK /\ Agree /\ [Next]_vars => Agree'
  <1> SUFFICES ASSUME TypeOK, Agree, [Next]_vars PROVE Agree'
    OBVIOUS
  <1>1. CASE \E key \in Keys : Press(key) \/ Repeat(key) \/ Release(key)
    BY <1>1, ActAgree
  <1>2. CASE HandleEvent
    BY <1>2, HandleAgree
  <1>3. CASE Inject \/ InjectFails
    BY <1>3, InjectAgree
  <1>4. CASE UNCHANGED vars
    <2>1. UNCHANGED <<sdl, channel, held, underAlt, pressed, fails>>
      BY <1>4 DEF vars, user, device
    <2>2. Watched' = Watched
      BY <2>1 DEF Watched
    <2>3. QED
      BY <2>1, <2>2 DEF Agree, LastEvents, LastMessages, DeviceAgrees
  <1>5. QED
    BY <1>1, <1>2, <1>3, <1>4 DEF Next

\* When everything is handled no key is on its way.
LEMMA DrainedAgrees ==
    ASSUME Agree, Drained, fails = 0
    PROVE  \A key \in Watched : key \in pressed <=> key \in held
  BY DEF Agree, DeviceAgrees, Drained, In

\* For any number of keys and acts: once all is handled, the device holds the
\* plain keys, and Alt, that the user holds.
THEOREM PlainKeysHold == Spec => []PlainKeysAgree
  <1>1. Agree => PlainKeysAgree
    BY DrainedAgrees DEF PlainKeysAgree, Watched
  <1>2. QED
    BY TypeInit, TypeStep, AgreeInit, AgreeStep, <1>1, PTL DEF Spec

\* The same for shortcut keys whose last event came without Alt.
THEOREM ShortcutKeysHold == Spec => []ShortcutKeysAgree
  <1>1. Agree => ShortcutKeysAgree
    BY DrainedAgrees DEF ShortcutKeysAgree, Watched
  <1>2. QED
    BY TypeInit, TypeStep, AgreeInit, AgreeStep, <1>1, PTL DEF Spec

-----------------------------------------------------------------------------
(***************************************************************************)
(* No shortcut is lost: every press with Alt is an event of SDL's queue, a *)
(* message of the channel or a system key that has gone down.              *)
(***************************************************************************)
\* How many elements of a queue are of a kind.
Places(queue, kind) == {i \in 1..Len(queue) : queue[i] \in kind}
Count(queue, kind) == Cardinality(Places(queue, kind))

LEMMA CountType ==
    ASSUME NEW T, NEW queue \in Seq(T), NEW kind
    PROVE  IsFiniteSet(Places(queue, kind)) /\ Count(queue, kind) \in Nat
  <1>1. Len(queue) \in Nat /\ IsFiniteSet(1..Len(queue))
    BY FS_Interval
  <1>2. Places(queue, kind) \in SUBSET (1..Len(queue))
    BY DEF Places
  <1>3. IsFiniteSet(Places(queue, kind))
    BY <1>1, <1>2, FS_Subset
  <1>4. QED
    BY <1>3, FS_CardinalityType DEF Count

LEMMA CountEmpty == ASSUME NEW kind PROVE Count(<<>>, kind) = 0
  <1>1. Places(<<>>, kind) = {}
    BY DEF Places
  <1>2. QED
    BY <1>1, FS_EmptySet DEF Count

LEMMA CountAppend ==
    ASSUME NEW T, NEW queue \in Seq(T), NEW e \in T, NEW kind
    PROVE  Count(Append(queue, e), kind) =
               IF e \in kind THEN Count(queue, kind) + 1 ELSE Count(queue, kind)
  <1>1. PICK n \in Nat, after \in Seq(T) :
           /\ after = Append(queue, e)
           /\ n = Len(queue) /\ Len(after) = n + 1
           /\ after[n + 1] = e
           /\ \A i \in 1..n : after[i] = queue[i]
    <2>1. Len(queue) \in Nat /\ Append(queue, e) \in Seq(T)
      OBVIOUS
    <2>2. /\ Len(Append(queue, e)) = Len(queue) + 1
          /\ Append(queue, e)[Len(queue) + 1] = e
          /\ \A i \in 1..Len(queue) : Append(queue, e)[i] = queue[i]
      OBVIOUS
    <2>3. QED
      BY <2>1, <2>2, Zenon
  <1>2. n + 1 \notin Places(queue, kind)
    BY <1>1 DEF Places
  <1>3. IsFiniteSet(Places(queue, kind))
    BY CountType
  <1>4. CASE e \in kind
    <2>1. Places(after, kind) = Places(queue, kind) \cup {n + 1}
      BY <1>1, <1>4 DEF Places
    <2>2. QED
      <3>1. Cardinality(Places(after, kind)) = Count(queue, kind) + 1
        BY <1>2, <1>3, <2>1, FS_AddElement DEF Count
      <3>2. QED
        BY <1>1, <1>4, <3>1 DEF Count
  <1>5. CASE e \notin kind
    <2>1. Places(after, kind) = Places(queue, kind)
      BY <1>1, <1>5 DEF Places
    <2>2. QED
      BY <1>1, <1>5, <2>1 DEF Count
  <1>6. QED
    BY <1>4, <1>5

LEMMA CountTail ==
    ASSUME NEW T, NEW queue \in Seq(T), queue # <<>>, NEW kind
    PROVE  Count(queue, kind) =
               IF Head(queue) \in kind THEN Count(Tail(queue), kind) + 1
               ELSE Count(Tail(queue), kind)
  <1>1. PICK n \in Nat, after \in Seq(T) :
           /\ after = Tail(queue)
           /\ n = Len(after) /\ Len(queue) = n + 1
           /\ queue[1] = Head(queue)
           /\ \A i \in 1..n : after[i] = queue[i + 1]
    <2>1. Len(Tail(queue)) \in Nat /\ Tail(queue) \in Seq(T)
      OBVIOUS
    <2>2. /\ Len(queue) = Len(Tail(queue)) + 1
          /\ queue[1] = Head(queue)
          /\ \A i \in 1..Len(Tail(queue)) : Tail(queue)[i] = queue[i + 1]
      OBVIOUS
    <2>3. QED
      BY <2>1, <2>2, Zenon
  <1> DEFINE later == Places(queue, kind) \ {1}
             move == [i \in Places(after, kind) |-> i + 1]
  <1>2. \A j \in later : j - 1 \in Places(after, kind) /\ (j - 1) + 1 = j
    <2>1. SUFFICES ASSUME NEW j \in later PROVE j - 1 \in Places(after, kind)
      BY <1>1 DEF Places
    <2>2. j \in 2..n + 1 /\ queue[j] \in kind
      BY <1>1 DEF Places
    <2>3. j - 1 \in 1..n /\ (j - 1) + 1 = j
      BY <2>2
    <2>4. QED
      BY <1>1, <2>2, <2>3 DEF Places
  <1>3. \A i \in Places(after, kind) : i \in Nat /\ i + 1 \in later
    <2>1. SUFFICES ASSUME NEW i \in 1..n, after[i] \in kind PROVE i + 1 \in later
      BY <1>1 DEF Places
    <2>2. i + 1 \in 1..Len(queue) /\ i + 1 # 1
      BY <1>1
    <2>3. QED
      BY <1>1, <2>1, <2>2 DEF Places
  <1>4. move \in Bijection(Places(after, kind), later)
    <2>1. move \in [Places(after, kind) -> later]
      BY <1>3
    <2>2. \A i, j \in Places(after, kind) : move[i] = move[j] => i = j
      BY <1>3
    <2>3. \A j \in later : \E i \in Places(after, kind) : move[i] = j
      BY <1>2
    <2>4. QED
      BY <2>1, <2>2, <2>3, Zenon DEF Bijection, Injection, Surjection, IsInjective
  <1>5. Cardinality(later) = Count(after, kind)
    <2>1. ExistsBijection(Places(after, kind), later)
      BY <1>4 DEF ExistsBijection
    <2>2. QED
      BY <1>1, <2>1, CountType, FS_Bijection DEF Count
  <1>6. IsFiniteSet(Places(queue, kind)) /\ Count(queue, kind) \in Nat
    BY CountType
  <1>7. 1 \in Places(queue, kind) <=> Head(queue) \in kind
    BY <1>1 DEF Places
  <1>8. Cardinality(later) = IF Head(queue) \in kind THEN Count(queue, kind) - 1
                                                      ELSE Count(queue, kind)
    BY <1>6, <1>7, FS_RemoveElement DEF Count
  <1>9. QED
    BY <1>1, <1>5, <1>6, <1>8

\* The events and the messages that stand for the system key of a shortcut.
Chord(key) == {e \in Events : IsShortcut(e) /\ e.key = key}
SystemKey(key) == {m \in Messages : m.type = "system" /\ m.key = key}

\* More than the presses and repeats with Alt: a release fires as well.
Accounted ==
    fails = 0 =>
        \A key \in ChordKeys :
            fired[key] + Count(channel, SystemKey(key)) + Count(sdl, Chord(key)) >= chords[key]

LEMMA AccountedInit == Init => Accounted
  <1> SUFFICES ASSUME Init, NEW key \in ChordKeys
               PROVE  fired[key] + Count(channel, SystemKey(key)) + Count(sdl, Chord(key))
                          >= chords[key]
    BY DEF Accounted
  <1>1. Count(channel, SystemKey(key)) = 0 /\ Count(sdl, Chord(key)) = 0
    BY CountEmpty DEF Init
  <1>2. fired[key] = 0 /\ chords[key] = 0
    BY DEF Init
  <1>3. QED
    BY <1>1, <1>2

LEMMA CountsType ==
    ASSUME TypeOK, NEW key \in ChordKeys
    PROVE  /\ fired[key] \in Nat /\ chords[key] \in Nat
           /\ Count(channel, SystemKey(key)) \in Nat
           /\ Count(sdl, Chord(key)) \in Nat
  <1>1. sdl \in Seq(Events) /\ channel \in Seq(Messages)
    BY DEF TypeOK, Events, Messages
  <1>2. fired[key] \in Nat /\ chords[key] \in Nat
    BY DEF TypeOK
  <1>3. QED
    BY <1>1, <1>2, CountType

\* A press with Alt puts a chord into SDL's queue; any act puts one event there.
LEMMA ActAccounted ==
    ASSUME TypeOK, Accounted, NEW k \in Keys, Press(k) \/ Repeat(k) \/ Release(k)
    PROVE  Accounted'
  <1>1. PICK e \in Events :
           /\ e.key = k /\ e.alt = (Alt \in held')
           /\ sdl' = Append(sdl, e)
    <2>1. PICK type \in {"down", "up"} : Act(type, k)
      BY DEF Press, Repeat, Release
    <2>2. [type |-> type, key |-> k, alt |-> Alt \in held'] \in Events
      BY DEF Events
    <2>3. QED
      BY <2>1, <2>2 DEF Act
  <1>2. channel' = channel /\ fired' = fired /\ fails' = fails
    BY DEF Press, Repeat, Release, Act, device
  <1>3. SUFFICES ASSUME fails = 0, NEW key \in ChordKeys
                 PROVE  fired[key] + Count(channel, SystemKey(key)) + Count(sdl', Chord(key))
                            >= chords'[key]
    BY <1>2 DEF Accounted
  <1>4. fired[key] + Count(channel, SystemKey(key)) + Count(sdl, Chord(key)) >= chords[key]
    BY <1>3 DEF Accounted
  <1>5. Count(sdl', Chord(key)) =
            IF e \in Chord(key) THEN Count(sdl, Chord(key)) + 1 ELSE Count(sdl, Chord(key))
    <2>1. sdl \in Seq(Events)
      BY DEF TypeOK, Events
    <2>2. QED
      BY <1>1, <2>1, CountAppend
  <1>6. \/ chords'[key] = chords[key]
        \/ chords'[key] = chords[key] + 1 /\ e \in Chord(key)
    <2>1. \/ chords'[key] = chords[key]
          \/ chords'[key] = chords[key] + 1 /\ key = k /\ Alt \in held
      BY DEF Press, Repeat, Release, Act
    <2>2. key # Alt
      BY KeysAssumption DEF ChordKeys, MappedKeys
    <2>3. key = k /\ Alt \in held => e \in Chord(key)
      BY <1>1, <2>2 DEF Press, Repeat, Release, Chord, IsShortcut
    <2>4. QED
      BY <2>1, <2>3
  <1>7. QED
    BY <1>4, <1>5, <1>6, CountsType

\* The event loop turns a chord into the system key of its shortcut.
LEMMA HandleAccounted == ASSUME TypeOK, Accounted, HandleEvent PROVE Accounted'
  <1>1. sdl \in Seq(Events) /\ channel \in Seq(Messages)
    BY DEF TypeOK, Events, Messages
  <1>2. PICK e \in Events : e = Head(sdl) /\ sdl # <<>> /\ sdl' = Tail(sdl)
    BY <1>1 DEF HandleEvent
  <1>3. fired' = fired /\ fails' = fails /\ chords' = chords
    BY DEF HandleEvent, user, device
  <1>4. SUFFICES ASSUME fails = 0, NEW key \in ChordKeys
                 PROVE  fired[key] + Count(channel', SystemKey(key)) + Count(sdl', Chord(key))
                            >= chords[key]
    BY <1>3 DEF Accounted
  <1>5. fired[key] + Count(channel, SystemKey(key)) + Count(sdl, Chord(key)) >= chords[key]
    BY <1>4 DEF Accounted
  <1>6. Count(sdl, Chord(key)) =
            IF e \in Chord(key) THEN Count(sdl', Chord(key)) + 1 ELSE Count(sdl', Chord(key))
    BY <1>1, <1>2, CountTail
  <1>7. Count(sdl', Chord(key)) \in Nat
    <2>1. sdl' \in Seq(Events)
      BY <1>1, <1>2
    <2>2. QED
      BY <2>1, CountType
  <1>8. CASE Sends(e)
    <2>1. PICK m \in Messages : m = ToMessage(e) /\ channel' = Append(channel, m)
      BY <1>2, <1>8, SentType DEF HandleEvent
    <2>2. Count(channel', SystemKey(key)) =
              IF m \in SystemKey(key) THEN Count(channel, SystemKey(key)) + 1
              ELSE Count(channel, SystemKey(key))
      BY <1>1, <2>1, CountAppend
    <2>3. e \in Chord(key) => m \in SystemKey(key)
      <3>1. e \in Chord(key) => m = [type |-> "system", key |-> key]
        BY <2>1 DEF Chord, ToMessage
      <3>2. QED
        BY <2>1, <3>1 DEF SystemKey
    <2>4. QED
      BY <1>5, <1>6, <1>7, <2>2, <2>3, CountsType
  <1>9. CASE ~Sends(e)
    <2>1. channel' = channel
      BY <1>2, <1>9 DEF HandleEvent
    <2>2. e \notin Chord(key)
      <3>1. e \in Chord(key) => IsShortcut(e) /\ e.key # Esc
        BY KeysAssumption DEF Chord, IsShortcut, ChordKeys, MappedKeys
      <3>2. QED
        BY <1>9, <3>1 DEF Sends, ForRenderer
    <2>3. QED
      BY <1>5, <1>6, <1>7, <2>1, <2>2, CountsType
  <1>10. QED
    BY <1>8, <1>9

\* The injector presses the system key.
LEMMA InjectAccounted == ASSUME TypeOK, Accounted, Inject \/ InjectFails PROVE Accounted'
  <1>1. CASE InjectFails
    <2>1. fails' # 0
      BY <1>1 DEF InjectFails, TypeOK
    <2>2. QED
      BY <2>1 DEF Accounted
  <1>2. CASE Inject
    <2>1. channel \in Seq(Messages)
      BY DEF TypeOK, Messages
    <2>2. PICK m \in Messages : m = Head(channel) /\ channel # <<>> /\ channel' = Tail(channel)
      BY <1>2, <2>1 DEF Inject
    <2>3. sdl' = sdl /\ fails' = fails /\ chords' = chords
      BY <1>2 DEF Inject, user
    <2>4. SUFFICES ASSUME fails = 0, NEW key \in ChordKeys
                   PROVE  fired'[key] + Count(channel', SystemKey(key)) + Count(sdl, Chord(key))
                              >= chords[key]
      BY <2>3 DEF Accounted
    <2>5. fired[key] + Count(channel, SystemKey(key)) + Count(sdl, Chord(key)) >= chords[key]
      BY <2>4 DEF Accounted
    <2>6. Count(channel, SystemKey(key)) =
              IF m \in SystemKey(key) THEN Count(channel', SystemKey(key)) + 1
              ELSE Count(channel', SystemKey(key))
      BY <2>1, <2>2, CountTail
    <2>7. Count(channel', SystemKey(key)) \in Nat
      <3>1. channel' \in Seq(Messages)
        BY <2>1, <2>2
      <3>2. QED
        BY <3>1, CountType
    <2>8. /\ fired'[key] \in Nat /\ fired'[key] >= fired[key]
          /\ m \in SystemKey(key) => fired'[key] = fired[key] + 1
      <3>1. CASE InjectKey(m)
        BY <3>1 DEF InjectKey, SystemKey, TypeOK
      <3>2. CASE InjectSystemKey(m)
        <4>1. fired' = [fired EXCEPT ![m.key] = @ + 1]
          BY <3>2 DEF InjectSystemKey
        <4>2. QED
          BY <4>1 DEF SystemKey, TypeOK
      <3>3. QED
        BY <1>2, <2>2, <3>1, <3>2 DEF Inject
    <2>9. QED
      BY <2>5, <2>6, <2>7, <2>8, CountsType
  <1>3. QED
    BY <1>1, <1>2

LEMMA AccountedStep == TypeOK /\ Accounted /\ [Next]_vars => Accounted'
  <1> SUFFICES ASSUME TypeOK, Accounted, [Next]_vars PROVE Accounted'
    OBVIOUS
  <1>1. CASE UNCHANGED vars
    BY <1>1 DEF vars, user, device, Accounted
  <1>2. QED
    BY <1>1, ActAccounted, HandleAccounted, InjectAccounted DEF Next

\* For any number of keys and acts: once all is handled and no injection has failed,
\* the system key of a shortcut has gone down at least once for every press and repeat
\* of it with Alt (input_handler_get_shortcut, inject_system_key).
THEOREM ChordsFire == Spec => []EveryChordFires
  <1>1. TypeOK /\ Accounted => EveryChordFires
    <2> SUFFICES ASSUME TypeOK, Accounted, Drained, fails = 0, NEW key \in ChordKeys
                 PROVE  fired[key] >= chords[key]
      BY DEF EveryChordFires
    <2>1. fired[key] + Count(channel, SystemKey(key)) + Count(sdl, Chord(key)) >= chords[key]
      BY DEF Accounted
    <2>2. Count(channel, SystemKey(key)) = 0 /\ Count(sdl, Chord(key)) = 0
      BY CountEmpty DEF Drained
    <2>3. QED
      BY <2>1, <2>2, CountsType
  <1>2. QED
    BY TypeInit, TypeStep, AccountedInit, AccountedStep, <1>1, PTL DEF Spec
=============================================================================
