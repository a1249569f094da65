--------------------------- MODULE ControlChannel ---------------------------
(***************************************************************************)
(* The client-to-server direction of the control connection, and the       *)
(* heartbeat replies that come back.                                       *)
(*                                                                         *)
(* Two threads of the client write to the one socket without a lock: the   *)
(* main thread sends an input event as two calls of send_all, header then  *)
(* payload (tcp_client_send_touch, _key, _scroll), or as one call          *)
(* (tcp_client_send_system_key); the heartbeat thread sends a bare header  *)
(* every three seconds (tcp_client_send_heartbeat).  On the device         *)
(* control_thread_func cuts the byte stream back into messages.            *)
(*                                                                         *)
(* The client writes 32-bit words: every header and payload of             *)
(* common/protocol.h is a whole number of them.  A word is a pair of       *)
(* 16-bit halves, little-endian, so that ANY four bytes can be read as a   *)
(* ControlHeader: the low byte of lo is the type, hi is the length.        *)
(* One call of send_all appends its words in one step.                     *)
(*                                                                         *)
(* The server reads bytes: a header is four of them, a payload as many as  *)
(* the header says.  Once a data word was taken for a header that need not *)
(* be a multiple of four, and the server goes on reading across the words  *)
(* of the client, skew bytes into them.                                    *)
(***************************************************************************)
EXTENDS Naturals, Integers, Sequences, FiniteSets

CONSTANTS
    Inputs,         \* the messages the user can make the main thread send
    RecvBufSize,    \* RECV_BUF_SIZE of tcp_server.c: 4096
    MaxInputs,      \* bound: inputs sent in a behaviour
    MaxHeartbeats   \* bound: heartbeats sent in a behaviour

Half == 0 .. 65535
Word == [lo : Half, hi : Half]
Message == [hdr : Word, data : Seq(Word)]

MsgType(hdr) == hdr.lo % 256

-----------------------------------------------------------------------------
\* The messages of common/protocol.h.

TOUCH     == 16
KEY       == 32
SCROLL    == 48
BACK      == 64
HOME      == 65
POWER     == 66
VOLUME_UP == 67
VOLUME_DOWN == 68
RECENTS   == 69
HEARTBEAT == 255

SystemKeys == {BACK, HOME, POWER, VOLUME_UP, VOLUME_DOWN, RECENTS}

Header(type, len) == [lo |-> type, hi |-> len]
UInt(n) == [lo |-> n, hi |-> 0]
Int32(n) == IF n >= 0 THEN UInt(n) ELSE [lo |-> 65536 + n, hi |-> 65535]

TouchEvent(action, x, y) ==
    [hdr |-> Header(TOUCH, 20),
     data |-> <<UInt(action), UInt(x), UInt(y), UInt(0), UInt(0)>>]

KeyEvent(action, keycode) ==
    [hdr |-> Header(KEY, 4), data |-> <<[lo |-> action, hi |-> keycode]>>]

ScrollEvent(x, y, dx, dy) ==
    [hdr |-> Header(SCROLL, 16),
     data |-> <<UInt(x), UInt(y), Int32(dx), Int32(dy)>>]

SystemKey(type) == [hdr |-> Header(type, 0), data |-> <<>>]

Heartbeat == SystemKey(HEARTBEAT)

Sizeof(type) ==
    CASE type = TOUCH -> 20 [] type = KEY -> 4 [] type = SCROLL -> 16 [] OTHER -> 0

\* The main thread sends well-formed messages that fit the receive buffer of
\* the server, and none of them is a heartbeat.
ASSUME InputsAssumption ==
    /\ RecvBufSize \in Nat
    /\ \A msg \in Inputs :
        /\ msg \in Message
        /\ msg.hdr.hi = 4 * Len(msg.data)
        /\ msg.hdr.hi < RecvBufSize
        /\ msg.hdr # Heartbeat.hdr

ASSUME BoundsAssumption == MaxInputs \in Nat /\ MaxHeartbeats \in Nat

-----------------------------------------------------------------------------
VARIABLES
    stream,     \* the words between the client and the server
    skew,       \* how many bytes of the first of them the server has read
    main,       \* 0, or the index in sent of the message whose header is out
                \* and whose payload is not: the main thread is between the
                \* two calls of send_all
    srv,        \* where control_thread_func is
    srvHdr,     \* its local variable header
    replies,    \* heartbeat replies on their way back
    link,       \* the connection
    sent,       \* history: the messages, in the order of their headers
    torn,       \* history: the messages that lie inside each other
    handled     \* history: what control_thread_func took for messages

vars == <<stream, skew, main, srv, srvHdr, replies, link, sent, torn, handled>>

\* A word on the way is tagged with the message and the place in it that it
\* is of, 0 for the header.  Only w is seen by the server.
Cell == [w : Word, m : Nat, k : Nat]

HeaderCell(m, msg) == [w |-> msg.hdr, m |-> m, k |-> 0]
PayloadCells(m, msg) ==
    [k \in 1 .. Len(msg.data) |-> [w |-> msg.data[k], m |-> m, k |-> k]]

IsHeartbeat(msg) == msg.hdr = Heartbeat.hdr
IsInput(msg) == ~IsHeartbeat(msg)
Count(s, Test(_)) == Len(SelectSeq(s, Test))

Init ==
    /\ stream = <<>>
    /\ skew = 0
    /\ main = 0
    /\ srv = "header"
    /\ srvHdr = UInt(0)
    /\ replies = 0
    /\ link = "up"
    /\ sent = <<>>
    /\ torn = {}
    /\ handled = <<>>

-----------------------------------------------------------------------------
\* The client's main thread.

\* The header of an input; a system key is a header and no more.
SendHeader(msg) ==
    /\ link = "up"
    /\ main = 0
    /\ Count(sent, IsInput) < MaxInputs
    /\ sent' = Append(sent, msg)
    /\ stream' = Append(stream, HeaderCell(Len(sent) + 1, msg))
    /\ main' = IF msg.data = <<>> THEN 0 ELSE Len(sent) + 1
    /\ UNCHANGED <<skew, srv, srvHdr, replies, link, torn, handled>>

\* The second call of send_all.
SendPayload ==
    /\ link = "up"
    /\ main # 0
    /\ stream' = stream \o PayloadCells(main, sent[main])
    /\ main' = 0
    /\ UNCHANGED <<skew, srv, srvHdr, replies, link, sent, torn, handled>>

\* The second call fails; the callers ignore the result.
SendPayloadFails ==
    /\ link = "closed"
    /\ main # 0
    /\ main' = 0
    /\ UNCHANGED <<stream, skew, srv, srvHdr, replies, link, sent, torn, handled>>

\* The client's heartbeat thread.  Between the two calls of the main thread
\* its header lands inside the main thread's message.
SendHeartbeat ==
    /\ link = "up"
    /\ Count(sent, IsHeartbeat) < MaxHeartbeats
    /\ sent' = Append(sent, Heartbeat)
    /\ stream' = Append(stream, HeaderCell(Len(sent) + 1, Heartbeat))
    /\ torn' = IF main = 0 THEN torn ELSE torn \cup {main, Len(sent) + 1}
    /\ UNCHANGED <<skew, main, srv, srvHdr, replies, link, handled>>

\* Mutant of ClientRecvReply: recv returns without a reply.
ClientRecvsNothing ==
    /\ link = "up"
    /\ replies' = replies - 1
    /\ UNCHANGED <<stream, skew, main, srv, srvHdr, link, sent, torn, handled>>

\* The client's control receiver takes a reply; its callback does nothing.
ClientRecvReply ==
    /\ link = "up"
    /\ replies > 0
    /\ replies' = replies - 1
    /\ UNCHANGED <<stream, skew, main, srv, srvHdr, link, sent, torn, handled>>

\* tcp_client_disconnect, the end of the client, or the loss of the forward.
Disconnect ==
    /\ link = "up"
    /\ link' = "closed"
    /\ UNCHANGED <<stream, skew, main, srv, srvHdr, replies, sent, torn, handled>>

-----------------------------------------------------------------------------
\* control_thread_func on the server.

\* The tail of the loop: answer a heartbeat, give anything else to the callback.
Handle(msg) ==
    /\ handled' = Append(handled, msg)
    /\ replies' = IF MsgType(msg.hdr) = HEARTBEAT THEN replies + 1 ELSE replies

\* Mutants of ReadsPayload: the shortest payload, or the longest, is left unread.
ReadsLongPayload(hdr) == hdr.hi > 4 /\ hdr.hi < RecvBufSize
ReadsShortPayload(hdr) == hdr.hi > 0 /\ hdr.hi < Sizeof(TOUCH)

\* Only these lengths are followed by a read of the payload.
ReadsPayload(hdr) == hdr.hi > 0 /\ hdr.hi < RecvBufSize

\* The bytes that recv can return, and the word that starts n bytes into the stream.
Available == 4 * Len(stream) - skew

Byte(word, i) ==
    CASE i = 0 -> word.lo % 256 [] i = 1 -> word.lo \div 256
      [] i = 2 -> word.hi % 256 [] i = 3 -> word.hi \div 256

ByteAt(n) == Byte(stream[n \div 4 + 1].w, n % 4)

WordAt(n) ==
    [lo |-> ByteAt(n) + 256 * ByteAt(n + 1), hi |-> ByteAt(n + 2) + 256 * ByteAt(n + 3)]

\* recv_all returns when all the n bytes it was asked for are there; what it leaves.
Consume(n) ==
    LET words == (skew + n) \div 4
    IN  /\ stream' = [i \in 1 .. Len(stream) - words |-> stream[i + words]]
        /\ skew' = (skew + n) % 4

NextHeader == WordAt(skew)

\* A header whose payload is to be read.
ServerRecvHeader ==
    /\ srv = "header"
    /\ Available >= 4
    /\ ReadsPayload(NextHeader)
    /\ srv' = "payload"
    /\ srvHdr' = NextHeader
    /\ Consume(4)
    /\ UNCHANGED <<main, replies, link, sent, torn, handled>>

\* A header that is handled at once, with data = NULL: there is no payload, or
\* one that does not fit the buffer and is left in the stream.
ServerRecvBare ==
    /\ srv = "header"
    /\ Available >= 4
    /\ ~ReadsPayload(NextHeader)
    /\ srvHdr' = NextHeader
    /\ Handle([hdr |-> NextHeader, data |-> <<>>])
    /\ Consume(4)
    /\ UNCHANGED <<main, srv, link, sent, torn>>

\* Mutant of PayloadBytes: the length is taken to count the header too.
PayloadAndHeaderBytes == srvHdr.hi + 4

PayloadBytes == srvHdr.hi

\* The payload, without the last bytes of one that is no whole number of words:
\* there is no event of such a length, and nobody looks at them.
Payload == [k \in 1 .. PayloadBytes \div 4 |-> WordAt(skew + 4 * (k - 1))]

\* Mutant of ServerRecvPayload: it waits for one byte too many.
ServerRecvPayloadLate ==
    /\ srv = "payload"
    /\ Available > PayloadBytes
    /\ Handle([hdr |-> srvHdr, data |-> Payload])
    /\ Consume(PayloadBytes)
    /\ srv' = "header"
    /\ UNCHANGED <<main, srvHdr, link, sent, torn>>

ServerRecvPayload ==
    /\ srv = "payload"
    /\ Available >= PayloadBytes
    /\ Handle([hdr |-> srvHdr, data |-> Payload])
    /\ Consume(PayloadBytes)
    /\ srv' = "header"
    /\ UNCHANGED <<main, srvHdr, link, sent, torn>>

\* recv fails once the connection is gone, with or without what was in flight;
\* the thread ends and tells nobody.
ServerEnd ==
    /\ link = "closed"
    /\ srv # "ended"
    /\ srv' = "ended"
    /\ UNCHANGED <<stream, skew, main, srvHdr, replies, link, sent, torn, handled>>

Server == ServerRecvHeader \/ ServerRecvBare \/ ServerRecvPayload \/ ServerEnd

Next ==
    \/ \E msg \in Inputs : SendHeader(msg)
    \/ SendPayload
    \/ SendPayloadFails
    \/ SendHeartbeat
    \/ ClientRecvReply
    \/ Disconnect
    \/ Server

Spec == Init /\ [][Next]_vars

\* A thread that is not blocked goes on.  Nothing makes the user or the
\* heartbeat timer act.
Fairness ==
    /\ WF_vars(SendPayload)
    /\ WF_vars(Server)
    /\ WF_vars(ClientRecvReply)

FairSpec == Spec /\ Fairness

-----------------------------------------------------------------------------
\* on_control_message and the first checks of the injector: does the injector
\* act on what was handled?

\* The callback copies an event out of data.
Dereferences(msg) ==
    /\ MsgType(msg.hdr) \in {TOUCH, KEY, SCROLL}
    /\ msg.hdr.hi >= Sizeof(MsgType(msg.hdr))

\* Mutant of ValidAction: the action of a touch is not looked at.
AnyAction(msg) == TRUE

\* The action is the first byte of a TouchEvent and of a KeyEvent.
ValidAction(msg) ==
    LET action == msg.data[1].lo % 256 IN
    CASE MsgType(msg.hdr) = TOUCH -> action \in 0 .. 2
      [] MsgType(msg.hdr) = KEY -> action \in 0 .. 1
      [] OTHER -> TRUE

Injected(msg) ==
    \/ MsgType(msg.hdr) \in SystemKeys
    \/ Dereferences(msg) /\ ValidAction(msg)

-----------------------------------------------------------------------------
\* Properties.

TypeOK ==
    /\ stream \in Seq(Cell)
    /\ skew \in 0 .. 3
    /\ main \in 0 .. Len(sent)
    /\ srv \in {"header", "payload", "ended"}
    /\ srvHdr \in Word
    /\ replies \in Nat
    /\ link \in {"up", "closed"}
    /\ sent \in Seq(Message)
    /\ torn \subseteq 1 .. Len(sent)
    /\ handled \in Seq(Message)

\* What the server is to read next, as the client meant it.
AtServer(c) ==
    /\ c.m = Len(handled) + 1
    /\ c.k = IF srv = "payload" THEN 1 ELSE 0

\* The end of what the client has written.
AtClient(m, k) ==
    IF main = 0
    THEN m = Len(sent) /\ (m > 0 => k = Len(sent[m].data))
    ELSE m = main /\ k = 0 /\ main = Len(sent) /\ sent[main].data # <<>>

\* Every word on the way is the word of a message.
CellsAreOfMessages ==
    \A i \in 1 .. Len(stream) :
        LET c == stream[i] IN
        /\ c.m \in 1 .. Len(sent)
        /\ c.k \in 0 .. Len(sent[c.m].data)
        /\ c.w = IF c.k = 0 THEN sent[c.m].hdr ELSE sent[c.m].data[c.k]

\* Cell j follows cell i at its distance: a message runs on to its last word,
\* and the header of the next one comes after it.
RunsOn(i, j) ==
    LET place == stream[i].k + (j - i)
        size == Len(sent[stream[i].m].data)
    IN  /\ place <= size => stream[j].m = stream[i].m /\ stream[j].k = place
        /\ place = size + 1 => stream[j].m = stream[i].m + 1 /\ stream[j].k = 0

CellsAreContiguous ==
    \A i, j \in 1 .. Len(stream) : i < j => RunsOn(i, j)

\* The server stands where a message, or the payload of srvHdr, begins.
ServerIsAligned ==
    /\ srv # "ended" /\ stream # <<>> => AtServer(stream[1])
    /\ srv = "payload" =>
        /\ Len(handled) < Len(sent)
        /\ srvHdr = sent[Len(handled) + 1].hdr
        /\ sent[Len(handled) + 1].data # <<>>

\* The last word on the way, or the last one read, is the last one written.
ClientIsAligned ==
    link = "up" =>
        IF stream # <<>>
        THEN AtClient(stream[Len(stream)].m, stream[Len(stream)].k)
        ELSE IF srv = "payload"
             THEN AtClient(Len(handled) + 1, 0)
             ELSE main = 0 /\ Len(handled) = Len(sent)

DeliveredInOrder ==
    /\ Len(handled) <= Len(sent)
    /\ \A i \in 1 .. Len(handled) : handled[i] = sent[i]

\* As long as no heartbeat has come between the header and the payload of an
\* input, the server is in step with the client: its next read begins where a
\* message begins (or the payload of the header it has read), and it has
\* handled the first messages sent, whole and in order, wherever the connection
\* is lost.
Framed ==
    /\ CellsAreOfMessages
    /\ CellsAreContiguous
    /\ ServerIsAligned
    /\ ClientIsAligned
    /\ DeliveredInOrder

FramedUntilTorn == torn = {} => Framed /\ skew = 0

\* Heartbeats landing inside an input are the only thing that can break the
\* framing: up to the first torn message the two threads, the stream and
\* control_thread_func together are the abstract channel.
Channel ==
    INSTANCE FifoChannel WITH
        Message <- Inputs \cup {Heartbeat},
        accepted <- sent,
        delivered <- handled,
        broken <- torn # {}

ImplementsChannel == Channel!Spec

\* on_control_message copies an event out of data whenever the header claims one, so
\* every such header must be one whose payload control_thread_func has read.
NoNullPayload ==
    \A i \in 1 .. Len(handled) : Dereferences(handled[i]) => handled[i].data # <<>>

Acted(msg) == Injected(msg) \/ MsgType(msg.hdr) = HEARTBEAT

\* The client's inputs are events the injector acts on, and the words at the end of a
\* touch event, its timestamp, read as messages that nobody acts on.
QuietTimestamps ==
    \A msg \in Inputs :
        /\ Injected(msg)
        /\ MsgType(msg.hdr) = TOUCH =>
            /\ Len(msg.data) = 5
            /\ \A k \in 4 .. 5 :
                LET unread == [hdr |-> msg.data[k], data |-> <<>>]
                IN  ~ReadsPayload(msg.data[k]) /\ ~Acted(unread) /\ ~Dereferences(unread)

\* What the server has acted on, and the messages that lie in no other.
ActedOn == {i \in 1 .. Len(handled) : Acted(handled[i])}
Intact == (1 .. Len(sent)) \ torn

\* Element i of S is the how manieth.
Nth(S, i) == Cardinality({j \in S : j <= i})

\* A heartbeat that lies inside an input.
Beat(m) == m \in torn /\ IsHeartbeat(sent[m])

\* Only touch events are torn, each by one or two heartbeats: heartbeats are three
\* seconds apart, and no call of send_all is taken to last long enough for a third.
TouchesTornOnce ==
    \A m \in torn :
        /\ MsgType(sent[m].hdr) \in {TOUCH, HEARTBEAT}
        /\ ~(Beat(m) /\ Beat(m + 1) /\ Beat(m + 2))

Drained == link = "up" /\ main = 0 /\ srv = "header" /\ stream = <<>>

\* A torn touch event costs that event and the heartbeats inside it, and
\* nothing else: the n-th message acted on is the n-th intact one, and once the
\* stream is drained as many have been acted on as are intact.  The server falls
\* back into step because the zero words of the timestamp read as empty messages.
TornTouchIsLocal ==
    TouchesTornOnce =>
        /\ \A i \in ActedOn, j \in Intact :
            Nth(ActedOn, i) = Nth(Intact, j) => handled[i] = sent[j]
        /\ Cardinality(ActedOn) <= Cardinality(Intact)
        /\ Drained => Cardinality(ActedOn) = Cardinality(Intact)

\* The callback never copies from a payload that was not read, as long as heartbeats
\* land inside touch events only.  They can land inside a wheel event too, and the dy of
\* one with dy = -208 reads as the header of a scroll of 65535 bytes, more than the
\* buffer holds: NoNullPayload, without the condition, is violated.
TornTouchIsRead == TouchesTornOnce => NoNullPayload

\* Every message is eventually handled, if the connection holds and no message
\* is torn.
EverythingHandled ==
    \A n \in 1 .. MaxInputs + MaxHeartbeats :
        Len(sent) >= n ~> (Len(handled) >= n \/ torn # {} \/ link = "closed")

\* What CODE_WIKI.md promises of the transport ("reliable, needs no handling of
\* loss"): once the stream is drained, the injector has acted on the inputs
\* that were sent, and on nothing else.
NoInputLost ==
    Drained => SelectSeq(handled, Injected) = SelectSeq(sent, IsInput)
=============================================================================
