# A TLA+ model of ohos_scrcpy

ohos_scrcpy mirrors the screen of an OpenHarmony device on a PC. A server on the
device captures and encodes the screen and injects input; a client on the PC shows
the pictures and sends the input. The two talk over two TCP connections that hdc
forwards over USB: a video connection (server to client) and a control connection
(input one way, heartbeat replies the other way). This directory holds TLA+ models of
the parts whose correctness depends on interleavings, ordering and failures, the TLC
runs that check them, and TLAPS proofs of the main results.

Run a model with `tlc -config X.cfg M`, a proof with `tlapm M_proofs.tla`.

## 1. The system

| Part | Source | State it keeps | What it does, and with whom it interacts |
|---|---|---|---|
| Client main | `client/src/main.c` | `g_running`, picture buffers under two mutexes, pending video configuration | starts everything, runs the event loop, cleans up; the heartbeat thread |
| Client network | `client/src/tcp_client.c` | two sockets, state, two receiver threads | connect, handshake, send inputs and heartbeats, receive video and replies |
| Input handler, toolbar | `client/src/input_handler.c`, `toolbar.c` | sizes of window and screen; buttons | turn SDL events into touches, scrolls, keys and system keys |
| Video decoder, renderer | `client/src/video_decoder.cpp`, `renderer.c` | codec context; textures, viewport | H.264 to YUV in the video thread; drawing in the main thread |
| HDC manager | `client/src/hdc_manager.c` | serial of the device | forwards ports, pushes, starts and kills the server |
| Server main | `server/src/main.c` | encoder available or raw mode | starts everything, callbacks between capture, encoder, network and injector |
| Server network | `server/src/tcp_server.c` | two sockets, state, control thread | accept, handshake, cut the control stream into messages, send video |
| Video encoder | `server/src/video_encoder.c`, `sw_encoder.cpp` | one slot for an input buffer of the codec | hardware codec with callbacks, OpenH264 otherwise |
| Screen capture | `server/src/screen_capture.c` | OH_AVScreenCapture | delivers pictures in a thread of its own |
| Input injector | `server/src/input_injector.c` | OH_Input or uinput, `touching` | touches, scrolls and keys on the device |

What is hard in this code, and the properties that make each part correct:

* **Two writers, one socket, no lock.** The main thread writes an input in two calls
  and the heartbeat thread writes in between. Correct: messages arrive whole, once, in
  order; a torn one costs as little as possible.
* **A slot shared with a codec callback without a lock.** Correct: only whole pictures
  in buffers we own are pushed, and buffers go back to the codec.
* **Input as a protocol.** A press without a release leaves the device stuck. Correct:
  after everything is handled, the device holds what the user holds.
* **A session of many steps, each of which can fail or be cut off.** Correct: both
  sides hold the same connections, nothing waits for ever, nothing is left behind.
* **Pictures handed from thread to thread** (pending configuration, buffers, decoder,
  shutdown while threads run). Correct: only whole pictures are drawn, the last one and
  every resize reach the screen, a buffer fits what is read from it, and nothing is freed
  while it is used.

Every hazard has its line and its properties in `PROJECT.json`.

## 2. The modules

### FifoChannel and ControlChannel (the core)

`FifoChannel` is what a control channel promises: messages accepted are delivered whole
and in order, until it breaks. `ControlChannel` is the code: the main thread's header
and payload (`SendHeader`, `SendPayload`: the two `send_all` of
`tcp_client_send_touch/_key/_scroll`), the heartbeat thread (`SendHeartbeat`), and
`control_thread_func` (`ServerRecvHeader`, `ServerRecvBare`, `ServerRecvPayload`). The client
writes 32-bit words: all messages of `common/protocol.h` are whole numbers of them. The server
reads bytes: any four of them can be a header, and its length says how many more are read,
whether or not they end with a word of the client (`skew`, `WordAt`). So a stream out of step is
modelled exactly: garbage becomes messages the way it does in the program. Each word carries
a tag (message, place) that the server does not see; tags, `sent`, `torn` and `handled` are
history.

* `FramedUntilTorn`: until a heartbeat lands inside an input, the server's next read is at
  a message boundary and it has handled a prefix of what was sent.
* `ImplementsChannel`: the module implements `FifoChannel` (accepted = sent, delivered =
  handled, broken = something is torn).
* `TornTouchIsRead`: as long as heartbeats land inside touch events only, `on_control_message`
  never copies from a payload that was not read.
* `TornTouchIsLocal`: a touch that was torn, by one or two heartbeats, costs itself and the
  heartbeats inside it: of all other messages the n-th sent is the n-th acted on. A third
  heartbeat would need a call of `send_all` that blocks for the three seconds between two of
  them; it would push a coordinate to where the server reads a header.
* `EverythingHandled` (liveness).
* Violated: `NoInputLost`, that every input is acted on as it was sent.
* `NoNullPayload`, which is `TornTouchIsRead` without its condition, does not hold: inside a wheel
  event with dy = -208 a heartbeat makes the server take dy for the header of a scroll of 65535
  bytes, which it does not read and hands to the callback.

### HwEncoder

The one slot (`inputIndex`, `inputData`, `inputReady`) between `on_need_input_data` and
`video_encoder_encode_frame`. The callback's three stores are seen in any order
(`Store(field)`), since the fields are plain and there is no lock; `encode_frame` is split
at every access (`TestSlot`, `GetAddr`, `EndCopy`, `Push`, `ClearReady`). The codec is
external: it lends a free buffer, and frees a pushed one.

* `CleanUntilRaced`: unless a callback comes between the test of the slot and the push,
  only whole frames are queued, and only buffers we own are written.
* `LostForever`: a buffer forgotten in the slot never comes back.
* `StarvesOnlyWhenAllLost`: encoding stops only when every buffer is lost (liveness).
* Violated: `KeepsSubmitting`, in behaviours with no race at all (`CalmSpec`).

### PointerInput and KeyInput

The user, SDL's queue, the event loop, the channel (a FIFO, as `ControlChannel` provides
until something is torn) and the injector. `PointerInput` has one finger on the device
(pointer 0, uinput slot 0), two mouse buttons, the toolbar in front of the screen, the black
border, the wheel, Recents, `touching` and failed injections. `KeyInput` has the Alt
modifier at the time of each event, repeats, shortcuts, Esc, unmapped keys and the Application
key, which is a shortcut with Alt and nothing without; both Alt keys are one key.

* `DragFollows`: when all is handled, the finger of a drag is on the screen and, if the pointer
  is over the picture, where the pointer is.
* `StuckOnlyByToolbarRelease`: with no button held, a finger is left down only by a
  release over the toolbar or a failed injection.
* `TouchingIfFinger`: no move of a drag is dropped. `ReleaseLifts` (liveness).
* `PlainKeysAgree`, `ShortcutKeysAgree`: the device holds the keys the user holds, except
  shortcut keys whose last event came with Alt down. `EveryChordFires`; `ReleaseArrives`
  (liveness).

Four claims of `docs/operation-guide.md` do not hold; the first is the run `pointer_stuck`:

* `NoFingerLeftDown` (line 32, a drag is a swipe): a release over the toolbar is sent nowhere.
* `BorderDoesNotClick` (line 35, the black border does not click): a point of the border is
  clamped, and a press on it touches the edge of the screen.
* `EscPassesThrough` (lines 53 and 58, Esc is passed through): the press goes to the renderer, and
  the device gets the release only.
* `ChordFiresOnce` (lines 41 to 47, one function for each shortcut): a shortcut fires on the press
  of its key, on every repeat and on the release, because `input_handler_process_key_event` looks
  it up before it looks at the action. `EveryChordFires` says "at least once"; for Power the
  second undoes the first.

### Session

From the start of the client to its exit: forwards, push, kill, launch, connect with
retries, handshake, receivers, cleanup, join (without hdc or a device main returns at once,
and nothing has changed); on the server listen, accept, handshake,
CONNECTED. The client and the server may be killed at any step, an hdc command may fail,
the user may start the client again. The kernel's queue of connections that are not
accepted is there because `accept` hands out a connection that the client has closed.

* `SameConnections`, `SameControl`: client and server hold the two ends of the same
  connections; for video this needs a first attempt that succeeded.
* `CleanExit`: whichever way main comes to its end once it has a device, no server and no
  forward is left.
* `HandshakeDecides`, `ExitCompletes` (liveness): no wait for ever, though neither `recv` has
  a timeout and closing a socket does not wake a thread in `recv` on POSIX.
* Violated: `ServerNotices`, that the server does not stay connected to a client that is gone.

### ClientVideo

The video thread of the client, from the header of a message to the shared buffers, and the
main loop that draws them. The thread: `RecvHeader`, `Sink`, `RecvPayload` (`video_thread_func`),
the three stores of a pending size one by one (`PostWidth`, `PostHeight`, `PostFlag`), the raw
picture under `g_rgbaMutex` (`ReserveRgba`, `CopyRgba`), the decoder (`SetParams`, `BeginDecode`,
`Decode`) and the decoded picture under `g_yuvMutex` (`CopyYuv`). The main thread: the pending
size read, applied and its flag reset in three steps, the drawing, the cleanup step by step.
A mutex is not a variable: the video thread holds it in the states between `Reserve` and `Copy`,
and the main thread, whose critical section is one step, waits for these to be over, except
in `FreeBuffers`, which takes no mutex. Messages arrive whole; a broken link may cut the last
one. FFmpeg may have a picture for a frame or none. The server sends raw pictures only
after its configuration, and parameter sets and frames also before it.

* `InStep`: the thread never takes a payload for a header, whatever is too large to receive.
* `BufferFits`: the buffer of the raw pictures has the length of the size it is drawn with and
  of the picture in it. A picture turned by 90 degrees has the same length, so that the old
  width and height are kept for it; the invariant says that no more than that goes wrong.
* `DrawnSize`: the race on the pending size (an update that comes between `ApplyPending` and
  `ClearPending` is lost; width and height may be read of two different sizes) is repaired by the
  first raw picture that is drawn, for good.
* `WholePictures`; `PictureShown` and `ResizeRedrawn` (liveness).
* Violated: `NotFreedInUse`.
* `SetParamsCrashes`: parameter sets crash a client whose `video_decoder_create` failed.

### AnnexB and ServerVideo

`AnnexB` has the functions on bytes: the scan of `sw_extract_and_send_sps_pps` for start codes
(`StartCodeLen`, `NalEnd`, `NalUnits`), the first SPS and PPS (`Extract`), the message
`tcp_server_send_sps_pps` makes of them (`Pack`), and what the client's `on_video_frame` takes
out of it (`Unpack`). `Reference` is what annex B of H.264 says of the same bytes: a unit begins
behind 0,0,1 and ends before the next 0,0,0 or 0,0,1. The scan ends a unit at a start code only,
so that zeros before one, or at the end of the data, stay with the unit; a decoder ignores zeros
behind a parameter set. `SameParams` says so: the same but for zeros behind. `ByteStream` are the
data that are a byte stream of annex B, in which three zeros are in no unit.

`ServerVideo` is the server from the connected client to its exit: main (`CreateEncoder` with
the fall back to OpenH264 or to raw pictures, `StartEncoder`, `Announce`, `StartCapture`, the
loop, then one action per step of the cleanup), the thread of the capture
(`on_video_buffer_available`, through OpenH264, the codec or `on_screen_frame`'s raw mode), the
thread of the codec (`on_stream_changed`, `on_need_output_data`), and the control thread. A
message is sent in pieces (`SendPiece`): its header and its payload are calls of their own, and
another thread may come in between. The client may be gone at any time (`ClientGone`: sends fail)
or cease to read (`ClientStalls`: its video thread has ended, or it is suspended, and its socket
is open): then a send may go into the buffers of the sockets, or wait for ever, since `send_all` has
no timeout (`Blocked`). The signal may come at any time. The control thread is not joined:
closing the descriptor does not wake it from `recv`, and it may handle one more message after the
cleanup has destroyed what it uses. Whether `StopScreenCapture` and `OH_VideoEncoder_Stop` wait for a running callback is
not known from the code; the variable `waits` has both. `wire` and `overlap` are history.

* `WholeMessages`: of three threads that write to one socket without a lock, the capture never
  writes while another thread does; only the configuration, and parameter sets of the codec
  that come while it is sent, can be torn.
* `DecoderReady`: with OpenH264, as long as no allocation fails, the parameter sets of the
  standard's reading of the first complete keyframe reach the client before it does, in whatever
  order and behind whatever start codes they lie, and though a keyframe without them came first.
* `RawFresh`: the rate limit of the raw mode never leaves the client with a picture an interval
  older than the last one captured, though the clock may go back.
* `SafeShutdown`: if the Stop functions wait, the order of the cleanup is right: nothing the
  capture or the codec uses is destroyed under them, and no message is cut off by the closing of
  the socket. The control thread, which nobody waits for, is left out: it can be left with a
  destroyed injector.
* `ShutdownCompletes` (liveness): told to stop, the server ends, also if the capture is in the
  middle of a message to a client that is gone, unless main itself, or a thread that main waits
  for, is for ever in a send to a client that does not read.
* `SignalStops`, that the signal ends the server (the message of main, `Ctrl+C to stop`), does not
  hold: a capture in a send to a client that does not read, and a Stop that waits for it, hold main
  for ever; the socket is closed only after that.
* `ConfigFirst`, the order of the diagram in `CODE_WIKI.md`, does not hold: the codec is started before
  the configuration is sent, and its parameter sets and frames may come first.
* `SentIsSent` does not hold: when there is no memory for the message, the parameter sets count as
  sent (the result is dropped on the way), and no later keyframe tries again.

`MCServerVideo` also checks, by ASSUME, `Extract` against `Reference` on every byte stream of up to
7 bytes of a small alphabet (they differ in more than zeros only in a last unit of one byte behind
a start code of 3, `ShortLast`, which the scan's bound leaves out and no parameter set is), and
`Unpack(Pack(_))` on small parameter sets, cut off anywhere. Both are also proved for every length
(section 4), the second for messages that are not cut off.

## 3. The runs

| Run | Bounds | Why they are enough |
|---|---|---|
| control_channel, control_channel_torn | 4 kinds of input, 3 inputs, 2 heartbeats | one message of every shape (long, short, signed payload, none), words that read as a system key, as a header with an odd length and as one too large, and enough of them and of heartbeats for two to be torn or for one to follow a torn one |
| hw_encoder, hw_encoder_starves | 3 buffers | one lent, one in the slot and one being pushed at once |
| pointer, pointer_stuck | 2 points, 5 (4) acts, 1 (0) failures | press, move, press of the other button or wheel, release, and one more, all queued at once |
| keys | one key of each class, 5 acts, 1 failure | Alt down, key down, repeat, key up, Alt up in any order and mixture |
| session | 3 attempts, queue of 2, 2 sessions, 1 hdc failure | retries that leave more than one dead connection, and a session after every way the first one can end |
| session_forgotten | 1 session, no hdc failure | the shortest client that disappears |
| client_video, client_video_exit | 3 messages, 4 sizes, 1 resize | a configuration and two raw pictures (the same size, turned, smaller, too large), or parameter sets and frames in any order; the resize when there is no new picture |
| server_video | 3 keyframes, 2 pictures, gaps 1 and 3 modulo 4, interval 3, 1 failure | an ordinary keyframe, one with the PPS first, other units before and between, zeros behind the parameter sets and the SPS at the end of the data, and one without a PPS, in any order; a picture within the interval and one at it, which is also a clock that goes back by 1; a change of parameter sets at every step of main and of the cleanup; other layouts of a keyframe are checked by ASSUME and proved |

Seven more configurations give counterexamples to what a comment or a document says and the code
does not do; the claims are defined in their modules, no passing run and no theorem claims or assumes one of
them (`TornTouchIsRead` has its own condition), and the hazards in `PROJECT.json` quote the lines:

| Configuration | Module | TLC finds violated |
|---|---|---|
| `ControlChannelUnread.cfg` | `MCControlChannel` | `NoNullPayload` (CODE_WIKI.md:780) |
| `PointerBorder.cfg` | `PointerInput` | `BorderDoesNotClick` (operation-guide.md:35) |
| `KeyEsc.cfg` | `KeyInput` | `EscPassesThrough` (operation-guide.md:53, 58) |
| `KeyChord.cfg` | `KeyInput` | `ChordFiresOnce` (operation-guide.md:41-47) |
| `ServerVideoOrder.cfg` | `MCServerVideo` | `ConfigFirst` (CODE_WIKI.md:1027-1030) |
| `ServerVideoUnsent.cfg` | `MCServerVideo` | `SentIsSent` (video_encoder.c:105-106) |
| `ServerVideoBlocked.cfg` | `MCServerVideo` | `SignalStops` (main.c:353 of the server) |

The inputs of the control runs are chosen for what their words are when they are read as headers:
the x coordinate 64 is a Back key, the word of the A key has a length of 30 bytes, after which the
server reads across the words of the client, and dy = -208 is a scroll that does not fit the
buffer. `MCControlChannel` checks the hypothesis of two theorems, `QuietTimestamps`, for these
inputs. Two heartbeats can tear one touch together or two one by one; three in one touch are
left out by the condition of `TornTouchIsLocal` and `TornTouchIsRead`.

Fairness. Threads that are not blocked go on: the senders between two calls, the receivers,
the event loop, the injector, the codec, every step of main, the video thread of the client
(its turns at a mutex are bounded by the messages, so that weak fairness is enough for the
main loop to get it). Frames keep coming only in
`HwEncoder` (a liveness question about encoding). Nothing is assumed of the user, the
heartbeat timer, of failures, or of crashes; in `Session` no frame and no reply has to come. In
`ServerVideo` main goes on, and capture and codec go on once they are in a callback, except in a
send to a client that does not read (`Blocked`), which need never return: such a client need not
read again, and need not go either. No callback and no signal has to come.
`CHECK_DEADLOCK FALSE` is set where the system may stop: the user stops acting, the encoder
is stopped, the program has exited.

## 4. The proofs

| Theorem | Says, for every value of the constants |
|---|---|
| `ControlChannel_proofs!TypeCorrect` | `Spec => []TypeOK` |
| `ControlChannel_proofs!Framing` | `Spec => []FramedUntilTorn` |
| `ControlChannel_proofs!Refinement` | `Spec => ImplementsChannel` |
| `ControlChannel_proofs!PayloadIsThere` | `QuietTimestamps` gives `Spec => []TornTouchIsRead` |
| `ControlChannel_proofs!TornTouchCostsItself` | `QuietTimestamps` gives `Spec => []TornTouchIsLocal` |
| `PointerInput_proofs!TypeCorrect` | `Spec => []TypeOK` |
| `PointerInput_proofs!MovesArrive` | `Spec => []TouchingIfFinger` |
| `PointerInput_proofs!LiftedInTheEnd` | `Spec => []StuckOnlyByToolbarRelease` |
| `PointerInput_proofs!FingerFollows` | `Spec => []DragFollows` |
| `KeyInput_proofs!TypeCorrect` | `Spec => []TypeOK` |
| `KeyInput_proofs!PlainKeysHold` | `Spec => []PlainKeysAgree` |
| `KeyInput_proofs!ShortcutKeysHold` | `Spec => []ShortcutKeysAgree` |
| `KeyInput_proofs!ChordsFire` | `Spec => []EveryChordFires` |
| `Session_proofs!TypeCorrect` | `Spec => []TypeOK` |
| `Session_proofs!ExitIsClean` | `Spec => []CleanExit` |
| `Session_proofs!ControlIsShared` | `Spec => []SameControl` |
| `Session_proofs!ConnectionsAreShared` | `Spec => []SameConnections` |
| `HwEncoder_proofs!TypeCorrect` | `Spec => []TypeOK` |
| `HwEncoder_proofs!Cleanliness` | `Spec => []CleanUntilRaced` |
| `HwEncoder_proofs!LossIsForever` | `Spec => LostForever` |
| `ServerVideo_proofs!TypeCorrect` | `Spec => []TypeOK` |
| `ServerVideo_proofs!MessagesWhole` | `Spec => []WholeMessages` |
| `ServerVideo_proofs!RawStaysFresh` | `Spec => []RawFresh` |
| `ServerVideo_proofs!CleanupInOrder` | `Spec => []SafeShutdown` |
| `ServerVideo_proofs!DecoderGetsParams` | `Spec => []DecoderReady` |
| `AnnexB_proofs!ParamsArrive` | `Unpack(Pack(params)) = params`, for lengths below `Radix^4` |
| `AnnexB_proofs!ScanFinds` | `SameParams(Extract(data), Reference(data))` if `ByteStream(data)` and not `ShortLast(data)`, for data of any length |
| `AnnexB_proofs!ParamsOfKeyframeArrive` | `SameParams(Unpack(Pack(Extract(data))), Reference(data))`, for the same data, shorter than `Radix^4` |
| `ClientVideo_proofs!TypeCorrect` | `Spec => []TypeOK` |
| `ClientVideo_proofs!StaysInStep` | `Spec => []InStep` |
| `ClientVideo_proofs!BufferAlwaysFits` | `Spec => []BufferFits` |
| `ClientVideo_proofs!DrawnSizeIsRaw` | `Spec => []DrawnSize` |
| `ClientVideo_proofs!DrawnWhole` | `Spec => WholePictures` |

Assumptions. `InputsAssumption`: the inputs are messages whose header has the length of their
payload, which fits the receive buffer, and none is a heartbeat: what the senders of
`tcp_client.c` do. `BoundsAssumption`, and `BuffersAssumption`: NULL is not a buffer. `ConstantsAssumption` of
`ClientVideo`: sizes are positive, and `RECV_BUF_SIZE <= MAX_VIDEO_FRAME_SIZE`; of `ServerVideo`:
access units are bytes, the codec's parameter sets are not empty, the interval is shorter than
the clock; of `Session`: there is at least one attempt and one place in the queue. `KeysAssumption`
and `PlacesAssumption`: the sets of keys, and of places, are apart. `RadixAssumption`: the radix is at
least 2. `KeyframesAssumption` of `ServerVideo`: a keyframe is a `ByteStream`, which the standard
demands of an encoder, is not `ShortLast`, since its units are longer than a byte, and its length
fits into the length prefix, which is a `uint32_t`.

Two theorems about `ControlChannel`, `TornTouchCostsItself` and `PayloadIsThere`, have a hypothesis on
the inputs instead, `QuietTimestamps`, because the senders do not enforce it by a check. It says
that the inputs are events the injector acts on and that the two words of a touch's timestamp
read as messages that nobody acts on: `input_handler.c` line 138 sets the timestamp to 0, and a
word of 0 reads as a message of type 0 without a payload. A client that filled the timestamp in
would lose both properties.

Argument for `ControlChannel`. That the server has handled a prefix of what was sent is not
inductive: a step that reads a word must know which word it is. `Framed` says so: every word
on the way is the word of a sent message, the words follow each other without a gap, the
first one is what the server is to read next, and the last one is the last one written. Each
action has a lemma that it keeps these four parts as long as nothing is torn; a heartbeat
between header and payload makes `torn` non-empty for good. The refinement follows step by
step: `SendHeader` and `SendHeartbeat` accept, a completed read delivers, tearing breaks.

`TornTouchCostsItself` is about the stream that is no longer in step. `Resync` is what stays
true of it. A touch and the heartbeats inside it are one group (`Host`, `Beats`), any other message
is a group of its own; in its group a word has a place (`Rank`), header first, then the heartbeats,
then the payload. Words follow each other place by place and group by group (`GroupsRunOn`), torn
or not; that is the invariant that the shift by the heartbeats leaves alone. The server has done
with the first n groups (`Synced`): it is to read a header, or a payload whose first word is the
next place, or, behind a torn touch whose five payload words it has taken from the heartbeats and
the first words of the payload, one of the last two words of that touch, the timestamp. These are
ignored one by one, and the server is at the header of the next group. What was acted on and the
intact messages among the first n are paired by their ranks in the two sets (`Paired`); a torn
touch is in neither, since its action is the heartbeat's header, which is no action. Each action
has a lemma that it keeps `Resync`; the hardest is the heartbeat that lands in a message
(`TornResync`), where the group of the main thread's message grows while the server may have
read its header. The server reads whole words as long as that holds. `PayloadIsThere` rests on
it: what the server takes for a header is the header of a message, whose payload is read, or a
word of a timestamp, which is no event.

Argument for `PointerInput` and `KeyInput`. What the device will hold is decided by the last thing
that is on its way, and that may be in SDL's queue, in the channel, or on the device. For a key it
is the last event of that key (`LastEvents`, `LastMessages`, `DeviceAgrees`), for the keys whose
own events reach the device (`Watched`). For a finger that is to be up it is the last event that
can send anything, a release, or the last message, which lifts (`LiftHolds`); for a drag it is the
press with nothing but motions behind it, and the last place (`DragHolds`). A step moves the last
thing on from one part of this chain to the next. `DragHolds` uses `TouchingIfFinger`, without
which uinput could drop the last move. For the shortcuts it is not the last thing that counts but
how many: `Accounted` says that the system keys the device has seen, those in the channel and the
events in SDL's queue that will become one are together at least the presses with Alt; every step
moves one from queue to channel to device or adds one to both sides.

Argument for `Session`. `StagesHold` says what main has in which stage. `ExitHolds`: from `StopServer`
on the server is gone. `AskedHolds`: only one connection of a session ever carries a request, so
that the one answered is the client's own as long as the server that answered it lives
(`OwnServer`). `FirstVideo`: at a first attempt the server is fresh (`OffHolds`), and the only
connection it can accept is the client's.

Argument for `HwEncoder`. `CleanUntilRaced` is strengthened by who owns the buffer of the slot
in each place: the callback holds the buffer it lends and the stores it has made are still
there; a full slot names one buffer that is ours; from its test to its push `encode_frame`
and the slot agree. Each of these is disturbed only by a callback in that section, which sets
`raced`.

Argument for `ClientVideo`. `WhoChanges` lists, once, which actions change which variable; each
part of `IInv` is then kept by the few that touch it. `DrawnSize` needs most of it: a raw picture,
on the wire or received, means that the configuration is behind (`OrderHolds`), so that after
the first one nothing is posted any more (`NothingMorePosted`); from then on the pending size is
a raw picture's (`PendHolds`), the buffer has such a size (`BufferHolds`), and a width that
the main loop has read is still the pending one (`DrawnHolds`). `InStep` needs that headers and
payloads alternate and that only a broken link ends in a header (`PartsAlternate`);
`WholePictures`, that only the picture being copied has no number (`PicturesHold`). TLC has also
checked `IInv` with the constants of the run `ClientVideo`.

Argument for `ServerVideo`. `Inv` says, for each thread, what its place means: which labels of main
go with which resources (`LiveHolds`), that the capture is in a callback only between
`SetRunning` and the release of the capture when Stop waits (`CaptureHolds`), and that the codec
exists while it calls back (`CodecHolds`). `WireInv` adds what the pieces on the wire say of the
sender: a thread that is not at its first piece and that nobody overlapped is the one whose
piece is last on the wire (`LastHolds`), and who can be sending at the same time as whom
(`SendersHold`); `WholeMessages` follows piece by piece. `RawHolds` relates `lastSentTs` to the last
raw picture on the wire. `ReadyHolds` follows the parameter sets of OpenH264: until they were sent
(`swSent`) no keyframe that has both is on the wire; then they are on the wire and the capture is
about to send the keyframe they are of, or that keyframe was the first of its kind. TLC has checked
the four with the constants of the run.

Argument for `AnnexB`. Digits: by division with remainder, four times (`LengthRead`). Positions:
`Placed(buf, k, t)` for a part that lies behind the first k elements; concatenation is
associative, so that each of the four parts is first, last or in the middle (`Layout`). The
scan: what it finds from a position on are the whole units from there, each up to the next start
code (`WholeUnit`, `FirstWhole`). This is an induction
from the end of the data, which is written out (a claim that fails somewhere fails at a last or a
least position), since the induction theorems of the library take an operator. A whole unit is the
unit of the standard and zeros behind it (`WholeIsPadded`): from its end on there are zeros up to
the next start code (`ZerosBehind`), which is where `ByteStream` is needed.

Only model-checked: liveness, fairness and ENABLED, which the provers do not handle:
`EverythingHandled`, `StarvesOnlyWhenAllLost`, `ReleaseLifts`, `ReleaseArrives`, `HandshakeDecides`,
`ExitCompletes`, `PictureShown`, `ResizeRedrawn`, `ShutdownCompletes`. Every invariant and every
action property of a run is a theorem.

## 5. What is not modelled, and why

* hdc's own forwarding process: a connection is made when the server listens, and is cut when
  the server ends. A connect that hdc accepts before the server listens is not modelled.
* The search for devices and the parsing of hdc's output; drawing, screenshots, logging; the
  codec and FFmpeg beyond how they are called; the vendored OpenH264.
* Key codes: the client sends Linux codes whether the server injects them with uinput or with
  OH_Input. Loss of keyboard focus. Resizing of the window while events are queued.
* In `ClientVideo`: memory orders other than the program's (the client runs on x86), hardware
  frames, a failed allocation of a YUV plane, the size of decoded pictures.
* In `ServerVideo`: sizes of pictures (a picture of another size than the configured one makes
  `swenc_encode` read past its rows), the hardware encoder's slot (`HwEncoder` has it), a failed
  allocation in `on_stream_changed` (its result is not checked), `video_encoder_request_key_frame`
  and `video_encoder_set_bitrate` (never called), the command line.
* The layout of the toolbar, the viewport of the renderer and the mapping of a point to the screen
  of the device, beyond which side of the toolbar and of the border a point lies on: arithmetic
  on floats. Opening the input devices: I/O before the client connects.

## 6. What could come next

`ServerVideo` composed with `HwEncoder` through the codec's buffers; a model of picture sizes from
the capture to the texture; what the client takes out of a parameter message that is cut off, proved
for every length.
