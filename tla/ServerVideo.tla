---------------------------- MODULE ServerVideo -----------------------------
(***************************************************************************)
(* The server from the moment a client is connected: the main thread that  *)
(* makes the encoder, announces the video, starts the capture and in the   *)
(* end takes everything down (main.c); the thread of the screen capture    *)
(* (screen_capture.c), which encodes with OpenH264 (video_encoder.c,       *)
(* sw_encoder.cpp), feeds the codec, or sends raw pictures; the thread of  *)
(* the codec, which calls back with parameter sets and frames; and the     *)
(* control thread.  Three of them write to one video socket, without a     *)
(* lock (tcp_server.c).                                                    *)
(*                                                                         *)
(* How the codec's input buffers are lent is in HwEncoder, what arrives on *)
(* the control channel in ControlChannel.  The codec calls back from one   *)
(* thread of its own, and can name its parameter sets before it is given a *)
(* picture.  Whether the system's Stop functions wait for a callback that  *)
(* runs is not known: both cases are checked.                              *)
(***************************************************************************)
EXTENDS AnnexB

CONSTANTS
    AccessUnits,    \* what OpenH264 makes of a picture that is a keyframe
    CodecParams,    \* parameter sets the codec names
    Gaps,           \* microseconds from one captured picture to the next
    ClockMod,       \* 2^64: timestamps are unsigned
    Interval,       \* RAW_MODE_MIN_INTERVAL_US
    Pieces,         \* bound: calls of send() one payload takes
    MaxPictures,    \* bound: pictures the capture delivers
    MaxChanges,     \* bound: how often the codec names parameter sets
    MaxFails        \* bound: allocations and mappings that fail

ASSUME ConstantsAssumption ==
    /\ \A au \in AccessUnits : au \in Seq(0..255)
    /\ \A params \in CodecParams : Complete(params)
    /\ ClockMod \in Nat \ {0}
    /\ Gaps \subseteq 0..ClockMod - 1
    /\ Interval \in 1..ClockMod - 1
    /\ Pieces \in Nat \ {0}
    /\ MaxPictures \in Nat /\ MaxChanges \in Nat /\ MaxFails \in Nat

\* A keyframe is a byte stream of H.264, does not end in a unit of one byte, and
\* its length fits into a length prefix.
ASSUME KeyframesAssumption ==
    \A unit \in AccessUnits :
        ByteStream(unit) /\ ~ShortLast(unit) /\ Len(unit) < Radix * Radix * Radix * Radix

Threads == {"main", "capture", "codec", "control"}
Senders == {"main", "capture", "codec"}

Config == [type |-> "config"]
Params(buf) == [type |-> "params", buf |-> buf]
Frame(data) == [type |-> "frame", data |-> data]
Raw(ts) == [type |-> "raw", ts |-> ts]
None == [type |-> "none"]

VARIABLES
    at,         \* where each thread is
    msg,        \* the message a thread sends or sent last
    piece,      \* the next piece of it: 0 is the header, the rest the payload
    wire,       \* history: the pieces sent, in order
    fd,         \* g_serverCtx.videoFd: "open", "closed" (-1) or "zero"
    link,       \* "up"; "stalled": the client does not read; "down": it is gone
    encoder,    \* "none", "openh264" or "codec"
    available,  \* g_encoderAvailable
    encRunning, \* g_encoderCtx.running
    swSent,     \* swSpsPpsSent
    spsPps,     \* g_encoderCtx.spsPps
    au,         \* the output of OpenH264: a keyframe, or <<>> for a P frame
    capRunning, \* g_captureCtx.running
    calls,      \* threads of the system that may begin a callback
    live,       \* what has been made and not yet destroyed
    waits,      \* do the system's Stop functions wait for their callbacks?
    stop,       \* g_running is FALSE
    clock,      \* timestamp of the last picture, tracked without an encoder
    lastSentTs, \* timestamp of the last raw picture sent, 0 for none
    lent,       \* pictures the codec was given and has not encoded
    overlap,    \* history: the threads that sent while another one did
    pictures, changes, fails    \* counters

sending == <<msg, piece, wire, overlap>>
sockets == <<fd, link>>
encoding == <<encoder, available, encRunning, swSent, spsPps, au>>
capturing == <<capRunning, clock, lastSentTs, lent>>
system == <<calls, live, waits, stop>>
counters == <<pictures, changes, fails>>
vars == <<at, sending, sockets, encoding, capturing, system, counters>>

\* tcp_server_start has returned; the control thread runs.
Init ==
    /\ at = [t \in Threads |-> CASE t = "main" -> "create"
                                 [] t = "control" -> "receiving"
                                 [] OTHER -> "idle"]
    /\ msg = [t \in Senders |-> None]
    /\ piece = [t \in Senders |-> 0]
    /\ wire = <<>>
    /\ overlap = {}
    /\ fd = "open" /\ link = "up"
    /\ encoder = "none"
    /\ available = FALSE /\ encRunning = FALSE /\ swSent = FALSE
    /\ spsPps = NoParams /\ au = <<>>
    /\ capRunning = FALSE
    /\ clock = 0 /\ lastSentTs = 0
    /\ lent = 0
    /\ calls = {"control"}
    /\ live = {"injector"}
    /\ waits \in BOOLEAN
    /\ stop = FALSE
    /\ pictures = 0 /\ changes = 0 /\ fails = 0

Alive == at["main"] # "exited"
Go(t, from, to) == Alive /\ at[t] = from /\ at' = [at EXCEPT ![t] = to]

Fail == fails < MaxFails /\ fails' = fails + 1

-----------------------------------------------------------------------------
\* tcp_server_send_video_frame: the header and the payload go out in calls of
\* their own, and another thread can come in between.  An error of a call ends
\* the message; no caller looks at the result.

SendLabels == {"config", "params", "frame", "raw"}
IsSending(t) == at[t] \in SendLabels

\* Mutant: whatever thread sent parameter sets goes on with a frame.
AfterSame(t) ==
    CASE at[t] = "config" -> "startCapture"
      [] at[t] = "params" -> "encoded"
      [] OTHER -> "release"

\* Mutant: the keyframe the parameter sets came with is not sent.
AfterParamsOnly(t) ==
    CASE at[t] = "config" -> "startCapture"
      [] at[t] = "params" /\ t = "codec" -> "idle"
      [] OTHER -> "release"

\* What a thread does after its message.  A frame and a raw picture are given
\* back; OpenH264's parameter sets are followed by the frame they came with.
After(t) ==
    CASE at[t] = "config" -> "startCapture"
      [] at[t] = "params" /\ t = "capture" -> "encoded"
      [] at[t] = "params" /\ t = "codec" -> "idle"
      [] OTHER -> "release"

Done(t) ==
    /\ at' = [at EXCEPT ![t] = After(t)]
    /\ piece' = [piece EXCEPT ![t] = 0]
    \* OpenH264's parameter sets count as sent, whether they were or not.
    /\ swSent' = (swSent \/ (at[t] = "params" /\ t = "capture"))

SendPiece(t) ==
    /\ Alive /\ IsSending(t)
    /\ fd = "open" /\ link # "down"
    /\ wire' = Append(wire, [msg |-> msg[t], piece |-> piece[t]])
    /\ overlap' = LET busy == {u \in Senders : IsSending(u)}
                  IN  IF busy = {t} THEN overlap ELSE overlap \cup busy
    /\ IF piece[t] = Pieces
       THEN Done(t)
       ELSE piece' = [piece EXCEPT ![t] = @ + 1] /\ UNCHANGED <<at, swSent>>
    /\ UNCHANGED <<msg, sockets, encoder, available, encRunning, spsPps, au,
                   capturing, system, counters>>

\* Mutant: an error of a call is taken for an interruption.
SendRetries(t) ==
    /\ Alive /\ IsSending(t)
    /\ fd # "open" \/ link = "down"
    /\ UNCHANGED vars

SendFails(t) ==
    /\ Alive /\ IsSending(t)
    /\ fd # "open" \/ link = "down"
    /\ Done(t)
    /\ UNCHANGED <<msg, wire, overlap, sockets, encoder, available, encRunning,
                   spsPps, au, capturing, system, counters>>

ClientGone ==
    /\ Alive /\ link # "down"
    /\ link' = "down"
    /\ UNCHANGED <<at, sending, fd, encoding, capturing, system, counters>>

\* The client's video thread ends, or the client is suspended, and its socket
\* stays open.  What fits into the buffers of the sockets can still be sent.
ClientStalls ==
    /\ Alive /\ link = "up"
    /\ link' = "stalled"
    /\ UNCHANGED <<at, sending, fd, encoding, capturing, system, counters>>

\* send() has no timeout: it may wait for the client for ever.
Blocked(t) == link = "stalled" /\ IsSending(t)

-----------------------------------------------------------------------------
\* The main thread.

\* video_encoder_create takes the codec of the system, else OpenH264, else
\* nothing.
CreateEncoder ==
    /\ encoder' \in {"none", "openh264", "codec"}
    /\ live' = live \cup (IF encoder' = "none" THEN {} ELSE {encoder', "callbacks"})
    /\ Go("main", "create", IF encoder' = "none" THEN "announce" ELSE "startEncoder")
    /\ UNCHANGED <<sending, sockets, available, encRunning, swSent, spsPps, au,
                   capturing, calls, waits, stop, counters>>

\* video_encoder_start: the codec may refuse; pictures are sent raw then.
StartEncoder ==
    /\ Go("main", "startEncoder", "announce")
    /\ \/ available' = TRUE
       \/ encoder = "codec" /\ available' = FALSE
    /\ encRunning' = available'
    /\ calls' = IF available' /\ encoder = "codec" THEN calls \cup {"codec"} ELSE calls
    /\ UNCHANGED <<sending, sockets, encoder, swSent, spsPps, au, capturing, live,
                   waits, stop, counters>>

\* tcp_server_send_video_config
Announce ==
    /\ Go("main", "announce", "config")
    /\ msg' = [msg EXCEPT !["main"] = Config]
    /\ UNCHANGED <<piece, wire, overlap, sockets, encoding, capturing, system, counters>>

\* screen_capture_start: callbacks can come before running is set; without a
\* capture the server goes on.
StartCapture ==
    /\ \/ /\ Go("main", "startCapture", "setRunning")
          /\ live' = live \cup {"capture", "capCallback"}
          /\ calls' = calls \cup {"capture"}
       \/ /\ Go("main", "startCapture", "loop")
          /\ live' = live \cup {"capCallback"}
          /\ UNCHANGED calls
    /\ UNCHANGED <<sending, sockets, encoding, capturing, waits, stop, counters>>

SetRunning ==
    /\ Go("main", "setRunning", "loop")
    /\ capRunning' = TRUE
    /\ UNCHANGED <<sending, sockets, encoding, clock, lastSentTs, lent, system, counters>>

\* A signal can come at any time; only the loop looks.
Signal ==
    /\ Alive /\ ~stop
    /\ stop' = TRUE
    /\ UNCHANGED <<at, sending, sockets, encoding, capturing, calls, live, waits, counters>>

\* Mutant: the capture is left running.
EndLoopOnly ==
    /\ stop
    /\ Go("main", "loop", "stopEncoder")
    /\ UNCHANGED <<sending, sockets, encoding, capturing, system, counters>>

EndLoop ==
    /\ stop
    /\ Go("main", "loop", IF capRunning THEN "stopCapture" ELSE "stopEncoder")
    /\ capRunning' = FALSE
    /\ UNCHANGED <<sending, sockets, encoding, clock, lastSentTs, lent, system, counters>>

Returns(t) == waits => at[t] = "idle"

\* OH_AVScreenCapture_StopScreenCapture begins no callback any more; when it
\* has returned the capture is released.
StopCapture ==
    /\ Go("main", "stopCapture", "releaseCapture")
    /\ calls' = calls \ {"capture"}
    /\ UNCHANGED <<sending, sockets, encoding, capturing, live, waits, stop, counters>>

ReleaseCapture ==
    /\ Returns("capture")
    /\ Go("main", "releaseCapture", "stopEncoder")
    /\ live' = live \ {"capture"}
    /\ UNCHANGED <<sending, sockets, encoding, capturing, calls, waits, stop, counters>>

\* video_encoder_stop
StopEncoder ==
    /\ Go("main", "stopEncoder", IF encRunning /\ encoder = "codec"
                                 THEN "stopCodec" ELSE "closeSockets")
    /\ encRunning' = FALSE
    /\ calls' = calls \ {"codec"}
    /\ UNCHANGED <<sending, sockets, encoder, available, swSent, spsPps, au,
                   capturing, live, waits, stop, counters>>

CodecStopped ==
    /\ Returns("codec")
    /\ Go("main", "stopCodec", "closeSockets")
    /\ UNCHANGED <<sending, sockets, encoding, capturing, system, counters>>

\* tcp_server_stop: the control thread is not joined, and closing the descriptor
\* does not wake it from recv.
CloseSockets ==
    /\ Go("main", "closeSockets", "destroyCapture")
    /\ fd' = "closed"
    /\ calls' = calls \ {"control"}
    /\ UNCHANGED <<sending, link, encoding, capturing, live, waits, stop, counters>>

DestroyCapture ==
    /\ Go("main", "destroyCapture", "destroyEncoder")
    /\ live' = live \ {"capCallback"}
    /\ UNCHANGED <<sending, sockets, encoding, capturing, calls, waits, stop, counters>>

DestroyEncoder ==
    /\ Go("main", "destroyEncoder", "destroyServer")
    /\ live' = live \ {"openh264", "codec", "callbacks", "spsPps"}
    /\ encoder' = "none" /\ encRunning' = FALSE /\ swSent' = FALSE
    /\ UNCHANGED <<sending, sockets, available, spsPps, au, capturing, calls, waits, stop, counters>>

\* tcp_server_destroy clears its context: descriptor 0.
DestroyServer ==
    /\ Go("main", "destroyServer", "destroyInjector")
    /\ fd' = "zero"
    /\ UNCHANGED <<sending, link, encoding, capturing, system, counters>>

DestroyInjector ==
    /\ Go("main", "destroyInjector", "return")
    /\ live' = live \ {"injector"}
    /\ UNCHANGED <<sending, sockets, encoding, capturing, calls, waits, stop, counters>>

\* The end of the process.
Return ==
    /\ Go("main", "return", "exited")
    /\ UNCHANGED <<sending, sockets, encoding, capturing, system, counters>>

MainStep ==
    \/ CreateEncoder \/ StartEncoder \/ Announce \/ StartCapture \/ SetRunning
    \/ EndLoop \/ StopCapture \/ ReleaseCapture \/ StopEncoder \/ CodecStopped
    \/ CloseSockets \/ DestroyCapture \/ DestroyEncoder \/ DestroyServer
    \/ DestroyInjector \/ Return \/ SendPiece("main") \/ SendFails("main")

-----------------------------------------------------------------------------
\* The thread of the capture.

\* on_video_buffer_available: nothing is done before running is set or after it
\* was reset.
BufferAvailable ==
    /\ "capture" \in calls
    /\ pictures < MaxPictures
    /\ pictures' = pictures + 1
    /\ Go("capture", "idle", IF capRunning /\ "capCallback" \in live THEN "acquire" ELSE "idle")
    /\ UNCHANGED <<sending, sockets, encoding, capturing, system, changes, fails>>

\* No buffer, one that cannot be mapped and is released at once, or a picture.
Acquire ==
    /\ \/ Go("capture", "acquire", "deliver") /\ UNCHANGED fails
       \/ Go("capture", "acquire", "idle") /\ Fail
       \/ Go("capture", "acquire", "release") /\ Fail
    /\ UNCHANGED <<sending, sockets, encoding, capturing, system, pictures, changes>>

\* Mutant: the difference of the timestamps is taken as signed.
TooSoonSigned(ts) == lastSentTs # 0 /\ ts < lastSentTs + Interval

\* The subtraction is unsigned.
TooSoon(ts) == lastSentTs # 0 /\ (ts - lastSentTs + ClockMod) % ClockMod < Interval

\* Mutant: a picture goes raw while the codec has no buffer for it.
RawUnlessTaken == ~available \/ encoder = "codec"

RawMode == ~available

\* on_screen_frame without an encoder.  lastSentTs is set when the picture is
\* out, or could not be sent.
DeliverRaw ==
    /\ RawMode
    /\ \E gap \in Gaps : clock' = (clock + gap) % ClockMod
    /\ \/ /\ TooSoon(clock')
          /\ Go("capture", "deliver", "release")
          /\ UNCHANGED <<msg, lastSentTs, fails>>
       \/ /\ ~TooSoon(clock')
          /\ Go("capture", "deliver", "raw")
          /\ msg' = [msg EXCEPT !["capture"] = Raw(clock')]
          /\ lastSentTs' = clock'
          /\ UNCHANGED fails
       \/ /\ ~TooSoon(clock') /\ Fail
          /\ Go("capture", "deliver", "release")
          /\ UNCHANGED <<msg, lastSentTs>>

\* video_encoder_encode_frame.  The codec takes a picture when it has lent a
\* buffer.
DeliverToEncoder ==
    /\ available
    /\ \/ ~encRunning /\ Go("capture", "deliver", "release")
       \/ encRunning /\ encoder = "openh264" /\ Go("capture", "deliver", "encode")
       \/ /\ encRunning /\ encoder = "codec"
          /\ \/ Go("capture", "deliver", "push")
             \/ Go("capture", "deliver", "release")
    /\ UNCHANGED <<msg, clock, lastSentTs, fails>>

Deliver ==
    /\ DeliverRaw \/ DeliverToEncoder
    /\ UNCHANGED <<piece, wire, overlap, sockets, encoding, capRunning, lent,
                   system, pictures, changes>>

\* OH_VideoEncoder_PushInputData
Push ==
    /\ Go("capture", "push", "release")
    /\ lent' = lent + 1
    /\ UNCHANGED <<sending, sockets, encoding, capRunning, clock, lastSentTs, system, counters>>

\* swenc_encode: no output, a P frame, or a keyframe.  Parameter sets go first
\* until they have been sent once (on_sw_encoded); when they are not found, or
\* there is no memory for them, the next keyframe is tried.
Encode ==
    \/ /\ Go("capture", "encode", "release")
       /\ UNCHANGED <<au, spsPps, live, fails>>
    \/ /\ Go("capture", "encode", "encoded")
       /\ au' = <<>>
       /\ UNCHANGED <<spsPps, live, fails>>
    \/ /\ at["capture"] = "encode"
       /\ au' \in AccessUnits
       /\ LET found == Extract(au') IN
          IF ~swSent /\ Complete(found)
          THEN \/ /\ Go("capture", "encode", "pack")
                  /\ spsPps' = found
                  /\ live' = live \cup {"spsPps"}
                  /\ UNCHANGED fails
               \/ /\ Go("capture", "encode", "encoded")
                  /\ Fail
                  /\ UNCHANGED <<spsPps, live>>
          ELSE /\ Go("capture", "encode", "encoded")
               /\ UNCHANGED <<spsPps, live, fails>>

SwEncode ==
    /\ Encode
    /\ UNCHANGED <<sending, sockets, encoder, available, encRunning, swSent, capturing,
                   calls, waits, stop, pictures, changes>>

\* on_encoded_frame
Forward ==
    /\ IF "callbacks" \in live
       THEN Go("capture", "encoded", "frame") /\ msg' = [msg EXCEPT !["capture"] = Frame(au)]
       ELSE Go("capture", "encoded", "release") /\ UNCHANGED msg
    /\ UNCHANGED <<piece, wire, overlap, sockets, encoding, capturing, system, counters>>

\* OH_NativeBuffer_Unmap, OH_AVScreenCapture_ReleaseVideoBuffer; for the codec
\* OH_VideoEncoder_FreeOutputBuffer.
Release(t) ==
    /\ Go(t, "release", "idle")
    /\ UNCHANGED <<sending, sockets, encoding, capturing, system, counters>>

\* on_sps_pps: the parameter sets are copied to a buffer of their own.  No
\* memory for it is no reason to try again.
PackParams(t) ==
    \/ /\ Go(t, "pack", "params")
       /\ msg' = [msg EXCEPT ![t] = Params(Pack(spsPps))]
       /\ UNCHANGED <<swSent, fails>>
    \/ /\ Go(t, "pack", IF t = "capture" THEN "encoded" ELSE "idle")
       /\ Fail
       /\ swSent' = (swSent \/ t = "capture")
       /\ UNCHANGED msg

SendParams(t) ==
    /\ PackParams(t)
    /\ UNCHANGED <<piece, wire, overlap, sockets, encoder, available, encRunning, spsPps,
                   au, capturing, system, pictures, changes>>

CaptureStep ==
    \/ BufferAvailable \/ Acquire \/ Deliver \/ Push \/ SwEncode \/ Forward
    \/ SendParams("capture") \/ SendPiece("capture") \/ SendFails("capture")
    \/ Release("capture")

-----------------------------------------------------------------------------
\* The thread of the codec.

\* on_stream_changed
StreamChanged ==
    /\ "codec" \in calls
    /\ changes < MaxChanges
    /\ changes' = changes + 1
    /\ Go("codec", "idle", "pack")
    /\ spsPps' \in CodecParams
    /\ live' = live \cup {"spsPps"}
    /\ UNCHANGED <<sending, sockets, encoder, available, encRunning, swSent, au, capturing,
                   calls, waits, stop, pictures, fails>>

\* on_need_output_data: codec data and buffers without an address are only freed.
Output ==
    /\ "codec" \in calls
    /\ lent > 0
    /\ lent' = lent - 1
    /\ \/ /\ "callbacks" \in live
          /\ Go("codec", "idle", "frame")
          /\ msg' = [msg EXCEPT !["codec"] = Frame(<<>>)]
       \/ Go("codec", "idle", "release") /\ UNCHANGED msg
    /\ UNCHANGED <<piece, wire, overlap, sockets, encoding, capRunning, clock, lastSentTs,
                   system, counters>>

CodecStep ==
    \/ StreamChanged \/ Output \/ SendParams("codec") \/ SendPiece("codec")
    \/ SendFails("codec") \/ Release("codec")

\* control_thread_func: what comes is handled, after tcp_server_stop too;
\* controlThreadRunning is looked at before the next recv.
BeginControl ==
    /\ link # "down"
    /\ Go("control", "receiving", "handling")
    /\ UNCHANGED <<sending, sockets, encoding, capturing, system, counters>>

EndControl ==
    /\ Go("control", "handling", IF "control" \in calls THEN "receiving" ELSE "ended")
    /\ UNCHANGED <<sending, sockets, encoding, capturing, system, counters>>

ControlStep == BeginControl \/ EndControl

Next ==
    \/ MainStep \/ CaptureStep \/ CodecStep \/ ControlStep
    \/ Signal \/ ClientStalls \/ ClientGone

Spec == Init /\ [][Next]_vars

\* Threads go on, but for one that sends to a client that does not read.
\* Neither the signal nor the end of the client must come, a client need not read
\* again, and the system need not call back.
Fairness ==
    /\ WF_vars(MainStep /\ ~Blocked("main"))
    /\ WF_vars(CaptureStep /\ at["capture"] # "idle" /\ ~Blocked("capture"))
    /\ WF_vars(CodecStep /\ at["codec"] # "idle" /\ ~Blocked("codec"))

FairSpec == Spec /\ Fairness

-----------------------------------------------------------------------------
MainLabels ==
    {"create", "startEncoder", "announce", "config", "startCapture", "setRunning", "loop",
     "stopCapture", "releaseCapture", "stopEncoder", "stopCodec", "closeSockets",
     "destroyCapture", "destroyEncoder", "destroyServer", "destroyInjector", "return",
     "exited"}
CaptureLabels ==
    {"idle", "acquire", "deliver", "push", "raw", "encode", "pack", "params", "encoded",
     "frame", "release"}
CodecLabels == {"idle", "pack", "params", "frame", "release"}
Resources ==
    {"capture", "capCallback", "openh264", "codec", "callbacks", "spsPps", "injector"}

Labels == MainLabels \cup CaptureLabels \cup CodecLabels \cup {"receiving", "handling", "ended"}

ParamSets == CodecParams \cup {NoParams} \cup {Extract(unit) : unit \in AccessUnits}
Outputs == AccessUnits \cup {<<>>}
Messages ==
    {Config, None} \cup {Params(Pack(params)) : params \in ParamSets}
        \cup {Frame(data) : data \in Outputs} \cup {Raw(ts) : ts \in 0..ClockMod - 1}
Parts == [msg : Messages, piece : 0..Pieces]

LabelsOf ==
    [main |-> MainLabels, capture |-> CaptureLabels, codec |-> CodecLabels,
     control |-> {"receiving", "handling", "ended"}]

ThreadsOK ==
    /\ at \in [Threads -> Labels]
    /\ \A t \in Threads : at[t] \in LabelsOf[t]

SendingOK ==
    /\ msg \in [Senders -> Messages]
    /\ piece \in [Senders -> 0..Pieces]
    /\ wire \in Seq(Parts)
    /\ overlap \subseteq Senders
    /\ fd \in {"open", "closed", "zero"}
    /\ link \in {"up", "stalled", "down"}

EncodingOK ==
    /\ encoder \in {"none", "openh264", "codec"}
    /\ available \in BOOLEAN
    /\ encRunning \in BOOLEAN
    /\ swSent \in BOOLEAN
    /\ spsPps \in ParamSets
    /\ au \in Outputs

CapturingOK ==
    /\ capRunning \in BOOLEAN
    /\ clock \in 0..ClockMod - 1
    /\ lastSentTs \in 0..ClockMod - 1
    /\ lent \in Nat

SystemOK ==
    /\ calls \subseteq Threads \ {"main"}
    /\ live \subseteq Resources
    /\ waits \in BOOLEAN
    /\ stop \in BOOLEAN
    /\ pictures \in 0..MaxPictures
    /\ changes \in 0..MaxChanges
    /\ fails \in 0..MaxFails

\* The type invariant.
TypeOK == ThreadsOK /\ SendingOK /\ EncodingOK /\ CapturingOK /\ SystemOK

\* The i-th piece continues the message of the one before, or begins one after
\* the last piece of another.
Follows(i) ==
    IF i = 1 THEN wire[i].piece = 0
    ELSE IF wire[i].piece = 0 THEN wire[i - 1].piece = Pieces
    ELSE wire[i - 1] = [wire[i] EXCEPT !.piece = @ - 1]

\* The video socket is written by three threads without a lock
\* (tcp_server_send_video_frame).  The capture never writes while another thread
\* does; only the configuration and parameter sets the codec names while it is
\* being sent can be torn, and no frame ever is.
WholeMessages ==
    /\ overlap \subseteq {"main", "codec"}
    /\ \A i \in 1..Len(wire) :
          Follows(i) \/ (overlap # {} /\ wire[i].msg.type \in {"config", "params"})

\* With OpenH264, as long as no allocation fails, the parameter sets the client
\* unpacks are those the standard finds in the first keyframe that has both, but
\* for zeros behind them, and they go out before it (sw_extract_and_send_sps_pps,
\* tcp_server_send_sps_pps, on_video_frame).
DecoderReady ==
    fails = 0 =>
        \A i \in 1..Len(wire) :
            wire[i].msg.type = "frame" /\ Complete(Reference(wire[i].msg.data)) =>
                \E j \in 1..i - 1 :
                    /\ wire[j].msg.type = "params" /\ wire[j].piece = Pieces
                    /\ \E k \in j + 1..i :
                          /\ wire[k].msg.type = "frame"
                          /\ SameParams(Unpack(wire[j].msg.buf), Reference(wire[k].msg.data))
                          /\ \A l \in 1..k - 1 :
                                wire[l].msg.type = "frame" /\ wire[l].msg # wire[k].msg =>
                                    ~Complete(Reference(wire[l].msg.data))

\* The raw pictures that were sent, as timestamps.
RawSent == {i \in 1..Len(wire) : wire[i].msg.type = "raw"}

\* Without an encoder the rate limit drops pictures, but what the client has is
\* never an interval older than the last picture captured, though the clock may
\* go back (on_screen_frame).
RawFresh ==
    /\ at["main"] = "loop" /\ ~available /\ at["capture"] = "idle"
    /\ clock # 0 /\ fails = 0 /\ link = "up"
    => \E i \in RawSent :
          /\ \A j \in RawSent : j <= i
          /\ (clock - wire[i].msg.ts + ClockMod) % ClockMod < Interval

\* What a thread is using.
Uses(t) ==
    CASE t = "capture" /\ at[t] \in {"acquire", "raw", "release"} -> {"capture"}
      [] t = "capture" /\ at[t] = "deliver" -> {"capture", "capCallback"}
      [] t = "capture" /\ at[t] = "push" -> {"capture", "codec"}
      [] t = "capture" /\ at[t] = "pack" -> {"capture", "openh264", "spsPps"}
      [] t = "capture" /\ at[t] \in {"encode", "params", "encoded", "frame"} ->
            {"capture", "openh264"}
      [] t = "codec" /\ at[t] = "pack" -> {"codec", "spsPps"}
      [] t = "codec" /\ at[t] \in {"params", "frame", "release"} -> {"codec"}
      [] OTHER -> {}

\* The cleanup of main relies on Stop waiting for callbacks.  If it does, its
\* order is right: nothing a thread of the capture or the codec uses is gone, and
\* no message is cut off.  (The control thread, which nobody waits for, can be
\* left with an injector that was destroyed.)
SafeShutdown ==
    waits /\ Alive =>
        /\ Uses("capture") \cup Uses("codec") \subseteq live
        /\ fd # "open" => \A t \in Senders : ~IsSending(t)

\* A server that is told to stop ends, unless a send to a client that does not
\* read holds it for ever: one of main itself, or one that Stop waits for
\* (screen_capture_stop, video_encoder_stop; send_all has no timeout).
ShutdownCompletes ==
    stop ~> \/ at["main"] = "exited"
            \/ [](\E t \in Senders : Blocked(t) /\ (waits \/ t = "main"))

-----------------------------------------------------------------------------
(***************************************************************************)
(* What the comments, the messages and the documents say, and the code     *)
(* does not do.                                                            *)
(***************************************************************************)
\* The diagram of the connection (docs): the configuration, then the parameter
\* sets, then frames.  main announces after it has started the encoder.
ConfigFirst ==
    \A i \in 1..Len(wire) :
        wire[i].msg.type \in {"params", "frame"} =>
            \E j \in 1..i - 1 : wire[j].msg.type = "config"

\* sw_extract_and_send_sps_pps returns 0 for success and -1 for a failure after
\* which the caller tries again: parameter sets that count as sent were sent to a
\* client that is there.
SentIsSent ==
    swSent /\ fd = "open" /\ link # "down" =>
        \E i \in 1..Len(wire) : wire[i].msg.type = "params" /\ wire[i].piece = Pieces

\* The message of main before its loop: a signal stops the server.
SignalStops == (stop /\ at["main"] = "loop") ~> at["main"] = "exited"
=============================================================================
