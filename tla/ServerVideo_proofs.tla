------------------------- MODULE ServerVideo_proofs -------------------------
(***************************************************************************)
(* Proofs about ServerVideo, for any number of pictures, parameter sets    *)
(* and pieces of a message, and whether the system's Stop functions wait   *)
(* or not.                                                                 *)
(***************************************************************************)
EXTENDS ServerVideo, AnnexB_proofs, TLAPS

-----------------------------------------------------------------------------
\* The inductive invariant.

Starting == {"create", "startEncoder"}
Before == Starting \cup {"announce", "config", "startCapture"}

\* Where the main thread can be while the capture calls, and while its callback
\* can still be running if Stop waits.
Calling == {"setRunning", "loop", "stopCapture"}
Capturing == Calling \cup {"releaseCapture"}

\* Where the capture's thread uses OpenH264.
SwEncoding == {"encode", "pack", "params", "encoded", "frame"}

CodecActive == "codec" \in calls \/ at["codec"] # "idle"

\* What is started when.
CaptureHolds ==
    /\ "capture" \in calls => at["main"] \in Calling
    /\ capRunning => at["main"] = "loop"
    /\ at["main"] = "loop" /\ "capture" \in calls => capRunning
    /\ at["capture"] # "idle" => at["main"] \notin Before \cup {"setRunning"}
    /\ at["main"] = "loop" /\ at["capture"] # "idle" => capRunning

CodecHolds ==
    /\ CodecActive =>
        /\ available
        /\ encoder # "openh264"
        /\ at["main"] \notin Starting
        /\ at["capture"] \notin SwEncoding \cup {"raw"}
    /\ "codec" \in calls => encRunning /\ encoder = "codec"
    /\ encRunning /\ encoder = "codec" => "codec" \in calls
    /\ available => at["main"] \notin Starting
    /\ at["main"] = "startEncoder" => encoder # "none"
    /\ encRunning =>
        /\ available
        /\ at["main"] \in {"announce", "config", "startCapture", "stopEncoder"} \cup Capturing
    /\ lent > 0 \/ at["codec"] = "frame" => at["main"] \notin Before

\* While a callback can be running, what it uses is there.
LiveHolds ==
    /\ encoder # "none" => {encoder, "callbacks"} \subseteq live
    /\ capRunning \/ at["main"] \in {"setRunning", "stopCapture", "releaseCapture"} =>
           {"capture", "capCallback"} \subseteq live
    /\ at["capture"] = "pack" \/ at["codec"] = "pack" =>
           "spsPps" \in live \/ encoder = "none"
    /\ at["capture"] = "push" => encoder \in {"codec", "none"}
    /\ at["capture"] \in SwEncoding => encoder \in {"openh264", "none"}
    /\ available /\ encoder = "none" =>
           at["main"] \in {"destroyServer", "destroyInjector", "return", "exited"}
    /\ at["capture"] \in SwEncoding \cup {"push"} => available
    /\ waits =>
        /\ at["capture"] # "idle" => at["main"] \in Capturing
        /\ at["codec"] # "idle" => "codec" \in calls \/ at["main"] = "stopCodec"
    /\ fd = "open" <=>
           at["main"] \notin {"destroyCapture", "destroyEncoder", "destroyServer",
                              "destroyInjector", "return", "exited"}

\* A message is sent from its own label, and only the capture's lasts.
SendersHold ==
    /\ \A t \in Senders :
        /\ piece[t] > 0 => IsSending(t)
        /\ IsSending(t) => msg[t].type = at[t]
    /\ overlap = {} => \A t, u \in Senders : piece[t] > 0 /\ piece[u] > 0 => t = u
    /\ overlap \subseteq {"main", "codec"}

\* As long as sending works, the last piece is that of the message that is being
\* sent, or the last one of its message.
LastHolds ==
    fd = "open" /\ link # "down" =>
        /\ (\A t \in Senders : piece[t] = 0) => wire = <<>> \/ wire[Len(wire)].piece = Pieces
        /\ \A t \in Senders :
            piece[t] > 0 /\ (overlap = {} \/ at[t] \in {"frame", "raw"}) =>
                wire # <<>> /\ wire[Len(wire)] = [msg |-> msg[t], piece |-> piece[t] - 1]

\* The last raw picture that was sent has this timestamp.
LastRaw(ts) ==
    \E i \in RawSent : wire[i].msg.ts = ts /\ \A j \in RawSent : j <= i

\* What the rate limit remembers is what was sent, and the last picture was sent
\* or came too soon after that.
RawHolds ==
    fd = "open" /\ link # "down" /\ ~available =>
        /\ at["capture"] = "raw" => msg["capture"] = Raw(lastSentTs) /\ clock = lastSentTs
        /\ at["capture"] # "raw" /\ lastSentTs # 0 => LastRaw(lastSentTs)
        /\ at["capture"] # "raw" /\ fails = 0 => clock = 0 \/ TooSoon(clock)

Inv == TypeOK /\ CaptureHolds /\ CodecHolds /\ LiveHolds
WireInv == SendersHold /\ LastHolds /\ WholeMessages

-----------------------------------------------------------------------------
\* The initial state.
LEMMA InitType == Init => TypeOK
  <1> SUFFICES ASSUME Init PROVE TypeOK
    OBVIOUS
  <1>1. 0 \in 0..MaxPictures /\ 0 \in 0..MaxChanges /\ 0 \in 0..MaxFails
          /\ 0 \in 0..ClockMod - 1 /\ 0 \in 0..Pieces
    BY ConstantsAssumption
  <1>2. ThreadsOK
    BY DEF Init, ThreadsOK, Threads, Labels, LabelsOf, MainLabels, CaptureLabels, CodecLabels
  <1>3. SendingOK
    <2>1. None \in Messages
      BY DEF Messages
    <2>2. <<>> \in Seq(Parts)
      OBVIOUS
    <2>3. QED
      BY <1>1, <2>1, <2>2 DEF Init, SendingOK
  <1>4. EncodingOK
    BY DEF Init, EncodingOK, ParamSets, Outputs
  <1>5. CapturingOK
    BY <1>1 DEF Init, CapturingOK
  <1>6. SystemOK
    BY <1>1 DEF Init, SystemOK, Threads, Resources
  <1>7. QED
    BY <1>2, <1>3, <1>4, <1>5, <1>6 DEF TypeOK

\* Every step of a thread leads to a label of that thread.
LEMMA GoStep ==
    ASSUME ThreadsOK, NEW t \in Threads, NEW from, NEW to, Go(t, from, to),
           to \in LabelsOf[t] \cap Labels
    PROVE  ThreadsOK'
  BY DEF ThreadsOK, Go

LEMMA DoneStep ==
    ASSUME ThreadsOK, NEW t \in Senders, IsSending(t), Done(t)
    PROVE  ThreadsOK'
  <1>1. After(t) \in LabelsOf[t] \cap Labels
    BY DEF After, IsSending, SendLabels, ThreadsOK, Threads, Senders, LabelsOf, Labels,
           MainLabels, CaptureLabels, CodecLabels
  <1>2. QED
    BY <1>1 DEF Done, ThreadsOK, Threads, Senders

\* A thread changes where it is, or nothing of that.
LEMMA ThreadsStep ==
    ASSUME ThreadsOK, [Next]_vars
    PROVE  ThreadsOK'
  <1> DEFINE Fits(t, to) == t \in Threads /\ to \in LabelsOf[t] \cap Labels
  <1>1. CASE UNCHANGED at
    BY <1>1 DEF ThreadsOK
  <1>2. \A t, from, to : Go(t, from, to) /\ Fits(t, to) => ThreadsOK'
    BY GoStep
  <1> HIDE DEF Fits
  <1>3. CASE \E t \in Senders : SendPiece(t) \/ SendFails(t)
    BY <1>1, <1>3, DoneStep DEF SendPiece, SendFails
  <1>4. /\ \A to \in MainLabels : Fits("main", to)
        /\ \A to \in CaptureLabels : Fits("capture", to)
        /\ \A to \in CodecLabels : Fits("codec", to)
        /\ \A to \in {"receiving", "handling", "ended"} : Fits("control", to)
    BY DEF Fits, Threads, LabelsOf, Labels, CaptureLabels, CodecLabels
  <1>5. CASE MainStep
    <2>1. CASE CreateEncoder \/ StartEncoder \/ Announce \/ StartCapture \/ SetRunning
      BY <1>2, <1>4, <2>1 DEF CreateEncoder, StartEncoder, Announce, StartCapture, SetRunning,
            MainLabels
    <2>2. CASE EndLoop \/ StopCapture \/ ReleaseCapture \/ StopEncoder \/ CodecStopped
      BY <1>2, <1>4, <2>2 DEF EndLoop, StopCapture, ReleaseCapture, StopEncoder, CodecStopped,
            MainLabels
    <2>3. CASE CloseSockets \/ DestroyCapture \/ DestroyEncoder \/ DestroyServer
                \/ DestroyInjector \/ Return
      BY <1>2, <1>4, <2>3 DEF CloseSockets, DestroyCapture, DestroyEncoder, DestroyServer,
            DestroyInjector, Return, MainLabels
    <2>4. QED
      BY <1>3, <1>5, <2>1, <2>2, <2>3 DEF MainStep, Senders
  <1>6. CASE CaptureStep
    <2>1. CASE BufferAvailable \/ Acquire \/ Push \/ Forward
      BY <1>2, <1>4, <2>1 DEF BufferAvailable, Acquire, Push, Forward, CaptureLabels
    <2>2. CASE Deliver
      BY <1>2, <1>4, <2>2 DEF Deliver, DeliverRaw, DeliverToEncoder, CaptureLabels
    <2>3. CASE SwEncode
      BY <1>2, <1>4, <2>3 DEF SwEncode, Encode, CaptureLabels
    <2>4. CASE SendParams("capture") \/ Release("capture")
      BY <1>2, <1>4, <2>4 DEF SendParams, PackParams, Release, CaptureLabels
    <2>5. QED
      BY <1>3, <1>6, <2>1, <2>2, <2>3, <2>4 DEF CaptureStep, Senders
  <1>7. CASE CodecStep
    <2>1. CASE StreamChanged \/ Output \/ SendParams("codec") \/ Release("codec")
      BY <1>2, <1>4, <2>1 DEF StreamChanged, Output, SendParams, PackParams, Release, CodecLabels
    <2>2. QED
      BY <1>3, <1>7, <2>1 DEF CodecStep, Senders
  <1>8. CASE ControlStep
    BY <1>2, <1>4, <1>8 DEF ControlStep, BeginControl, EndControl
  <1>9. CASE Signal \/ ClientStalls \/ ClientGone \/ UNCHANGED vars
    BY <1>1, <1>9 DEF Signal, ClientStalls, ClientGone, vars
  <1>10. QED
    BY <1>5, <1>6, <1>7, <1>8, <1>9 DEF Next

-----------------------------------------------------------------------------
\* Which actions change what.

PacksParams == SendParams("capture") \/ SendParams("codec")
Sends == \E t \in Senders : SendPiece(t) \/ SendFails(t)
LiveChanges ==
    \/ CreateEncoder \/ StartCapture \/ ReleaseCapture \/ DestroyCapture \/ DestroyEncoder
    \/ DestroyInjector \/ SwEncode \/ StreamChanged

LEMMA WhoChanges ==
    ASSUME [Next]_vars
    PROVE  /\ UNCHANGED msg \/ Announce \/ Deliver \/ Forward \/ Output \/ PacksParams
           /\ UNCHANGED <<piece, wire, overlap>> \/ Sends
           /\ UNCHANGED fd \/ CloseSockets \/ DestroyServer
           /\ UNCHANGED link \/ ClientStalls \/ ClientGone
           /\ UNCHANGED encoder \/ CreateEncoder \/ DestroyEncoder
           /\ UNCHANGED available \/ StartEncoder
           /\ UNCHANGED encRunning \/ StartEncoder \/ StopEncoder \/ DestroyEncoder
           /\ UNCHANGED swSent \/ Sends \/ PacksParams \/ DestroyEncoder
           /\ UNCHANGED spsPps \/ SwEncode \/ StreamChanged
           /\ UNCHANGED au \/ SwEncode
           /\ UNCHANGED capRunning \/ SetRunning \/ EndLoop
           /\ UNCHANGED <<clock, lastSentTs>> \/ Deliver
           /\ UNCHANGED lent \/ Push \/ Output
           /\ \/ UNCHANGED calls
              \/ StartEncoder \/ StartCapture \/ StopCapture \/ StopEncoder \/ CloseSockets
           /\ UNCHANGED live \/ LiveChanges
           /\ UNCHANGED waits
           /\ UNCHANGED stop \/ Signal
           /\ UNCHANGED pictures \/ BufferAvailable
           /\ UNCHANGED changes \/ StreamChanged
           /\ UNCHANGED fails \/ Acquire \/ Deliver \/ SwEncode \/ PacksParams
  <1> USE DEF sending, sockets, encoding, capturing, system, counters
  <1>1. CASE \E t \in Senders : SendPiece(t)
    BY <1>1 DEF SendPiece, Done, Sends
  <1>2. CASE \E t \in Senders : SendFails(t)
    BY <1>2 DEF SendFails, Done, Sends
  <1>3. CASE MainStep
    <2>1. CASE CreateEncoder \/ StartEncoder \/ Announce \/ StartCapture \/ SetRunning
      BY <2>1 DEF CreateEncoder, StartEncoder, Announce, StartCapture, SetRunning, LiveChanges
    <2>2. CASE EndLoop \/ StopCapture \/ ReleaseCapture \/ StopEncoder \/ CodecStopped
      BY <2>2 DEF EndLoop, StopCapture, ReleaseCapture, StopEncoder, CodecStopped, LiveChanges
    <2>3. CASE CloseSockets \/ DestroyCapture \/ DestroyEncoder \/ DestroyServer
                \/ DestroyInjector \/ Return
      BY <2>3 DEF CloseSockets, DestroyCapture, DestroyEncoder, DestroyServer, DestroyInjector,
            Return, LiveChanges
    <2>4. QED
      BY <1>1, <1>2, <1>3, <2>1, <2>2, <2>3 DEF MainStep, Senders
  <1>4. CASE CaptureStep
    <2>1. CASE BufferAvailable \/ Acquire \/ Push \/ Forward \/ Release("capture")
      BY <2>1 DEF BufferAvailable, Acquire, Push, Forward, Release
    <2>2. CASE Deliver
      BY <2>2 DEF Deliver
    <2>3. CASE SwEncode
      BY <2>3 DEF SwEncode, LiveChanges
    <2>4. CASE SendParams("capture")
      BY <2>4 DEF SendParams, PacksParams
    <2>5. QED
      BY <1>1, <1>2, <1>4, <2>1, <2>2, <2>3, <2>4 DEF CaptureStep, Senders
  <1>5. CASE CodecStep
    <2>1. CASE StreamChanged \/ Output \/ Release("codec")
      BY <2>1 DEF StreamChanged, Output, Release, LiveChanges
    <2>2. CASE SendParams("codec")
      BY <2>2 DEF SendParams, PacksParams
    <2>3. QED
      BY <1>1, <1>2, <1>5, <2>1, <2>2 DEF CodecStep, Senders
  <1>6. CASE ControlStep \/ Signal \/ ClientStalls \/ ClientGone \/ UNCHANGED vars
    BY <1>6 DEF ControlStep, BeginControl, EndControl, Signal, ClientStalls, ClientGone, vars
  <1>7. QED
    BY <1>3, <1>4, <1>5, <1>6 DEF Next

-----------------------------------------------------------------------------
LEMMA AppendPart ==
    ASSUME NEW S, NEW s \in Seq(S), NEW e \in S
    PROVE  /\ Append(s, e) \in Seq(S)
           /\ Len(s) \in Nat
           /\ Len(Append(s, e)) = Len(s) + 1
           /\ \A i \in 1..Len(s) : Append(s, e)[i] = s[i]
           /\ Append(s, e)[Len(s) + 1] = e
  OBVIOUS

LEMMA MessageTypes ==
    /\ Config \in Messages /\ None \in Messages
    /\ \A params \in ParamSets : Params(Pack(params)) \in Messages
    /\ \A data \in Outputs : Frame(data) \in Messages
    /\ \A ts \in 0..ClockMod - 1 : Raw(ts) \in Messages
  BY DEF Messages

LEMMA ClockStep ==
    ASSUME CapturingOK, Deliver
    PROVE  clock' \in 0..ClockMod - 1
  <1>1. CASE \E gap \in Gaps : clock' = (clock + gap) % ClockMod
    <2>1. PICK gap \in Gaps : clock' = (clock + gap) % ClockMod
      BY <1>1
    <2>2. clock + gap \in Nat
      BY ConstantsAssumption DEF CapturingOK
    <2>3. QED
      BY <2>1, <2>2, ConstantsAssumption
  <1>2. CASE clock' = clock
    BY <1>2 DEF CapturingOK
  <1>3. QED
    BY <1>1, <1>2 DEF Deliver, DeliverRaw, DeliverToEncoder

LEMMA CapturingStep ==
    ASSUME CapturingOK, [Next]_vars
    PROVE  CapturingOK'
  <1>1. capRunning' \in BOOLEAN
    BY WhoChanges DEF CapturingOK, SetRunning, EndLoop
  <1>2. clock' \in 0..ClockMod - 1
    BY WhoChanges, ClockStep DEF CapturingOK
  <1>3. lastSentTs' \in 0..ClockMod - 1
    BY WhoChanges, <1>2 DEF CapturingOK, Deliver, DeliverRaw, DeliverToEncoder
  <1>4. lent' \in Nat
    BY WhoChanges DEF CapturingOK, Push, Output
  <1>5. QED
    BY <1>1, <1>2, <1>3, <1>4 DEF CapturingOK

LEMMA EncodingStep ==
    ASSUME EncodingOK, [Next]_vars
    PROVE  EncodingOK'
  <1>1. encoder' \in {"none", "openh264", "codec"}
    BY WhoChanges DEF EncodingOK, CreateEncoder, DestroyEncoder
  <1>2. available' \in BOOLEAN
    BY WhoChanges DEF EncodingOK, StartEncoder
  <1>3. encRunning' \in BOOLEAN
    BY WhoChanges, <1>2 DEF EncodingOK, StartEncoder, StopEncoder, DestroyEncoder
  <1>4. swSent' \in BOOLEAN
    BY WhoChanges DEF EncodingOK, Sends, SendPiece, SendFails, Done, PacksParams, SendParams,
       PackParams, DestroyEncoder
  <1>5. au' \in Outputs
    BY WhoChanges DEF EncodingOK, SwEncode, Encode, Outputs
  <1>6. spsPps' \in ParamSets
    BY WhoChanges, <1>5 DEF EncodingOK, SwEncode, Encode, StreamChanged, ParamSets, Outputs
  <1>7. QED
    BY <1>1, <1>2, <1>3, <1>4, <1>5, <1>6 DEF EncodingOK

LEMMA SystemStep ==
    ASSUME SystemOK, EncodingOK', [Next]_vars
    PROVE  SystemOK'
  <1>1. calls' \subseteq Threads \ {"main"}
    BY WhoChanges DEF SystemOK, StartEncoder, StartCapture, StopCapture, StopEncoder,
       CloseSockets, Threads
  <1>2. live' \subseteq Resources
    <2>1. CASE CreateEncoder
      BY <2>1 DEF SystemOK, CreateEncoder, Resources
    <2>2. CASE SwEncode
      BY <2>2 DEF SystemOK, SwEncode, Encode, Resources
    <2>3. QED
      BY WhoChanges, <2>1, <2>2 DEF LiveChanges, SystemOK, StartCapture, ReleaseCapture,
         DestroyCapture, DestroyEncoder, DestroyInjector, StreamChanged, Resources
  <1>3. waits' \in BOOLEAN /\ stop' \in BOOLEAN
    BY WhoChanges DEF SystemOK, Signal
  <1>4. pictures' \in 0..MaxPictures /\ changes' \in 0..MaxChanges
    BY WhoChanges, ConstantsAssumption DEF SystemOK, BufferAvailable, StreamChanged
  <1>5. UNCHANGED fails \/ Fail
    <2>1. Acquire => UNCHANGED fails \/ Fail
      BY DEF Acquire
    <2>2. Deliver => UNCHANGED fails \/ Fail
      BY DEF Deliver, DeliverRaw, DeliverToEncoder
    <2>3. SwEncode => UNCHANGED fails \/ Fail
      BY DEF SwEncode, Encode
    <2>4. PacksParams => UNCHANGED fails \/ Fail
      BY DEF PacksParams, SendParams, PackParams
    <2>5. QED
      BY WhoChanges, <2>1, <2>2, <2>3, <2>4
  <1>6. fails' \in 0..MaxFails
    BY <1>5, ConstantsAssumption DEF SystemOK, Fail
  <1>7. QED
    BY <1>1, <1>2, <1>3, <1>4, <1>6 DEF SystemOK

LEMMA SendingStep ==
    ASSUME SendingOK, EncodingOK, EncodingOK', CapturingOK', [Next]_vars
    PROVE  SendingOK'
  <1>1. msg' \in [Senders -> Messages]
    <2>1. CASE Announce
      BY <2>1, MessageTypes DEF Announce, SendingOK, Senders
    <2>2. CASE Deliver
      BY <2>2, MessageTypes DEF Deliver, DeliverRaw, DeliverToEncoder, SendingOK, CapturingOK,
         Senders
    <2>3. CASE Forward \/ Output
      <3>1. <<>> \in Outputs /\ au \in Outputs
        BY DEF EncodingOK, Outputs
      <3>2. QED
        BY <2>3, <3>1, MessageTypes DEF Forward, Output, SendingOK, Senders
    <2>4. CASE PacksParams
      BY <2>4, MessageTypes DEF PacksParams, SendParams, PackParams, SendingOK, EncodingOK, Senders
    <2>5. QED
      BY <2>1, <2>2, <2>3, <2>4, WhoChanges DEF SendingOK
  <1>2. piece' \in [Senders -> 0..Pieces]
    <2>1. ASSUME NEW t \in Senders, SendPiece(t)
          PROVE  \/ piece' = [piece EXCEPT ![t] = 0]
                 \/ /\ piece[t] # Pieces
                    /\ piece' = [piece EXCEPT ![t] = @ + 1]
      BY <2>1 DEF SendPiece, Done
    <2>2. ASSUME NEW t \in Senders, SendFails(t)
          PROVE  piece' = [piece EXCEPT ![t] = 0]
      BY <2>2 DEF SendFails, Done
    <2>3. ASSUME NEW t \in Senders, piece[t] # Pieces
          PROVE  piece[t] + 1 \in 0..Pieces
      BY <2>3, ConstantsAssumption DEF SendingOK
    <2>4. 0 \in 0..Pieces
      BY ConstantsAssumption
    <2>5. QED
      BY WhoChanges, <2>1, <2>2, <2>3, <2>4 DEF Sends, SendingOK
  <1>3. wire' \in Seq(Parts)
    <2>1. ASSUME NEW t \in Senders, SendPiece(t)
          PROVE  wire' \in Seq(Parts)
      <3>1. [msg |-> msg[t], piece |-> piece[t]] \in Parts
        BY DEF SendingOK, Parts
      <3>2. QED
        BY <2>1, <3>1, AppendPart DEF SendPiece, SendingOK
    <2>2. QED
      BY WhoChanges, <2>1 DEF Sends, SendFails, SendingOK
  <1>4. overlap' \subseteq Senders
    BY WhoChanges DEF Sends, SendPiece, SendFails, SendingOK
  <1>5. fd' \in {"open", "closed", "zero"} /\ link' \in {"up", "stalled", "down"}
    BY WhoChanges DEF SendingOK, CloseSockets, DestroyServer, ClientStalls, ClientGone
  <1>6. QED
    BY <1>1, <1>2, <1>3, <1>4, <1>5 DEF SendingOK

LEMMA TypeStep == TypeOK /\ [Next]_vars => TypeOK'
  BY ThreadsStep, SendingStep, EncodingStep, CapturingStep, SystemStep DEF TypeOK

\* The types of ServerVideo hold in every reachable state, for all bounds, and for
\* all keyframes and parameter sets the encoders make (TypeOK).
THEOREM TypeCorrect == Spec => []TypeOK
  BY InitType, TypeStep, PTL DEF Spec

-----------------------------------------------------------------------------
\* The capture runs only between its start and its stop.
LEMMA CaptureKept ==
    ASSUME TypeOK, CaptureHolds, [Next]_vars
    PROVE  CaptureHolds'
  <1> USE DEF CaptureHolds, TypeOK, ThreadsOK, Threads, Go, sending, sockets, encoding,
            capturing, system, Calling, Capturing, Before, Starting
  <1>1. CASE \E t \in Senders : SendPiece(t) \/ SendFails(t)
    BY <1>1 DEF SendPiece, SendFails, Done, After, IsSending, SendLabels
  <1>2. CASE MainStep
    <2>1. CASE CreateEncoder
      BY <2>1 DEF CreateEncoder
    <2>2. CASE StartEncoder
      BY <2>2 DEF StartEncoder
    <2>3. CASE Announce
      BY <2>3 DEF Announce
    <2>4. CASE StartCapture
      BY <2>4 DEF StartCapture
    <2>5. CASE SetRunning
      BY <2>5 DEF SetRunning
    <2>6. CASE EndLoop
      BY <2>6 DEF EndLoop
    <2>7. CASE StopCapture
      BY <2>7 DEF StopCapture
    <2>8. CASE ReleaseCapture
      BY <2>8 DEF ReleaseCapture
    <2>9. CASE StopEncoder
      BY <2>9 DEF StopEncoder
    <2>10. CASE CodecStopped
      BY <2>10 DEF CodecStopped
    <2>11. CASE CloseSockets
      BY <2>11 DEF CloseSockets
    <2>12. CASE DestroyCapture
      BY <2>12 DEF DestroyCapture
    <2>13. CASE DestroyEncoder
      BY <2>13 DEF DestroyEncoder
    <2>14. CASE DestroyServer
      BY <2>14 DEF DestroyServer
    <2>15. CASE DestroyInjector
      BY <2>15 DEF DestroyInjector
    <2>16. CASE Return
      BY <2>16 DEF Return
    <2>17. QED
      BY <1>1, <1>2, <2>1, <2>2, <2>3, <2>4, <2>5, <2>6, <2>7, <2>8, <2>9, <2>10, <2>11,
         <2>12, <2>13, <2>14, <2>15, <2>16 DEF MainStep, Senders
  <1>3. CASE CaptureStep
    <2>1. CASE BufferAvailable
      BY <2>1 DEF BufferAvailable
    <2>2. CASE Acquire
      BY <2>2 DEF Acquire
    <2>3. CASE Deliver
      BY <2>3 DEF Deliver, DeliverRaw, DeliverToEncoder, RawMode
    <2>4. CASE Push
      BY <2>4 DEF Push
    <2>5. CASE SwEncode
      BY <2>5 DEF SwEncode, Encode
    <2>6. CASE Forward
      BY <2>6 DEF Forward
    <2>7. CASE SendParams("capture")
      BY <2>7 DEF SendParams, PackParams
    <2>8. CASE Release("capture")
      BY <2>8 DEF Release
    <2>9. QED
      BY <1>1, <1>3, <2>1, <2>2, <2>3, <2>4, <2>5, <2>6, <2>7, <2>8 DEF CaptureStep, Senders
  <1>4. CASE CodecStep
    <2>1. CASE StreamChanged
      BY <2>1 DEF StreamChanged
    <2>2. CASE Output
      BY <2>2 DEF Output
    <2>3. CASE SendParams("codec")
      BY <2>3 DEF SendParams, PackParams
    <2>4. CASE Release("codec")
      BY <2>4 DEF Release
    <2>5. QED
      BY <1>1, <1>4, <2>1, <2>2, <2>3, <2>4 DEF CodecStep, Senders
  <1>5. CASE ControlStep \/ Signal \/ ClientStalls \/ ClientGone \/ UNCHANGED vars
    BY <1>5 DEF ControlStep, BeginControl, EndControl, Signal, ClientStalls, ClientGone, vars
  <1>6. QED
    BY <1>2, <1>3, <1>4, <1>5 DEF Next

\* The codec and OpenH264 exclude each other, and raw pictures both.
LEMMA CodecKept ==
    ASSUME TypeOK, CodecHolds, CaptureHolds, [Next]_vars
    PROVE  CodecHolds'
  <1> USE DEF CodecHolds, TypeOK, ThreadsOK, Threads, Go, sending, sockets, encoding,
            capturing, system, CaptureHolds, CodecActive, SwEncoding, Calling, Capturing,
            Before, Starting
  <1>1. CASE \E t \in Senders : SendPiece(t) \/ SendFails(t)
    BY <1>1 DEF SendPiece, SendFails, Done, After, IsSending, SendLabels
  <1>2. CASE MainStep
    <2>1. CASE CreateEncoder
      BY <2>1 DEF CreateEncoder
    <2>2. CASE StartEncoder
      BY <2>2 DEF StartEncoder
    <2>3. CASE Announce
      BY <2>3 DEF Announce
    <2>4. CASE StartCapture
      BY <2>4 DEF StartCapture
    <2>5. CASE SetRunning
      BY <2>5 DEF SetRunning
    <2>6. CASE EndLoop
      BY <2>6 DEF EndLoop
    <2>7. CASE StopCapture
      BY <2>7 DEF StopCapture
    <2>8. CASE ReleaseCapture
      BY <2>8 DEF ReleaseCapture
    <2>9. CASE StopEncoder
      BY <2>9 DEF StopEncoder
    <2>10. CASE CodecStopped
      BY <2>10 DEF CodecStopped
    <2>11. CASE CloseSockets
      BY <2>11 DEF CloseSockets
    <2>12. CASE DestroyCapture
      BY <2>12 DEF DestroyCapture
    <2>13. CASE DestroyEncoder
      BY <2>13 DEF DestroyEncoder
    <2>14. CASE DestroyServer
      BY <2>14 DEF DestroyServer
    <2>15. CASE DestroyInjector
      BY <2>15 DEF DestroyInjector
    <2>16. CASE Return
      BY <2>16 DEF Return
    <2>17. QED
      BY <1>1, <1>2, <2>1, <2>2, <2>3, <2>4, <2>5, <2>6, <2>7, <2>8, <2>9, <2>10, <2>11,
         <2>12, <2>13, <2>14, <2>15, <2>16 DEF MainStep, Senders
  <1>3. CASE CaptureStep
    <2>1. CASE BufferAvailable
      BY <2>1 DEF BufferAvailable
    <2>2. CASE Acquire
      BY <2>2 DEF Acquire
    <2>3. CASE Deliver
      BY <2>3 DEF Deliver, DeliverRaw, DeliverToEncoder, RawMode
    <2>4. CASE Push
      BY <2>4 DEF Push
    <2>5. CASE SwEncode
      BY <2>5 DEF SwEncode, Encode
    <2>6. CASE Forward
      BY <2>6 DEF Forward
    <2>7. CASE SendParams("capture")
      BY <2>7 DEF SendParams, PackParams
    <2>8. CASE Release("capture")
      BY <2>8 DEF Release
    <2>9. QED
      BY <1>1, <1>3, <2>1, <2>2, <2>3, <2>4, <2>5, <2>6, <2>7, <2>8 DEF CaptureStep, Senders
  <1>4. CASE CodecStep
    <2>1. CASE StreamChanged
      BY <2>1 DEF StreamChanged
    <2>2. CASE Output
      BY <2>2 DEF Output
    <2>3. CASE SendParams("codec")
      BY <2>3 DEF SendParams, PackParams
    <2>4. CASE Release("codec")
      BY <2>4 DEF Release
    <2>5. QED
      BY <1>1, <1>4, <2>1, <2>2, <2>3, <2>4 DEF CodecStep, Senders
  <1>5. CASE ControlStep \/ Signal \/ ClientStalls \/ ClientGone \/ UNCHANGED vars
    BY <1>5 DEF ControlStep, BeginControl, EndControl, Signal, ClientStalls, ClientGone, vars
  <1>6. QED
    BY <1>2, <1>3, <1>4, <1>5 DEF Next

\* Everything is made before it is used and destroyed after it.
LEMMA LiveKept ==
    ASSUME TypeOK, CaptureHolds, CodecHolds, LiveHolds, [Next]_vars
    PROVE  LiveHolds'
  <1> USE DEF LiveHolds, TypeOK, ThreadsOK, Threads, Go, sending, sockets, encoding,
            capturing, system, SystemOK, EncodingOK, CaptureHolds, CodecHolds, CodecActive,
            SwEncoding, Calling, Capturing, Before, Starting, Returns
  <1>1. CASE \E t \in Senders : SendPiece(t) \/ SendFails(t)
    BY <1>1 DEF SendPiece, SendFails, Done, After, IsSending, SendLabels
  <1>2. CASE MainStep
    <2>1. CASE CreateEncoder
      BY <2>1 DEF CreateEncoder
    <2>2. CASE StartEncoder
      BY <2>2 DEF StartEncoder
    <2>3. CASE Announce
      BY <2>3 DEF Announce
    <2>4. CASE StartCapture
      BY <2>4 DEF StartCapture
    <2>5. CASE SetRunning
      BY <2>5 DEF SetRunning
    <2>6. CASE EndLoop
      BY <2>6 DEF EndLoop
    <2>7. CASE StopCapture
      BY <2>7 DEF StopCapture
    <2>8. CASE ReleaseCapture
      BY <2>8 DEF ReleaseCapture
    <2>9. CASE StopEncoder
      BY <2>9 DEF StopEncoder
    <2>10. CASE CodecStopped
      BY <2>10 DEF CodecStopped
    <2>11. CASE CloseSockets
      BY <2>11 DEF CloseSockets
    <2>12. CASE DestroyCapture
      BY <2>12 DEF DestroyCapture
    <2>13. CASE DestroyEncoder
      BY <2>13 DEF DestroyEncoder
    <2>14. CASE DestroyServer
      BY <2>14 DEF DestroyServer
    <2>15. CASE DestroyInjector
      BY <2>15 DEF DestroyInjector
    <2>16. CASE Return
      BY <2>16 DEF Return
    <2>17. QED
      BY <1>1, <1>2, <2>1, <2>2, <2>3, <2>4, <2>5, <2>6, <2>7, <2>8, <2>9, <2>10, <2>11,
         <2>12, <2>13, <2>14, <2>15, <2>16 DEF MainStep, Senders
  <1>3. CASE CaptureStep
    <2>1. CASE BufferAvailable
      BY <2>1 DEF BufferAvailable
    <2>2. CASE Acquire
      BY <2>2 DEF Acquire
    <2>3. CASE Deliver
      BY <2>3 DEF Deliver, DeliverRaw, DeliverToEncoder, RawMode
    <2>4. CASE Push
      BY <2>4 DEF Push
    <2>5. CASE SwEncode
      BY <2>5 DEF SwEncode, Encode
    <2>6. CASE Forward
      BY <2>6 DEF Forward
    <2>7. CASE SendParams("capture")
      BY <2>7 DEF SendParams, PackParams
    <2>8. CASE Release("capture")
      BY <2>8 DEF Release
    <2>9. QED
      BY <1>1, <1>3, <2>1, <2>2, <2>3, <2>4, <2>5, <2>6, <2>7, <2>8 DEF CaptureStep, Senders
  <1>4. CASE CodecStep
    <2>1. CASE StreamChanged
      BY <2>1 DEF StreamChanged
    <2>2. CASE Output
      BY <2>2 DEF Output
    <2>3. CASE SendParams("codec")
      BY <2>3 DEF SendParams, PackParams
    <2>4. CASE Release("codec")
      BY <2>4 DEF Release
    <2>5. QED
      BY <1>1, <1>4, <2>1, <2>2, <2>3, <2>4 DEF CodecStep, Senders
  <1>5. CASE ControlStep \/ Signal \/ ClientStalls \/ ClientGone \/ UNCHANGED vars
    BY <1>5 DEF ControlStep, BeginControl, EndControl, Signal, ClientStalls, ClientGone, vars
  <1>6. QED
    BY <1>2, <1>3, <1>4, <1>5 DEF Next

LEMMA InitInv == Init => Inv
  <1> SUFFICES ASSUME Init PROVE Inv
    OBVIOUS
  <1>1. TypeOK
    BY InitType
  <1>2. /\ at["main"] = "create"
        /\ at["capture"] = "idle" /\ at["codec"] = "idle"
        /\ encoder = "none" /\ fd = "open" /\ lent = 0
        /\ available = FALSE /\ encRunning = FALSE /\ capRunning = FALSE
        /\ calls = {"control"} /\ live = {"injector"}
    BY DEF Init, Threads
  <1>3. CaptureHolds
    BY <1>2 DEF CaptureHolds, Calling
  <1>4. CodecHolds
    BY <1>2 DEF CodecHolds, CodecActive
  <1>5. LiveHolds
    BY <1>2 DEF LiveHolds, SwEncoding
  <1>6. QED
    BY <1>1, <1>3, <1>4, <1>5 DEF Inv

LEMMA StepInv == Inv /\ [Next]_vars => Inv'
  BY TypeStep, CaptureKept, CodecKept, LiveKept DEF Inv

LEMMA CleanupSafe == Inv => SafeShutdown
  <1> SUFFICES ASSUME Inv, waits, Alive
               PROVE  /\ Uses("capture") \cup Uses("codec") \subseteq live
                      /\ fd # "open" => \A t \in Senders : ~IsSending(t)
    BY DEF SafeShutdown
  <1> USE DEF Inv, LiveHolds, CaptureHolds, CodecHolds, CodecActive, Capturing, Calling,
              SwEncoding, Before, Starting, Alive
  <1>1. Uses("capture") \subseteq live
    <2>1. CASE at["capture"] = "idle"
      BY <2>1 DEF Uses
    <2>2. CASE at["capture"] # "idle"
      <3>1. {"capture", "capCallback"} \subseteq live
        BY <2>2
      <3>2. at["capture"] = "push" => "codec" \in live
        BY <2>2
      <3>3. at["capture"] \in SwEncoding => "openh264" \in live
        BY <2>2
      <3>4. at["capture"] = "pack" => "spsPps" \in live
        BY <2>2
      <3>5. QED
        BY <3>1, <3>2, <3>3, <3>4 DEF Uses
    <2>3. QED
      BY <2>1, <2>2
  <1>2. Uses("codec") \subseteq live
    <2>1. CASE at["codec"] = "idle"
      BY <2>1 DEF Uses
    <2>2. CASE at["codec"] # "idle"
      <3>1. encoder = "codec"
        BY <2>2 DEF TypeOK, EncodingOK
      <3>2. "codec" \in live /\ (at["codec"] = "pack" => "spsPps" \in live)
        BY <3>1
      <3>3. QED
        BY <3>2 DEF Uses
    <2>3. QED
      BY <2>1, <2>2
  <1>3. ASSUME fd # "open", NEW t \in Senders
        PROVE  ~IsSending(t)
    BY <1>3 DEF IsSending, SendLabels, Senders
  <1>4. QED
    BY <1>1, <1>2, <1>3

\* The order of the cleanup is right if Stop waits for callbacks: whatever the
\* threads of the capture and the codec are doing, what they use is there, and no
\* message is cut off (SafeShutdown).
THEOREM CleanupInOrder == Spec => []SafeShutdown
  BY InitInv, StepInv, CleanupSafe, PTL DEF Spec

-----------------------------------------------------------------------------
\* The messages on the wire.

\* The capture sends alone, and frames of the codec are sent alone.
LEMMA Alone ==
    ASSUME Inv
    PROVE  /\ IsSending("capture") => ~IsSending("main") /\ ~IsSending("codec")
           /\ IsSending("main") => at["main"] = "config" /\ at["codec"] # "frame"
           /\ IsSending("codec") => at["codec"] \in {"params", "frame"}
           /\ IsSending("capture") => at["capture"] \in {"raw", "params", "frame"}
  BY DEF Inv, TypeOK, ThreadsOK, Threads, LabelsOf, MainLabels, CaptureLabels, CodecLabels,
         IsSending, SendLabels, CaptureHolds, CodecHolds, CodecActive, SwEncoding, Before,
         Starting

\* A thread that is sending goes on with the same message; one that begins has a
\* message of its label.
LEMMA NewMessage ==
    ASSUME Inv, [Next]_vars, ~Sends, NEW u \in Senders
    PROVE  \/ /\ at'[u] = at[u]
              /\ msg'[u] = msg[u]
           \/ /\ ~IsSending(u)
              /\ IsSending(u)' => msg'[u].type = at'[u]
  <1> USE DEF Inv, TypeOK, ThreadsOK, SendingOK, Threads, Senders, Go, IsSending, SendLabels,
              sending, sockets, encoding, capturing, system
  <1>1. CASE MainStep
    <2>1. CASE CreateEncoder
      BY <2>1 DEF CreateEncoder
    <2>2. CASE StartEncoder
      BY <2>2 DEF StartEncoder
    <2>3. CASE Announce
      BY <2>3 DEF Announce, Config
    <2>4. CASE StartCapture
      BY <2>4 DEF StartCapture
    <2>5. CASE SetRunning
      BY <2>5 DEF SetRunning
    <2>6. CASE EndLoop
      BY <2>6 DEF EndLoop
    <2>7. CASE StopCapture
      BY <2>7 DEF StopCapture
    <2>8. CASE ReleaseCapture
      BY <2>8 DEF ReleaseCapture
    <2>9. CASE StopEncoder
      BY <2>9 DEF StopEncoder
    <2>10. CASE CodecStopped
      BY <2>10 DEF CodecStopped
    <2>11. CASE CloseSockets
      BY <2>11 DEF CloseSockets
    <2>12. CASE DestroyCapture
      BY <2>12 DEF DestroyCapture
    <2>13. CASE DestroyEncoder
      BY <2>13 DEF DestroyEncoder
    <2>14. CASE DestroyServer
      BY <2>14 DEF DestroyServer
    <2>15. CASE DestroyInjector
      BY <2>15 DEF DestroyInjector
    <2>16. CASE Return
      BY <2>16 DEF Return
    <2>17. QED
      BY <1>1, <2>1, <2>2, <2>3, <2>4, <2>5, <2>6, <2>7, <2>8, <2>9, <2>10, <2>11, <2>12,
         <2>13, <2>14, <2>15, <2>16 DEF MainStep, Sends
  <1>2. CASE CaptureStep
    <2>1. CASE BufferAvailable
      BY <2>1 DEF BufferAvailable
    <2>2. CASE Acquire
      BY <2>2 DEF Acquire
    <2>3. CASE Deliver
      BY <2>3 DEF Deliver, DeliverRaw, DeliverToEncoder, RawMode, Raw
    <2>4. CASE Push
      BY <2>4 DEF Push
    <2>5. CASE SwEncode
      BY <2>5 DEF SwEncode, Encode
    <2>6. CASE Forward
      BY <2>6 DEF Forward, Frame
    <2>7. CASE SendParams("capture")
      BY <2>7 DEF SendParams, PackParams, Params
    <2>8. CASE Release("capture")
      BY <2>8 DEF Release
    <2>9. QED
      BY <1>2, <2>1, <2>2, <2>3, <2>4, <2>5, <2>6, <2>7, <2>8 DEF CaptureStep, Sends
  <1>3. CASE CodecStep
    <2>1. CASE StreamChanged
      BY <2>1 DEF StreamChanged
    <2>2. CASE Output
      BY <2>2 DEF Output, Frame
    <2>3. CASE SendParams("codec")
      BY <2>3 DEF SendParams, PackParams, Params
    <2>4. CASE Release("codec")
      BY <2>4 DEF Release
    <2>5. QED
      BY <1>3, <2>1, <2>2, <2>3, <2>4 DEF CodecStep, Sends
  <1>4. CASE ControlStep \/ Signal \/ ClientStalls \/ ClientGone \/ UNCHANGED vars
    BY <1>4 DEF ControlStep, BeginControl, EndControl, Signal, ClientStalls, ClientGone, vars
  <1>5. QED
    BY <1>1, <1>2, <1>3, <1>4 DEF Next

LEMMA SendersKept ==
    ASSUME Inv, SendersHold, [Next]_vars
    PROVE  SendersHold'
  <1> USE DEF SendersHold
  <1>1. CASE \E t \in Senders : SendPiece(t)
    <2>1. PICK t \in Senders : SendPiece(t)
      BY <1>1
    <2> DEFINE busy == {u \in Senders : IsSending(u)}
    <2>2. /\ IsSending(t)
          /\ UNCHANGED msg
          /\ overlap' = IF busy = {t} THEN overlap ELSE overlap \cup busy
          /\ \/ Done(t)
             \/ /\ UNCHANGED at
                /\ piece' = [piece EXCEPT ![t] = @ + 1]
      BY <2>1 DEF SendPiece
    <2>3. ASSUME NEW u \in Senders
          PROVE  /\ piece'[u] > 0 => IsSending(u)'
                 /\ IsSending(u)' => msg'[u].type = at'[u]
      <3>1. u # t => at'[u] = at[u] /\ piece'[u] = piece[u]
        BY <2>2 DEF Done, Inv, TypeOK, SendingOK, ThreadsOK, Threads, Senders
      <3>2. Done(t) => piece'[t] = 0 /\ ~IsSending(t)'
        BY <2>2 DEF Done, After, IsSending, SendLabels, Inv, TypeOK, SendingOK, ThreadsOK, Threads,
           Senders
      <3>3. QED
        BY <2>2, <3>1, <3>2 DEF IsSending
    <2>4. overlap' = {} => \A u, v \in Senders : piece'[u] > 0 /\ piece'[v] > 0 => u = v
      <3>1. SUFFICES ASSUME overlap' = {} PROVE \A u \in Senders : piece'[u] > 0 => u = t
        OBVIOUS
      <3>2. busy = {t}
        BY <2>2, <3>1
      <3>3. \A u \in Senders : u # t => ~IsSending(u)
        BY <3>2
      <3>4. \A u \in Senders : u # t => piece'[u] = piece[u]
        BY <2>2 DEF Done, Inv, TypeOK, SendingOK
      <3>5. QED
        BY <3>3, <3>4
    <2>5. overlap' \subseteq {"main", "codec"}
      <3>1. busy # {t} => busy \subseteq {"main", "codec"}
        BY <2>2, Alone DEF Senders
      <3>2. QED
        BY <2>2, <3>1
    <2>6. QED
      BY <2>3, <2>4, <2>5
  <1>2. CASE \E t \in Senders : SendFails(t)
    BY <1>2 DEF SendFails, Done, After, IsSending, SendLabels, Inv, TypeOK, SendingOK, ThreadsOK,
       Threads, Senders
  <1>3. CASE ~Sends
    <2>1. ASSUME NEW u \in Senders
          PROVE  /\ piece[u] > 0 => IsSending(u)'
                 /\ IsSending(u)' => msg'[u].type = at'[u]
      BY <1>3, NewMessage DEF IsSending
    <2>2. QED
      BY <1>3, <2>1, WhoChanges
  <1>4. QED
    BY <1>1, <1>2, <1>3 DEF Sends

\* Sending never works again once it has failed.
LEMMA SendingEnds ==
    ASSUME Inv, [Next]_vars
    PROVE  (fd = "open" /\ link # "down")' => fd = "open" /\ link # "down"
  BY WhoChanges DEF CloseSockets, DestroyServer, ClientStalls, ClientGone

\* What SendPiece does to the wire.
LEMMA PieceOnWire ==
    ASSUME Inv, NEW t \in Senders, SendPiece(t)
    PROVE  /\ Len(wire) \in Nat
           /\ Len(wire') = Len(wire) + 1
           /\ \A i \in 1..Len(wire) : wire'[i] = wire[i]
           /\ wire'[Len(wire) + 1] = [msg |-> msg[t], piece |-> piece[t]]
           /\ wire' # <<>>
  <1>1. wire \in Seq(Parts) /\ [msg |-> msg[t], piece |-> piece[t]] \in Parts
    BY DEF Inv, TypeOK, SendingOK, Parts
  <1>2. wire' = Append(wire, [msg |-> msg[t], piece |-> piece[t]])
    BY DEF SendPiece
  <1>3. QED
    BY <1>1, <1>2, AppendPart

LEMMA LastKept ==
    ASSUME Inv, SendersHold, LastHolds, [Next]_vars
    PROVE  LastHolds'
  <1> SUFFICES ASSUME (fd = "open" /\ link # "down")'
               PROVE  LastHolds'
    BY DEF LastHolds
  <1>1. fd = "open" /\ link # "down"
    BY SendingEnds
  <1>2. CASE \E t \in Senders : SendPiece(t)
    <2>1. PICK t \in Senders : SendPiece(t)
      BY <1>2
    <2>2. Len(wire) \in Nat /\ Len(wire') = Len(wire) + 1
            /\ wire'[Len(wire')] = [msg |-> msg[t], piece |-> piece[t]] /\ wire' # <<>>
      BY <2>1, PieceOnWire
    <2>3. msg' = msg
      BY <2>1 DEF SendPiece
    <2>4. CASE piece[t] = Pieces
      <3>1. Done(t)
        BY <2>1, <2>4 DEF SendPiece
      <3>2. \A u \in Senders : u # t => piece'[u] = piece[u] /\ at'[u] = at[u]
        BY <3>1 DEF Done, Inv, TypeOK, SendingOK, ThreadsOK, Threads, Senders
      <3>3. piece'[t] = 0
        BY <3>1 DEF Done, Inv, TypeOK, SendingOK
      <3>4. ASSUME NEW u \in Senders, piece'[u] > 0,
                   overlap' = {} \/ at'[u] \in {"frame", "raw"}
            PROVE  FALSE
        <4>1. u # t /\ piece[u] > 0 /\ at'[u] = at[u]
          BY <3>2, <3>3, <3>4
        <4>2. IsSending(u) /\ IsSending(t)
          BY <2>1, <4>1 DEF SendersHold, SendPiece
        <4>3. overlap' # {}
          BY <2>1, <4>1, <4>2 DEF SendPiece
        <4>4. QED
          BY <3>4, <4>1, <4>2, <4>3, Alone DEF Senders
      <3>5. QED
        BY <2>2, <2>4, <3>4 DEF LastHolds
    <2>5. CASE piece[t] # Pieces
      <3>1. UNCHANGED at /\ piece' = [piece EXCEPT ![t] = piece[t] + 1]
        BY <2>1, <2>5 DEF SendPiece
      <3>2. piece'[t] = piece[t] + 1 /\ piece[t] \in Nat
        BY <3>1 DEF Inv, TypeOK, SendingOK
      <3>3. ASSUME NEW u \in Senders, piece'[u] > 0, u # t,
                   overlap' = {} \/ at'[u] \in {"frame", "raw"}
            PROVE  FALSE
        <4>1. piece[u] > 0 /\ at'[u] = at[u]
          BY <3>1, <3>3 DEF Inv, TypeOK, SendingOK
        <4>2. IsSending(u) /\ IsSending(t)
          BY <2>1, <4>1 DEF SendersHold, SendPiece
        <4>3. overlap' # {}
          BY <2>1, <3>3, <4>2 DEF SendPiece
        <4>4. QED
          BY <3>3, <4>1, <4>2, <4>3, Alone DEF Senders
      <3>4. wire'[Len(wire')] = [msg |-> msg'[t], piece |-> piece'[t] - 1]
        BY <2>2, <2>3, <3>2
      <3>5. piece'[t] > 0
        BY <3>2
      <3>6. QED
        BY <2>2, <3>3, <3>4, <3>5 DEF LastHolds
    <2>6. QED
      BY <2>4, <2>5
  <1>3. CASE \E t \in Senders : SendFails(t)
    BY <1>1, <1>3 DEF SendFails
  <1>4. CASE ~Sends
    <2>1. UNCHANGED <<piece, wire, overlap>>
      BY <1>4, WhoChanges
    <2>2. ASSUME NEW u \in Senders, piece[u] > 0
          PROVE  at'[u] = at[u] /\ msg'[u] = msg[u]
      BY <1>4, <2>2, NewMessage DEF SendersHold
    <2>3. QED
      BY <1>1, <2>1, <2>2 DEF LastHolds
  <1>5. QED
    BY <1>2, <1>3, <1>4 DEF Sends

LEMMA WholeKept ==
    ASSUME Inv, SendersHold, LastHolds, WholeMessages, SendersHold', [Next]_vars
    PROVE  WholeMessages'
  <1>1. overlap' \subseteq {"main", "codec"}
    BY DEF SendersHold
  <1>2. CASE \E t \in Senders : SendPiece(t)
    <2>1. PICK t \in Senders : SendPiece(t)
      BY <1>2
    <2>0. PICK n \in Nat : n = Len(wire)
      BY <2>1, PieceOnWire
    <2> DEFINE new == wire'[n + 1]
    <2>2. /\ Len(wire') = n + 1
          /\ \A i \in 1..n : wire'[i] = wire[i]
          /\ new = [msg |-> msg[t], piece |-> piece[t]]
      BY <2>0, <2>1, PieceOnWire
    <2>3. overlap \subseteq overlap'
      BY <2>1 DEF SendPiece
    <2>4. ASSUME NEW i \in 1..n
          PROVE  \/ Follows(i)'
                 \/ overlap' # {} /\ wire'[i].msg.type \in {"config", "params"}
      <3>1. /\ wire'[i] = wire[i]
            /\ i # 1 => wire'[i - 1] = wire[i - 1]
        BY <2>2
      <3>2. Follows(i) => Follows(i)'
        BY <3>1 DEF Follows
      <3>3. QED
        BY <2>0, <2>3, <3>1, <3>2 DEF WholeMessages
    <2>5. /\ piece[t] \in 0..Pieces /\ fd = "open" /\ link # "down" /\ IsSending(t)
          /\ msg[t].type = at[t]
      BY <2>1 DEF SendPiece, SendersHold, Inv, TypeOK, SendingOK
    <2>6. \/ Follows(n + 1)'
          \/ overlap' # {} /\ new.msg.type \in {"config", "params"}
      <3>1. CASE overlap' = {} \/ at[t] \in {"frame", "raw"}
        <4>1. overlap = {} \/ at[t] \in {"frame", "raw"}
          BY <2>3, <3>1
        <4>2. ASSUME NEW u \in Senders, u # t
              PROVE  piece[u] = 0
          <5>1. ~IsSending(u)
            <6>1. CASE overlap' = {}
              BY <2>1, <4>2, <6>1 DEF SendPiece
            <6>2. CASE at[t] \in {"frame", "raw"}
              BY <2>5, <4>2, <6>2, Alone DEF Senders
            <6>3. QED
              BY <3>1, <6>1, <6>2
          <5>2. QED
            BY <5>1 DEF SendersHold, Inv, TypeOK, SendingOK
        <4>3. CASE piece[t] = 0
          <5>1. wire = <<>> \/ wire[n].piece = Pieces
            BY <2>0, <2>5, <4>2, <4>3 DEF LastHolds
          <5>2. new.piece = 0
            BY <2>2, <4>3
          <5>3. CASE n = 0
            BY <5>2, <5>3 DEF Follows
          <5>4. CASE n # 0
            <6>1. wire'[n] = wire[n] /\ (n + 1) - 1 = n /\ n + 1 # 1
              BY <2>2, <5>4
            <6>2. wire # <<>>
              BY <2>0, <5>4
            <6>3. QED
              BY <5>1, <5>2, <6>1, <6>2 DEF Follows
          <5>5. QED
            BY <5>3, <5>4
        <4>4. CASE piece[t] > 0
          <5>1. wire # <<>> /\ wire[n] = [msg |-> msg[t], piece |-> piece[t] - 1]
            BY <2>0, <2>5, <4>1, <4>4 DEF LastHolds
          <5>2. n # 0
            <6>1. wire \in Seq(Parts)
              BY DEF Inv, TypeOK, SendingOK
            <6>2. QED
              BY <2>0, <5>1, <6>1
          <5>3. wire'[n] = wire[n] /\ (n + 1) - 1 = n /\ n + 1 # 1
            BY <2>2, <5>2
          <5>4. new.piece # 0
            BY <2>2, <4>4
          <5>5. wire'[n] = [new EXCEPT !.piece = @ - 1]
            BY <2>2, <5>1, <5>3
          <5>6. QED
            BY <5>3, <5>4, <5>5 DEF Follows
        <4>5. QED
          BY <2>5, <4>3, <4>4
      <3>2. CASE overlap' # {} /\ at[t] \notin {"frame", "raw"}
        BY <2>2, <2>5, <3>2 DEF IsSending, SendLabels
      <3>3. QED
        BY <3>1, <3>2
    <2>7. \A i \in 1..n + 1 :
             Follows(i)' \/ (overlap' # {} /\ wire'[i].msg.type \in {"config", "params"})
      BY <2>2, <2>4, <2>6
    <2>8. QED
      BY <1>1, <2>2, <2>7 DEF WholeMessages
  <1>3. CASE UNCHANGED <<wire, overlap>>
    <2>1. \A i : Follows(i)' = Follows(i)
      BY <1>3 DEF Follows
    <2>2. QED
      BY <1>3, <2>1 DEF WholeMessages
  <1>4. QED
    BY <1>2, <1>3, WhoChanges DEF Sends, SendFails

LEMMA InitWire == Init => WireInv
  BY DEF Init, WireInv, SendersHold, LastHolds, WholeMessages, Senders, Threads, IsSending,
         SendLabels, None

\* The capture sends alone: three threads write to the socket without a lock, and
\* yet only the configuration and parameter sets the codec names meanwhile can be
\* torn, however many calls of send() a message takes (WholeMessages).
THEOREM MessagesWhole == Spec => []WholeMessages
  <1>1. Init => Inv /\ WireInv
    BY InitInv, InitWire
  <1>2. Inv /\ WireInv /\ [Next]_vars => (Inv /\ WireInv)'
    BY StepInv, SendersKept, LastKept, WholeKept DEF WireInv
  <1>3. Inv /\ WireInv => WholeMessages
    BY DEF WireInv
  <1>4. QED
    BY <1>1, <1>2, <1>3, PTL DEF Spec

-----------------------------------------------------------------------------
\* Raw pictures.

\* Every piece on the wire was sent once and stays.
LEMMA LastRawKept ==
    ASSUME Inv, SendersHold, [Next]_vars, NEW ts, LastRaw(ts),
           ~(SendPiece("capture") /\ at["capture"] = "raw")
    PROVE  LastRaw(ts)'
  <1>1. CASE UNCHANGED wire
    BY <1>1 DEF LastRaw, RawSent
  <1>2. CASE \E t \in Senders : SendPiece(t)
    <2>1. PICK t \in Senders : SendPiece(t)
      BY <1>2
    <2>2. PICK n \in Nat : n = Len(wire)
      BY <2>1, PieceOnWire
    <2>3. /\ Len(wire') = n + 1
          /\ \A i \in 1..n : wire'[i] = wire[i]
          /\ wire'[n + 1].msg = msg[t]
      <3>1. wire'[n + 1] = [msg |-> msg[t], piece |-> piece[t]]
        BY <2>1, <2>2, PieceOnWire
      <3>2. QED
        BY <2>1, <2>2, <3>1, PieceOnWire
    <2>4. msg[t].type # "raw"
      <3>1. msg[t].type = at[t] /\ IsSending(t)
        BY <2>1 DEF SendPiece, SendersHold
      <3>2. at[t] # "raw"
        BY <2>1, <3>1, Alone DEF Senders
      <3>3. QED
        BY <3>1, <3>2
    <2>5. RawSent' = RawSent
      BY <2>2, <2>3, <2>4 DEF RawSent
    <2>6. \A i \in RawSent : wire'[i] = wire[i]
      BY <2>2, <2>3 DEF RawSent
    <2>7. QED
      BY <2>5, <2>6 DEF LastRaw
  <1>3. QED
    BY <1>1, <1>2, WhoChanges DEF Sends, SendFails

\* Only Deliver begins to send a raw picture, and only sending it ends that.
LEMMA NeverRaw ==
    ASSUME Inv, [Next]_vars, ~Sends, ~Deliver
    PROVE  at'["capture"] = "raw" <=> at["capture"] = "raw"
  <1> USE DEF Inv, TypeOK, ThreadsOK, Threads, Go
  <1>1. CASE MainStep
    BY <1>1 DEF MainStep, Sends, Senders, CreateEncoder, StartEncoder, Announce, StartCapture,
       SetRunning, EndLoop, StopCapture, ReleaseCapture, StopEncoder, CodecStopped, CloseSockets,
       DestroyCapture, DestroyEncoder, DestroyServer, DestroyInjector, Return
  <1>2. CASE CaptureStep
    BY <1>2 DEF CaptureStep, Sends, Senders, BufferAvailable, Acquire, Push, SwEncode, Encode,
       Forward, SendParams, PackParams, Release
  <1>3. CASE CodecStep
    BY <1>3 DEF CodecStep, Sends, Senders, StreamChanged, Output, SendParams, PackParams, Release
  <1>4. CASE ControlStep \/ Signal \/ ClientStalls \/ ClientGone \/ UNCHANGED vars
    BY <1>4 DEF ControlStep, BeginControl, EndControl, Signal, ClientStalls, ClientGone, vars
  <1>5. QED
    BY <1>1, <1>2, <1>3, <1>4 DEF Next

LEMMA RawKept ==
    ASSUME Inv, SendersHold, RawHolds, [Next]_vars
    PROVE  RawHolds'
  <1> SUFFICES ASSUME (fd = "open" /\ link # "down")', ~available'
               PROVE  RawHolds'
    BY DEF RawHolds
  <1>1. fd = "open" /\ link # "down"
    BY SendingEnds
  <1>2. ~available
    BY WhoChanges DEF StartEncoder, Inv, TypeOK, EncodingOK, CodecHolds, Starting, Go
  <1>3. /\ at["capture"] = "raw" => msg["capture"] = Raw(lastSentTs) /\ clock = lastSentTs
        /\ at["capture"] # "raw" /\ lastSentTs # 0 => LastRaw(lastSentTs)
        /\ at["capture"] # "raw" /\ fails = 0 => clock = 0 \/ TooSoon(clock)
    BY <1>1, <1>2 DEF RawHolds
  <1>4. fails' = 0 => fails = 0
    BY WhoChanges DEF Acquire, Deliver, DeliverRaw, DeliverToEncoder, SwEncode, Encode,
       PacksParams, SendParams, PackParams, Fail, Inv, TypeOK, SystemOK
  <1>5. CASE SendPiece("capture") /\ at["capture"] = "raw"
    <2>1. UNCHANGED <<msg, clock, lastSentTs>>
      BY <1>5 DEF SendPiece, capturing
    <2>2. PICK n \in Nat : n = Len(wire)
      BY <1>5, PieceOnWire DEF Senders
    <2>3. Len(wire') = n + 1 /\ wire'[n + 1].msg = Raw(lastSentTs)
      BY <1>3, <1>5, <2>2, PieceOnWire DEF Senders
    <2>4. LastRaw(lastSentTs)'
      <3>1. n + 1 \in RawSent' /\ \A j \in RawSent' : j <= n + 1
        BY <2>3 DEF RawSent, Raw
      <3>2. wire'[n + 1].msg.ts = lastSentTs'
        BY <2>1, <2>3 DEF Raw
      <3>3. QED
        BY <3>1, <3>2 DEF LastRaw
    <2>5. (clock = 0 \/ TooSoon(clock))'
      <3>1. clock' = lastSentTs' /\ clock' \in 0..ClockMod - 1
        BY <1>3, <1>5, <2>1 DEF Inv, TypeOK, CapturingOK
      <3>2. \A m \in Nat \ {0} : m % m = 0
        OBVIOUS
      <3>3. \A c \in 0..ClockMod - 1 : c - c + ClockMod = ClockMod
        BY ConstantsAssumption
      <3>4. (clock' - lastSentTs' + ClockMod) % ClockMod = 0
        BY <3>1, <3>2, <3>3, ConstantsAssumption
      <3>5. 0 < Interval
        BY ConstantsAssumption
      <3>6. QED
        BY <3>1, <3>4, <3>5 DEF TooSoon
    <2>6. at'["capture"] = "raw" => msg'["capture"] = Raw(lastSentTs') /\ clock' = lastSentTs'
      BY <1>3, <1>5, <2>1
    <2>7. QED
      BY <2>4, <2>5, <2>6 DEF RawHolds
  <1>6. CASE Deliver
    <2>1. DeliverRaw
      BY <1>2, <1>6 DEF Deliver, DeliverToEncoder
    <2>2. at["capture"] = "deliver"
      BY <2>1 DEF DeliverRaw, Go
    <2>3. ~(SendPiece("capture") /\ at["capture"] = "raw")
      BY <2>2
    <2>4. CASE UNCHANGED <<msg, lastSentTs, fails>> /\ TooSoon(clock')
      <3>1. TooSoon(clock)'
        BY <2>4 DEF TooSoon
      <3>2. lastSentTs' # 0 => LastRaw(lastSentTs)'
        BY <1>3, <2>2, <2>3, <2>4, LastRawKept
      <3>3. at'["capture"] # "raw"
        BY <2>1, <2>4 DEF DeliverRaw, Go, Inv, TypeOK, ThreadsOK, Threads
      <3>4. QED
        BY <3>1, <3>2, <3>3 DEF RawHolds
    <2>5. CASE Go("capture", "deliver", "raw") /\ msg' = [msg EXCEPT !["capture"] = Raw(clock')]
                 /\ lastSentTs' = clock'
      BY <2>5 DEF RawHolds, Go, Inv, TypeOK, ThreadsOK, Threads, SendingOK, Senders
    <2>6. CASE Fail /\ Go("capture", "deliver", "release") /\ UNCHANGED <<msg, lastSentTs>>
      <3>1. fails' # 0 /\ at'["capture"] = "release"
        BY <2>6 DEF Fail, Go, Inv, TypeOK, SystemOK, ThreadsOK, Threads
      <3>2. lastSentTs' # 0 => LastRaw(lastSentTs)'
        BY <1>3, <2>2, <2>3, <2>6, LastRawKept
      <3>3. QED
        BY <3>1, <3>2 DEF RawHolds
    <2>7. QED
      BY <2>1, <2>4, <2>5, <2>6 DEF DeliverRaw
  <1>7. CASE ~Deliver /\ ~(SendPiece("capture") /\ at["capture"] = "raw")
    <2>1. UNCHANGED <<clock, lastSentTs>>
      BY <1>7, WhoChanges
    <2>2. at'["capture"] = "raw" <=> at["capture"] = "raw"
      <3>1. CASE Sends
        BY <1>1, <1>7, <3>1 DEF Sends, SendPiece, SendFails, Done, After, Senders, Inv, TypeOK,
           ThreadsOK, Threads, LabelsOf, MainLabels, CodecLabels
      <3>2. CASE ~Sends
        BY <1>7, <3>2, NeverRaw
      <3>3. QED
        BY <3>1, <3>2
    <2>3. at["capture"] = "raw" => msg'["capture"] = msg["capture"]
      <3>1. CASE Sends
        BY <3>1 DEF Sends, SendPiece, SendFails
      <3>2. CASE ~Sends
        BY <3>2, NewMessage DEF IsSending, SendLabels, Senders
      <3>3. QED
        BY <3>1, <3>2
    <2>4. lastSentTs # 0 /\ at["capture"] # "raw" => LastRaw(lastSentTs)'
      <3>1. SUFFICES ASSUME lastSentTs # 0, at["capture"] # "raw" PROVE LastRaw(lastSentTs)'
        OBVIOUS
      <3>2. PICK ts : ts = lastSentTs
        OBVIOUS
      <3>3. LastRaw(ts)'
        BY <1>3, <1>7, <3>1, <3>2, LastRawKept
      <3>4. QED
        BY <2>1, <3>2, <3>3
    <2>5. TooSoon(clock) => TooSoon(clock)'
      BY <2>1 DEF TooSoon
    <2>6. QED
      BY <1>3, <1>4, <2>1, <2>2, <2>3, <2>4, <2>5 DEF RawHolds
  <1>8. QED
    BY <1>5, <1>6, <1>7

LEMMA RawIsFresh == Inv /\ RawHolds => RawFresh
  <1> SUFFICES ASSUME Inv, RawHolds, at["main"] = "loop", ~available, at["capture"] = "idle",
                      clock # 0, fails = 0, link = "up"
               PROVE  \E i \in RawSent :
                         /\ \A j \in RawSent : j <= i
                         /\ (clock - wire[i].msg.ts + ClockMod) % ClockMod < Interval
    BY DEF RawFresh
  <1>1. fd = "open"
    BY DEF Inv, LiveHolds
  <1>2. TooSoon(clock)
    BY <1>1 DEF RawHolds
  <1>3. LastRaw(lastSentTs)
    BY <1>1, <1>2 DEF RawHolds, TooSoon
  <1>4. QED
    BY <1>2, <1>3 DEF TooSoon, LastRaw

\* Without an encoder, whatever the rate of the pictures and whether or not the
\* clock goes back, the last raw picture that was sent is not an interval older
\* than the last picture that was captured (RawFresh).
THEOREM RawStaysFresh == Spec => []RawFresh
  <1>1. Init => Inv /\ WireInv /\ RawHolds
    BY InitInv, InitWire DEF Init, RawHolds, Threads
  <1>2. Inv /\ WireInv /\ RawHolds /\ [Next]_vars => (Inv /\ WireInv /\ RawHolds)'
    BY StepInv, SendersKept, LastKept, WholeKept, RawKept DEF WireInv
  <1>3. Inv /\ WireInv /\ RawHolds => RawFresh
    BY RawIsFresh
  <1>4. QED
    BY <1>1, <1>2, <1>3, PTL DEF Spec

-----------------------------------------------------------------------------
(***************************************************************************)
(* The parameter sets of OpenH264.  As long as sending works and nothing   *)
(* has failed: before they are sent no keyframe that has them is on the    *)
(* wire; then they wait there for their keyframe; then it follows them.    *)
(***************************************************************************)
Has(data) == Complete(Reference(data))
Keyframe(m) == m.type = "frame" /\ Has(m.data)
NoKeyframe(w) == \A i \in 1..Len(w) : ~Keyframe(w[i].msg)

ReadyFor(part, data) ==
    /\ part.msg.type = "params" /\ part.piece = Pieces
    /\ SameParams(Unpack(part.msg.buf), Reference(data))

FirstReady(w) ==
    \E j, k \in 1..Len(w) :
        /\ j < k
        /\ w[k].msg.type = "frame" /\ ReadyFor(w[j], w[k].msg.data)
        /\ \A l \in 1..k - 1 : Keyframe(w[l].msg) => w[l].msg = w[k].msg

ParamsWait(w, data) == NoKeyframe(w) /\ \E j \in 1..Len(w) : ReadyFor(w[j], data)

Working == fails = 0 /\ fd = "open" /\ link # "down"

ReadyHolds ==
    Working =>
        /\ at["codec"] = "frame" => msg["codec"] = Frame(<<>>)
        /\ at["capture"] = "frame" => msg["capture"] = Frame(au)
        /\ at["capture"] = "pack" => spsPps = Extract(au) /\ ~swSent
        /\ at["capture"] = "params" => msg["capture"] = Params(Pack(Extract(au))) /\ ~swSent
        /\ ~swSent =>
            /\ NoKeyframe(wire)
            /\ at["capture"] \in {"encoded", "frame"} => ~Has(au)
        /\ swSent =>
            \/ FirstReady(wire)
            \/ at["capture"] \in {"encoded", "frame"} /\ ParamsWait(wire, au)

LEMMA NotInEmpty == ~Has(<<>>)
  BY NothingInEmpty DEF Has, Complete, NoParams

LEMMA SameComplete ==
    ASSUME NEW found, NEW params, SameParams(found, params)
    PROVE  Complete(found) <=> Complete(params)
  BY Zenon DEF SameParams, Padded, Complete

\* What is taken out of a keyframe arrives at the client.
LEMMA OutputsReadable ==
    ASSUME NEW data \in Outputs
    PROVE  /\ Complete(Extract(data)) <=> Complete(Reference(data))
           /\ SameParams(Unpack(Pack(Extract(data))), Reference(data))
  <1>1. CASE data \in AccessUnits
    <2>1. data \in Seq(0..255)
      BY <1>1, ConstantsAssumption
    <2>2. data \in Seq(Nat)
      <3>1. 0..255 \subseteq Nat
        OBVIOUS
      <3>2. QED
        BY <2>1, <3>1, SeqMonotonic
    <2>3. /\ ByteStream(data) /\ ~ShortLast(data)
          /\ Len(data) < Radix * Radix * Radix * Radix
      BY <1>1, KeyframesAssumption
    <2>4. SameParams(Extract(data), Reference(data))
      BY <2>2, <2>3, ScanFinds
    <2>5. SameParams(Unpack(Pack(Extract(data))), Reference(data))
      BY <2>2, <2>3, ParamsOfKeyframeArrive
    <2>6. QED
      BY <2>4, <2>5, SameComplete
  <1>2. CASE data = <<>>
    <2>1. <<>> \in Seq(Nat) /\ Len(<<>>) = 0
      OBVIOUS
    <2>2. ~ShortLast(<<>>)
      BY DEF ShortLast, Codes
    <2>3. ByteStream(<<>>)
      BY <2>1 DEF ByteStream
    <2>4. 0 < Radix * Radix * Radix * Radix
      <3>1. PICK r \in Nat \ {0} : r = Radix
        BY RadixAssumption
      <3>2. PICK s \in Nat \ {0} : s = r * r
        OBVIOUS
      <3>3. PICK u \in Nat \ {0} : u = s * r
        OBVIOUS
      <3>4. u * r > 0
        OBVIOUS
      <3>5. QED
        BY <3>1, <3>2, <3>3, <3>4
    <2>5. SameParams(Extract(data), Reference(data))
      BY <1>2, <2>1, <2>2, <2>3, ScanFinds
    <2>6. SameParams(Unpack(Pack(Extract(data))), Reference(data))
      BY <1>2, <2>1, <2>2, <2>3, <2>4, ParamsOfKeyframeArrive
    <2>7. QED
      BY <2>5, <2>6, SameComplete
  <1>3. QED
    BY <1>1, <1>2 DEF Outputs

LEMMA ReadyInit == Init => ReadyHolds
  BY DEF Init, ReadyHolds, NoKeyframe, Threads, Senders

LEMMA WorkingBefore ==
    ASSUME Inv, [Next]_vars, Working'
    PROVE  Working
  <1>1. fails' = 0 => fails = 0
    BY WhoChanges DEF Acquire, Deliver, DeliverRaw, DeliverToEncoder, SwEncode, Encode,
       PacksParams, SendParams, PackParams, Fail, Inv, TypeOK, SystemOK
  <1>2. QED
    BY <1>1, SendingEnds DEF Working

\* What is on the wire stays there.
LEMMA OnWireKept ==
    ASSUME NEW w, NEW v, NEW n \in Nat, Len(w) = n, Len(v) = n + 1,
           \A i \in 1..n : v[i] = w[i]
    PROVE  /\ FirstReady(w) => FirstReady(v)
           /\ NoKeyframe(v) <=> NoKeyframe(w) /\ ~Keyframe(v[n + 1].msg)
           /\ \A data : ParamsWait(w, data) /\ ~Keyframe(v[n + 1].msg) => ParamsWait(v, data)
  <1>1. FirstReady(w) => FirstReady(v)
    <2>1. SUFFICES ASSUME NEW j \in 1..n, NEW k \in 1..n, j < k,
                          w[k].msg.type = "frame", ReadyFor(w[j], w[k].msg.data),
                          \A l \in 1..k - 1 : Keyframe(w[l].msg) => w[l].msg = w[k].msg
                   PROVE  FirstReady(v)
      BY DEF FirstReady
    <2>2. v[j] = w[j] /\ v[k] = w[k] /\ j \in 1..Len(v) /\ k \in 1..Len(v)
      OBVIOUS
    <2>3. \A l \in 1..k - 1 : v[l] = w[l]
      OBVIOUS
    <2>4. \A l \in 1..k - 1 : Keyframe(v[l].msg) => v[l].msg = v[k].msg
      BY <2>1, <2>2, <2>3, Zenon
    <2>5. v[k].msg.type = "frame" /\ ReadyFor(v[j], v[k].msg.data)
      BY <2>1, <2>2, Zenon
    <2>6. QED
      BY <2>1, <2>2, <2>4, <2>5, Zenon DEF FirstReady
  <1>2. NoKeyframe(v) <=> NoKeyframe(w) /\ ~Keyframe(v[n + 1].msg)
    <2>1. \A i : i \in 1..n + 1 <=> i \in 1..n \/ i = n + 1
      OBVIOUS
    <2>2. QED
      BY <2>1, Zenon DEF NoKeyframe
  <1>3. ASSUME NEW data, ParamsWait(w, data) PROVE \E j \in 1..Len(v) : ReadyFor(v[j], data)
    <2>1. PICK j \in 1..n : ReadyFor(w[j], data)
      BY <1>3 DEF ParamsWait
    <2>2. j \in 1..Len(v) /\ v[j] = w[j]
      OBVIOUS
    <2>3. QED
      BY <2>1, <2>2, Zenon
  <1>4. QED
    BY <1>1, <1>2, <1>3, Zenon DEF ParamsWait

\* A piece of something else than a keyframe.
LEMMA OtherPiece ==
    ASSUME Inv, SendersHold, ReadyHolds, Working, NEW t \in Senders, SendPiece(t),
           t # "capture" \/ at["capture"] = "raw"
    PROVE  /\ ~Keyframe(msg[t])
           /\ UNCHANGED <<msg, swSent, au, spsPps>>
           /\ at'["codec"] = "frame" => at["codec"] = "frame"
           /\ \/ at'["capture"] = at["capture"]
              \/ at'["capture"] = "release" /\ at["capture"] = "raw"
  <1>1. /\ IsSending(t) /\ msg[t].type = at[t]
        /\ t # "capture" => at[t] \in {"config", "params", "frame"}
    BY Alone DEF SendersHold, SendPiece, Senders
  <1>2. ~Keyframe(msg[t])
    <2>1. CASE at[t] = "frame"
      <3>1. t = "codec"
        BY <1>1, <2>1, Alone DEF Senders
      <3>2. msg[t] = Frame(<<>>)
        BY <2>1, <3>1 DEF ReadyHolds
      <3>3. msg[t].data = <<>>
        BY <3>2 DEF Frame
      <3>4. QED
        BY <3>3, NotInEmpty DEF Keyframe
    <2>2. CASE at[t] # "frame"
      BY <1>1, <2>2 DEF Keyframe
    <2>3. QED
      BY <2>1, <2>2
  <1>3. UNCHANGED <<msg, au, spsPps>>
    BY DEF SendPiece
  <1>4. swSent' = swSent /\ (UNCHANGED at \/ at' = [at EXCEPT ![t] = After(t)])
    <2>1. swSent \in BOOLEAN
      BY DEF Inv, TypeOK, EncodingOK
    <2>2. ~(at[t] = "params" /\ t = "capture")
      OBVIOUS
    <2>3. QED
      BY <2>1, <2>2 DEF SendPiece, Done
  <1>5. at \in [Threads -> Labels]
    BY DEF Inv, TypeOK, ThreadsOK
  <1>6. CASE t = "capture"
    BY <1>2, <1>3, <1>4, <1>5, <1>6 DEF After, Threads
  <1>7. CASE t # "capture"
    <2>1. at'["capture"] = at["capture"]
      BY <1>4, <1>5, <1>7 DEF Threads
    <2>2. After(t) # "frame"
      BY <1>1, <1>7 DEF After
    <2>3. at'["codec"] = "frame" => at["codec"] = "frame"
      BY <1>4, <1>5, <2>2 DEF Threads
    <2>4. QED
      BY <1>2, <1>3, <1>4, <2>1, <2>3
  <1>8. QED
    BY <1>6, <1>7

\* Parameter sets or a frame of OpenH264.
LEMMA CapturePiece ==
    ASSUME Inv, SendersHold, ReadyHolds, Working, SendPiece("capture"),
           at["capture"] \in {"params", "frame"}
    PROVE  /\ UNCHANGED <<msg, au, spsPps>>
           /\ at'["codec"] = at["codec"]
           /\ \/ at'["capture"] = at["capture"] /\ piece["capture"] # Pieces
              \/ /\ at'["capture"] = IF at["capture"] = "params" THEN "encoded" ELSE "release"
                 /\ piece["capture"] = Pieces
           /\ swSent' = (swSent \/ (at["capture"] = "params" /\ at'["capture"] = "encoded"))
  <1>1. at \in [Threads -> Labels] /\ swSent \in BOOLEAN
    BY DEF Inv, TypeOK, ThreadsOK, EncodingOK
  <1>2. UNCHANGED <<msg, au, spsPps>>
    BY DEF SendPiece
  <1>3. CASE piece["capture"] = Pieces
    <2>1. /\ at' = [at EXCEPT !["capture"] = After("capture")]
          /\ swSent' = (swSent \/ at["capture"] = "params")
      BY <1>3 DEF SendPiece, Done
    <2>2. After("capture") = IF at["capture"] = "params" THEN "encoded" ELSE "release"
      BY DEF After
    <2>3. QED
      BY <1>1, <1>2, <1>3, <2>1, <2>2 DEF Threads
  <1>4. CASE piece["capture"] # Pieces
    BY <1>1, <1>2, <1>4 DEF SendPiece
  <1>5. QED
    BY <1>3, <1>4

LEMMA ReadySends ==
    ASSUME Inv, SendersHold, ReadyHolds, Working, NEW t \in Senders, SendPiece(t)
    PROVE  ReadyHolds'
  <1>1. PICK n \in Nat :
           /\ Len(wire) = n /\ Len(wire') = n + 1
           /\ \A i \in 1..n : wire'[i] = wire[i]
           /\ wire'[n + 1] = [msg |-> msg[t], piece |-> piece[t]]
    BY PieceOnWire
  <1>2. /\ FirstReady(wire) => FirstReady(wire')
        /\ NoKeyframe(wire') <=> NoKeyframe(wire) /\ ~Keyframe(wire'[n + 1].msg)
        /\ \A data : ParamsWait(wire, data) /\ ~Keyframe(wire'[n + 1].msg) =>
                         ParamsWait(wire', data)
    BY <1>1, OnWireKept
  <1>3. wire'[n + 1].msg = msg[t] /\ wire'[n + 1].piece = piece[t]
    BY <1>1
  <1>4. IsSending(t) /\ msg[t].type = at[t]
    BY DEF SendersHold, SendPiece
  <1>5. CASE t # "capture" \/ at["capture"] = "raw"
    <2>1. /\ ~Keyframe(msg[t])
          /\ UNCHANGED <<msg, swSent, au, spsPps>>
          /\ at'["codec"] = "frame" => at["codec"] = "frame"
          /\ \/ at'["capture"] = at["capture"]
             \/ at'["capture"] = "release" /\ at["capture"] = "raw"
      BY <1>5, OtherPiece
    <2>2. at["capture"] = "raw" => at["capture"] \notin {"encoded", "frame", "pack", "params"}
      OBVIOUS
    <2>3. QED
      BY <1>2, <1>3, <2>1, <2>2 DEF ReadyHolds, Working
  <1>6. CASE t = "capture" /\ at["capture"] = "params"
    <2>1. /\ UNCHANGED <<msg, au, spsPps>>
          /\ at'["codec"] = at["codec"]
          /\ \/ at'["capture"] = "params" /\ swSent' = swSent
             \/ at'["capture"] = "encoded" /\ piece[t] = Pieces /\ swSent' = TRUE
      <3>1. swSent \in BOOLEAN
        BY DEF Inv, TypeOK, EncodingOK
      <3>2. QED
        BY <1>6, <3>1, CapturePiece
    <2>2. msg[t] = Params(Pack(Extract(au))) /\ ~swSent /\ NoKeyframe(wire)
      BY <1>6 DEF ReadyHolds
    <2>3. NoKeyframe(wire')
      BY <1>2, <1>3, <1>4, <1>6, <2>2 DEF Keyframe
    <2>4. CASE at'["capture"] = "encoded"
      <3>1. ReadyFor(wire'[n + 1], au)
        <4>1. au \in Outputs
          BY DEF Inv, TypeOK, EncodingOK
        <4>2. msg[t].type = "params" /\ msg[t].buf = Pack(Extract(au))
          BY <2>2 DEF Params
        <4>3. SameParams(Unpack(msg[t].buf), Reference(au))
          BY <4>1, <4>2, OutputsReadable
        <4>4. piece[t] = Pieces
          BY <2>1, <2>4
        <4>5. QED
          BY <1>3, <4>2, <4>3, <4>4 DEF ReadyFor
      <3>2. n + 1 \in 1..Len(wire')
        BY <1>1
      <3>3. ParamsWait(wire', au)
        BY <2>3, <3>1, <3>2 DEF ParamsWait
      <3>4. swSent' /\ au' = au
        BY <2>1, <2>4
      <3>5. QED
        BY <2>1, <2>4, <3>3, <3>4 DEF ReadyHolds, Working
    <2>5. CASE at'["capture"] = "params"
      BY <1>6, <2>1, <2>2, <2>3, <2>5 DEF ReadyHolds, Working
    <2>6. QED
      BY <2>1, <2>4, <2>5
  <1>7. CASE t = "capture" /\ at["capture"] = "frame"
    <2>1. /\ UNCHANGED <<msg, au, spsPps, swSent>>
          /\ at'["codec"] = at["codec"]
          /\ at'["capture"] \in {"frame", "release"}
      <3>1. swSent \in BOOLEAN
        BY DEF Inv, TypeOK, EncodingOK
      <3>2. QED
        BY <1>7, <3>1, CapturePiece
    <2>2. msg[t] = Frame(au)
      BY <1>7 DEF ReadyHolds
    <2>3. msg[t].type = "frame" /\ msg[t].data = au
      BY <2>2 DEF Frame
    <2>4. CASE ~swSent
      <3>1. NoKeyframe(wire) /\ ~Has(au)
        BY <1>7, <2>4 DEF ReadyHolds
      <3>2. NoKeyframe(wire')
        BY <1>2, <1>3, <2>3, <3>1 DEF Keyframe
      <3>3. QED
        BY <1>7, <2>1, <2>4, <3>1, <3>2 DEF ReadyHolds, Working
    <2>5. CASE swSent
      <3>1. FirstReady(wire')
        <4>1. CASE FirstReady(wire)
          BY <1>2, <4>1
        <4>2. CASE ParamsWait(wire, au)
          <5>1. PICK j \in 1..n : ReadyFor(wire[j], au)
            BY <1>1, <4>2 DEF ParamsWait
          <5>2. wire'[j] = wire[j] /\ j \in 1..Len(wire') /\ n + 1 \in 1..Len(wire') /\ j < n + 1
            BY <1>1
          <5>3. wire'[n + 1].msg.type = "frame" /\ wire'[n + 1].msg.data = au
            BY <1>3, <2>3
          <5>4. \A l \in 1..(n + 1) - 1 : ~Keyframe(wire'[l].msg)
            <6>1. (n + 1) - 1 = n
              OBVIOUS
            <6>2. \A l \in 1..n : ~Keyframe(wire[l].msg)
              BY <1>1, <4>2 DEF ParamsWait, NoKeyframe
            <6>3. QED
              BY <1>1, <6>1, <6>2
          <5>5. QED
            BY <5>1, <5>2, <5>3, <5>4, Zenon DEF FirstReady
        <4>3. QED
          BY <2>5, <4>1, <4>2 DEF ReadyHolds
      <3>2. swSent'
        BY <2>1, <2>5
      <3>3. QED
        BY <1>7, <2>1, <3>1, <3>2 DEF ReadyHolds, Working
    <2>6. QED
      BY <2>4, <2>5
  <1>8. QED
    BY <1>4, <1>5, <1>6, <1>7, Alone DEF Senders

\* A step that does not concern it.
LEMMA ReadyElse ==
    ASSUME Inv, ReadyHolds, Working, UNCHANGED <<wire, au, swSent>>,
           at'["codec"] = "frame" => msg'["codec"] = Frame(<<>>),
           \/ /\ at'["capture"] = at["capture"]
              /\ msg'["capture"] = msg["capture"]
              /\ spsPps' = spsPps \/ at["capture"] # "pack"
           \/ {at["capture"], at'["capture"]} \cap {"pack", "params", "encoded", "frame"} = {}
    PROVE  ReadyHolds'
  <1>1. CASE /\ at'["capture"] = at["capture"]
             /\ msg'["capture"] = msg["capture"]
             /\ spsPps' = spsPps \/ at["capture"] # "pack"
    BY <1>1 DEF ReadyHolds, Working
  <1>2. CASE {at["capture"], at'["capture"]} \cap {"pack", "params", "encoded", "frame"} = {}
    BY <1>2 DEF ReadyHolds, Working
  <1>3. QED
    BY <1>1, <1>2

LEMMA ReadyMain ==
    ASSUME Inv, ReadyHolds, Working, Working', MainStep, ~Sends
    PROVE  ReadyHolds'
  <1> USE DEF Inv, TypeOK, ThreadsOK, SendingOK, Threads, Senders, Go, sending, encoding
  <1> DEFINE same ==
        /\ UNCHANGED <<wire, au, swSent, spsPps>>
        /\ at'["codec"] = at["codec"] /\ at'["capture"] = at["capture"]
        /\ msg'["codec"] = msg["codec"] /\ msg'["capture"] = msg["capture"]
  <1>1. CASE CreateEncoder \/ StartEncoder \/ Announce \/ StartCapture \/ SetRunning
    <2>1. same
      BY <1>1 DEF CreateEncoder, StartEncoder, Announce, StartCapture, SetRunning
    <2>2. QED
      BY <2>1, ReadyElse DEF ReadyHolds
  <1>2. CASE EndLoop \/ StopCapture \/ ReleaseCapture \/ StopEncoder \/ CodecStopped
    <2>1. same
      BY <1>2 DEF EndLoop, StopCapture, ReleaseCapture, StopEncoder, CodecStopped
    <2>2. QED
      BY <2>1, ReadyElse DEF ReadyHolds
  <1>3. CASE DestroyCapture \/ DestroyServer \/ DestroyInjector \/ Return \/ CloseSockets
    <2>1. same
      BY <1>3 DEF DestroyCapture, DestroyServer, DestroyInjector, Return, CloseSockets
    <2>2. QED
      BY <2>1, ReadyElse DEF ReadyHolds
  <1>4. CASE DestroyEncoder
    BY <1>4 DEF DestroyEncoder, LiveHolds, Working
  <1>5. QED
    BY <1>1, <1>2, <1>3, <1>4 DEF MainStep, Sends

LEMMA ReadyCapture ==
    ASSUME Inv, ReadyHolds, Working, Working', CaptureStep, ~Sends
    PROVE  ReadyHolds'
  <1>0. /\ at \in [Threads -> Labels] /\ msg \in [Senders -> Messages]
        /\ au \in Outputs
    BY DEF Inv, TypeOK, ThreadsOK, SendingOK, EncodingOK
  <1> USE DEF Threads, Senders, Go, sending, encoding
  <1>1. CASE BufferAvailable \/ Acquire \/ Deliver \/ Push \/ Release("capture")
    <2>1. /\ UNCHANGED <<wire, au, swSent>>
          /\ at'["codec"] = at["codec"] /\ msg'["codec"] = msg["codec"]
      BY <1>0, <1>1 DEF BufferAvailable, Acquire, Deliver, DeliverRaw, DeliverToEncoder, Push,
         Release
    <2>2. /\ at["capture"] \in {"idle", "acquire", "deliver", "push", "release"}
          /\ at'["capture"] \in
                {"idle", "acquire", "deliver", "push", "release", "raw", "encode"}
      BY <1>0, <1>1 DEF BufferAvailable, Acquire, Deliver, DeliverRaw, DeliverToEncoder, Push,
         Release
    <2>3. {at["capture"], at'["capture"]} \cap {"pack", "params", "encoded", "frame"} = {}
      BY <2>2
    <2>4. QED
      BY <2>1, <2>3, ReadyElse DEF ReadyHolds
  <1>2. CASE SwEncode
    <2>1. /\ UNCHANGED <<msg, wire, swSent>>
          /\ at'["codec"] = at["codec"]
          /\ at["capture"] = "encode" /\ fails' = fails
      BY <1>0, <1>2 DEF SwEncode, Encode, Working, Fail, Inv, TypeOK, SystemOK
    <2>2. swSent => FirstReady(wire)
      BY <2>1 DEF ReadyHolds
    <2>3. ~swSent => NoKeyframe(wire)
      BY DEF ReadyHolds
    <2>4. \/ at'["capture"] = "release"
          \/ at'["capture"] = "encoded" /\ (swSent \/ ~Has(au'))
          \/ at'["capture"] = "pack" /\ ~swSent /\ spsPps' = Extract(au')
      <3>1. CASE Go("capture", "encode", "release")
        BY <1>0, <3>1
      <3>2. CASE Go("capture", "encode", "encoded") /\ au' = <<>>
        BY <1>0, <3>2, NotInEmpty
      <3>3. CASE /\ au' \in AccessUnits
                 /\ IF ~swSent /\ Complete(Extract(au'))
                    THEN Go("capture", "encode", "pack") /\ spsPps' = Extract(au')
                    ELSE Go("capture", "encode", "encoded")
        <4>1. Complete(Extract(au')) <=> Complete(Reference(au'))
          BY <3>3, OutputsReadable DEF Outputs
        <4>2. CASE ~swSent /\ Complete(Extract(au'))
          BY <1>0, <3>3, <4>2
        <4>3. CASE ~(~swSent /\ Complete(Extract(au')))
          BY <1>0, <3>3, <4>1, <4>3 DEF Has
        <4>4. QED
          BY <4>2, <4>3
      <3>4. QED
        BY <1>2, <2>1, <3>1, <3>2, <3>3 DEF SwEncode, Encode, Fail, Working, Inv, TypeOK, SystemOK
    <2>5. QED
      BY <2>1, <2>2, <2>3, <2>4 DEF ReadyHolds
  <1>3. CASE Forward
    <2>1. "callbacks" \in live
      <3>1. at["capture"] = "encoded"
        BY <1>3 DEF Forward
      <3>2. encoder # "none"
        BY <3>1 DEF Inv, LiveHolds, SwEncoding, Working
      <3>3. QED
        BY <3>2 DEF Inv, LiveHolds
    <2>2. /\ UNCHANGED <<wire, au, swSent, spsPps>>
          /\ at["capture"] = "encoded" /\ at'["capture"] = "frame"
          /\ msg'["capture"] = Frame(au)
          /\ at'["codec"] = at["codec"] /\ msg'["codec"] = msg["codec"]
      BY <1>0, <1>3, <2>1 DEF Forward
    <2>3. QED
      BY <2>2 DEF ReadyHolds
  <1>4. CASE SendParams("capture")
    <2>1. fails' = fails
      BY <1>4 DEF SendParams, PackParams, Fail, Working, Inv, TypeOK, SystemOK
    <2>2. /\ UNCHANGED <<wire, au, swSent, spsPps>>
          /\ at["capture"] = "pack" /\ at'["capture"] = "params"
          /\ msg'["capture"] = Params(Pack(spsPps))
          /\ at'["codec"] = at["codec"] /\ msg'["codec"] = msg["codec"]
      BY <1>0, <1>4, <2>1 DEF SendParams, PackParams, Fail, Inv, TypeOK, SystemOK
    <2>3. QED
      BY <2>2 DEF ReadyHolds
  <1>5. QED
    BY <1>1, <1>2, <1>3, <1>4 DEF CaptureStep, Sends

LEMMA ReadyCodec ==
    ASSUME Inv, ReadyHolds, Working, Working', CodecStep, ~Sends
    PROVE  ReadyHolds'
  <1>0. at \in [Threads -> Labels] /\ msg \in [Senders -> Messages]
    BY DEF Inv, TypeOK, ThreadsOK, SendingOK
  <1> USE DEF Threads, Senders, Go, sending, encoding
  <1>1. CASE StreamChanged
    <2>1. at["capture"] # "pack"
      BY <1>1 DEF StreamChanged, Inv, CodecHolds, CodecActive, SwEncoding
    <2>2. /\ UNCHANGED <<wire, au, swSent, msg>>
          /\ at'["capture"] = at["capture"] /\ at'["codec"] = "pack"
      BY <1>0, <1>1 DEF StreamChanged
    <2>3. QED
      BY <2>1, <2>2, ReadyElse
  <1>2. CASE Output
    <2>1. /\ UNCHANGED <<wire, au, swSent, spsPps>>
          /\ at'["capture"] = at["capture"] /\ msg'["capture"] = msg["capture"]
          /\ at'["codec"] = "frame" => msg'["codec"] = Frame(<<>>)
      BY <1>0, <1>2 DEF Output
    <2>2. QED
      BY <2>1, ReadyElse
  <1>3. CASE SendParams("codec") \/ Release("codec")
    <2>1. /\ UNCHANGED <<wire, au, spsPps>>
          /\ at'["capture"] = at["capture"] /\ msg'["capture"] = msg["capture"]
          /\ at'["codec"] # "frame"
      BY <1>0, <1>3 DEF SendParams, PackParams, Release
    <2>2. swSent' = swSent
      BY <1>3 DEF SendParams, PackParams, Release, Inv, TypeOK, EncodingOK
    <2>3. QED
      BY <2>1, <2>2, ReadyElse
  <1>4. QED
    BY <1>1, <1>2, <1>3 DEF CodecStep, Sends

LEMMA ReadyKept ==
    ASSUME Inv, SendersHold, ReadyHolds, [Next]_vars
    PROVE  ReadyHolds'
  <1> SUFFICES ASSUME Working' PROVE ReadyHolds'
    BY DEF ReadyHolds
  <1>1. Working
    BY WorkingBefore
  <1>2. CASE Sends
    <2>1. \E t \in Senders : SendPiece(t)
      BY <1>1, <1>2 DEF Sends, SendFails, Working
    <2>2. QED
      BY <1>1, <2>1, ReadySends
  <1>3. CASE ~Sends /\ (ControlStep \/ Signal \/ ClientStalls \/ ClientGone \/ UNCHANGED vars)
    <2>1. /\ UNCHANGED <<wire, au, swSent, spsPps, msg>>
          /\ at'["capture"] = at["capture"] /\ at'["codec"] = at["codec"]
      BY <1>3 DEF ControlStep, BeginControl, EndControl, Signal, ClientStalls, ClientGone, vars, sending,
         encoding, Go, Inv, TypeOK, ThreadsOK, Threads
    <2>2. QED
      BY <1>1, <2>1, ReadyElse DEF ReadyHolds
  <1>4. QED
    BY <1>1, <1>2, <1>3, ReadyMain, ReadyCapture, ReadyCodec DEF Next

\* A keyframe that begins finds its parameter sets, or those of the first one,
\* before it.
LEMMA DecoderKept ==
    ASSUME Inv, SendersHold, ReadyHolds', DecoderReady, [Next]_vars
    PROVE  DecoderReady'
  <1> DEFINE Led(w, i) ==
        w[i].msg.type = "frame" /\ Complete(Reference(w[i].msg.data)) =>
            \E j \in 1..i - 1 :
                /\ w[j].msg.type = "params" /\ w[j].piece = Pieces
                /\ \E k \in j + 1..i :
                      /\ w[k].msg.type = "frame"
                      /\ SameParams(Unpack(w[j].msg.buf), Reference(w[k].msg.data))
                      /\ \A l \in 1..k - 1 :
                            w[l].msg.type = "frame" /\ w[l].msg # w[k].msg =>
                                ~Complete(Reference(w[l].msg.data))
  <1>1. DecoderReady <=> (fails = 0 => \A i \in 1..Len(wire) : Led(wire, i))
    BY Zenon DEF DecoderReady
  <1>2. DecoderReady' <=> (fails' = 0 => \A i \in 1..Len(wire') : Led(wire', i))
    BY Zenon DEF DecoderReady
  <1>3. fails' = 0 => fails = 0
    BY WhoChanges DEF Acquire, Deliver, DeliverRaw, DeliverToEncoder, SwEncode, Encode,
       PacksParams, SendParams, PackParams, Fail, Inv, TypeOK, SystemOK
  <1>4. SUFFICES ASSUME fails' = 0, NEW i \in 1..Len(wire') PROVE Led(wire', i)
    BY <1>2
  <1>5. \A h \in 1..Len(wire) : Led(wire, h)
    BY <1>1, <1>3, <1>4
  <1>6. CASE UNCHANGED wire
    <2>1. i \in 1..Len(wire) /\ wire' = wire
      BY <1>4, <1>6
    <2>2. Led(wire, i)
      BY <1>5, <2>1, Zenon
    <2>3. QED
      BY <2>1, <2>2, Zenon
  <1>7. CASE \E t \in Senders : SendPiece(t)
    <2>1. PICK t \in Senders : SendPiece(t)
      BY <1>7
    <2>2. PICK n \in Nat :
             /\ Len(wire) = n /\ Len(wire') = n + 1
             /\ \A h \in 1..n : wire'[h] = wire[h]
      BY <2>1, PieceOnWire
    <2>3. CASE i \in 1..n
      <3>1. \A h \in 1..i : wire'[h] = wire[h]
        BY <2>2, <2>3
      <3>2. Led(wire, i)
        BY <1>5, <2>2, <2>3
      <3>3. QED
        BY <2>3, <3>1, <3>2
    <2>4. CASE i = n + 1
      <3>1. SUFFICES ASSUME Keyframe(wire'[i].msg) PROVE Led(wire', i)
        BY DEF Keyframe, Has
      <3>2. Working'
        BY <1>4, <2>1 DEF SendPiece, Working, sockets
      <3>3. ~NoKeyframe(wire')
        BY <3>1 DEF NoKeyframe
      <3>4. FirstReady(wire')
        BY <3>2, <3>3 DEF ReadyHolds, ParamsWait
      <3>5. PICK j \in 1..n + 1, k \in 1..n + 1 :
               /\ j < k
               /\ wire'[k].msg.type = "frame" /\ ReadyFor(wire'[j], wire'[k].msg.data)
               /\ \A l \in 1..k - 1 : Keyframe(wire'[l].msg) => wire'[l].msg = wire'[k].msg
        BY <2>2, <3>4 DEF FirstReady
      <3>6. j \in 1..i - 1 /\ k \in j + 1..i
        BY <2>4, <3>5
      <3>7. /\ wire'[j].msg.type = "params" /\ wire'[j].piece = Pieces
            /\ SameParams(Unpack(wire'[j].msg.buf), Reference(wire'[k].msg.data))
        BY <3>5 DEF ReadyFor
      <3>8. \A l \in 1..k - 1 :
               wire'[l].msg.type = "frame" /\ wire'[l].msg # wire'[k].msg =>
                   ~Complete(Reference(wire'[l].msg.data))
        BY <3>5 DEF Keyframe, Has
      <3>9. QED
        BY <3>5, <3>6, <3>7, <3>8, Zenon
    <2>5. QED
      BY <2>2, <2>3, <2>4
  <1>8. QED
    BY <1>6, <1>7, WhoChanges DEF Sends, SendFails

\* With OpenH264, for all keyframes, however many calls of send() a message takes
\* and whenever the other threads send: as long as no allocation fails, what the
\* client unpacks before a keyframe that has parameter sets are those of the first
\* such keyframe, but for zeros behind them (DecoderReady).
THEOREM DecoderGetsParams == Spec => []DecoderReady
  <1>1. Init => Inv /\ WireInv /\ ReadyHolds /\ DecoderReady
    BY InitInv, InitWire, ReadyInit DEF Init, DecoderReady
  <1>2. Inv /\ WireInv /\ ReadyHolds /\ DecoderReady /\ [Next]_vars
            => (Inv /\ WireInv /\ ReadyHolds /\ DecoderReady)'
    BY StepInv, SendersKept, LastKept, WholeKept, ReadyKept, DecoderKept DEF WireInv
  <1>3. QED
    BY <1>1, <1>2, PTL DEF Spec
=============================================================================
