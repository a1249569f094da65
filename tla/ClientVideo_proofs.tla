------------------------- MODULE ClientVideo_proofs -------------------------
(***************************************************************************)
(* Proofs about ClientVideo, for all sizes of pictures and any number of   *)
(* messages and resizes.                                                   *)
(***************************************************************************)
EXTENDS ClientVideo, TLAPS

-----------------------------------------------------------------------------
\* The inductive invariant.

Posting == {"postW", "postH", "postFlag"}
Receiving == {"payload", "sink"}

\* Where the thread is with a message in its buffer.
Handling == {"config", "params", "frame", "raw", "reserve", "copyRgba", "decode", "copyYuv"}
                \cup Posting

\* A raw picture has one of the sizes of a raw picture.
RawSized(m) == m.type = "raw" => m.size \in Sizes

\* The message that the thread is at is one that was sent, that fits, and that
\* belongs where the thread is.
MsgHolds ==
    /\ video \in Handling \cup Receiving => msg \in Message
    /\ video \in Handling \cup {"payload"} => Length(msg) <= MaxFrame
    /\ video \in {"config", "params", "frame", "raw"} => msg.type = video
    /\ video \in Posting => msg.type \in {"config", "raw"}
    /\ video \in {"reserve", "copyRgba"} => msg.type = "raw"
    /\ RawSized(msg)
    /\ \A i \in 1..Len(wire) : RawSized(wire[i].msg)

\* The configuration is before every raw picture: where there is one, no
\* configuration follows.
RawSeen == rawMode \/ msg.type = "raw"
OrderHolds ==
    /\ RawSeen => announced /\ \A i \in 1..Len(wire) : wire[i].msg.type # "config"
    /\ rawMode => msg.type # "config"
    /\ \A i \in 1..Len(wire) : wire[i].msg.type = "raw" =>
           announced /\ \A j \in i..Len(wire) : wire[j].msg.type # "config"

\* What the thread has posted.
PendHolds ==
    /\ rawMode /\ video \notin Posting => <<pend.w, pend.h>> \in Sizes
    /\ video \in {"postH", "postFlag"} => pend.w = msg.size[1]
    /\ video = "postFlag" => pend.h = msg.size[2]
    /\ video \in {"reserve", "copyRgba"} => rawMode
    /\ video \in Posting /\ msg.type = "raw" => rawMode

\* The buffer has the size the renderer reads it with, and is large enough for
\* the picture that is being copied.
BufferHolds ==
    /\ rgba.len > 0 =>
        /\ rawMode
        /\ video \notin Posting
        /\ rgba.size \in Sizes
        /\ rgba.len = Area(rgba.size)
        /\ rgba.pic > 0 => rgba.len = Area(rgba.of)
        /\ video = "copyRgba" => rgba.len = Area(msg.size)

\* Once a raw picture was drawn, the pending size is that of the first one, and
\* so is a width that was read.
DrawnHolds ==
    drawnRaw =>
        /\ rawMode
        /\ video \notin Posting
        /\ videoSize \in Sizes
        /\ main = "apply" => width = pend.w

\* Only the picture that is being copied is not whole.
PicturesHold ==
    /\ rgba.len > 0 /\ video # "copyRgba" => rgba.pic > 0
    /\ yuv.have /\ video # "copyYuv" => yuv.pic > 0

\* Headers and payloads alternate, and only a link that broke ends in a header.
PartsAlternate ==
    /\ \A i \in 1..Len(wire), j \in 1..Len(wire) : j = i + 1 => wire[i].part # wire[j].part
    /\ wire # <<>> /\ video # "ended" =>
           wire[1].part = (IF video \in Receiving THEN "payload" ELSE "header")
    /\ wire # <<>> /\ link = "up" => wire[Len(wire)].part = "payload"
    /\ wire = <<>> /\ link = "up" => video \notin Receiving

IInv ==
    /\ TypeOK
    /\ MsgHolds
    /\ OrderHolds
    /\ PendHolds
    /\ BufferHolds
    /\ DrawnHolds
    /\ PicturesHold
    /\ PartsAlternate
-----------------------------------------------------------------------------
\* Facts about sizes and the wire.

Parts == [part : {"header", "payload"}, msg : Message]

\* An area is a natural number, and a length too.
LEMMA AreaIsNat ==
    /\ \A size \in AnySize : size \in Nat \X Nat /\ Area(size) \in Nat
    /\ \A m \in Message : Length(m) \in Nat
  <1>1. ASSUME NEW size \in AnySize PROVE size \in Nat \X Nat
    BY ConstantsAssumption DEF AnySize, Unknown
  <1>2. ASSUME NEW m \in Nat, NEW n \in Nat PROVE m * n \in Nat
    OBVIOUS
  <1>3. ASSUME NEW size \in AnySize PROVE Area(size) \in Nat
    <2>1. size[1] \in Nat /\ size[2] \in Nat
      BY <1>1
    <2>2. QED
      BY <2>1, <1>2 DEF Area
  <1>4. ASSUME NEW m \in Message PROVE Length(m) \in Nat
    <2>1. m.size \in AnySize
      BY DEF Message, AnySize
    <2>2. QED
      BY <2>1, <1>3 DEF Length
  <1>5. QED
    BY <1>1, <1>3, <1>4

\* Receiving a part takes the first one away.
LEMMA TailOfWire ==
    ASSUME NEW S, NEW s \in Seq(S), s # <<>>
    PROVE  /\ Len(s) \in Nat \ {0}
           /\ Head(s) = s[1] /\ s[1] \in S
           /\ Tail(s) \in Seq(S)
           /\ Len(Tail(s)) = Len(s) - 1
           /\ \A i \in 1..Len(Tail(s)) : i + 1 \in 1..Len(s) /\ Tail(s)[i] = s[i + 1]
  OBVIOUS

\* A link that breaks takes nothing, or the last part, away.
LEMMA CutOfWire ==
    ASSUME NEW S, wire \in Seq(S), LoseLink
    PROVE  /\ link' = "down"
           /\ wire' \in Seq(S)
           /\ Len(wire') \in 0..Len(wire)
           /\ \A i \in 1..Len(wire') : i \in 1..Len(wire) /\ wire'[i] = wire[i]
  <1>1. CASE wire' = wire
    BY <1>1 DEF LoseLink
  <1>2. CASE wire' = SubSeq(wire, 1, Len(wire) - 1)
    BY <1>2 DEF LoseLink
  <1>3. QED
    BY <1>1, <1>2 DEF LoseLink

\* A message is sent as two parts.
LEMMA MessageOnWire ==
    ASSUME NEW m \in Message, NEW s \in Seq(Parts), NEW t,
           t = s \o <<[part |-> "header", msg |-> m], [part |-> "payload", msg |-> m]>>
    PROVE  /\ t \in Seq(Parts)
           /\ Len(t) = Len(s) + 2
           /\ \A i \in 1..Len(s) : t[i] = s[i]
           /\ t[Len(s) + 1] = [part |-> "header", msg |-> m]
           /\ t[Len(s) + 2] = [part |-> "payload", msg |-> m]
  <1> DEFINE h == [part |-> "header", msg |-> m]
             p == [part |-> "payload", msg |-> m]
  <1>1. h \in Parts /\ p \in Parts
    BY DEF Parts
  <1> HIDE DEF h, p
  <1>2. <<h, p>> \in Seq(Parts) /\ Len(<<h, p>>) = 2 /\ <<h, p>>[1] = h /\ <<h, p>>[2] = p
    BY <1>1
  <1>3. t = s \o <<h, p>>
    BY DEF h, p
  <1>4. QED
    BY <1>2, <1>3 DEF h, p

-----------------------------------------------------------------------------
\* Which actions change what.

WireChanges == Send \/ LinkBreaks \/ StopServer \/ RecvHeader \/ Sink \/ RecvPayload
PendChanges == PostWidth \/ PostHeight \/ PostFlag \/ ClearPending
RgbaChanges == ReserveRgba \/ CopyRgba \/ FreeBuffers
YuvChanges == Decode \/ CopyYuv \/ FreeBuffers
MainChanges == MainThread \/ SetParamsCrashes \/ ResizeWindow

LEMMA WhoChanges ==
    ASSUME [Next]_vars
    PROVE  /\ UNCHANGED wireVars \/ WireChanges
           /\ UNCHANGED <<video, msg>> \/ VideoThread
           /\ UNCHANGED cap \/ RecvPayload
           /\ UNCHANGED decoder \/ SetParams \/ DestroyDecoder
           /\ UNCHANGED rawMode \/ BeginPost
           /\ UNCHANGED pend \/ PendChanges
           /\ UNCHANGED rgba \/ RgbaChanges
           /\ UNCHANGED rgbaReady \/ CopyRgba \/ DrawRgba
           /\ UNCHANGED yuv \/ YuvChanges
           /\ UNCHANGED yuvReady \/ CopyYuv \/ DrawYuv
           /\ UNCHANGED receiving \/ Disconnect
           /\ UNCHANGED <<main, width, renderer>> \/ MainChanges
  <1> USE DEF WireChanges, PendChanges, RgbaChanges, YuvChanges, MainChanges, wireVars,
              threadVars, pictures, Others
  <1>1. CASE Send \/ LinkBreaks
    BY <1>1 DEF Send, LinkBreaks
  <1>2. CASE VideoThread
    BY <1>2 DEF VideoThread, RecvHeader, Sink, RecvPayload, ThreadEnds, BeginPost, PostWidth,
      PostHeight, PostFlag, ReserveRgba, CopyRgba, SetParams, SetParamsCrashes, BeginDecode,
      Decode, CopyYuv
  <1>3. CASE MainThread
    BY <1>3 DEF MainThread, Top, HandleEvents, CheckPending, ApplyPending, ClearPending,
      DrawRgba, DrawYuv, FreeBuffers, StopServer, DestroyDecoder, Disconnect, Join
  <1>4. CASE ResizeWindow
    BY <1>4 DEF ResizeWindow
  <1>5. CASE UNCHANGED vars
    BY <1>5 DEF vars
  <1>6. QED
    BY <1>1, <1>2, <1>3, <1>4, <1>5 DEF Next

-----------------------------------------------------------------------------
\* Types.

LEMMA WireTypesStep ==
    ASSUME TypeOK, [Next]_vars
    PROVE  WireTypes'
  <1>a. WireTypes /\ wire \in Seq(Parts)
    BY DEF TypeOK, WireTypes, Parts
  <1>b. Parts = [part : {"header", "payload"}, msg : Message]
    BY DEF Parts
  <1>1. CASE Send
    <2>1. PICK m \in NextMessages :
            wire' = wire \o <<[part |-> "header", msg |-> m], [part |-> "payload", msg |-> m]>>
            /\ announced' = (announced \/ m.type = "config")
      BY <1>1 DEF Send
    <2>2. m \in Message /\ sent + 1 \in 1..MaxMessages
      BY <2>1 DEF NextMessages, Message
    <2>3. wire' \in Seq(Parts)
      BY <1>a, <2>1, <2>2, MessageOnWire
    <2>4. announced' \in BOOLEAN /\ sent' \in 0..MaxMessages
      BY <1>1, <2>1, <2>2, ConstantsAssumption DEF Send
    <2>5. QED
      BY <1>a, <1>b, <1>1, <2>3, <2>4 DEF Send, WireTypes
  <1>2. CASE LinkBreaks \/ StopServer
    <2>1. wire' \in Seq(Parts) /\ link' \in {"up", "down"}
      BY <1>2, <1>a, CutOfWire DEF LinkBreaks, StopServer, WireTypes
    <2>2. QED
      BY <1>2, <1>a, <1>b, <2>1 DEF LinkBreaks, StopServer, WireTypes
  <1>3. CASE RecvHeader \/ Sink \/ RecvPayload
    <2>1. wire # <<>> /\ wire' = Tail(wire)
      BY <1>3 DEF RecvHeader, Sink, RecvPayload
    <2>2. wire' \in Seq(Parts)
      BY <1>a, <2>1, TailOfWire
    <2>3. QED
      BY <1>a, <1>b, <1>3, <2>2 DEF RecvHeader, Sink, RecvPayload, Others, WireTypes
  <1>4. CASE UNCHANGED wireVars
    BY <1>a, <1>4 DEF wireVars, WireTypes
  <1>5. QED
    BY <1>1, <1>2, <1>3, <1>4, WhoChanges DEF WireChanges

LEMMA ThreadTypesStep ==
    ASSUME TypeOK, MsgHolds, [Next]_vars
    PROVE  ThreadTypes'
  <1>a. ThreadTypes /\ wire \in Seq(Parts)
    BY DEF TypeOK, WireTypes, Parts
  <1>1. msg' \in Message \cup {None}
    <2>1. CASE RecvHeader
      <3>1. Head(wire) \in Parts
        BY <1>a, <2>1, TailOfWire DEF RecvHeader
      <3>2. QED
        BY <2>1, <3>1 DEF RecvHeader, Parts
    <2>2. CASE UNCHANGED msg
      BY <1>a, <2>2 DEF ThreadTypes
    <2>3. VideoThread => UNCHANGED msg \/ RecvHeader
      BY DEF VideoThread, Sink, RecvPayload, ThreadEnds, BeginPost, PostWidth, PostHeight,
        PostFlag, ReserveRgba, CopyRgba, SetParams, SetParamsCrashes, threadVars, BeginDecode,
        Decode, CopyYuv
    <2>4. QED
      BY <2>1, <2>2, <2>3, WhoChanges
  <1>2. video' \in {"header", "payload", "sink", "config", "params", "frame", "raw", "postW",
              "postH", "postFlag", "reserve", "copyRgba", "decode", "copyYuv", "ended"}
    <2>1. CASE RecvPayload
      <3>1. msg \in Message
        BY <2>1 DEF RecvPayload, MsgHolds, Receiving
      <3>2. QED
        BY <2>1, <3>1 DEF RecvPayload, Message
    <2>2. CASE UNCHANGED video
      BY <1>a, <2>2 DEF ThreadTypes
    <2>3. VideoThread => \/ UNCHANGED video \/ RecvPayload
                         \/ video' \in {"payload", "sink", "header", "ended", "postW", "postH",
                                 "postFlag", "reserve", "copyRgba", "decode", "copyYuv"}
      BY DEF VideoThread, RecvHeader, Sink, ThreadEnds, BeginPost, PostWidth, PostHeight,
        PostFlag, ReserveRgba, CopyRgba, SetParams, SetParamsCrashes, threadVars, BeginDecode,
        Decode, CopyYuv
    <2>4. QED
      BY <2>1, <2>2, <2>3, WhoChanges
  <1>3. cap' \in FirstCap..MaxFrame
    <2>1. CASE RecvPayload
      <3>1. Length(msg) \in Nat /\ Length(msg) <= MaxFrame
        BY <2>1, AreaIsNat DEF RecvPayload, MsgHolds, Receiving
      <3>2. cap' = Length(msg) \/ cap' = cap
        BY <2>1 DEF RecvPayload
      <3>3. cap' = Length(msg) => Length(msg) > cap \/ cap' = cap
        BY <2>1 DEF RecvPayload
      <3>4. cap \in FirstCap..MaxFrame
        BY <1>a DEF ThreadTypes
      <3>5. QED
        BY <3>1, <3>2, <3>3, <3>4, ConstantsAssumption
    <2>2. QED
      BY <1>a, <2>1, WhoChanges DEF ThreadTypes
  <1>4. decoder' \in {"none", "made", "open"}
    BY <1>a, WhoChanges DEF ThreadTypes, SetParams, DestroyDecoder
  <1>5. QED
    BY <1>1, <1>2, <1>3, <1>4 DEF ThreadTypes

LEMMA SharedTypesStep ==
    ASSUME TypeOK, MsgHolds, [Next]_vars
    PROVE  SharedTypes'
  <1>a. SharedTypes
    BY DEF TypeOK
  <1>1. rawMode' \in BOOLEAN /\ rgbaReady' \in BOOLEAN /\ yuvReady' \in BOOLEAN /\ receiving' \in BOOLEAN
    <2>1. rawMode' \in BOOLEAN
      BY <1>a, WhoChanges DEF SharedTypes, BeginPost
    <2>2. rgbaReady' \in BOOLEAN
      BY <1>a, WhoChanges DEF SharedTypes, CopyRgba, DrawRgba
    <2>3. yuvReady' \in BOOLEAN
      BY <1>a, WhoChanges DEF SharedTypes, CopyYuv, DrawYuv
    <2>4. receiving' \in BOOLEAN
      BY <1>a, WhoChanges DEF SharedTypes, Disconnect
    <2>5. QED
      BY <2>1, <2>2, <2>3, <2>4
  <1>2. pend' \in [w : Nat, h : Nat, flag : BOOLEAN]
    <2>1. pend \in [w : Nat, h : Nat, flag : BOOLEAN]
      BY <1>a DEF SharedTypes
    <2>2. CASE PostWidth \/ PostHeight
      <3>1. msg \in Message
        BY <2>2 DEF PostWidth, PostHeight, MsgHolds, Handling, Posting
      <3>2. msg.size[1] \in Nat /\ msg.size[2] \in Nat
        BY <3>1, AreaIsNat DEF Message, AnySize
      <3>3. QED
        BY <2>1, <2>2, <3>2 DEF PostWidth, PostHeight
    <2>3. CASE PostFlag \/ ClearPending
      BY <2>1, <2>3 DEF PostFlag, ClearPending
    <2>4. QED
      BY <2>1, <2>2, <2>3, WhoChanges DEF PendChanges
  <1>3. rgba' \in [len : 0..MaxFrame, size : AnySize, pic : 0..MaxMessages, of : AnySize]
    <2>1. rgba \in [len : 0..MaxFrame, size : AnySize, pic : 0..MaxMessages, of : AnySize]
      BY <1>a DEF SharedTypes
    <2>2. Unknown \in AnySize /\ 0 \in 0..MaxFrame /\ 0 \in 0..MaxMessages
      BY ConstantsAssumption DEF AnySize
    <2>3. CASE ReserveRgba \/ CopyRgba
      <3>1. msg \in Message /\ msg.type = "raw" /\ Length(msg) <= MaxFrame
        BY <2>3 DEF ReserveRgba, CopyRgba, MsgHolds, Handling
      <3>2. Area(msg.size) \in 0..MaxFrame
        BY <3>1, AreaIsNat, ConstantsAssumption DEF Length
      <3>3. msg.size \in AnySize /\ msg.id \in 0..MaxMessages
        BY <3>1, ConstantsAssumption DEF Message, AnySize
      <3>4. CASE ReserveRgba
        BY <2>1, <2>2, <3>2, <3>3, <3>4 DEF ReserveRgba
      <3>5. CASE CopyRgba
        BY <2>1, <3>3, <3>5 DEF CopyRgba
      <3>6. QED
        BY <2>3, <3>4, <3>5
    <2>4. CASE FreeBuffers
      BY <2>1, <2>2, <2>4 DEF FreeBuffers
    <2>5. QED
      BY <2>1, <2>3, <2>4, WhoChanges DEF RgbaChanges
  <1>4. yuv' \in [have : BOOLEAN, pic : 0..MaxMessages]
    <2>1. yuv \in [have : BOOLEAN, pic : 0..MaxMessages]
      BY <1>a DEF SharedTypes
    <2>2. CASE Decode \/ FreeBuffers
      <3>1. 0 \in 0..MaxMessages
        BY ConstantsAssumption
      <3>2. yuv' = yuv \/ \E have \in BOOLEAN : yuv' = [have |-> have, pic |-> 0]
        BY <2>2 DEF Decode, FreeBuffers
      <3>3. QED
        BY <2>1, <3>1, <3>2
    <2>3. CASE CopyYuv
      <3>1. msg \in Message
        BY <2>3 DEF CopyYuv, MsgHolds, Handling
      <3>2. msg.id \in 0..MaxMessages
        BY <3>1, ConstantsAssumption DEF Message
      <3>3. QED
        BY <2>1, <2>3, <3>2 DEF CopyYuv
    <2>4. QED
      BY <2>1, <2>2, <2>3, WhoChanges DEF YuvChanges
  <1>5. QED
    BY <1>1, <1>2, <1>3, <1>4 DEF SharedTypes

LEMMA MainTypesStep ==
    ASSUME TypeOK, [Next]_vars
    PROVE  MainTypes'
  <1>a. MainTypes
    BY DEF TypeOK
  <1>b. pend.w \in Nat /\ pend.h \in Nat /\ rgba.pic \in 0..MaxMessages /\ yuv.pic \in 0..MaxMessages
    BY DEF TypeOK, SharedTypes
  <1>c. rgba.size \in Nat \X Nat
    BY AreaIsNat DEF TypeOK, SharedTypes
  <1>1. CASE ResizeWindow
    <2>1. resizes' \in 0..MaxResizes
      BY <1>a, <1>1, ConstantsAssumption DEF ResizeWindow, MainTypes
    <2>2. QED
      BY <1>a, <1>1, <2>1 DEF ResizeWindow, MainTypes
  <1>2. CASE Top \/ HandleEvents \/ ClearPending \/ FreeBuffers \/ StopServer
              \/ DestroyDecoder \/ Disconnect \/ Join \/ SetParamsCrashes
    BY <1>a, <1>2 DEF Top, HandleEvents, ClearPending, FreeBuffers, StopServer,
      DestroyDecoder, Disconnect, Join, SetParamsCrashes, renderer, Exit, MainTypes
  <1>3. CASE CheckPending
    BY <1>a, <1>b, <1>3 DEF CheckPending, renderer, MainTypes
  <1>4. CASE ApplyPending
    BY <1>a, <1>b, <1>4 DEF ApplyPending, UpdateVideoSize, MainTypes
  <1>5. CASE DrawRgba
    BY <1>a, <1>b, <1>c, <1>5 DEF DrawRgba, UpdateVideoSize, MainTypes
  <1>6. CASE DrawYuv
    BY <1>a, <1>b, <1>6 DEF DrawYuv, MainTypes
  <1>7. CASE UNCHANGED <<main, width, renderer>>
    BY <1>a, <1>7 DEF renderer, MainTypes
  <1>8. QED
    BY <1>1, <1>2, <1>3, <1>4, <1>5, <1>6, <1>7, WhoChanges DEF MainChanges, MainThread

LEMMA TypeStep ==
    ASSUME TypeOK, MsgHolds, [Next]_vars
    PROVE  TypeOK'
  BY WireTypesStep, ThreadTypesStep, SharedTypesStep, MainTypesStep DEF TypeOK

-----------------------------------------------------------------------------
\* The message that the thread is at.

LEMMA MsgStep ==
    ASSUME TypeOK, MsgHolds, [Next]_vars
    PROVE  MsgHolds'
  <1>a. wire \in Seq(Parts)
    BY DEF TypeOK, WireTypes, Parts
  <1>1. RawSized(msg')
    <2>1. CASE RecvHeader
      <3>1. Head(wire) = wire[1] /\ 1 \in 1..Len(wire)
        BY <1>a, <2>1, TailOfWire DEF RecvHeader
      <3>2. QED
        BY <2>1, <3>1 DEF RecvHeader, MsgHolds
    <2>2. VideoThread => UNCHANGED msg \/ RecvHeader
      BY DEF VideoThread, Sink, RecvPayload, ThreadEnds, BeginPost, PostWidth, PostHeight,
        PostFlag, ReserveRgba, CopyRgba, SetParams, SetParamsCrashes, threadVars, BeginDecode,
        Decode, CopyYuv
    <2>3. QED
      BY <2>1, <2>2, WhoChanges DEF MsgHolds, RawSized
  <1>2. \A i \in 1..Len(wire') : RawSized(wire'[i].msg)
    <2>a. \A i \in 1..Len(wire) : RawSized(wire[i].msg)
      BY DEF MsgHolds
    <2>1. CASE Send
      <3>1. PICK m \in NextMessages :
              wire' = wire \o <<[part |-> "header", msg |-> m], [part |-> "payload", msg |-> m]>>
        BY <2>1 DEF Send
      <3>2. m \in Message /\ RawSized(m)
        BY DEF NextMessages, RawSized
      <3>3. /\ Len(wire) \in Nat
            /\ Len(wire') = Len(wire) + 2
            /\ \A i \in 1..Len(wire) : wire'[i] = wire[i]
            /\ wire'[Len(wire) + 1].msg = m
            /\ wire'[Len(wire) + 2].msg = m
        BY <1>a, <3>1, <3>2, MessageOnWire
      <3>4. ASSUME NEW i \in 1..Len(wire') PROVE RawSized(wire'[i].msg)
        <4>1. i \in 1..Len(wire) \/ i = Len(wire) + 1 \/ i = Len(wire) + 2
          BY <3>3
        <4>2. QED
          BY <2>a, <3>2, <3>3, <4>1
      <3>5. QED
        BY <3>4
    <2>2. CASE LinkBreaks \/ StopServer
      <3>1. LoseLink \/ UNCHANGED wire
        BY <2>2 DEF LinkBreaks, StopServer
      <3>2. QED
        BY <1>a, <2>a, <3>1, CutOfWire
    <2>3. CASE RecvHeader \/ Sink \/ RecvPayload
      <3>1. wire # <<>> /\ wire' = Tail(wire)
        BY <2>3 DEF RecvHeader, Sink, RecvPayload
      <3>2. \A i \in 1..Len(wire') : i + 1 \in 1..Len(wire) /\ wire'[i] = wire[i + 1]
        BY <1>a, <3>1, TailOfWire
      <3>3. QED
        BY <2>a, <3>2
    <2>4. QED
      BY <2>a, <2>1, <2>2, <2>3, WhoChanges DEF WireChanges, wireVars
  <1>3. /\ video' \in Handling \cup Receiving => msg' \in Message
        /\ video' \in Handling \cup {"payload"} => Length(msg') <= MaxFrame
        /\ video' \in {"config", "params", "frame", "raw"} => msg'.type = video'
        /\ video' \in Posting => msg'.type \in {"config", "raw"}
        /\ video' \in {"reserve", "copyRgba"} => msg'.type = "raw"
    <2> USE DEF Handling, Receiving, Posting, MsgHolds
    <2>1. CASE RecvHeader
      <3>1. Head(wire) \in Parts
        BY <1>a, <2>1, TailOfWire DEF RecvHeader
      <3>2. msg' \in Message /\ Length(msg') \in Nat
        BY <2>1, <3>1, AreaIsNat DEF RecvHeader, Parts
      <3>3. video' \in {"payload", "sink"}
        BY <2>1 DEF RecvHeader
      <3>4. video' = "payload" => ~ (Length(msg') > MaxFrame)
        BY <2>1 DEF RecvHeader
      <3>5. Length(msg') <= MaxFrame \/ Length(msg') > MaxFrame
        BY <3>2, ConstantsAssumption
      <3>6. QED
        BY <3>2, <3>3, <3>4, <3>5
    <2>2. CASE RecvPayload
      BY <2>2 DEF RecvPayload, Message
    <2>3. CASE Sink \/ ThreadEnds \/ BeginPost
      BY <2>3 DEF Sink, ThreadEnds, BeginPost
    <2>4. CASE PostWidth \/ PostHeight \/ PostFlag
      BY <2>4 DEF PostWidth, PostHeight, PostFlag
    <2>5. CASE ReserveRgba \/ CopyRgba
      BY <2>5 DEF ReserveRgba, CopyRgba
    <2>6. CASE SetParams \/ BeginDecode \/ Decode \/ CopyYuv
      BY <2>6 DEF SetParams, BeginDecode, Decode, CopyYuv
    <2>7. CASE UNCHANGED <<video, msg>>
      BY <2>7
    <2>8. SetParamsCrashes => UNCHANGED <<video, msg>>
      BY DEF SetParamsCrashes, threadVars
    <2>9. QED
      BY <2>1, <2>2, <2>3, <2>4, <2>5, <2>6, <2>7, <2>8, WhoChanges DEF VideoThread
  <1>4. QED
    BY <1>1, <1>2, <1>3 DEF MsgHolds

-----------------------------------------------------------------------------
\* The configuration comes before the raw pictures.

LEMMA OrderStep ==
    ASSUME TypeOK, MsgHolds, OrderHolds, [Next]_vars
    PROVE  OrderHolds'
  <1>a. wire \in Seq(Parts) /\ Len(wire) \in Nat
    BY DEF TypeOK, WireTypes, Parts
  <1>b. ASSUME UNCHANGED <<wire, announced, msg, rawMode>> PROVE OrderHolds'
    BY <1>b DEF OrderHolds, RawSeen
  <1>1. CASE Send
    <2>1. PICK m \in NextMessages :
            /\ wire' = wire \o <<[part |-> "header", msg |-> m], [part |-> "payload", msg |-> m]>>
            /\ announced' = (announced \/ m.type = "config")
      BY <1>1 DEF Send
    <2>2. m \in Message /\ (m.type = "raw" => announced) /\ (m.type = "config" => ~announced)
      BY DEF NextMessages
    <2>3. /\ Len(wire) \in Nat /\ Len(wire') = Len(wire) + 2
          /\ \A i \in 1..Len(wire) : wire'[i] = wire[i]
          /\ wire'[Len(wire) + 1].msg = m
          /\ wire'[Len(wire) + 2].msg = m
      BY <1>a, <2>1, <2>2, MessageOnWire
    <2>4. \A i \in 1..Len(wire') :
            \/ i \in 1..Len(wire) /\ wire'[i].msg = wire[i].msg
            \/ i > Len(wire) /\ wire'[i].msg = m
      <3> TAKE i \in 1..Len(wire')
      <3>1. i \in 1..Len(wire) \/ i = Len(wire) + 1 \/ i = Len(wire) + 2
        BY <2>3
      <3>2. CASE i \in 1..Len(wire)
        BY <2>3, <3>2
      <3>3. CASE i = Len(wire) + 1 \/ i = Len(wire) + 2
        <4>1. wire'[i].msg = m
          BY <2>3, <3>3
        <4>2. i > Len(wire)
          BY <2>3, <3>3
        <4>3. QED
          BY <4>1, <4>2
      <3>4. QED
        BY <3>1, <3>2, <3>3
    <2>5. UNCHANGED <<msg, rawMode>>
      BY <1>1 DEF Send, threadVars
    <2>6. (RawSeen => announced' /\ \A i \in 1..Len(wire') : wire'[i].msg.type # "config")
      BY <2>1, <2>2, <2>4 DEF OrderHolds
    <2>7. ASSUME NEW i \in 1..Len(wire'), wire'[i].msg.type = "raw", NEW j \in i..Len(wire')
          PROVE  announced' /\ wire'[j].msg.type # "config"
      <3>1. j \in 1..Len(wire')
        BY <1>a, <2>3
      <3>2. announced
        BY <2>2, <2>4, <2>7 DEF OrderHolds
      <3>3. CASE j \in 1..Len(wire) /\ wire'[j].msg = wire[j].msg
        <4>1. i \in 1..Len(wire) /\ j \in i..Len(wire)
          BY <1>a, <2>3, <3>3
        <4>2. wire[i].msg.type = "raw"
          BY <2>7, <2>3, <4>1
        <4>3. wire[j].msg.type # "config"
          BY <4>1, <4>2 DEF OrderHolds
        <4>4. QED
          BY <2>1, <3>2, <3>3, <4>3
      <3>4. CASE wire'[j].msg = m
        BY <2>1, <2>2, <3>2, <3>4
      <3>5. QED
        BY <2>4, <3>1, <3>3, <3>4
    <2>8. \A i \in 1..Len(wire') : wire'[i].msg.type = "raw" => announced'
      BY <2>1, <2>2, <2>4 DEF OrderHolds
    <2>9. QED
      BY <2>5, <2>6, <2>7, <2>8 DEF OrderHolds, RawSeen
  <1>2. CASE LinkBreaks \/ StopServer
    <2>1. LoseLink \/ UNCHANGED wire
      BY <1>2 DEF LinkBreaks, StopServer
    <2>2. UNCHANGED <<announced, msg, rawMode>>
      BY <1>2 DEF LinkBreaks, StopServer, threadVars
    <2>3. CASE LoseLink
      <3>1. /\ Len(wire') \in 0..Len(wire)
            /\ \A i \in 1..Len(wire') : i \in 1..Len(wire) /\ wire'[i] = wire[i]
        BY <1>a, <2>3, CutOfWire
      <3>2. \A i \in 1..Len(wire') : \A j \in i..Len(wire') : j \in 1..Len(wire') /\ j \in i..Len(wire)
        BY <1>a, <3>1
      <3>3. QED
        BY <2>2, <3>1, <3>2 DEF OrderHolds, RawSeen
    <2>4. QED
      BY <1>b, <2>1, <2>2, <2>3
  <1>3. CASE RecvHeader \/ Sink \/ RecvPayload
    <2>1. /\ wire # <<>> /\ wire' = Tail(wire) /\ UNCHANGED <<announced, rawMode>>
          /\ msg' = msg \/ msg' = Head(wire).msg
      BY <1>3 DEF RecvHeader, Sink, RecvPayload, Others
    <2>2. /\ Head(wire) = wire[1] /\ 1 \in 1..Len(wire)
          /\ Len(wire') = Len(wire) - 1
          /\ \A i \in 1..Len(wire') : i + 1 \in 1..Len(wire) /\ wire'[i] = wire[i + 1]
      BY <1>a, <2>1, TailOfWire
    <2>3. RawSeen' => announced' /\ \A i \in 1..Len(wire') : wire'[i].msg.type # "config"
      <3>1. CASE RawSeen
        BY <2>1, <2>2, <3>1 DEF OrderHolds
      <3>2. CASE wire[1].msg.type = "raw"
        BY <2>1, <2>2, <3>2 DEF OrderHolds
      <3>3. QED
        BY <2>1, <2>2, <3>1, <3>2 DEF RawSeen
    <2>4. rawMode' => msg'.type # "config"
      BY <2>1, <2>2 DEF OrderHolds, RawSeen
    <2>5. ASSUME NEW i \in 1..Len(wire'), wire'[i].msg.type = "raw", NEW j \in i..Len(wire')
          PROVE  announced' /\ wire'[j].msg.type # "config"
      <3>1. j \in 1..Len(wire') /\ j + 1 \in (i + 1)..Len(wire)
        BY <1>a, <2>2
      <3>2. QED
        BY <2>1, <2>2, <2>5, <3>1 DEF OrderHolds
    <2>6. \A i \in 1..Len(wire') : wire'[i].msg.type = "raw" => announced'
      BY <2>1, <2>2 DEF OrderHolds
    <2>7. QED
      BY <2>3, <2>4, <2>5, <2>6 DEF OrderHolds
  <1>4. CASE BeginPost
    <2>1. UNCHANGED <<wire, announced, msg>> /\ (rawMode' = rawMode \/ video = "raw")
      BY <1>4 DEF BeginPost, Others
    <2>2. video = "raw" => msg.type = "raw"
      BY DEF MsgHolds
    <2>3. QED
      BY <2>1, <2>2 DEF OrderHolds, RawSeen
  <1>5. VideoThread => UNCHANGED msg \/ RecvHeader
    BY DEF VideoThread, Sink, RecvPayload, ThreadEnds, BeginPost, PostWidth, PostHeight,
      PostFlag, ReserveRgba, CopyRgba, SetParams, SetParamsCrashes, threadVars, BeginDecode,
      Decode, CopyYuv
  <1>6. QED
    BY <1>b, <1>1, <1>2, <1>3, <1>4, <1>5, WhoChanges DEF WireChanges, wireVars

-----------------------------------------------------------------------------
\* What is posted, and the buffer of the raw pictures.

\* After the first raw picture was posted, nothing is posted any more.
LEMMA NothingMorePosted ==
    ASSUME MsgHolds, OrderHolds, [Next]_vars, rawMode, video \notin Posting
    PROVE  rawMode' /\ video' \notin Posting
  <1>1. rawMode'
    BY WhoChanges DEF BeginPost
  <1>2. CASE BeginPost
    BY <1>2 DEF BeginPost, MsgHolds, OrderHolds, Posting
  <1>3. CASE RecvPayload
    <2>1. msg \in Message
      BY <1>3 DEF RecvPayload, MsgHolds, Receiving
    <2>2. QED
      BY <1>1, <1>3, <2>1 DEF RecvPayload, Message, Posting
  <1>4. VideoThread =>
          BeginPost \/ RecvPayload \/ UNCHANGED video \/ video \in Posting \/ video' \notin Posting
    BY DEF VideoThread, RecvHeader, Sink, ThreadEnds, PostWidth, PostHeight, PostFlag, Posting,
      ReserveRgba, CopyRgba, SetParams, SetParamsCrashes, threadVars, BeginDecode, Decode, CopyYuv
  <1>5. QED
    BY <1>1, <1>2, <1>3, <1>4, WhoChanges

LEMMA PendStep ==
    ASSUME TypeOK, MsgHolds, OrderHolds, PendHolds, [Next]_vars
    PROVE  PendHolds'
  <1>a. pend \in [w : Nat, h : Nat, flag : BOOLEAN]
    BY DEF TypeOK, SharedTypes
  <1>b. ASSUME UNCHANGED <<video, msg, rawMode, pend>> PROVE PendHolds'
    BY <1>b DEF PendHolds
  <1> USE DEF Posting
  <1>1. CASE BeginPost
    BY <1>1 DEF BeginPost, MsgHolds, PendHolds, Handling
  <1>2. CASE PostWidth
    <2>1. pend' = [pend EXCEPT !.w = msg.size[1]] /\ video = "postW" /\ video' = "postH"
          /\ UNCHANGED <<msg, rawMode>>
      BY <1>2 DEF PostWidth
    <2>2. pend'.w = msg.size[1]
      BY <1>a, <2>1
    <2>3. QED
      BY <2>1, <2>2 DEF PendHolds
  <1>3. CASE PostHeight
    <2>1. pend' = [pend EXCEPT !.h = msg.size[2]] /\ video = "postH" /\ video' = "postFlag"
          /\ UNCHANGED <<msg, rawMode>>
      BY <1>3 DEF PostHeight
    <2>2. pend'.w = pend.w /\ pend'.h = msg.size[2]
      BY <1>a, <2>1
    <2>3. QED
      BY <2>1, <2>2 DEF PendHolds
  <1>4. CASE PostFlag
    <2>1. /\ pend' = [pend EXCEPT !.flag = TRUE] /\ video = "postFlag"
          /\ video' = (IF msg.type = "raw" THEN "reserve" ELSE "header")
          /\ UNCHANGED <<msg, rawMode>>
      BY <1>4 DEF PostFlag
    <2>2. pend'.w = msg.size[1] /\ pend'.h = msg.size[2]
      BY <1>a, <2>1 DEF PendHolds
    <2>3. msg \in Message /\ msg.type \in {"config", "raw"} /\ RawSized(msg)
      BY <2>1 DEF MsgHolds, Handling
    <2>4. msg.type = "raw" => rawMode /\ video' = "reserve"
      BY <2>1 DEF PendHolds
    <2>5. rawMode => msg.type = "raw"
      BY <2>3 DEF OrderHolds
    <2>6. msg.type = "raw" => <<pend'.w, pend'.h>> \in Sizes
      <3>1. SUFFICES ASSUME msg.type = "raw" PROVE <<pend'.w, pend'.h>> \in Sizes
        OBVIOUS
      <3>2. msg.size \in Sizes
        BY <2>3, <3>1 DEF RawSized
      <3>3. msg.size \in Nat \X Nat
        BY <2>3, AreaIsNat DEF Message, AnySize
      <3>4. msg.size = <<msg.size[1], msg.size[2]>>
        BY <3>3
      <3>5. QED
        BY <2>2, <3>2, <3>4
    <2>7. QED
      BY <2>1, <2>4, <2>5, <2>6 DEF PendHolds
  <1>5. CASE ClearPending
    <2>1. pend' = [pend EXCEPT !.flag = FALSE] /\ UNCHANGED <<video, msg, rawMode>>
      BY <1>5 DEF ClearPending, threadVars
    <2>2. pend'.w = pend.w /\ pend'.h = pend.h
      BY <1>a, <2>1
    <2>3. QED
      BY <2>1, <2>2 DEF PendHolds
  <1>6. CASE RecvPayload
    <2>1. msg \in Message
      BY <1>6 DEF RecvPayload, MsgHolds, Receiving
    <2>2. QED
      BY <1>6, <2>1 DEF RecvPayload, Message, PendHolds
  <1>7. CASE ReserveRgba \/ CopyRgba
    BY <1>7 DEF ReserveRgba, CopyRgba, PendHolds
  <1>8. CASE RecvHeader \/ Sink \/ ThreadEnds \/ SetParams \/ BeginDecode \/ Decode \/ CopyYuv
    BY <1>8 DEF RecvHeader, Sink, ThreadEnds, SetParams, BeginDecode, Decode, CopyYuv, PendHolds
  <1>9. SetParamsCrashes => UNCHANGED <<video, msg, rawMode, pend>>
    BY DEF SetParamsCrashes, threadVars
  <1>10. VideoThread \/ ClearPending \/ UNCHANGED <<video, msg, rawMode, pend>>
    BY WhoChanges DEF PendChanges, VideoThread
  <1>11. QED
    BY <1>b, <1>1, <1>2, <1>3, <1>4, <1>5, <1>6, <1>7, <1>8, <1>9, <1>10 DEF VideoThread

LEMMA BufferStep ==
    ASSUME TypeOK, MsgHolds, OrderHolds, PendHolds, BufferHolds, [Next]_vars
    PROVE  BufferHolds'
  <1>a. rgba \in [len : 0..MaxFrame, size : AnySize, pic : 0..MaxMessages, of : AnySize]
    BY DEF TypeOK, SharedTypes
  <1>1. CASE ReserveRgba
    <2>1. /\ msg.type = "raw" /\ msg.size \in Sizes /\ rawMode
          /\ UNCHANGED <<msg, rawMode>>
      BY <1>1 DEF ReserveRgba, MsgHolds, RawSized, PendHolds
    <2>2. video' \in {"copyRgba", "header"}
      BY <1>1 DEF ReserveRgba
    <2>3. CASE rgba.len > 0 /\ Area(rgba.size) = Area(msg.size)
      <3>1. rgba' = [rgba EXCEPT !.pic = 0]
        BY <1>1, <2>3 DEF ReserveRgba
      <3>2. rgba'.len = rgba.len /\ rgba'.size = rgba.size /\ rgba'.pic = 0
        BY <1>a, <3>1
      <3>3. QED
        BY <2>1, <2>2, <2>3, <3>2 DEF BufferHolds, Posting
    <2>4. CASE ~ (rgba.len > 0 /\ Area(rgba.size) = Area(msg.size))
      <3>1. PICK got \in BOOLEAN :
              rgba' = [len |-> IF got THEN Area(msg.size) ELSE 0,
                       size |-> msg.size, pic |-> 0, of |-> Unknown]
        BY <1>1, <2>4 DEF ReserveRgba
      <3>2. /\ rgba'.len = (IF got THEN Area(msg.size) ELSE 0)
            /\ rgba'.size = msg.size /\ rgba'.pic = 0
        BY <3>1
      <3>3. QED
        BY <2>1, <2>2, <3>2 DEF BufferHolds, Posting
    <2>5. QED
      BY <2>3, <2>4
  <1>2. CASE CopyRgba
    <2>1. /\ rgba' = [rgba EXCEPT !.pic = msg.id, !.of = msg.size]
          /\ video = "copyRgba" /\ video' = "header" /\ UNCHANGED <<msg, rawMode>>
      BY <1>2 DEF CopyRgba
    <2>2. rgba'.len = rgba.len /\ rgba'.size = rgba.size /\ rgba'.of = msg.size
      BY <1>a, <2>1
    <2>3. QED
      BY <2>1, <2>2 DEF BufferHolds, Posting
  <1>3. CASE FreeBuffers
    <2>1. rgba'.len = 0
      BY <1>a, <1>3 DEF FreeBuffers
    <2>2. QED
      BY <2>1 DEF BufferHolds
  <1>4. CASE UNCHANGED rgba /\ rgba.len > 0
    <2>1. rawMode' /\ video' \notin Posting
      BY <1>4, NothingMorePosted DEF BufferHolds
    <2>2. video' = "copyRgba" => UNCHANGED <<video, msg>> \/ ReserveRgba
      <3>1. CASE RecvPayload
        <4>1. msg \in Message
          BY <3>1 DEF RecvPayload, MsgHolds, Receiving
        <4>2. QED
          BY <3>1, <4>1 DEF RecvPayload, Message
      <3>2. VideoThread => \/ UNCHANGED <<video, msg>> \/ ReserveRgba \/ RecvPayload
                           \/ video' # "copyRgba"
        BY DEF VideoThread, RecvHeader, Sink, ThreadEnds, BeginPost, PostWidth, PostHeight,
          PostFlag, CopyRgba, SetParams, SetParamsCrashes, threadVars, BeginDecode, Decode,
          CopyYuv
      <3>3. QED
        BY <3>1, <3>2, WhoChanges
    <2>3. QED
      BY <1>1, <1>4, <2>1, <2>2 DEF BufferHolds
  <1>5. CASE UNCHANGED rgba /\ ~ (rgba.len > 0)
    BY <1>5 DEF BufferHolds
  <1>6. QED
    BY <1>1, <1>2, <1>3, <1>4, <1>5, WhoChanges DEF RgbaChanges

LEMMA DrawnStep ==
    ASSUME TypeOK, MsgHolds, OrderHolds, PendHolds, BufferHolds, DrawnHolds, [Next]_vars
    PROVE  DrawnHolds'
  <1>1. CASE DrawRgba
    <2>1. UNCHANGED <<rawMode, video>> /\ main' = "top"
      BY <1>1 DEF DrawRgba, threadVars
    <2>2. CASE (rgbaReady \/ redraw) /\ rgba.len > 0
      <3>1. (drawnRaw /\ videoSize' = videoSize) \/ videoSize' = rgba.size
        BY <1>1, <2>2 DEF DrawRgba, UpdateVideoSize
      <3>2. rawMode /\ video \notin Posting /\ rgba.size \in Sizes
        BY <2>2 DEF BufferHolds
      <3>3. QED
        BY <2>1, <3>1, <3>2 DEF DrawnHolds
    <2>3. CASE ~ ((rgbaReady \/ redraw) /\ rgba.len > 0)
      <3>1. UNCHANGED <<drawnRaw, videoSize>>
        BY <1>1, <2>3 DEF DrawRgba
      <3>2. QED
        BY <2>1, <3>1 DEF DrawnHolds
    <2>4. QED
      BY <2>2, <2>3
  <1>2. CASE ~ DrawRgba /\ drawnRaw' /\ ~drawnRaw
    BY <1>2, WhoChanges DEF MainChanges, MainThread, SetParamsCrashes, ResizeWindow, Top,
      HandleEvents, CheckPending, ApplyPending, ClearPending, DrawYuv, FreeBuffers, StopServer,
      DestroyDecoder, Disconnect, Join, renderer
  <1>3. CASE ~ DrawRgba /\ drawnRaw
    <2>1. rawMode' /\ video' \notin Posting
      BY <1>3, NothingMorePosted DEF DrawnHolds
    <2>2. videoSize' \in Sizes
      <3>1. CASE ApplyPending
        <4>1. videoSize' = <<width, pend.h>> /\ main = "apply"
          BY <3>1 DEF ApplyPending, UpdateVideoSize
        <4>2. QED
          BY <1>3, <4>1 DEF DrawnHolds, PendHolds
      <3>2. ApplyPending \/ UNCHANGED videoSize
        BY <1>3, WhoChanges DEF MainChanges, MainThread, SetParamsCrashes, ResizeWindow, Top,
          HandleEvents, CheckPending, ClearPending, DrawYuv, FreeBuffers, StopServer,
          DestroyDecoder, Disconnect, Join, renderer
      <3>3. QED
        BY <1>3, <3>1, <3>2 DEF DrawnHolds
    <2>3. main' = "apply" => width' = pend'.w
      <3>1. CASE CheckPending
        BY <3>1 DEF CheckPending
      <3>2. ~CheckPending /\ main' = "apply" => UNCHANGED <<main, width>>
        BY <1>3, WhoChanges DEF MainChanges, MainThread, SetParamsCrashes, ResizeWindow, Top,
          HandleEvents, ApplyPending, ClearPending, DrawYuv, FreeBuffers, StopServer,
          DestroyDecoder, Disconnect, Join, renderer
      <3>3. ~CheckPending /\ main' = "apply" => UNCHANGED pend
        BY <1>3, <3>2, WhoChanges
        DEF DrawnHolds, PendChanges, PostWidth, PostHeight, PostFlag, ClearPending, Posting
      <3>4. QED
        BY <1>3, <3>1, <3>2, <3>3 DEF DrawnHolds
    <2>4. QED
      BY <2>1, <2>2, <2>3 DEF DrawnHolds
  <1>4. QED
    BY <1>1, <1>2, <1>3 DEF DrawnHolds

LEMMA PicturesStep ==
    ASSUME TypeOK, MsgHolds, PicturesHold, [Next]_vars
    PROVE  PicturesHold'
  <1>a. /\ rgba \in [len : 0..MaxFrame, size : AnySize, pic : 0..MaxMessages, of : AnySize]
        /\ yuv \in [have : BOOLEAN, pic : 0..MaxMessages]
    BY DEF TypeOK, SharedTypes
  <1>b. video \in {"copyRgba", "copyYuv"} => msg.id \in Nat /\ msg.id > 0
    BY ConstantsAssumption DEF MsgHolds, Handling, Message
  <1>1. rgba'.len > 0 /\ video' # "copyRgba" => rgba'.pic > 0
    <2>1. CASE ReserveRgba
      <3>1. CASE video' = "copyRgba"
        BY <3>1
      <3>2. CASE video' # "copyRgba"
        <4>1. rgba' = [len |-> 0, size |-> msg.size, pic |-> 0, of |-> Unknown]
          BY <2>1, <3>2 DEF ReserveRgba
        <4>2. rgba'.len = 0
          BY <4>1
        <4>3. QED
          BY <4>2
      <3>3. QED
        BY <3>1, <3>2
    <2>2. CASE CopyRgba
      <3>1. rgba'.pic = msg.id
        BY <1>a, <2>2 DEF CopyRgba
      <3>2. QED
        BY <1>b, <2>2, <3>1 DEF CopyRgba
    <2>3. CASE FreeBuffers
      <3>1. rgba'.len = 0
        BY <1>a, <2>3 DEF FreeBuffers
      <3>2. QED
        BY <3>1
    <2>4. CASE UNCHANGED rgba /\ ~CopyRgba
      <3>1. video = "copyRgba" => video' = "copyRgba"
        BY <2>4, WhoChanges DEF VideoThread, RecvHeader, Sink, RecvPayload, ThreadEnds, BeginPost,
          PostWidth, PostHeight, PostFlag, ReserveRgba, SetParams, SetParamsCrashes, threadVars,
          BeginDecode, Decode, CopyYuv
      <3>2. QED
        BY <2>4, <3>1 DEF PicturesHold
    <2>5. QED
      BY <2>1, <2>2, <2>3, <2>4, WhoChanges DEF RgbaChanges
  <1>2. yuv'.have /\ video' # "copyYuv" => yuv'.pic > 0
    <2>1. CASE Decode /\ video' = "copyYuv"
      BY <2>1
    <2>2. CASE CopyYuv
      <3>1. yuv'.pic = msg.id
        BY <1>a, <2>2 DEF CopyYuv
      <3>2. QED
        BY <1>b, <2>2, <3>1 DEF CopyYuv
    <2>3. CASE FreeBuffers
      BY <2>3 DEF FreeBuffers
    <2>4. CASE UNCHANGED yuv /\ ~CopyYuv
      <3>1. video = "copyYuv" => video' = "copyYuv"
        BY <2>4, WhoChanges DEF VideoThread, RecvHeader, Sink, RecvPayload, ThreadEnds, BeginPost,
          PostWidth, PostHeight, PostFlag, ReserveRgba, CopyRgba, SetParams, SetParamsCrashes,
          threadVars, BeginDecode, Decode
      <3>2. QED
        BY <2>4, <3>1 DEF PicturesHold
    <2>5. Decode => video' = "copyYuv" \/ UNCHANGED yuv
      BY DEF Decode
    <2>6. QED
      BY <2>1, <2>2, <2>3, <2>4, <2>5, WhoChanges DEF YuvChanges
  <1>3. QED
    BY <1>1, <1>2 DEF PicturesHold

-----------------------------------------------------------------------------
\* Headers and payloads.

LEMMA PartsStep ==
    ASSUME TypeOK, MsgHolds, PartsAlternate, [Next]_vars
    PROVE  PartsAlternate'
  <1>a. wire \in Seq(Parts) /\ Len(wire) \in Nat /\ link \in {"up", "down"}
    BY DEF TypeOK, WireTypes, Parts
  <1>b. ASSUME UNCHANGED <<wire, link, video>> PROVE PartsAlternate'
    BY <1>b DEF PartsAlternate
  <1>1. CASE Send
    <2>1. PICK m \in NextMessages :
            wire' = wire \o <<[part |-> "header", msg |-> m], [part |-> "payload", msg |-> m]>>
      BY <1>1 DEF Send
    <2>2. m \in Message
      BY DEF NextMessages
    <2>3. /\ Len(wire) \in Nat /\ Len(wire') = Len(wire) + 2
          /\ \A i \in 1..Len(wire) : wire'[i] = wire[i]
          /\ wire'[Len(wire) + 1].part = "header"
          /\ wire'[Len(wire) + 2].part = "payload"
      BY <1>a, <2>1, <2>2, MessageOnWire
    <2>4. link = "up" /\ UNCHANGED <<link, video>>
      BY <1>1 DEF Send, threadVars
    <2>5. wire = <<>> <=> Len(wire) = 0
      BY <1>a
    <2>6. wire # <<>> => wire[Len(wire)].part = "payload"
      BY <2>4 DEF PartsAlternate
    <2>7. ASSUME NEW i \in 1..Len(wire'), NEW j \in 1..Len(wire'), j = i + 1
          PROVE  wire'[i].part # wire'[j].part
      <3>1. CASE i = Len(wire) + 1
        BY <2>3, <2>7, <3>1
      <3>2. CASE i = Len(wire)
        BY <2>3, <2>5, <2>6, <2>7, <3>2
      <3>3. CASE i < Len(wire)
        <4>1. i \in 1..Len(wire) /\ j \in 1..Len(wire)
          BY <2>3, <2>7, <3>3
        <4>2. wire[i].part # wire[j].part
          BY <2>7, <4>1 DEF PartsAlternate
        <4>3. QED
          BY <2>3, <4>1, <4>2
      <3>4. QED
        BY <2>3, <2>7, <3>1, <3>2, <3>3
    <2>8. video # "ended" => wire'[1].part = (IF video \in Receiving THEN "payload" ELSE "header")
      <3>1. CASE wire = <<>>
        BY <2>3, <2>4, <2>5, <3>1 DEF PartsAlternate
      <3>2. CASE wire # <<>>
        <4>1. 1 \in 1..Len(wire)
          BY <2>3, <2>5, <3>2
        <4>2. QED
          BY <2>3, <3>2, <4>1 DEF PartsAlternate
      <3>3. QED
        BY <3>1, <3>2
    <2>9. wire' # <<>>
      BY <1>a, <2>1, <2>3
    <2>10. wire'[Len(wire')].part = "payload"
      BY <2>3
    <2>11. QED
      BY <2>4, <2>7, <2>8, <2>9, <2>10 DEF PartsAlternate
  <1>2. CASE LinkBreaks \/ StopServer
    <2>1. LoseLink \/ UNCHANGED <<wire, link>>
      BY <1>2 DEF LinkBreaks, StopServer
    <2>2. UNCHANGED video
      BY <1>2 DEF LinkBreaks, StopServer, threadVars
    <2>3. CASE LoseLink
      <3>1. /\ link' = "down"
            /\ wire' \in Seq(Parts)
            /\ \A i \in 1..Len(wire') : i \in 1..Len(wire) /\ wire'[i] = wire[i]
        BY <1>a, <2>3, CutOfWire
      <3>2. wire' # <<>> => 1 \in 1..Len(wire')
        BY <3>1
      <3>3. wire' # <<>> => wire # <<>> /\ wire'[1] = wire[1]
        BY <1>a, <3>1, <3>2
      <3>4. QED
        BY <2>2, <3>1, <3>3 DEF PartsAlternate
    <2>4. QED
      BY <1>b, <2>1, <2>2, <2>3
  <1>3. CASE RecvHeader \/ Sink \/ RecvPayload
    <2>1. wire # <<>> /\ wire' = Tail(wire) /\ UNCHANGED link
      BY <1>3 DEF RecvHeader, Sink, RecvPayload, Others
    <2>2. /\ wire[1] \in Parts /\ 1 \in 1..Len(wire)
          /\ wire' \in Seq(Parts)
          /\ Len(wire) \in Nat \ {0} /\ Len(wire') = Len(wire) - 1
          /\ \A i \in 1..Len(wire') : i + 1 \in 1..Len(wire) /\ wire'[i] = wire[i + 1]
      BY <1>a, <2>1, TailOfWire
    <2>3. \/ wire[1].part = "header" /\ video' \in Receiving
          \/ wire[1].part = "payload" /\ video' \notin Receiving
      <3>1. CASE RecvHeader
        BY <2>1, <3>1 DEF RecvHeader, PartsAlternate, Receiving
      <3>2. CASE Sink
        BY <2>1, <3>2 DEF Sink, PartsAlternate, Receiving
      <3>3. CASE RecvPayload
        <4>1. msg \in Message
          BY <3>3 DEF RecvPayload, MsgHolds, Receiving
        <4>2. QED
          BY <2>1, <3>3, <4>1 DEF RecvPayload, Message, PartsAlternate, Receiving
      <3>4. QED
        BY <1>3, <3>1, <3>2, <3>3
    <2>4. ASSUME NEW i \in 1..Len(wire'), NEW j \in 1..Len(wire'), j = i + 1
          PROVE  wire'[i].part # wire'[j].part
      <3>1. /\ i + 1 \in 1..Len(wire) /\ j + 1 \in 1..Len(wire) /\ j + 1 = (i + 1) + 1
            /\ wire'[i] = wire[i + 1] /\ wire'[j] = wire[j + 1]
        BY <2>2, <2>4
      <3>2. QED
        BY <3>1 DEF PartsAlternate
    <2>5. wire' # <<>> => wire'[1].part = (IF video' \in Receiving THEN "payload" ELSE "header")
      <3>1. SUFFICES ASSUME wire' # <<>>
                     PROVE  wire'[1].part = (IF video' \in Receiving THEN "payload" ELSE "header")
        OBVIOUS
      <3>2. 1 \in 1..Len(wire') /\ 2 \in 1..Len(wire) /\ wire'[1] = wire[2]
        BY <2>2, <3>1
      <3>3. wire[1].part # wire[2].part
        BY <2>2, <3>2 DEF PartsAlternate
      <3>4. wire[2] \in Parts
        BY <1>a, <3>2
      <3>5. QED
        BY <2>2, <2>3, <3>2, <3>3, <3>4 DEF Parts
    <2>6. wire' # <<>> /\ link' = "up" => wire'[Len(wire')].part = "payload"
      <3>1. SUFFICES ASSUME wire' # <<>>, link' = "up"
                     PROVE  wire'[Len(wire')].part = "payload"
        OBVIOUS
      <3>2. Len(wire') \in 1..Len(wire') /\ Len(wire') + 1 = Len(wire)
        BY <2>2, <3>1
      <3>3. wire'[Len(wire')] = wire[Len(wire)]
        BY <2>2, <3>2
      <3>4. QED
        BY <2>1, <3>1, <3>3 DEF PartsAlternate
    <2>7. wire' = <<>> /\ link' = "up" => video' \notin Receiving
      <3>1. SUFFICES ASSUME wire' = <<>>, link' = "up" PROVE video' \notin Receiving
        OBVIOUS
      <3>2. Len(wire) = 1
        BY <2>2, <3>1
      <3>3. wire[1].part = "payload"
        BY <2>1, <3>1, <3>2 DEF PartsAlternate
      <3>4. QED
        BY <2>3, <3>3
    <2>8. QED
      BY <2>4, <2>5, <2>6, <2>7 DEF PartsAlternate
  <1>4. CASE ThreadEnds
    BY <1>4 DEF ThreadEnds, Others, PartsAlternate, Receiving
  <1>5. ASSUME UNCHANGED <<wire, link>>, video # "ended",
               video \notin Receiving, video' \notin Receiving
        PROVE  PartsAlternate'
    BY <1>5 DEF PartsAlternate
  <1>6. CASE BeginPost \/ PostWidth \/ PostHeight \/ PostFlag \/ ReserveRgba \/ CopyRgba
    <2>1. /\ UNCHANGED <<wire, link>> /\ video # "ended"
          /\ video \notin Receiving /\ video' \notin Receiving
      BY <1>6 DEF BeginPost, PostWidth, PostHeight, PostFlag, ReserveRgba, CopyRgba, Others,
        Receiving
    <2>2. QED
      BY <1>5, <2>1
  <1>7. CASE SetParams \/ BeginDecode \/ Decode \/ CopyYuv
    <2>1. /\ UNCHANGED <<wire, link>> /\ video # "ended"
          /\ video \notin Receiving /\ video' \notin Receiving
      BY <1>7 DEF SetParams, BeginDecode, Decode, CopyYuv, Others, Receiving
    <2>2. QED
      BY <1>5, <2>1
  <1>8. SetParamsCrashes => UNCHANGED <<wire, link, video>>
    BY DEF SetParamsCrashes, wireVars, threadVars
  <1>9. UNCHANGED <<wire, link, video>> \/ VideoThread \/ Send \/ LinkBreaks \/ StopServer
    BY WhoChanges DEF WireChanges, VideoThread, wireVars
  <1>10. QED
    BY <1>b, <1>1, <1>2, <1>3, <1>4, <1>6, <1>7, <1>8, <1>9 DEF VideoThread

-----------------------------------------------------------------------------
\* The theorems.

LEMMA InitHolds == Init => IInv
  <1> SUFFICES ASSUME Init PROVE IInv
    OBVIOUS
  <1>1. WireTypes
    <2>1. 0 \in 0..MaxMessages
      BY ConstantsAssumption
    <2>2. wire \in Seq(Parts)
      BY DEF Init
    <2>3. QED
      BY <2>1, <2>2 DEF Init, WireTypes, Parts
  <1>2. ThreadTypes
    <2>1. FirstCap \in FirstCap..MaxFrame
      BY ConstantsAssumption
    <2>2. QED
      BY <2>1 DEF Init, ThreadTypes
  <1>3. SharedTypes
    <2>1. 0 \in 0..MaxFrame /\ 0 \in 0..MaxMessages /\ Unknown \in AnySize
      BY ConstantsAssumption DEF AnySize
    <2>2. QED
      BY <2>1 DEF Init, SharedTypes
  <1>4. MainTypes
    <2>1. 0 \in 0..MaxMessages /\ 0 \in 0..MaxResizes
      BY ConstantsAssumption
    <2>2. QED
      BY <2>1 DEF Init, MainTypes, Unknown
  <1>5. wire = <<>> /\ Len(wire) = 0
    BY DEF Init
  <1>6. MsgHolds /\ OrderHolds
    BY <1>5 DEF Init, MsgHolds, OrderHolds, RawSeen, RawSized, Handling, Receiving, Posting, None
  <1>7. PendHolds /\ BufferHolds /\ DrawnHolds /\ PicturesHold
    BY DEF Init, PendHolds, BufferHolds, DrawnHolds, PicturesHold, Posting
  <1>8. PartsAlternate
    BY <1>5 DEF Init, PartsAlternate, Receiving
  <1>9. QED
    BY <1>1, <1>2, <1>3, <1>4, <1>6, <1>7, <1>8 DEF IInv, TypeOK

THEOREM InvariantHolds == Spec => []IInv
  <1>1. IInv /\ [Next]_vars => IInv'
    BY TypeStep, MsgStep, OrderStep, PendStep, BufferStep, DrawnStep, PicturesStep, PartsStep
    DEF IInv
  <1>2. QED
    BY InitHolds, <1>1, PTL DEF Spec

\* The types are kept by every interleaving of the video thread, the main loop
\* and the cleanup; in particular the receive buffer stays within
\* MAX_VIDEO_FRAME_SIZE (video_thread_func).
THEOREM TypeCorrect == Spec => []TypeOK
  <1>1. IInv => TypeOK
    BY DEF IInv
  <1>2. QED
    BY <1>1, InvariantHolds, PTL

\* The thread never takes a payload for a header, wherever the link breaks
\* (video_thread_func).
THEOREM StaysInStep == Spec => []InStep
  <1>1. IInv => InStep
    <2> SUFFICES ASSUME IInv, wire # <<>>, video # "ended"
                 PROVE  Head(wire).part = (IF video \in {"payload", "sink"} THEN "payload"
                                                                             ELSE "header")
      BY DEF InStep
    <2>1. wire \in Seq(Parts)
      BY DEF IInv, TypeOK, WireTypes, Parts
    <2>2. Head(wire) = wire[1]
      BY <2>1, TailOfWire
    <2>3. QED
      BY <2>2 DEF IInv, PartsAlternate, Receiving
  <1>2. QED
    BY <1>1, InvariantHolds, PTL

\* The raw buffer is as long as the size it is read with, and so is the picture
\* in it, for all sizes a device may send (on_video_frame).
THEOREM BufferAlwaysFits == Spec => []BufferFits
  <1>1. IInv => BufferFits
    BY DEF IInv, BufferHolds, BufferFits
  <1>2. QED
    BY <1>1, InvariantHolds, PTL

\* Once a raw picture was drawn, the renderer's size is that of a raw picture,
\* although a posted size is read in two steps (main loop, on_video_frame).
THEOREM DrawnSizeIsRaw == Spec => []DrawnSize
  <1>1. IInv => DrawnSize
    BY DEF IInv, DrawnHolds, DrawnSize
  <1>2. QED
    BY <1>1, InvariantHolds, PTL

\* What is drawn is never a picture that is being copied (the mutexes of
\* on_video_frame, on_decoded_frame and the main loop).
THEOREM DrawnWhole == Spec => WholePictures
  <1>1. IInv /\ [Next]_vars => [shown' # shown => shown' > 0]_vars
    <2> SUFFICES ASSUME IInv, [Next]_vars, shown' # shown PROVE shown' > 0
      BY DEF vars
    <2>1. CASE DrawRgba
      BY <2>1 DEF DrawRgba, IInv, PicturesHold
    <2>2. CASE DrawYuv
      BY <2>2 DEF DrawYuv, IInv, PicturesHold
    <2>3. DrawRgba \/ DrawYuv
      BY WhoChanges DEF MainChanges, MainThread, SetParamsCrashes, ResizeWindow, Top,
        HandleEvents, CheckPending, ApplyPending, ClearPending, FreeBuffers, StopServer,
        DestroyDecoder, Disconnect, Join, renderer
    <2>4. QED
      BY <2>1, <2>2, <2>3
  <1>2. QED
    BY <1>1, InvariantHolds, PTL DEF Spec, WholePictures
=============================================================================
