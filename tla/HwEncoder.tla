----------------------------- MODULE HwEncoder -----------------------------
(***************************************************************************)
(* The input side of the hardware encoder (video_encoder.c).               *)
(*                                                                         *)
(* The codec owns a few input buffers and lends them out one callback at a *)
(* time: on_need_input_data stores the buffer in the ONE slot of           *)
(* g_encoderCtx (inputIndex, inputData, inputReady).  The thread of the    *)
(* screen capture calls video_encoder_encode_frame for every frame, which  *)
(* copies the frame into the buffer of the slot and pushes the buffer back *)
(* to the codec.  There is no lock.                                        *)
(*                                                                         *)
(* The fields of the slot are plain memory.  The three stores of the       *)
(* callback reach the other thread in any order; encode_frame's accesses   *)
(* are its own steps.  Of a picture the model keeps whether the buffer     *)
(* holds the frame of the call that pushes it.  A frame that is dropped    *)
(* (encoder not running, or no buffer in the slot) changes nothing, and is *)
(* a stuttering step.                                                      *)
(***************************************************************************)
EXTENDS Naturals, FiniteSets

CONSTANTS
    Buffers,    \* the input buffers of the codec
    NoBuffer    \* inputData = NULL

ASSUME BuffersAssumption == NoBuffer \notin Buffers

Fields == {"index", "data", "ready"}

VARIABLES
    phase,      \* video_encoder_start and _stop; running is phase = "running"
    owner,      \* who holds a buffer: "codec", "lent" to us, "queued" for encoding
    contents,   \* what a buffer holds: "stale", "part" or the "whole" of a frame
    inputIndex, \* the slot
    inputData,
    inputReady,
    lending,    \* the buffer on_need_input_data is running for, or NoBuffer
    stores,     \* the stores of that callback that are still to be seen
    pc,         \* where encode_frame is
    dst,        \* its local variable dst
    raced       \* history: a callback came between the test of the slot and the push

slot == <<inputIndex, inputData, inputReady>>
callback == <<lending, stores>>
capture == <<pc, dst>>
vars == <<phase, owner, contents, slot, callback, capture, raced>>

\* Mutant of running: video_encoder_start does not set it.
neverRunning == FALSE

running == phase = "running"
CodecRuns == phase \in {"starting", "running", "stopping"}

\* memset(&g_encoderCtx, 0): index 0 is the index of some buffer.
Init ==
    /\ phase = "starting"
    /\ owner = [b \in Buffers |-> "codec"]
    /\ contents = [b \in Buffers |-> "stale"]
    /\ inputIndex \in Buffers
    /\ inputData = NoBuffer
    /\ inputReady = FALSE
    /\ lending = NoBuffer
    /\ stores = {}
    /\ pc = "idle"
    /\ dst = NoBuffer
    /\ raced = FALSE

-----------------------------------------------------------------------------
\* The main thread.

\* The end of video_encoder_start: OH_VideoEncoder_Start has returned, and may
\* have called back already.
Start ==
    /\ phase = "starting"
    /\ phase' = "running"
    /\ UNCHANGED <<owner, contents, slot, callback, capture, raced>>

\* video_encoder_stop: running is cleared, then the codec is stopped.
Stop ==
    /\ phase = "running"
    /\ phase' = "stopping"
    /\ UNCHANGED <<owner, contents, slot, callback, capture, raced>>

StopCodec ==
    /\ phase = "stopping"
    /\ phase' = "stopped"
    /\ UNCHANGED <<owner, contents, slot, callback, capture, raced>>

-----------------------------------------------------------------------------
\* The codec.

\* The codec has encoded a buffer, and has it free again.
Encode(b) ==
    /\ CodecRuns
    /\ owner[b] = "queued"
    /\ owner' = [owner EXCEPT ![b] = "codec"]
    /\ contents' = [contents EXCEPT ![b] = "stale"]
    /\ UNCHANGED <<phase, slot, callback, capture, raced>>

\* The codec lends a free buffer: the call of on_need_input_data.
Lend(b) ==
    /\ CodecRuns
    /\ lending = NoBuffer
    /\ owner[b] = "codec"
    /\ owner' = [owner EXCEPT ![b] = "lent"]
    /\ lending' = b
    /\ stores' = Fields
    /\ UNCHANGED <<phase, contents, slot, capture, raced>>

\* encode_frame relies on the slot from its test of it to the push.
ReliesOnSlot == pc \in {"address", "copy", "push"}

\* Mutant of Store: the callback is over when inputReady is set.
StoreUntilReady(field) ==
    /\ field \in stores
    /\ inputIndex' = IF field = "index" THEN lending ELSE inputIndex
    /\ inputData' = IF field = "data" THEN lending ELSE inputData
    /\ inputReady' = IF field = "ready" THEN TRUE ELSE inputReady
    /\ stores' = stores \ {field}
    /\ lending' = IF "ready" \notin stores' THEN NoBuffer ELSE lending
    /\ raced' = (raced \/ ReliesOnSlot)
    /\ UNCHANGED <<phase, owner, contents, capture>>

\* One of the three stores of on_need_input_data; the callback returns when all
\* of them have been made.
Store(field) ==
    /\ field \in stores
    /\ inputIndex' = IF field = "index" THEN lending ELSE inputIndex
    /\ inputData' = IF field = "data" THEN lending ELSE inputData
    /\ inputReady' = IF field = "ready" THEN TRUE ELSE inputReady
    /\ stores' = stores \ {field}
    /\ lending' = IF stores' = {} THEN NoBuffer ELSE lending
    /\ raced' = (raced \/ ReliesOnSlot)
    /\ UNCHANGED <<phase, owner, contents, capture>>

-----------------------------------------------------------------------------
\* The capture thread: video_encoder_encode_frame.

HalfStored == stores # {} /\ stores # Fields

\* Mutant of TestSlot: only inputData is tested.
TestDataOnly ==
    /\ pc = "idle"
    /\ running
    /\ inputData # NoBuffer
    /\ pc' = "address"
    /\ raced' = (raced \/ HalfStored)
    /\ UNCHANGED <<phase, owner, contents, slot, callback, dst>>

\* A frame comes, and the slot looks full.
TestSlot ==
    /\ pc = "idle"
    /\ running
    /\ inputReady
    /\ inputData # NoBuffer
    /\ pc' = "address"
    /\ raced' = (raced \/ HalfStored)
    /\ UNCHANGED <<phase, owner, contents, slot, callback, dst>>

\* OH_AVMemory_GetAddr: the copy begins.
GetAddr ==
    /\ pc = "address"
    /\ dst' = inputData
    /\ contents' = [contents EXCEPT ![inputData] = "part"]
    /\ pc' = "copy"
    /\ UNCHANGED <<phase, owner, slot, callback, raced>>

\* OH_AVMemory_GetAddr returns NULL.
GetAddrFails ==
    /\ pc = "address"
    /\ inputReady' = FALSE
    /\ pc' = "idle"
    /\ UNCHANGED <<phase, owner, contents, inputIndex, inputData, callback, dst, raced>>

\* The last row is copied.
EndCopy ==
    /\ pc = "copy"
    /\ contents' = [contents EXCEPT ![dst] = "whole"]
    /\ pc' = "push"
    /\ UNCHANGED <<phase, owner, slot, callback, dst, raced>>

\* OH_VideoEncoder_PushInputData.  It refuses a buffer that is not lent, and the
\* result is not looked at.
Push ==
    /\ pc = "push"
    /\ owner' = IF CodecRuns /\ owner[inputIndex] = "lent"
                THEN [owner EXCEPT ![inputIndex] = "queued"]
                ELSE owner
    /\ pc' = "clear"
    /\ UNCHANGED <<phase, contents, slot, callback, dst, raced>>

\* Mutant of ClearReady: the slot is not marked empty.
KeepReady ==
    /\ pc = "clear"
    /\ pc' = "idle"
    /\ UNCHANGED <<phase, owner, contents, slot, callback, dst, raced>>

\* The slot is marked empty, after the push, whatever is in it by now.
ClearReady ==
    /\ pc = "clear"
    /\ inputReady' = FALSE
    /\ pc' = "idle"
    /\ UNCHANGED <<phase, owner, contents, inputIndex, inputData, callback, dst, raced>>

EncodeFrame ==
    TestSlot \/ GetAddr \/ GetAddrFails \/ EndCopy \/ Push \/ ClearReady

Next ==
    \/ Start \/ Stop \/ StopCodec
    \/ \E b \in Buffers : Encode(b) \/ Lend(b)
    \/ \E field \in Fields : Store(field)
    \/ EncodeFrame

Spec == Init /\ [][Next]_vars

\* The codec and the threads go on, and frames keep coming.  Nobody has to
\* stop the encoder.
Fairness ==
    /\ WF_vars(Start)
    /\ \A b \in Buffers : WF_vars(Encode(b)) /\ WF_vars(Lend(b))
    /\ \A field \in Fields : WF_vars(Store(field))
    /\ WF_vars(EncodeFrame)

FairSpec == Spec /\ Fairness

-----------------------------------------------------------------------------
\* Properties.

TypeOK ==
    /\ phase \in {"starting", "running", "stopping", "stopped"}
    /\ owner \in [Buffers -> {"codec", "lent", "queued"}]
    /\ contents \in [Buffers -> {"stale", "part", "whole"}]
    /\ inputIndex \in Buffers
    /\ inputData \in Buffers \cup {NoBuffer}
    /\ inputReady \in BOOLEAN
    /\ lending \in Buffers \cup {NoBuffer}
    /\ stores \in SUBSET Fields
    /\ pc \in {"idle", "address", "copy", "push", "clear"}
    /\ dst \in Buffers \cup {NoBuffer}
    /\ raced \in BOOLEAN

\* What the codec has been given to encode is a whole frame.
QueuedIsWhole == \A b \in Buffers : owner[b] = "queued" => contents[b] = "whole"

\* encode_frame does not write into a buffer that the codec has, and pushes the
\* buffer it wrote into.
CopyIsExclusive ==
    pc \in {"copy", "push"} => owner[dst] = "lent" /\ inputIndex = dst

\* As long as no callback comes between encode_frame's test of the slot and its
\* push, the slot needs no lock: a callback that comes between the push and the
\* clearing of inputReady, in whatever order its stores are seen, does no harm to
\* a picture.
CleanUntilRaced == ~raced => QueuedIsWhole /\ CopyIsExclusive

\* A buffer that is lent comes back to the codec if its callback is running, if
\* it is in the slot, or if encode_frame is about to push it.
InPlay(b) ==
    \/ owner[b] # "lent"
    \/ lending = b
    \/ inputReady /\ ~HalfStored /\ inputIndex = b /\ inputData = b
    \/ ReliesOnSlot /\ inputIndex = b

Lost == {b \in Buffers : ~InPlay(b)}

\* A lost buffer stays lost: nothing in video_encoder.c gives it back.
LostForever == [][~raced' => Lost \subseteq Lost']_vars

\* The encoder starves only by losing all its buffers: as long as one is left,
\* frames keep being pushed.
StarvesOnlyWhenAllLost ==
    \/ []<>(pc = "push")
    \/ <>(phase = "stopping")
    \/ <>raced
    \/ <>(Lost = Buffers)

\* CODE_WIKI.md says that encode_frame waits for inputReady, then copies and
\* submits: frames keep being submitted for as long as the encoder runs.
KeepsSubmitting == []<>(pc = "push") \/ <>(phase = "stopping")
=============================================================================
