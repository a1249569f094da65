-------------------------- MODULE HwEncoder_proofs --------------------------
(***************************************************************************)
(* Proofs about HwEncoder, for every set of buffers.                       *)
(***************************************************************************)
EXTENDS HwEncoder, TLAPS

\* A callback that still has a store to make is running.
CallbackRuns == stores # {} => lending # NoBuffer

LEMMA TypeStep ==
    ASSUME TypeOK, CallbackRuns, [Next]_vars
    PROVE  TypeOK' /\ CallbackRuns'
  <1> USE BuffersAssumption DEF TypeOK, CallbackRuns
  <1>1. CASE Start \/ Stop \/ StopCodec
    BY <1>1 DEF Start, Stop, StopCodec, slot, callback, capture
  <1>2. ASSUME NEW b \in Buffers, Encode(b) PROVE TypeOK' /\ CallbackRuns'
    BY <1>2 DEF Encode, slot, callback, capture
  <1>3. ASSUME NEW b \in Buffers, Lend(b) PROVE TypeOK' /\ CallbackRuns'
    BY <1>3 DEF Lend, slot, callback, capture
  <1>4. ASSUME NEW field \in Fields, Store(field) PROVE TypeOK' /\ CallbackRuns'
    <2>1. lending \in Buffers
      BY <1>4 DEF Store
    <2>2. QED
      BY <1>4, <2>1 DEF Store, slot, callback, capture
  <1>5. CASE TestSlot
    BY <1>5 DEF TestSlot, slot, callback, capture
  <1>6. CASE GetAddr
    BY <1>6 DEF GetAddr, slot, callback, capture
  <1>7. CASE GetAddrFails
    BY <1>7 DEF GetAddrFails, slot, callback, capture
  <1>8. CASE EndCopy
    BY <1>8 DEF EndCopy, slot, callback, capture
  <1>9. CASE Push
    BY <1>9 DEF Push, slot, callback, capture
  <1>10. CASE ClearReady
    BY <1>10 DEF ClearReady, slot, callback, capture
  <1>11. CASE UNCHANGED vars
    BY <1>11 DEF vars, slot, callback, capture
  <1>12. QED
    BY <1>1, <1>2, <1>3, <1>4, <1>5, <1>6, <1>7, <1>8, <1>9, <1>10, <1>11
    DEF Next, EncodeFrame

\* The types are kept by every interleaving of the callback and encode_frame; in
\* particular inputIndex is the index of a buffer whenever it is pushed.
THEOREM TypeCorrect == Spec => []TypeOK
  <1>1. Init => TypeOK /\ CallbackRuns
    BY BuffersAssumption DEF Init, TypeOK, CallbackRuns
  <1>2. QED
    BY <1>1, TypeStep, PTL DEF Spec

-----------------------------------------------------------------------------
\* The strengthening of CleanUntilRaced.

\* The callback that is running holds its buffer, and the stores it has made are
\* still there.
CallbackHolds ==
    /\ lending # NoBuffer <=> stores # {}
    /\ lending # NoBuffer => owner[lending] = "lent"
    /\ stores # {} /\ "index" \notin stores => inputIndex = lending
    /\ stores # {} /\ "data" \notin stores => inputData = lending

\* The slot names one buffer, which is ours and not the one being lent.
SlotHolds ==
    /\ inputData = inputIndex
    /\ owner[inputIndex] = "lent"
    /\ lending # inputIndex

\* Between two calls of encode_frame, what looks like a full slot is one.
FullSlotHolds == pc = "idle" /\ inputReady /\ ~HalfStored => SlotHolds

\* From its test to its push, encode_frame and the slot agree.
CaptureHolds ==
    ReliesOnSlot =>
        /\ ~HalfStored
        /\ SlotHolds
        /\ pc \in {"copy", "push"} => dst = inputIndex
        /\ pc = "push" => contents[dst] = "whole"

Clean == CallbackHolds /\ FullSlotHolds /\ CaptureHolds /\ QueuedIsWhole

IInv == TypeOK /\ CallbackRuns /\ (~raced => Clean)

LEMMA CleanStep ==
    ASSUME TypeOK, TypeOK', Clean, [Next]_vars, ~raced'
    PROVE  Clean'
  <1> USE DEF Clean, CallbackHolds, FullSlotHolds, CaptureHolds, QueuedIsWhole,
              SlotHolds, HalfStored, ReliesOnSlot
  <1>1. CASE Start \/ Stop \/ StopCodec
    BY <1>1 DEF Start, Stop, StopCodec, slot, callback, capture
  <1>2. ASSUME NEW b \in Buffers, Encode(b) PROVE Clean'
    BY <1>2 DEF Encode, slot, callback, capture, TypeOK
  <1>3. ASSUME NEW b \in Buffers, Lend(b) PROVE Clean'
    <2>1. Fields # {} /\ "index" \in Fields /\ "data" \in Fields
      BY DEF Fields
    <2>2. ~HalfStored /\ ~HalfStored'
      BY <1>3 DEF Lend
    <2>3. CallbackHolds'
      BY <1>3, <2>1, BuffersAssumption DEF Lend, TypeOK
    <2>4. FullSlotHolds' /\ CaptureHolds'
      BY <1>3, <2>2 DEF Lend, slot, capture, TypeOK
    <2>5. QueuedIsWhole'
      BY <1>3 DEF Lend, TypeOK
    <2>6. QED
      BY <2>3, <2>4, <2>5
  <1>4. ASSUME NEW field \in Fields, Store(field) PROVE Clean'
    BY <1>4, BuffersAssumption DEF Store, slot, callback, capture, TypeOK, Fields
  <1>5. CASE TestSlot
    BY <1>5 DEF TestSlot, slot, callback, capture
  <1>6. CASE GetAddr
    BY <1>6 DEF GetAddr, slot, callback, capture, TypeOK
  <1>7. CASE GetAddrFails
    BY <1>7 DEF GetAddrFails, slot, callback, capture
  <1>8. CASE EndCopy
    BY <1>8 DEF EndCopy, slot, callback, capture, TypeOK
  <1>9. CASE Push
    BY <1>9 DEF Push, slot, callback, capture, TypeOK
  <1>10. CASE ClearReady
    BY <1>10 DEF ClearReady, slot, callback, capture
  <1>11. CASE UNCHANGED vars
    BY <1>11 DEF vars, slot, callback, capture
  <1>12. QED
    BY <1>1, <1>2, <1>3, <1>4, <1>5, <1>6, <1>7, <1>8, <1>9, <1>10, <1>11
    DEF Next, EncodeFrame

LEMMA RacedStays ==
    ASSUME [Next]_vars, ~raced'
    PROVE  ~raced
  BY DEF Next, Start, Stop, StopCodec, Encode, Lend, Store, EncodeFrame, TestSlot,
    GetAddr, GetAddrFails, EndCopy, Push, ClearReady, vars

THEOREM InvariantHolds == Spec => []IInv
  <1>1. Init => IInv
    BY BuffersAssumption
    DEF Init, IInv, TypeOK, CallbackRuns, Clean, CallbackHolds, FullSlotHolds,
      CaptureHolds, QueuedIsWhole, ReliesOnSlot
  <1>2. IInv /\ [Next]_vars => IInv'
    <2> SUFFICES ASSUME IInv, [Next]_vars PROVE IInv'
      OBVIOUS
    <2>1. TypeOK /\ CallbackRuns /\ TypeOK' /\ CallbackRuns'
      BY TypeStep DEF IInv
    <2>2. ASSUME ~raced' PROVE Clean'
      BY <2>1, <2>2, RacedStays, CleanStep DEF IInv
    <2>3. QED
      BY <2>1, <2>2 DEF IInv
  <1>3. QED
    BY <1>1, <1>2, PTL DEF Spec

\* Whatever the codec does with its buffers and in whatever order the stores of
\* its callback are seen: until a callback comes between encode_frame's test and
\* its push, the codec only gets whole frames, and encode_frame writes only into
\* a buffer it was lent.
THEOREM Cleanliness == Spec => []CleanUntilRaced
  <1>1. IInv => CleanUntilRaced
    BY DEF IInv, Clean, CaptureHolds, SlotHolds, ReliesOnSlot, CleanUntilRaced, CopyIsExclusive
  <1>2. QED
    BY <1>1, InvariantHolds, PTL

\* A buffer that is lost is lost for good, by the same invariant: no step of the
\* callback or of encode_frame brings it back into play.
THEOREM LossIsForever == Spec => LostForever
  <1>1. ASSUME IInv, [Next]_vars, ~raced'
        PROVE  Lost \subseteq Lost'
    <2> SUFFICES ASSUME NEW b \in Buffers, ~InPlay(b) PROVE ~InPlay(b)'
      BY DEF Lost
    <2>1. TypeOK /\ Clean
      BY <1>1, RacedStays DEF IInv
    <2> USE DEF InPlay, HalfStored, ReliesOnSlot
    <2>2. CASE Start \/ Stop \/ StopCodec
      BY <2>2 DEF Start, Stop, StopCodec, slot, callback, capture
    <2>3. ASSUME NEW c \in Buffers, Encode(c) PROVE ~InPlay(b)'
      BY <2>1, <2>3 DEF Encode, slot, callback, capture, TypeOK
    <2>4. ASSUME NEW c \in Buffers, Lend(c) PROVE ~InPlay(b)'
      BY <2>1, <2>4 DEF Lend, slot, callback, capture, TypeOK, Clean, CallbackHolds
    <2>5. ASSUME NEW field \in Fields, Store(field) PROVE ~InPlay(b)'
      BY <2>1, <2>5, <1>1, BuffersAssumption
      DEF Store, slot, callback, capture, TypeOK, Fields, Clean, CallbackHolds
    <2>6. CASE TestSlot
      BY <2>1, <2>6, <1>1 DEF TestSlot, slot, callback, capture, Clean, FullSlotHolds, SlotHolds
    <2>7. CASE GetAddr \/ GetAddrFails \/ EndCopy \/ ClearReady
      BY <2>7 DEF GetAddr, GetAddrFails, EndCopy, ClearReady, slot, callback, capture
    <2>8. CASE Push
      BY <2>1, <2>8 DEF Push, slot, callback, capture, TypeOK
    <2>9. CASE UNCHANGED vars
      BY <2>9 DEF vars, slot, callback, capture
    <2>10. QED
      BY <1>1, <2>2, <2>3, <2>4, <2>5, <2>6, <2>7, <2>8, <2>9 DEF Next, EncodeFrame
  <1>2. IInv /\ [Next]_vars => [~raced' => Lost \subseteq Lost']_vars
    BY <1>1
  <1>3. QED
    BY <1>2, InvariantHolds, PTL DEF Spec, LostForever
=============================================================================
