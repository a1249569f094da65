----------------------- MODULE ControlChannel_proofs -----------------------
(***************************************************************************)
(* Proofs about ControlChannel, for every set of inputs, every buffer size *)
(* and without bounds on what is sent.                                     *)
(***************************************************************************)
EXTENDS ControlChannel, FiniteSetTheorems, TLAPS

LEMMA HeartbeatIsMessage ==
    /\ Heartbeat \in Message
    /\ Heartbeat.data = <<>>
    /\ Heartbeat.hdr = [lo |-> 255, hi |-> 0]
  BY DEF Heartbeat, SystemKey, Header, HEARTBEAT, Message, Word, Half

LEMMA InputIsMessage ==
    ASSUME NEW msg \in Inputs
    PROVE  /\ msg \in Message
           /\ msg.hdr \in Word
           /\ msg.data \in Seq(Word)
           /\ Len(msg.data) \in Nat
           /\ msg.hdr.hi = 4 * Len(msg.data)
           /\ msg.hdr.hi < RecvBufSize
  BY InputsAssumption DEF Message

\* The words of a payload, tagged, are cells.
LEMMA PayloadCellsType ==
    ASSUME NEW m \in Nat, NEW msg \in Message
    PROVE  /\ PayloadCells(m, msg) \in Seq(Cell)
           /\ Len(PayloadCells(m, msg)) = Len(msg.data)
           /\ \A k \in 1 .. Len(msg.data) :
                PayloadCells(m, msg)[k] = [w |-> msg.data[k], m |-> m, k |-> k]
  <1>1. msg.data \in Seq(Word) /\ Len(msg.data) \in Nat
    BY DEF Message
  <1>2. \A k \in 1 .. Len(msg.data) : [w |-> msg.data[k], m |-> m, k |-> k] \in Cell
    BY <1>1 DEF Cell
  <1>3. QED
    BY <1>1, <1>2 DEF PayloadCells

LEMMA CellWord ==
    ASSUME NEW c \in Cell
    PROVE  c.w \in Word
  BY DEF Cell

LEMMA HalfIsNat == \A n \in Half : n \in Nat
  <1>1. ASSUME NEW m \in Nat, NEW n \in 0 .. m PROVE n \in Nat
    OBVIOUS
  <1>2. PICK m \in Nat : m = 65535
    BY SMT
  <1>3. Half = 0 .. m
    BY <1>2, SMT DEF Half
  <1>4. QED
    BY <1>1, <1>3

\* As long as the server reads the words that the client wrote, the steps of
\* control_thread_func read words.
PayloadWords == srvHdr.hi \div 4

WordRecvHeader ==
    /\ srv = "header"
    /\ stream # <<>>
    /\ ReadsPayload(stream[1].w)
    /\ srv' = "payload"
    /\ srvHdr' = stream[1].w
    /\ stream' = [i \in 1 .. Len(stream) - 1 |-> stream[i + 1]]
    /\ skew' = 0
    /\ UNCHANGED <<main, replies, link, sent, torn, handled>>

WordRecvBare ==
    /\ srv = "header"
    /\ stream # <<>>
    /\ ~ReadsPayload(stream[1].w)
    /\ srvHdr' = stream[1].w
    /\ Handle([hdr |-> stream[1].w, data |-> <<>>])
    /\ stream' = [i \in 1 .. Len(stream) - 1 |-> stream[i + 1]]
    /\ skew' = 0
    /\ UNCHANGED <<main, srv, link, sent, torn>>

WordRecvPayload ==
    /\ srv = "payload"
    /\ Len(stream) >= PayloadWords
    /\ Handle([hdr |-> srvHdr,
               data |-> [k \in 1 .. PayloadWords |-> stream[k].w]])
    /\ stream' = [i \in 1 .. Len(stream) - PayloadWords |-> stream[i + PayloadWords]]
    /\ srv' = "header"
    /\ skew' = 0
    /\ UNCHANGED <<main, srvHdr, link, sent, torn>>

LEMMA PayloadWordsIsNat ==
    ASSUME srvHdr \in Word
    PROVE  srvHdr.hi \in Nat /\ PayloadWords \in Nat /\ 4 * PayloadWords <= srvHdr.hi
  <1>1. srvHdr.hi \in Half
    BY DEF Word
  <1>2. \A n \in Nat : n \div 4 \in Nat /\ 4 * (n \div 4) <= n
    OBVIOUS
  <1>3. QED
    BY <1>1, <1>2, HalfIsNat DEF PayloadWords

Octet == 0 .. 255

LEMMA TwoOctets ==
    ASSUME NEW a \in Octet, NEW b \in Octet
    PROVE  a + 256 * b \in Half
  <1>1. PICK m \in Nat : m = 255
    BY SMT
  <1>2. PICK n \in Nat : n = 65535
    BY SMT
  <1>3. Octet = 0 .. m /\ Half = 0 .. n
    <2>1. Octet = 0 .. m
      BY <1>1, SMT DEF Octet
    <2>2. Half = 0 .. n
      BY <1>2, SMT DEF Half
    <2>3. QED
      BY <2>1, <2>2
  <1>4. a \in Nat /\ b \in Nat /\ a <= m /\ b <= m
    BY <1>3
  <1>5. n = m + 256 * m
    BY <1>1, <1>2, SMT
  <1>6. a + 256 * b \in Nat /\ a + 256 * b <= n
    BY <1>1, <1>4, <1>5, SMT
  <1>7. QED
    BY <1>3, <1>6

LEMMA HalfIsOctets ==
    \A h \in Half :
        /\ h % 256 \in Octet /\ h \div 256 \in Octet
        /\ (h % 256) + 256 * (h \div 256) = h
  <1>1. PICK m \in Nat : m = 255
    BY SMT
  <1>2. PICK n \in Nat : n = 65535
    BY SMT
  <1>3. Octet = 0 .. m /\ Half = 0 .. n
    <2>1. Octet = 0 .. m
      BY <1>1, SMT DEF Octet
    <2>2. Half = 0 .. n
      BY <1>2, SMT DEF Half
    <2>3. QED
      BY <2>1, <2>2
  <1>4. TAKE h \in Half
  <1>5. h \in Nat /\ h <= n
    BY <1>3
  <1>6. h % 256 \in Nat /\ h % 256 <= m /\ h \div 256 \in Nat
    BY <1>1, <1>5, SMT
  <1>7. (h % 256) + 256 * (h \div 256) = h
    <2>1. ASSUME NEW x \in Nat PROVE (x % 256) + 256 * (x \div 256) = x
      OBVIOUS
    <2>2. QED
      BY <1>5, <2>1
  <1>8. h \div 256 <= m
    BY <1>1, <1>2, <1>5, <1>6, <1>7, SMT
  <1>9. QED
    BY <1>3, <1>6, <1>7, <1>8

\* Four bytes are a word, and the four bytes of a word are that word.
LEMMA Bytes ==
    ASSUME NEW w \in Word
    PROVE  /\ \A i \in 0 .. 3 : Byte(w, i) \in Octet
           /\ [lo |-> Byte(w, 0) + 256 * Byte(w, 1), hi |-> Byte(w, 2) + 256 * Byte(w, 3)] = w
  <1>1. w.lo \in Half /\ w.hi \in Half /\ w = [lo |-> w.lo, hi |-> w.hi]
    BY DEF Word
  <1>2. ASSUME NEW h \in Half
        PROVE  /\ h % 256 \in Octet /\ h \div 256 \in Octet
               /\ (h % 256) + 256 * (h \div 256) = h
    BY HalfIsOctets
  <1>3. /\ Byte(w, 0) = w.lo % 256 /\ Byte(w, 1) = w.lo \div 256
        /\ Byte(w, 2) = w.hi % 256 /\ Byte(w, 3) = w.hi \div 256
    BY DEF Byte
  <1>4. \A i \in 0 .. 3 : i = 0 \/ i = 1 \/ i = 2 \/ i = 3
    OBVIOUS
  <1>5. \A i \in 0 .. 3 : Byte(w, i) \in Octet
    <2>1. SUFFICES ASSUME NEW i \in 0 .. 3 PROVE Byte(w, i) \in Octet
      OBVIOUS
    <2>2. Byte(w, 0) \in Octet /\ Byte(w, 1) \in Octet
      BY <1>1, <1>2, <1>3
    <2>3. Byte(w, 2) \in Octet /\ Byte(w, 3) \in Octet
      BY <1>1, <1>2, <1>3
    <2>4. QED
      BY <1>4, <2>2, <2>3
  <1>6. /\ Byte(w, 0) + 256 * Byte(w, 1) = w.lo
        /\ Byte(w, 2) + 256 * Byte(w, 3) = w.hi
    BY <1>1, <1>2, <1>3
  <1>7. QED
    BY <1>1, <1>5, <1>6

LEMMA ByteAtType ==
    ASSUME stream \in Seq(Cell), NEW n \in Nat, n < 4 * Len(stream)
    PROVE  ByteAt(n) \in Octet
  <1>1. Len(stream) \in Nat
    OBVIOUS
  <1>2. \A l \in Nat : n < 4 * l => n \div 4 + 1 \in 1 .. l
    OBVIOUS
  <1>3. n \div 4 + 1 \in 1 .. Len(stream) /\ n % 4 \in 0 .. 3
    BY <1>1, <1>2
  <1>4. stream[n \div 4 + 1].w \in Word
    <2>1. stream[n \div 4 + 1] \in Cell
      BY <1>3
    <2>2. QED
      BY <2>1, CellWord
  <1>5. QED
    BY <1>3, <1>4, Bytes, Zenon DEF ByteAt

\* What the server reads is a word, wherever it reads.
LEMMA WordAtType ==
    ASSUME stream \in Seq(Cell), NEW n \in Nat, n + 4 <= 4 * Len(stream)
    PROVE  WordAt(n) \in Word
  <1>1. Len(stream) \in Nat
    OBVIOUS
  <1>2. /\ n + 1 \in Nat /\ n + 2 \in Nat /\ n + 3 \in Nat
        /\ n < 4 * Len(stream) /\ n + 1 < 4 * Len(stream)
        /\ n + 2 < 4 * Len(stream) /\ n + 3 < 4 * Len(stream)
    BY <1>1
  <1>3. ByteAt(n) \in Octet /\ ByteAt(n + 1) \in Octet
    BY <1>2, ByteAtType
  <1>4. ByteAt(n + 2) \in Octet /\ ByteAt(n + 3) \in Octet
    BY <1>2, ByteAtType
  <1>5. /\ ByteAt(n) + 256 * ByteAt(n + 1) \in Half
        /\ ByteAt(n + 2) + 256 * ByteAt(n + 3) \in Half
    BY <1>3, <1>4, TwoOctets
  <1>6. QED
    BY <1>5, Zenon DEF WordAt, Word

\* A word that starts where the client's words do is one of them.
LEMMA WordAtCell ==
    ASSUME stream \in Seq(Cell), NEW k \in 1 .. Len(stream)
    PROVE  WordAt(4 * (k - 1)) = stream[k].w
  <1> DEFINE n == 4 * (k - 1)
  <1>1. k \in Nat /\ k >= 1 /\ n \in Nat
    OBVIOUS
  <1>2. /\ n \div 4 + 1 = k /\ (n + 1) \div 4 + 1 = k
        /\ (n + 2) \div 4 + 1 = k /\ (n + 3) \div 4 + 1 = k
        /\ n % 4 = 0 /\ (n + 1) % 4 = 1 /\ (n + 2) % 4 = 2 /\ (n + 3) % 4 = 3
    BY <1>1, SMT
  <1>3. stream[k].w \in Word
    <2>1. stream[k] \in Cell
      OBVIOUS
    <2>2. QED
      BY <2>1, CellWord
  <1> HIDE DEF n
  <1>4. WordAt(n) = [lo |-> Byte(stream[k].w, 0) + 256 * Byte(stream[k].w, 1),
                     hi |-> Byte(stream[k].w, 2) + 256 * Byte(stream[k].w, 3)]
    BY <1>2, Zenon DEF WordAt, ByteAt
  <1>5. WordAt(n) = stream[k].w
    BY <1>3, <1>4, Bytes
  <1>6. QED
    BY <1>5 DEF n

\* What recv_all leaves in the stream, and what it returns.
LEMMA RestOfStream ==
    ASSUME NEW s \in Seq(Cell), NEW n \in Nat, n <= Len(s)
    PROVE  LET rest == [i \in 1 .. Len(s) - n |-> s[i + n]]
               data == [k \in 1 .. n |-> s[k].w]
           IN  /\ rest \in Seq(Cell)
               /\ Len(rest) = Len(s) - n
               /\ data \in Seq(Word)
               /\ Len(data) = n
  <1> DEFINE rest == [i \in 1 .. Len(s) - n |-> s[i + n]]
             data == [k \in 1 .. n |-> s[k].w]
  <1>1. \A i \in 1 .. Len(s) - n : s[i + n] \in Cell
    OBVIOUS
  <1>2. \A k \in 1 .. n : s[k].w \in Word
    <2>1. \A k \in 1 .. n : s[k] \in Cell
      OBVIOUS
    <2>2. QED
      BY <2>1, CellWord
  <1>3. Len(s) - n \in Nat
    OBVIOUS
  <1>4. rest \in Seq(Cell) /\ Len(rest) = Len(s) - n
    BY <1>1, <1>3
  <1>5. data \in Seq(Word) /\ Len(data) = n
    BY <1>2
  <1>6. QED
    BY <1>4, <1>5

LEMMA HeaderCellType ==
    ASSUME NEW m \in Nat, NEW msg \in Message
    PROVE  HeaderCell(m, msg) \in Cell
  BY DEF HeaderCell, Cell, Message

\* What recv_all leaves, wherever it began to read.
LEMMA ConsumeType ==
    ASSUME TypeOK, NEW n \in Nat, n <= Available, Consume(n)
    PROVE  stream' \in Seq(Cell) /\ skew' \in 0 .. 3
  <1>1. stream \in Seq(Cell) /\ Len(stream) \in Nat /\ skew \in 0 .. 3
    BY DEF TypeOK
  <1> DEFINE words == (skew + n) \div 4
  <1>2. words \in Nat /\ words <= Len(stream) /\ (skew + n) % 4 \in 0 .. 3
    <2>1. \A l \in Nat, k \in 0 .. 3 : n <= 4 * l - k =>
            (k + n) \div 4 \in Nat /\ (k + n) \div 4 <= l /\ (k + n) % 4 \in 0 .. 3
      BY SMT
    <2>2. QED
      BY <1>1, <2>1 DEF Available
  <1> HIDE DEF words
  <1>3. [i \in 1 .. Len(stream) - words |-> stream[i + words]] \in Seq(Cell)
    BY <1>1, <1>2, RestOfStream
  <1>4. QED
    BY <1>2, <1>3 DEF Consume, words

LEMMA PayloadType ==
    ASSUME TypeOK, PayloadBytes <= Available
    PROVE  Payload \in Seq(Word) /\ Len(Payload) = PayloadWords
  <1>1. /\ stream \in Seq(Cell) /\ Len(stream) \in Nat /\ skew \in 0 .. 3
        /\ PayloadBytes \in Nat /\ PayloadWords \in Nat
        /\ PayloadWords = PayloadBytes \div 4 /\ 4 * PayloadWords <= PayloadBytes
    BY PayloadWordsIsNat DEF TypeOK, PayloadBytes, PayloadWords
  <1>2. ASSUME NEW k \in 1 .. PayloadWords
        PROVE  WordAt(skew + 4 * (k - 1)) \in Word
    <2>1. /\ skew + 4 * (k - 1) \in Nat
          /\ skew + 4 * (k - 1) + 4 <= 4 * Len(stream)
      BY <1>1 DEF Available
    <2>2. QED
      BY <1>1, <2>1, WordAtType
  <1>3. Payload = [k \in 1 .. PayloadWords |-> WordAt(skew + 4 * (k - 1))]
    BY <1>1 DEF Payload
  <1>4. QED
    BY <1>1, <1>2, <1>3

LEMMA WordSteps ==
    ASSUME TypeOK, skew = 0
    PROVE  /\ ServerRecvHeader => WordRecvHeader
           /\ ServerRecvBare => WordRecvBare
           /\ ServerRecvPayload /\ srvHdr.hi = 4 * PayloadWords => WordRecvPayload
  <1>1. stream \in Seq(Cell) /\ Len(stream) \in Nat /\ Available = 4 * Len(stream)
    BY DEF TypeOK, Available
  <1>2. ASSUME Available >= 4, Consume(4)
        PROVE  /\ stream # <<>> /\ NextHeader = stream[1].w
               /\ stream' = [i \in 1 .. Len(stream) - 1 |-> stream[i + 1]]
               /\ skew' = 0
    <2>1. Len(stream) >= 1 /\ stream # <<>> /\ 1 \in 1 .. Len(stream)
      BY <1>1, <1>2
    <2>2. WordAt(4 * (1 - 1)) = stream[1].w
      BY <1>1, <2>1, WordAtCell
    <2>3. 4 * (1 - 1) = 0 /\ (0 + 4) \div 4 = 1 /\ (0 + 4) % 4 = 0
      BY SMT
    <2>4. stream' = [i \in 1 .. Len(stream) - 1 |-> stream[i + 1]] /\ skew' = 0
      BY <1>2, <2>3 DEF Consume
    <2>5. NextHeader = stream[1].w
      BY <2>2, <2>3 DEF NextHeader
    <2>6. QED
      BY <2>1, <2>4, <2>5
  <1>3. ServerRecvHeader => WordRecvHeader
    BY <1>2 DEF ServerRecvHeader, WordRecvHeader
  <1>4. ServerRecvBare => WordRecvBare
    BY <1>2 DEF ServerRecvBare, WordRecvBare
  <1>5. ASSUME ServerRecvPayload, srvHdr.hi = 4 * PayloadWords
        PROVE  WordRecvPayload
    <2> DEFINE d == PayloadWords
    <2>1. /\ d \in Nat /\ PayloadBytes = 4 * d /\ PayloadBytes \div 4 = d
          /\ PayloadBytes <= Available
      <3>1. d \in Nat /\ PayloadBytes \in Nat
        BY PayloadWordsIsNat DEF TypeOK, PayloadBytes
      <3>2. PayloadBytes = 4 * d /\ PayloadBytes \div 4 = d
        BY <1>5 DEF PayloadBytes, PayloadWords
      <3>3. Available >= PayloadBytes
        BY <1>5 DEF ServerRecvPayload
      <3>4. QED
        BY <1>1, <3>1, <3>2, <3>3
    <2> HIDE DEF d
    <2>2. d <= Len(stream) /\ (0 + 4 * d) \div 4 = d /\ (0 + 4 * d) % 4 = 0
      BY <1>1, <2>1, SMT
    <2>3. Payload = [k \in 1 .. d |-> stream[k].w]
      <3>1. ASSUME NEW k \in 1 .. d PROVE WordAt(skew + 4 * (k - 1)) = stream[k].w
        <4>1. k \in 1 .. Len(stream) /\ skew + 4 * (k - 1) = 4 * (k - 1)
          BY <1>1, <2>1, <2>2
        <4>2. QED
          BY <1>1, <4>1, WordAtCell
      <3>2. QED
        BY <2>1, <3>1 DEF Payload
    <2>4. /\ stream' = [i \in 1 .. Len(stream) - d |-> stream[i + d]]
          /\ skew' = 0
      BY <1>5, <2>1, <2>2, Zenon DEF ServerRecvPayload, Consume
    <2>5. Handle([hdr |-> srvHdr, data |-> [k \in 1 .. d |-> stream[k].w]])
      BY <1>5, <2>3 DEF ServerRecvPayload
    <2>6. /\ srv = "payload" /\ srv' = "header"
          /\ UNCHANGED <<main, srvHdr, link, sent, torn>>
      BY <1>5 DEF ServerRecvPayload
    <2>7. Len(stream) >= d
      BY <1>1, <2>1, <2>2
    <2>8. QED
      BY <2>4, <2>5, <2>6, <2>7 DEF WordRecvPayload, d
  <1>6. QED
    BY <1>3, <1>4, <1>5

-----------------------------------------------------------------------------
\* Every variable keeps its type: the tags, the receive state and the counter of
\* replies, whatever garbage the server reads.
THEOREM TypeCorrect == Spec => []TypeOK
  <1>1. Init => TypeOK
    BY DEF Init, TypeOK, UInt, Word, Half
  <1>2. TypeOK /\ [Next]_vars => TypeOK'
    <2> SUFFICES ASSUME TypeOK, [Next]_vars PROVE TypeOK'
      OBVIOUS
    <2> USE DEF TypeOK
    <2>1. ASSUME NEW msg \in Inputs, SendHeader(msg) PROVE TypeOK'
      <3>1. msg \in Message
        BY InputIsMessage
      <3>2. HeaderCell(Len(sent) + 1, msg) \in Cell
        BY <3>1, HeaderCellType
      <3>3. QED
        BY <2>1, <3>1, <3>2 DEF SendHeader
    <2>2. CASE SendPayload
      <3>1. main \in Nat /\ sent[main] \in Message
        BY <2>2 DEF SendPayload
      <3>2. PayloadCells(main, sent[main]) \in Seq(Cell)
        BY <3>1, PayloadCellsType
      <3>3. QED
        BY <2>2, <3>2 DEF SendPayload
    <2>3. CASE SendPayloadFails
      <3>1. Len(sent) \in Nat
        OBVIOUS
      <3>2. main' \in 0 .. Len(sent)
        BY <2>3, <3>1 DEF SendPayloadFails
      <3>3. QED
        BY <2>3, <3>2 DEF SendPayloadFails
    <2>4. CASE SendHeartbeat
      <3>1. HeaderCell(Len(sent) + 1, Heartbeat) \in Cell
        BY HeartbeatIsMessage, HeaderCellType
      <3>2. Len(sent) \in Nat /\ Len(sent') = Len(sent) + 1 /\ sent' \in Seq(Message)
        BY <2>4, HeartbeatIsMessage DEF SendHeartbeat
      <3>3. main' \in 0 .. Len(sent') /\ torn' \subseteq 1 .. Len(sent')
        <4>1. /\ main' = main
              /\ torn' = IF main = 0 THEN torn ELSE torn \cup {main, Len(sent) + 1}
          BY <2>4 DEF SendHeartbeat
        <4>2. main \in 0 .. Len(sent) /\ torn \subseteq 1 .. Len(sent)
          OBVIOUS
        <4>3. CASE main = 0
          BY <3>2, <4>1, <4>2, <4>3
        <4>4. CASE main # 0
          <5>1. main \in 1 .. Len(sent) + 1 /\ Len(sent) + 1 \in 1 .. Len(sent) + 1
            BY <3>2, <4>2, <4>4
          <5>2. torn \subseteq 1 .. Len(sent) + 1
            BY <3>2, <4>2
          <5>3. torn' \subseteq 1 .. Len(sent) + 1
            BY <4>1, <4>4, <5>1, <5>2, Zenon
          <5>4. main' \in 0 .. Len(sent) + 1
            BY <3>2, <4>1, <4>2
          <5>5. QED
            BY <3>2, <5>3, <5>4
        <4>5. QED
          BY <4>3, <4>4
      <3>4. stream' \in Seq(Cell)
        BY <2>4, <3>1 DEF SendHeartbeat
      <3>5. QED
        BY <2>4, <3>2, <3>3, <3>4 DEF SendHeartbeat
    <2>5. CASE ClientRecvReply
      BY <2>5 DEF ClientRecvReply
    <2>6. CASE Disconnect
      BY <2>6 DEF Disconnect
    <2>7. ASSUME Available >= 4, Consume(4)
          PROVE  /\ NextHeader \in Word
                 /\ stream' \in Seq(Cell) /\ skew' \in 0 .. 3
      <3>1. skew \in Nat /\ skew + 4 <= 4 * Len(stream)
        BY <2>7 DEF Available
      <3>2. NextHeader \in Word
        BY <3>1, WordAtType DEF NextHeader
      <3>3. 4 \in Nat /\ 4 <= Available
        BY <2>7 DEF Available
      <3>4. QED
        BY <2>7, <3>2, <3>3, ConsumeType
    <2>8. CASE ServerRecvHeader
      BY <2>7, <2>8 DEF ServerRecvHeader
    <2>9. CASE ServerRecvBare
      <3>1. NextHeader \in Word /\ stream' \in Seq(Cell) /\ skew' \in 0 .. 3
        BY <2>7, <2>9 DEF ServerRecvBare
      <3>2. [hdr |-> NextHeader, data |-> <<>>] \in Message
        BY <3>1 DEF Message
      <3>3. handled' \in Seq(Message) /\ replies' \in Nat
        BY <2>9, <3>2 DEF ServerRecvBare, Handle
      <3>4. QED
        BY <2>9, <3>1, <3>3 DEF ServerRecvBare
    <2>10. CASE ServerRecvPayload
      <3>1. PayloadBytes \in Nat /\ PayloadBytes <= Available /\ Consume(PayloadBytes)
        <4>1. srvHdr.hi \in Nat /\ Available >= srvHdr.hi /\ Available \in Int
          BY <2>10, PayloadWordsIsNat DEF ServerRecvPayload, PayloadBytes, Available
        <4>2. QED
          BY <2>10, <4>1 DEF ServerRecvPayload, PayloadBytes
      <3>2. stream' \in Seq(Cell) /\ skew' \in 0 .. 3
        BY <3>1, ConsumeType
      <3>3. [hdr |-> srvHdr, data |-> Payload] \in Message
        BY <3>1, PayloadType DEF Message
      <3>4. handled' \in Seq(Message) /\ replies' \in Nat
        BY <2>10, <3>3 DEF ServerRecvPayload, Handle
      <3>5. QED
        BY <2>10, <3>2, <3>4 DEF ServerRecvPayload
    <2>11. CASE ServerEnd
      BY <2>11 DEF ServerEnd
    <2>12. CASE UNCHANGED vars
      BY <2>12 DEF vars
    <2>13. QED
      BY <2>1, <2>2, <2>3, <2>4, <2>5, <2>6, <2>8, <2>9, <2>10, <2>11, <2>12
      DEF Next, Server
  <1>3. QED
    BY <1>1, <1>2, PTL DEF Spec

-----------------------------------------------------------------------------
\* The framing.

LEMMA MessageFields ==
    ASSUME NEW msg \in Message
    PROVE  /\ msg.hdr \in Word
           /\ msg.data \in Seq(Word)
           /\ Len(msg.data) \in Nat
           /\ msg.data = <<>> <=> Len(msg.data) = 0
  BY DEF Message

LEMMA CellFields ==
    ASSUME NEW c \in Cell
    PROVE  c.w \in Word /\ c.m \in Nat /\ c.k \in Nat
  BY DEF Cell

\* Writing the header of a message where the last message is complete keeps
\* the framing: the step of SendHeader, and of SendHeartbeat outside an input.
LEMMA HeaderKeepsFraming ==
    ASSUME TypeOK, Framed, link = "up", main = 0, NEW msg \in Message,
           sent' = Append(sent, msg),
           stream' = Append(stream, HeaderCell(Len(sent) + 1, msg)),
           main' = (IF msg.data = <<>> THEN 0 ELSE Len(sent) + 1),
           srv' = srv, srvHdr' = srvHdr, link' = link, handled' = handled
    PROVE  Framed'
  <1> DEFINE n == Len(sent)
             l == Len(stream)
             c == [w |-> msg.hdr, m |-> n + 1, k |-> 0]
  <1>1. n \in Nat /\ l \in Nat
    BY DEF TypeOK
  <1>2. /\ Len(sent') = n + 1
        /\ \A i \in 1 .. n : sent'[i] = sent[i]
        /\ sent'[n + 1] = msg
    BY DEF TypeOK
  <1>3. /\ Len(stream') = l + 1
        /\ \A i \in 1 .. l : stream'[i] = stream[i]
        /\ stream'[l + 1] = c
    <2>1. c \in Cell
      BY <1>1, MessageFields DEF Cell
    <2>2. stream \in Seq(Cell) /\ stream' = Append(stream, c)
      BY DEF TypeOK, HeaderCell
    <2>3. QED
      BY <2>1, <2>2
  <1>4. c.w = msg.hdr /\ c.m = n + 1 /\ c.k = 0
    OBVIOUS
  <1>5. stream' # <<>>
    BY <1>1, <1>3
  <1>6. /\ \A i \in 1 .. l : stream[i] \in Cell
        /\ \A i \in 1 .. n : sent[i] \in Message
    BY DEF TypeOK
  <1>7. Len(msg.data) \in Nat /\ (msg.data = <<>> <=> Len(msg.data) = 0)
    BY MessageFields
  <1> HIDE DEF n, l, c
  <1>8. CellsAreOfMessages'
    <2> SUFFICES ASSUME NEW i \in 1 .. Len(stream')
                 PROVE  /\ stream'[i].m \in 1 .. Len(sent')
                        /\ stream'[i].k \in 0 .. Len(sent'[stream'[i].m].data)
                        /\ stream'[i].w = IF stream'[i].k = 0
                                          THEN sent'[stream'[i].m].hdr
                                          ELSE sent'[stream'[i].m].data[stream'[i].k]
      BY Zenon DEF CellsAreOfMessages
    <2>1. CASE i \in 1 .. l
      <3>1. stream'[i] = stream[i] /\ stream[i].m \in 1 .. n
        BY <1>3, <2>1 DEF Framed, CellsAreOfMessages, n, l
      <3>2. sent'[stream[i].m] = sent[stream[i].m] /\ stream[i].m \in 1 .. Len(sent')
        BY <1>1, <1>2, <3>1
      <3>3. QED
        BY <2>1, <3>1, <3>2 DEF Framed, CellsAreOfMessages, l
    <2>2. CASE i = l + 1
      BY <1>1, <1>2, <1>3, <1>4, <1>7, <2>2
    <2>3. i \in 1 .. l \/ i = l + 1
      BY <1>1, <1>3
    <2>4. QED
      BY <2>1, <2>2, <2>3
  <1>9. l > 0 => stream[l].m = n /\ stream[l].k = Len(sent[n].data) /\ n > 0
    <2> SUFFICES ASSUME l > 0
                 PROVE  stream[l].m = n /\ stream[l].k = Len(sent[n].data) /\ n > 0
      OBVIOUS
    <2>1. stream # <<>> /\ l \in 1 .. l
      BY <1>1 DEF l
    <2>2. AtClient(stream[l].m, stream[l].k)
      BY <2>1 DEF Framed, ClientIsAligned, l
    <2>3. stream[l].m \in 1 .. n
      BY <2>1 DEF Framed, CellsAreOfMessages, l, n
    <2>4. QED
      BY <1>1, <2>2, <2>3 DEF AtClient, n
  <1>10. CellsAreContiguous'
    <2> SUFFICES ASSUME NEW i \in 1 .. l + 1, NEW j \in 1 .. l + 1, i < j
                 PROVE  RunsOn(i, j)'
      BY <1>1, <1>3 DEF CellsAreContiguous
    <2> DEFINE m == stream[i].m
               k == stream[i].k
               size == Len(sent[m].data)
    <2>1. i \in 1 .. l /\ stream'[i] = stream[i]
      BY <1>1, <1>3
    <2>2. m \in 1 .. n /\ sent'[m] = sent[m] /\ k \in Nat /\ size \in Nat
      <3>1. m \in 1 .. n
        BY <2>1 DEF Framed, CellsAreOfMessages, l, n
      <3>2. k \in Nat
        BY <1>6, <2>1, CellFields
      <3>3. size \in Nat
        BY <1>6, <3>1, MessageFields
      <3>4. QED
        BY <1>1, <1>2, <3>1, <3>2, <3>3
    <2> HIDE DEF m, k, size
    <2> SUFFICES /\ k + (j - i) <= size => stream'[j].m = m /\ stream'[j].k = k + (j - i)
                 /\ k + (j - i) = size + 1 => stream'[j].m = m + 1 /\ stream'[j].k = 0
      BY <2>1, <2>2 DEF RunsOn, m, k, size
    <2>3. CASE j \in 1 .. l
      <3>1. stream'[j] = stream[j]
        BY <1>3, <2>3
      <3>2. /\ k + (j - i) <= size => stream[j].m = m /\ stream[j].k = k + (j - i)
            /\ k + (j - i) = size + 1 => stream[j].m = m + 1 /\ stream[j].k = 0
        BY <2>1, <2>3 DEF Framed, CellsAreContiguous, RunsOn, l, m, k, size
      <3>3. QED
        BY <3>1, <3>2
    <2>4. CASE j = l + 1
      <3>1. stream'[j].m = n + 1 /\ stream'[j].k = 0
        BY <1>3, <1>4, <2>4
      <3>2. CASE i = l
        <4>1. m = n /\ k = size
          BY <1>1, <1>9, <2>1, <3>2 DEF m, k, size
        <4>2. ~(k + (j - i) <= size) /\ j - i = 1
          BY <1>1, <2>2, <2>4, <3>2, <4>1
        <4>3. QED
          BY <3>1, <4>1, <4>2
      <3>3. CASE i < l
        <4>1. l \in 1 .. l /\ stream[l].m = n /\ stream[l].k = Len(sent[n].data)
          BY <1>1, <1>9, <2>1
        <4>2. k + (l - i) <= size => n = m /\ Len(sent[n].data) = k + (l - i)
          BY <2>1, <3>3, <4>1 DEF Framed, CellsAreContiguous, RunsOn, l, m, k, size
        <4>3. l - i \in Nat /\ j - i = (l - i) + 1
          BY <1>1, <2>1, <2>4
        <4>4. k + (l - i) <= size => size = k + (l - i) /\ n = m
          BY <4>2 DEF size
        <4>5. ~(k + (j - i) <= size)
          BY <2>2, <4>3, <4>4
        <4>6. k + (j - i) = size + 1 => n = m
          BY <2>2, <4>3, <4>4
        <4>7. QED
          BY <3>1, <4>5, <4>6
      <3>4. i = l \/ i < l
        BY <1>1, <2>1
      <3>5. QED
        BY <3>2, <3>3, <3>4
    <2>5. j \in 1 .. l \/ j = l + 1
      BY <1>1
    <2>6. QED
      BY <2>3, <2>4, <2>5
  <1>11. l = 0 => srv # "payload" /\ Len(handled) = n
    <2> SUFFICES ASSUME l = 0 PROVE srv # "payload" /\ Len(handled) = n
      OBVIOUS
    <2>1. stream = <<>>
      BY DEF TypeOK, l
    <2>2. ~(srv = "payload")
      <3> SUFFICES ASSUME srv = "payload" PROVE FALSE
        OBVIOUS
      <3>1. /\ Len(handled) < Len(sent)
            /\ sent[Len(handled) + 1].data # <<>>
        BY DEF Framed, ServerIsAligned
      <3>2. AtClient(Len(handled) + 1, 0)
        BY <2>1 DEF Framed, ClientIsAligned
      <3>3. Len(handled) \in Nat /\ Len(handled) + 1 \in 1 .. n
        BY <1>1, <3>1 DEF TypeOK, n
      <3>4. Len(sent[Len(handled) + 1].data) = 0
        BY <3>2, <3>3 DEF AtClient
      <3>5. QED
        BY <1>6, <3>1, <3>3, <3>4, MessageFields
    <2>3. QED
      BY <2>1, <2>2 DEF Framed, ClientIsAligned, n
  <1>12. Len(handled) \in Nat /\ Len(handled) <= n
    BY DEF TypeOK, Framed, DeliveredInOrder, n
  <1>13. ServerIsAligned'
    <2>1. ASSUME srv # "ended" PROVE AtServer(stream[1])'
      <3>1. CASE l = 0
        BY <1>3, <1>4, <1>11, <3>1 DEF AtServer
      <3>2. CASE l > 0
        <4>1. stream'[1] = stream[1] /\ stream # <<>>
          BY <1>1, <1>3, <3>2 DEF l
        <4>2. QED
          BY <2>1, <4>1 DEF Framed, ServerIsAligned, AtServer
      <3>3. QED
        BY <1>1, <3>1, <3>2
    <2>2. ASSUME srv = "payload"
          PROVE  /\ Len(handled) < Len(sent')
                 /\ srvHdr = sent'[Len(handled) + 1].hdr
                 /\ sent'[Len(handled) + 1].data # <<>>
      <3>1. /\ Len(handled) < n
            /\ srvHdr = sent[Len(handled) + 1].hdr
            /\ sent[Len(handled) + 1].data # <<>>
        BY <2>2 DEF Framed, ServerIsAligned, n
      <3>2. sent'[Len(handled) + 1] = sent[Len(handled) + 1]
        BY <1>1, <1>2, <1>12, <3>1
      <3>3. QED
        BY <1>1, <1>2, <1>12, <3>1, <3>2
    <2>3. QED
      BY <2>1, <2>2 DEF ServerIsAligned
  <1>14. ClientIsAligned'
    <2>1. stream'[Len(stream')] = c
      BY <1>1, <1>3
    <2>2. AtClient(stream[Len(stream)].m, stream[Len(stream)].k)'
      BY <1>1, <1>2, <1>4, <1>7, <2>1 DEF AtClient, n
    <2>3. QED
      BY <1>5, <2>1, <2>2 DEF ClientIsAligned
  <1>15. DeliveredInOrder'
    BY <1>1, <1>2, <1>12 DEF Framed, DeliveredInOrder, n
  <1>16. QED
    BY <1>8, <1>10, <1>13, <1>14, <1>15 DEF Framed

LEMMA Concatenation ==
    ASSUME NEW s \in Seq(Cell), NEW t \in Seq(Cell)
    PROVE  /\ Len(s \o t) = Len(s) + Len(t)
           /\ \A i \in 1 .. Len(s) + Len(t) :
                (s \o t)[i] = IF i <= Len(s) THEN s[i] ELSE t[i - Len(s)]
  OBVIOUS

LEMMA CellFacts ==
    ASSUME TypeOK, CellsAreOfMessages, NEW i \in 1 .. Len(stream)
    PROVE  /\ stream[i].m \in 1 .. Len(sent)
           /\ stream[i].k \in Nat
           /\ sent[stream[i].m] \in Message
           /\ Len(sent[stream[i].m].data) \in Nat
           /\ stream[i].k <= Len(sent[stream[i].m].data)
           /\ stream[i].w = IF stream[i].k = 0
                            THEN sent[stream[i].m].hdr
                            ELSE sent[stream[i].m].data[stream[i].k]
  <1>1. stream[i].m \in 1 .. Len(sent)
    BY DEF CellsAreOfMessages
  <1>2. sent[stream[i].m] \in Message
    BY <1>1 DEF TypeOK
  <1>3. Len(sent[stream[i].m].data) \in Nat
    BY <1>2, MessageFields
  <1>4. stream[i].k \in 0 .. Len(sent[stream[i].m].data)
    BY DEF CellsAreOfMessages
  <1>5. QED
    BY <1>1, <1>2, <1>3, <1>4 DEF CellsAreOfMessages

\* Between the two calls of the main thread its header is the last word written.
LEMMA MainIsLast ==
    ASSUME TypeOK, Framed, link = "up", main # 0
    PROVE  /\ main = Len(sent)
           /\ sent[main].data # <<>>
           /\ stream # <<>> =>
                stream[Len(stream)].m = main /\ stream[Len(stream)].k = 0
           /\ stream = <<>> => srv = "payload" /\ Len(handled) + 1 = main
  BY DEF Framed, ClientIsAligned, AtClient

\* Writing the payload keeps the framing: the step of SendPayload.
LEMMA PayloadKeepsFraming ==
    ASSUME TypeOK, Framed, SendPayload
    PROVE  Framed'
  <1> DEFINE n == Len(sent)
             l == Len(stream)
             p == PayloadCells(n, sent[n])
             d == Len(sent[n].data)
  <1>1. /\ link = "up" /\ main # 0 /\ main' = 0
        /\ stream' = stream \o PayloadCells(main, sent[main])
        /\ srv' = srv /\ srvHdr' = srvHdr /\ link' = link
        /\ sent' = sent /\ handled' = handled
    BY DEF SendPayload
  <1>2. main = n
    BY <1>1, MainIsLast
  <1>3. n \in Nat /\ l \in Nat /\ n \in 1 .. n /\ sent[n] \in Message
    BY <1>1, <1>2 DEF TypeOK
  <1>4. d \in Nat /\ d > 0
    BY <1>1, <1>2, <1>3, MainIsLast, MessageFields
  <1>5. /\ p \in Seq(Cell) /\ Len(p) = d
        /\ \A k \in 1 .. d : p[k].w = sent[n].data[k] /\ p[k].m = n /\ p[k].k = k
    <2>1. /\ p \in Seq(Cell) /\ Len(p) = d
          /\ \A k \in 1 .. d : p[k] = [w |-> sent[n].data[k], m |-> n, k |-> k]
      <3> HIDE DEF n
      <3>1. QED
        BY <1>3, PayloadCellsType
    <2> HIDE DEF p, d, n
    <2>2. QED
      BY <2>1
  <1>6. stream' = stream \o p /\ stream \in Seq(Cell)
    BY <1>1, <1>2 DEF TypeOK
  <1>7. l > 0 => stream[l].m = n /\ stream[l].k = 0
    BY <1>1, <1>2, <1>3, MainIsLast
  <1>8. l = 0 => srv = "payload" /\ Len(handled) + 1 = n
    BY <1>1, <1>2, <1>6, MainIsLast
  <1> HIDE DEF n, l, p, d
  <1>9. /\ Len(stream') = l + d
        /\ \A i \in 1 .. l : stream'[i] = stream[i]
        /\ \A i \in l + 1 .. l + d : stream'[i] = p[i - l]
    <2>1. /\ stream' = stream \o p /\ stream \in Seq(Cell) /\ p \in Seq(Cell)
          /\ Len(stream) = l /\ Len(p) = d
      BY <1>5, <1>6 DEF l
    <2>2. Len(stream') = l + d
      BY <2>1, Concatenation
    <2>3. \A i \in 1 .. l + d :
            stream'[i] = IF i <= l THEN stream[i] ELSE p[i - l]
      BY <2>1, Concatenation, Zenon
    <2>4. \A i \in 1 .. l : i \in 1 .. l + d /\ i <= l
      BY <1>3, <1>4
    <2>5. \A i \in l + 1 .. l + d : i \in 1 .. l + d /\ ~(i <= l)
      BY <1>3, <1>4
    <2>6. QED
      BY <2>2, <2>3, <2>4, <2>5
  <1>10. \A i \in l + 1 .. l + d :
            /\ stream'[i].w = sent[n].data[i - l]
            /\ stream'[i].m = n
            /\ stream'[i].k = i - l
            /\ i - l \in 1 .. d
    <2> SUFFICES ASSUME NEW i \in l + 1 .. l + d
                 PROVE  /\ stream'[i].w = sent[n].data[i - l]
                        /\ stream'[i].m = n
                        /\ stream'[i].k = i - l
                        /\ i - l \in 1 .. d
      OBVIOUS
    <2>1. i - l \in 1 .. d
      BY <1>3, <1>4
    <2>2. QED
      BY <1>5, <1>9, <2>1
  <1>11. CellsAreOfMessages'
    <2> SUFFICES ASSUME NEW i \in 1 .. l + d
                 PROVE  /\ stream'[i].m \in 1 .. Len(sent)
                        /\ stream'[i].k \in 0 .. Len(sent[stream'[i].m].data)
                        /\ stream'[i].w = IF stream'[i].k = 0
                                          THEN sent[stream'[i].m].hdr
                                          ELSE sent[stream'[i].m].data[stream'[i].k]
      BY <1>1, <1>9, Zenon DEF CellsAreOfMessages
    <2>1. CASE i \in 1 .. l
      BY <1>9, <2>1 DEF Framed, CellsAreOfMessages, l
    <2>2. CASE i \in l + 1 .. l + d
      <3>1. /\ stream'[i].m = n /\ stream'[i].k = i - l /\ i - l \in 1 .. d
            /\ stream'[i].w = sent[n].data[i - l]
        BY <1>10, <2>2
      <3>2. i - l \in 0 .. d /\ i - l # 0
        BY <1>4, <3>1
      <3>3. QED
        BY <1>3, <3>1, <3>2 DEF n, d
    <2>3. QED
      BY <1>3, <1>4, <2>1, <2>2
  <1>12. CellsAreContiguous'
    <2> SUFFICES ASSUME NEW i \in 1 .. l + d, NEW j \in 1 .. l + d, i < j
                 PROVE  RunsOn(i, j)'
      BY <1>9 DEF CellsAreContiguous
    <2>1. CASE j \in 1 .. l
      <3>1. i \in 1 .. l /\ stream'[i] = stream[i] /\ stream'[j] = stream[j]
        BY <1>3, <1>9, <2>1
      <3>2. RunsOn(i, j)
        BY <2>1, <3>1 DEF Framed, CellsAreContiguous, l
      <3>3. QED
        BY <1>1, <3>1, <3>2 DEF RunsOn
    <2>2. CASE i \in l + 1 .. l + d
      <3>1. /\ stream'[i].m = n /\ stream'[i].k = i - l
            /\ stream'[j].m = n /\ stream'[j].k = j - l /\ j - l \in 1 .. d
        BY <1>3, <1>4, <1>10, <2>2
      <3>2. (i - l) + (j - i) = j - l /\ j - l # d + 1
        BY <1>3, <1>4, <2>2, <3>1
      <3>3. QED
        BY <1>1, <3>1, <3>2 DEF RunsOn, d
    <2>3. CASE i \in 1 .. l /\ j \in l + 1 .. l + d
      <3> DEFINE m == stream[i].m
                 k == stream[i].k
                 size == Len(sent[m].data)
      <3>1. stream'[i] = stream[i] /\ k \in Nat /\ size \in Nat
        BY <1>9, <2>3, CellFacts DEF Framed, l
      <3>2. stream'[j].m = n /\ stream'[j].k = j - l /\ j - l \in 1 .. d
        BY <1>10, <2>3
      <3>3. l \in 1 .. l /\ stream[l].m = n /\ stream[l].k = 0
        BY <1>3, <1>7, <2>3
      <3>4. i < l => (k + (l - i) <= size => k + (l - i) = 0)
        BY <2>3, <3>3 DEF Framed, CellsAreContiguous, RunsOn, l
      <3>5. i = l => m = n /\ k = 0 /\ size = d
        BY <3>3 DEF d
      <3> HIDE DEF m, k, size
      <3> SUFFICES /\ k + (j - i) <= size => n = m /\ j - l = k + (j - i)
                   /\ k + (j - i) = size + 1 => n = m + 1 /\ j - l = 0
        BY <1>1, <3>1, <3>2 DEF RunsOn, m, k, size
      <3>6. CASE i < l
        <4>1. l - i \in Nat /\ l - i > 0 /\ j - i = (l - i) + (j - l)
          BY <1>3, <2>3, <3>6
        <4>2. k + (l - i) > size
          BY <3>1, <3>4, <3>6, <4>1
        <4>3. ~(k + (j - i) <= size) /\ k + (j - i) # size + 1
          BY <1>4, <3>1, <3>2, <4>1, <4>2
        <4>4. QED
          BY <4>3
      <3>7. CASE i = l
        <4>1. k + (j - i) = j - l /\ j - l # size + 1 /\ n = m
          BY <1>3, <1>4, <2>3, <3>2, <3>5, <3>7
        <4>2. QED
          BY <4>1
      <3>8. i < l \/ i = l
        BY <1>3, <2>3
      <3>9. QED
        BY <3>6, <3>7, <3>8
    <2>4. \/ j \in 1 .. l \/ i \in l + 1 .. l + d
          \/ i \in 1 .. l /\ j \in l + 1 .. l + d
      BY <1>3, <1>4
    <2>5. QED
      BY <2>1, <2>2, <2>3, <2>4
  <1>13. ServerIsAligned'
    <2>1. ASSUME srv # "ended" PROVE AtServer(stream[1])'
      <3>1. CASE l = 0
        <4>1. stream'[1].m = n /\ stream'[1].k = 1
          BY <1>3, <1>4, <1>10, <3>1
        <4>2. QED
          BY <1>1, <1>8, <3>1, <4>1 DEF AtServer
      <3>2. CASE l > 0
        <4>1. stream'[1] = stream[1] /\ stream # <<>>
          BY <1>3, <1>9, <3>2 DEF l
        <4>2. QED
          BY <1>1, <2>1, <4>1 DEF Framed, ServerIsAligned, AtServer
      <3>3. QED
        BY <1>3, <3>1, <3>2
    <2>2. QED
      BY <1>1, <2>1 DEF Framed, ServerIsAligned
  <1>14. ClientIsAligned'
    <2>1. stream'[Len(stream')].m = n /\ stream'[Len(stream')].k = d
      BY <1>3, <1>4, <1>9, <1>10
    <2>2. stream' # <<>>
      BY <1>3, <1>4, <1>9
    <2>3. AtClient(stream[Len(stream)].m, stream[Len(stream)].k)'
      BY <1>1, <2>1 DEF AtClient, n, d
    <2>4. QED
      BY <2>2, <2>3 DEF ClientIsAligned
  <1>15. DeliveredInOrder'
    BY <1>1 DEF Framed, DeliveredInOrder
  <1>16. QED
    BY <1>11, <1>12, <1>13, <1>14, <1>15 DEF Framed

-----------------------------------------------------------------------------
\* What was sent is what the user can make the client send.
SentOK == \A i \in 1 .. Len(sent) : sent[i] \in Inputs \cup {Heartbeat}

\* A message that was sent has its payload read exactly when it has one.
LEMMA SentFacts ==
    ASSUME NEW msg \in Inputs \cup {Heartbeat}
    PROVE  /\ msg \in Message
           /\ msg.hdr.hi = 4 * Len(msg.data)
           /\ Len(msg.data) \in Nat
           /\ ReadsPayload(msg.hdr) <=> msg.data # <<>>
  <1>1. CASE msg \in Inputs
    <2>1. /\ msg \in Message /\ msg.hdr.hi = 4 * Len(msg.data)
          /\ msg.hdr.hi < RecvBufSize
      BY <1>1, InputIsMessage
    <2>2. Len(msg.data) \in Nat /\ (msg.data = <<>> <=> Len(msg.data) = 0)
      BY <2>1, MessageFields
    <2>3. msg.hdr.hi > 0 <=> msg.data # <<>>
      BY <2>1, <2>2
    <2>4. QED
      BY <2>1, <2>2, <2>3 DEF ReadsPayload
  <1>2. CASE msg = Heartbeat
    <2>1. msg.hdr.hi = 0 /\ msg.data = <<>> /\ msg \in Message
      BY <1>2, HeartbeatIsMessage
    <2>2. QED
      BY <2>1 DEF ReadsPayload
  <1>3. QED
    BY <1>1, <1>2

\* Reading the first n words leaves the words on the way contiguous.
LEMMA ReadKeepsCells ==
    ASSUME TypeOK, Framed, NEW n \in Nat, n <= Len(stream), sent' = sent,
           stream' \in Seq(Cell), Len(stream') = Len(stream) - n,
           \A i \in 1 .. Len(stream) - n : stream'[i] = stream[i + n]
    PROVE  /\ CellsAreOfMessages'
           /\ CellsAreContiguous'
           /\ stream' # <<>> =>
                /\ Len(stream) > n
                /\ stream'[1] = stream[n + 1]
                /\ stream'[Len(stream')] = stream[Len(stream)]
           /\ stream' = <<>> => Len(stream) = n
  <1> DEFINE l == Len(stream)
  <1>1. l \in Nat
    BY DEF TypeOK
  <1>2. \A i \in 1 .. l - n : i + n \in 1 .. l /\ stream'[i] = stream[i + n]
    BY <1>1
  <1>3. CellsAreOfMessages'
    <2> SUFFICES ASSUME NEW i \in 1 .. l - n
                 PROVE  /\ stream'[i].m \in 1 .. Len(sent)
                        /\ stream'[i].k \in 0 .. Len(sent[stream'[i].m].data)
                        /\ stream'[i].w = IF stream'[i].k = 0
                                          THEN sent[stream'[i].m].hdr
                                          ELSE sent[stream'[i].m].data[stream'[i].k]
      BY DEF CellsAreOfMessages
    <2>1. stream'[i] = stream[i + n] /\ i + n \in 1 .. Len(stream)
      BY <1>2
    <2>2. QED
      BY <2>1 DEF Framed, CellsAreOfMessages
  <1>4. CellsAreContiguous'
    <2> SUFFICES ASSUME NEW i \in 1 .. l - n, NEW j \in 1 .. l - n, i < j
                 PROVE  RunsOn(i, j)'
      BY DEF CellsAreContiguous
    <2>1. /\ stream'[i] = stream[i + n] /\ i + n \in 1 .. Len(stream)
          /\ stream'[j] = stream[j + n] /\ j + n \in 1 .. Len(stream)
          /\ i + n < j + n /\ (j + n) - (i + n) = j - i
      BY <1>1, <1>2
    <2>2. RunsOn(i + n, j + n)
      BY <2>1 DEF Framed, CellsAreContiguous
    <2>3. QED
      BY <2>1, <2>2 DEF RunsOn
  <1>5. stream' # <<>> <=> l - n > 0
    <2>1. Len(stream') = l - n
      OBVIOUS
    <2>2. QED
      BY <1>1, <2>1
  <1>6. ASSUME l - n > 0
        PROVE  /\ stream'[1] = stream[n + 1]
               /\ stream'[Len(stream')] = stream[l]
    BY <1>1, <1>2, <1>6
  <1>7. QED
    BY <1>1, <1>3, <1>4, <1>5, <1>6

\* The payload that is waited for is a message's: a whole number of words.
LEMMA WholePayload ==
    ASSUME TypeOK, SentOK, NEW m \in 1 .. Len(sent), srvHdr = sent[m].hdr
    PROVE  srvHdr.hi = 4 * PayloadWords
  <1>1. sent[m] \in Inputs \cup {Heartbeat}
    BY DEF SentOK
  <1>2. PICK d \in Nat : srvHdr.hi = 4 * d
    BY <1>1, SentFacts
  <1>3. (4 * d) \div 4 = d
    OBVIOUS
  <1>4. QED
    BY <1>2, <1>3 DEF PayloadWords

\* control_thread_func reads a header: the header of the first message it has
\* not handled, and that message has a payload.
LEMMA ReadHeaderKeepsFraming ==
    ASSUME TypeOK, TypeOK', SentOK, Framed, WordRecvHeader
    PROVE  Framed'
  <1> DEFINE h == Len(handled)
             l == Len(stream)
  <1>1. /\ srv = "header" /\ stream # <<>> /\ ReadsPayload(stream[1].w)
        /\ srv' = "payload" /\ srvHdr' = stream[1].w
        /\ stream' = [i \in 1 .. l - 1 |-> stream[i + 1]]
        /\ main' = main /\ link' = link /\ sent' = sent /\ handled' = handled
    BY DEF WordRecvHeader, TypeOK
  <1>2. h \in Nat /\ l \in Nat /\ l > 0
    BY <1>1 DEF TypeOK
  <1>3. /\ Len(stream') = l - 1 /\ stream' \in Seq(Cell)
        /\ \A i \in 1 .. l - 1 : stream'[i] = stream[i + 1]
    BY <1>1, <1>2 DEF TypeOK
  <1>4. /\ CellsAreOfMessages'
        /\ CellsAreContiguous'
        /\ stream' # <<>> =>
             /\ l > 1 /\ stream'[1] = stream[2]
             /\ stream'[Len(stream')] = stream[l]
        /\ stream' = <<>> => l = 1
    <2> DEFINE one == 1
    <2>1. one \in Nat /\ one <= l /\ one + 1 = 2 /\ one = 1
      BY <1>2
    <2> HIDE DEF one
    <2>2. Len(stream') = l - one /\ \A i \in 1 .. l - one : stream'[i] = stream[i + one]
      BY <1>3, <2>1
    <2>3. QED
      BY <1>1, <1>3, <2>1, <2>2, ReadKeepsCells, Zenon
  <1>5. stream[1].m = h + 1 /\ stream[1].k = 0
    BY <1>1 DEF Framed, ServerIsAligned, AtServer
  <1>6. h + 1 \in 1 .. Len(sent) /\ stream[1].w = sent[h + 1].hdr
    BY <1>2, <1>5, CellFacts DEF Framed
  <1>7. /\ sent[h + 1].data # <<>>
        /\ Len(sent[h + 1].data) \in Nat /\ Len(sent[h + 1].data) > 0
    <2>1. sent[h + 1] \in Inputs \cup {Heartbeat}
      BY <1>6 DEF SentOK
    <2>2. sent[h + 1] \in Message /\ sent[h + 1].data # <<>>
      BY <1>1, <1>6, <2>1, SentFacts
    <2>3. QED
      BY <2>2, MessageFields
  <1>8. l > 1 => stream[2].m = h + 1 /\ stream[2].k = 1
    <2> SUFFICES ASSUME l > 1 PROVE stream[2].m = h + 1 /\ stream[2].k = 1
      OBVIOUS
    <2>1. RunsOn(1, 2)
      BY <1>2 DEF Framed, CellsAreContiguous
    <2>2. stream[1].k + (2 - 1) = 1 /\ 1 <= Len(sent[stream[1].m].data)
      BY <1>5, <1>7
    <2>3. QED
      BY <1>5, <2>1, <2>2 DEF RunsOn
  <1>9. ServerIsAligned'
    <2>1. stream' # <<>> => AtServer(stream[1])'
      BY <1>1, <1>4, <1>8 DEF AtServer
    <2>2. h < Len(sent)
      BY <1>2, <1>6
    <2>3. QED
      BY <1>1, <1>6, <1>7, <2>1, <2>2 DEF ServerIsAligned
  <1>10. ClientIsAligned'
    <2> SUFFICES ASSUME link = "up"
                 PROVE  IF stream' # <<>>
                        THEN AtClient(stream'[Len(stream')].m, stream'[Len(stream')].k)
                        ELSE AtClient(h + 1, 0)
      BY <1>1 DEF ClientIsAligned, AtClient
    <2>1. AtClient(stream[l].m, stream[l].k)
      BY <1>1 DEF Framed, ClientIsAligned
    <2>2. QED
      BY <1>4, <1>5, <2>1
  <1>11. DeliveredInOrder'
    BY <1>1 DEF Framed, DeliveredInOrder
  <1>12. QED
    BY <1>4, <1>9, <1>10, <1>11 DEF Framed

\* control_thread_func takes a header for a whole message: it is one.
LEMMA ReadBareKeepsFraming ==
    ASSUME TypeOK, TypeOK', SentOK, Framed, WordRecvBare
    PROVE  /\ Framed'
           /\ Len(handled) < Len(sent)
           /\ handled' = Append(handled, sent[Len(handled) + 1])
  <1> DEFINE h == Len(handled)
             l == Len(stream)
  <1>1. /\ srv = "header" /\ stream # <<>> /\ ~ReadsPayload(stream[1].w)
        /\ handled' = Append(handled, [hdr |-> stream[1].w, data |-> <<>>])
        /\ srv' = "header"
        /\ stream' = [i \in 1 .. l - 1 |-> stream[i + 1]]
        /\ main' = main /\ link' = link /\ sent' = sent
    BY DEF WordRecvBare, Handle, TypeOK
  <1>2. h \in Nat /\ l \in Nat /\ l > 0 /\ Len(handled') = h + 1
    BY <1>1 DEF TypeOK
  <1>3. /\ Len(stream') = l - 1 /\ stream' \in Seq(Cell)
        /\ \A i \in 1 .. l - 1 : stream'[i] = stream[i + 1]
    BY <1>1, <1>2 DEF TypeOK
  <1>4. /\ CellsAreOfMessages'
        /\ CellsAreContiguous'
        /\ stream' # <<>> =>
             /\ l > 1 /\ stream'[1] = stream[2]
             /\ stream'[Len(stream')] = stream[l]
        /\ stream' = <<>> => l = 1
    <2> DEFINE one == 1
    <2>1. one \in Nat /\ one <= l /\ one + 1 = 2 /\ one = 1
      BY <1>2
    <2> HIDE DEF one
    <2>2. Len(stream') = l - one /\ \A i \in 1 .. l - one : stream'[i] = stream[i + one]
      BY <1>3, <2>1
    <2>3. QED
      BY <1>1, <1>3, <2>1, <2>2, ReadKeepsCells, Zenon
  <1>5. stream[1].m = h + 1 /\ stream[1].k = 0
    BY <1>1 DEF Framed, ServerIsAligned, AtServer
  <1>6. h + 1 \in 1 .. Len(sent) /\ stream[1].w = sent[h + 1].hdr
    BY <1>2, <1>5, CellFacts DEF Framed
  <1>7. /\ sent[h + 1] \in Message /\ sent[h + 1].data = <<>>
        /\ Len(sent[h + 1].data) = 0
    <2>1. sent[h + 1] \in Inputs \cup {Heartbeat}
      BY <1>6 DEF SentOK
    <2>2. sent[h + 1] \in Message /\ sent[h + 1].data = <<>>
      BY <1>1, <1>6, <2>1, SentFacts
    <2>3. QED
      BY <2>2, MessageFields
  <1>8. handled' = Append(handled, sent[h + 1])
    <2>1. sent[h + 1] = [hdr |-> stream[1].w, data |-> <<>>]
      BY <1>6, <1>7 DEF Message
    <2>2. QED
      BY <1>1, <2>1
  <1>9. l > 1 => stream[2].m = h + 2 /\ stream[2].k = 0
    <2> SUFFICES ASSUME l > 1 PROVE stream[2].m = h + 2 /\ stream[2].k = 0
      OBVIOUS
    <2>1. RunsOn(1, 2)
      BY <1>2 DEF Framed, CellsAreContiguous
    <2>2. stream[1].k + (2 - 1) = Len(sent[stream[1].m].data) + 1
      BY <1>5, <1>7
    <2>3. stream[2].m = stream[1].m + 1 /\ stream[2].k = 0
      BY <2>1, <2>2 DEF RunsOn
    <2>4. QED
      BY <1>2, <1>5, <2>3
  <1>10. ServerIsAligned'
    <2>1. stream' # <<>> => AtServer(stream[1])'
      BY <1>1, <1>2, <1>4, <1>9 DEF AtServer
    <2>2. QED
      BY <1>1, <2>1 DEF ServerIsAligned
  <1>11. ClientIsAligned'
    <2> SUFFICES ASSUME link = "up"
                 PROVE  IF stream' # <<>>
                        THEN AtClient(stream'[Len(stream')].m, stream'[Len(stream')].k)
                        ELSE main = 0 /\ h + 1 = Len(sent)
      BY <1>1, <1>2 DEF ClientIsAligned, AtClient
    <2>1. AtClient(stream[l].m, stream[l].k)
      BY <1>1 DEF Framed, ClientIsAligned
    <2>2. ASSUME AtClient(h + 1, 0) PROVE main = 0 /\ h + 1 = Len(sent)
      BY <1>7, <2>2 DEF AtClient
    <2>3. QED
      BY <1>4, <1>5, <2>1, <2>2
  <1>12. DeliveredInOrder'
    <2>1. h + 1 <= Len(sent)
      BY <1>2, <1>6
    <2>2. ASSUME NEW i \in 1 .. h + 1 PROVE handled'[i] = sent[i]
      <3>1. CASE i = h + 1
        BY <1>2, <1>8, <3>1 DEF TypeOK
      <3>2. CASE i \in 1 .. h
        BY <1>2, <1>8, <3>2 DEF Framed, DeliveredInOrder, TypeOK
      <3>3. QED
        BY <1>2, <3>1, <3>2
    <2>3. QED
      BY <1>1, <1>2, <2>1, <2>2 DEF DeliveredInOrder
  <1>13. h < Len(sent)
    BY <1>2, <1>6
  <1>14. QED
    BY <1>4, <1>8, <1>10, <1>11, <1>12, <1>13 DEF Framed

\* control_thread_func reads a payload: the payload of the first message it has
\* not handled, to its last word and no further.
LEMMA ReadPayloadKeepsFraming ==
    ASSUME TypeOK, TypeOK', SentOK, Framed, WordRecvPayload
    PROVE  /\ Framed'
           /\ Len(handled) < Len(sent)
           /\ handled' = Append(handled, sent[Len(handled) + 1])
  <1> DEFINE h == Len(handled)
             l == Len(stream)
             d == Len(sent[h + 1].data)
             data == [k \in 1 .. PayloadWords |-> stream[k].w]
  <1>1. /\ srv = "payload" /\ l >= PayloadWords
        /\ handled' = Append(handled, [hdr |-> srvHdr, data |-> data])
        /\ srv' = "header"
        /\ stream' = [i \in 1 .. l - PayloadWords |-> stream[i + PayloadWords]]
        /\ main' = main /\ link' = link /\ sent' = sent
    BY DEF WordRecvPayload, Handle
  <1>2. h \in Nat /\ l \in Nat /\ Len(handled') = h + 1
    BY <1>1 DEF TypeOK
  <1>3. h < Len(sent) /\ srvHdr = sent[h + 1].hdr /\ sent[h + 1].data # <<>>
    BY <1>1 DEF Framed, ServerIsAligned
  <1>4. h + 1 \in 1 .. Len(sent) /\ Len(sent) \in Nat
    BY <1>2, <1>3 DEF TypeOK
  <1>5. /\ sent[h + 1] \in Message /\ sent[h + 1].data \in Seq(Word)
        /\ d \in Nat /\ d > 0 /\ srvHdr.hi = 4 * d
    <2>1. sent[h + 1] \in Inputs \cup {Heartbeat}
      BY <1>4 DEF SentOK
    <2>2. sent[h + 1] \in Message /\ sent[h + 1].hdr.hi = 4 * d
      BY <2>1, SentFacts
    <2>3. QED
      BY <1>3, <2>2, MessageFields
  <1>6. PayloadWords = d
    <2>1. \A x \in Nat : (4 * x) \div 4 = x
      OBVIOUS
    <2>2. d \in Nat /\ srvHdr.hi = 4 * d
      BY <1>5
    <2> HIDE DEF d
    <2>3. QED
      BY <2>1, <2>2 DEF PayloadWords
  <1>7. l > 0 /\ stream # <<>> /\ stream[1].m = h + 1 /\ stream[1].k = 1
    <2>1. l > 0 /\ stream # <<>>
      BY <1>1, <1>2, <1>5, <1>6
    <2>2. QED
      BY <1>1, <2>1 DEF Framed, ServerIsAligned, AtServer
  <1>8. \A i \in 1 .. d : i \in 1 .. l /\ stream[i].m = h + 1 /\ stream[i].k = i
    <2> SUFFICES ASSUME NEW i \in 1 .. d
                 PROVE  i \in 1 .. l /\ stream[i].m = h + 1 /\ stream[i].k = i
      OBVIOUS
    <2>1. i \in 1 .. l
      BY <1>1, <1>2, <1>5, <1>6
    <2>2. CASE i > 1
      <3>1. RunsOn(1, i)
        <4>1. 1 \in 1 .. Len(stream) /\ i \in 1 .. Len(stream) /\ 1 < i
          BY <1>2, <1>7, <2>1, <2>2
        <4>2. QED
          BY <4>1 DEF Framed, CellsAreContiguous
      <3>2. stream[1].k + (i - 1) = i /\ i <= Len(sent[stream[1].m].data)
        BY <1>7, <2>1
      <3>3. QED
        BY <1>7, <2>1, <3>1, <3>2 DEF RunsOn
    <2>3. CASE i = 1
      BY <1>7, <2>1, <2>3
    <2>4. QED
      BY <2>1, <2>2, <2>3
  <1>9. data = sent[h + 1].data
    <2>1. \A k \in 1 .. d : stream[k].w = sent[h + 1].data[k]
      <3> SUFFICES ASSUME NEW k \in 1 .. d PROVE stream[k].w = sent[h + 1].data[k]
        OBVIOUS
      <3>1. k \in 1 .. Len(stream) /\ stream[k].m = h + 1 /\ stream[k].k = k /\ k # 0
        BY <1>8
      <3>2. QED
        BY <3>1 DEF Framed, CellsAreOfMessages
    <2>2. data = [k \in 1 .. d |-> sent[h + 1].data[k]]
      BY <1>6, <2>1
    <2>3. sent[h + 1].data = [k \in 1 .. d |-> sent[h + 1].data[k]]
      BY <1>5
    <2>4. QED
      BY <2>2, <2>3
  <1>10. handled' = Append(handled, sent[h + 1])
    <2>1. sent[h + 1] = [hdr |-> srvHdr, data |-> data]
      BY <1>3, <1>5, <1>9 DEF Message
    <2>2. QED
      BY <1>1, <2>1
  <1> HIDE DEF data, d
  <1>11. /\ Len(stream') = l - d /\ stream' \in Seq(Cell)
         /\ \A i \in 1 .. l - d : stream'[i] = stream[i + d]
         /\ d <= l
    <2>1. l - d \in Nat
      BY <1>1, <1>2, <1>5, <1>6
    <2>2. stream' = [i \in 1 .. l - d |-> stream[i + d]] /\ stream' \in Seq(Cell)
      BY <1>1, <1>6 DEF TypeOK
    <2>3. QED
      BY <1>2, <1>5, <2>1, <2>2
  <1>12. /\ CellsAreOfMessages'
         /\ CellsAreContiguous'
         /\ stream' # <<>> =>
              /\ l > d /\ stream'[1] = stream[d + 1]
              /\ stream'[Len(stream')] = stream[l]
         /\ stream' = <<>> => l = d
    BY <1>1, <1>2, <1>5, <1>11, ReadKeepsCells
  <1>13. l > d => stream[d + 1].m = h + 2 /\ stream[d + 1].k = 0
    <2> SUFFICES ASSUME l > d PROVE stream[d + 1].m = h + 2 /\ stream[d + 1].k = 0
      OBVIOUS
    <2>1. RunsOn(1, d + 1)
      BY <1>2, <1>5 DEF Framed, CellsAreContiguous
    <2>2. stream[1].k + ((d + 1) - 1) = Len(sent[stream[1].m].data) + 1
      BY <1>5, <1>7 DEF d
    <2>3. stream[d + 1].m = stream[1].m + 1 /\ stream[d + 1].k = 0
      BY <2>1, <2>2 DEF RunsOn
    <2>4. QED
      BY <1>2, <1>7, <2>3
  <1>14. ServerIsAligned'
    <2>1. stream' # <<>> => AtServer(stream[1])'
      BY <1>1, <1>2, <1>12, <1>13 DEF AtServer
    <2>2. QED
      BY <1>1, <2>1 DEF ServerIsAligned
  <1>15. ClientIsAligned'
    <2> SUFFICES ASSUME link = "up"
                 PROVE  IF stream' # <<>>
                        THEN AtClient(stream'[Len(stream')].m, stream'[Len(stream')].k)
                        ELSE main = 0 /\ h + 1 = Len(sent)
      BY <1>1, <1>2 DEF ClientIsAligned, AtClient
    <2>1. AtClient(stream[l].m, stream[l].k)
      BY <1>7 DEF Framed, ClientIsAligned
    <2>2. d \in 1 .. d
      BY <1>5
    <2>3. ASSUME AtClient(h + 1, d) PROVE main = 0 /\ h + 1 = Len(sent)
      BY <1>5, <2>3 DEF AtClient
    <2>4. QED
      BY <1>8, <1>12, <2>1, <2>2, <2>3
  <1>16. DeliveredInOrder'
    <2>1. h + 1 <= Len(sent)
      BY <1>2, <1>4
    <2>2. ASSUME NEW i \in 1 .. h + 1 PROVE handled'[i] = sent[i]
      <3>1. CASE i = h + 1
        BY <1>2, <1>10, <3>1 DEF TypeOK
      <3>2. CASE i \in 1 .. h
        BY <1>2, <1>10, <3>2 DEF Framed, DeliveredInOrder, TypeOK
      <3>3. QED
        BY <1>2, <3>1, <3>2
    <2>3. QED
      BY <1>1, <1>2, <2>1, <2>2 DEF DeliveredInOrder
  <1>17. QED
    BY <1>3, <1>10, <1>12, <1>14, <1>15, <1>16 DEF Framed

-----------------------------------------------------------------------------
\* The inductive invariant.  FramedUntilTorn is not inductive without the types,
\* and without what is known of the messages sent: that a length is the length.
IInv == TypeOK /\ SentOK /\ FramedUntilTorn

LEMMA InitIInv == Init => SentOK /\ FramedUntilTorn
  <1> SUFFICES ASSUME Init PROVE SentOK /\ FramedUntilTorn
    OBVIOUS
  <1>1. /\ stream = <<>> /\ sent = <<>> /\ handled = <<>>
        /\ main = 0 /\ srv = "header" /\ skew = 0
    BY DEF Init
  <1>2. SentOK
    BY <1>1 DEF SentOK
  <1>3. CellsAreOfMessages /\ CellsAreContiguous
    BY <1>1 DEF CellsAreOfMessages, CellsAreContiguous
  <1>4. ServerIsAligned
    BY <1>1 DEF ServerIsAligned
  <1>5. ClientIsAligned
    BY <1>1 DEF ClientIsAligned
  <1>6. DeliveredInOrder
    BY <1>1 DEF DeliveredInOrder
  <1>7. QED
    BY <1>1, <1>2, <1>3, <1>4, <1>5, <1>6 DEF FramedUntilTorn, Framed

LEMMA NextSentOK ==
    ASSUME TypeOK, SentOK, [Next]_vars
    PROVE  SentOK'
  <1>1. ASSUME NEW msg \in Inputs \cup {Heartbeat}, sent' = Append(sent, msg)
        PROVE  SentOK'
    <2>1. Len(sent) \in Nat /\ Len(sent') = Len(sent) + 1
      BY <1>1 DEF TypeOK
    <2>2. ASSUME NEW i \in 1 .. Len(sent) + 1
          PROVE  sent'[i] \in Inputs \cup {Heartbeat}
      <3>1. CASE i \in 1 .. Len(sent)
        <4>1. sent'[i] = sent[i]
          BY <1>1, <2>1, <3>1 DEF TypeOK
        <4>2. QED
          BY <3>1, <4>1 DEF SentOK
      <3>2. CASE i = Len(sent) + 1
        <4>1. sent'[i] = msg
          BY <1>1, <2>1, <3>2 DEF TypeOK
        <4>2. QED
          BY <1>1, <4>1
      <3>3. QED
        BY <2>1, <3>1, <3>2
    <2>3. QED
      BY <2>1, <2>2 DEF SentOK
  <1>2. ASSUME sent' = sent PROVE SentOK'
    BY <1>2 DEF SentOK
  <1>3. ASSUME NEW msg \in Inputs, SendHeader(msg) PROVE SentOK'
    BY <1>1, <1>3 DEF SendHeader
  <1>4. CASE SendHeartbeat
    BY <1>1, <1>4 DEF SendHeartbeat
  <1>5. CASE \/ SendPayload \/ SendPayloadFails \/ ClientRecvReply \/ Disconnect
             \/ Server \/ UNCHANGED vars
    <2>1. sent' = sent
      BY <1>5 DEF SendPayload, SendPayloadFails, ClientRecvReply, Disconnect, Server,
        ServerRecvHeader, ServerRecvBare, ServerRecvPayload, ServerEnd, vars
    <2>2. QED
      BY <1>2, <2>1
  <1>6. QED
    BY <1>3, <1>4, <1>5 DEF Next

\* What is torn stays torn.
LEMMA TornGrows ==
    ASSUME [Next]_vars, torn' = {}
    PROVE  torn = {}
  <1>1. CASE SendHeartbeat
    BY <1>1, Zenon DEF SendHeartbeat
  <1>2. ASSUME NEW msg \in Inputs, SendHeader(msg) PROVE torn = {}
    BY <1>2 DEF SendHeader
  <1>3. CASE \/ SendPayload \/ SendPayloadFails \/ ClientRecvReply \/ Disconnect
             \/ Server \/ UNCHANGED vars
    BY <1>3 DEF SendPayload, SendPayloadFails, ClientRecvReply, Disconnect, Server,
      ServerRecvHeader, ServerRecvBare, ServerRecvPayload, ServerEnd, vars
  <1>4. QED
    BY <1>1, <1>2, <1>3 DEF Next

\* A heartbeat that tears nothing is sent between two inputs.
LEMMA UntornHeartbeat ==
    ASSUME SendHeartbeat, torn' = {}
    PROVE  main = 0
  BY Zenon DEF SendHeartbeat

\* The steps that neither write nor read.
LEMMA QuietKeepsFraming ==
    ASSUME Framed, UNCHANGED <<stream, srvHdr, sent, handled>>,
           \/ UNCHANGED <<main, srv, link>>
           \/ UNCHANGED <<main, srv>> /\ link' = "closed"
           \/ UNCHANGED <<srv, link>> /\ link = "closed"
           \/ UNCHANGED <<main, link>> /\ link = "closed" /\ srv' = "ended"
    PROVE  Framed'
  <1>1. CellsAreOfMessages'
    BY DEF Framed, CellsAreOfMessages
  <1>2. CellsAreContiguous'
    BY DEF Framed, CellsAreContiguous, RunsOn
  <1>3. ServerIsAligned'
    BY DEF Framed, ServerIsAligned, AtServer
  <1>4. ClientIsAligned'
    <2>1. CASE UNCHANGED <<main, srv, link>>
      BY <2>1 DEF Framed, ClientIsAligned, AtClient
    <2>2. CASE link' = "closed"
      BY <2>2 DEF ClientIsAligned
    <2>3. QED
      BY <2>1, <2>2
  <1>5. DeliveredInOrder'
    BY DEF Framed, DeliveredInOrder
  <1>6. QED
    BY <1>1, <1>2, <1>3, <1>4, <1>5 DEF Framed

LEMMA FramedPayload ==
    ASSUME TypeOK, SentOK, Framed, skew = 0, ServerRecvPayload
    PROVE  WordRecvPayload
  <1>1. srv = "payload"
    BY DEF ServerRecvPayload
  <1>2. Len(handled) + 1 \in 1 .. Len(sent) /\ srvHdr = sent[Len(handled) + 1].hdr
    <2>1. /\ Len(handled) < Len(sent)
          /\ srvHdr = sent[Len(handled) + 1].hdr
      BY <1>1 DEF Framed, ServerIsAligned
    <2>2. Len(handled) \in Nat /\ Len(sent) \in Nat
      BY DEF TypeOK
    <2>3. QED
      BY <2>1, <2>2
  <1>3. QED
    BY <1>2, WholePayload, WordSteps

LEMMA NextFramed ==
    ASSUME TypeOK, TypeOK', SentOK, Framed, skew = 0, [Next]_vars, torn' = {}
    PROVE  Framed' /\ skew' = 0
  <1>1. ASSUME NEW msg \in Inputs, SendHeader(msg) PROVE Framed' /\ skew' = 0
    <2>1. msg \in Message
      BY InputIsMessage
    <2>2. QED
      BY <1>1, <2>1, HeaderKeepsFraming DEF SendHeader
  <1>2. CASE SendPayload
    BY <1>2, PayloadKeepsFraming DEF SendPayload
  <1>3. CASE SendPayloadFails
    BY <1>3, QuietKeepsFraming DEF SendPayloadFails
  <1>4. CASE SendHeartbeat
    <2>1. main = 0
      BY <1>4, UntornHeartbeat
    <2>2. Heartbeat \in Message /\ Heartbeat.data = <<>>
      BY HeartbeatIsMessage
    <2>3. main' = IF Heartbeat.data = <<>> THEN 0 ELSE Len(sent) + 1
      BY <1>4, <2>1, <2>2 DEF SendHeartbeat
    <2>4. QED
      BY <1>4, <2>1, <2>2, <2>3, HeaderKeepsFraming DEF SendHeartbeat
  <1>5. CASE ClientRecvReply
    BY <1>5, QuietKeepsFraming DEF ClientRecvReply
  <1>6. CASE Disconnect
    BY <1>6, QuietKeepsFraming DEF Disconnect
  <1>7. CASE ServerRecvHeader
    BY <1>7, WordSteps, ReadHeaderKeepsFraming DEF WordRecvHeader
  <1>8. CASE ServerRecvBare
    BY <1>8, WordSteps, ReadBareKeepsFraming DEF WordRecvBare
  <1>9. CASE ServerRecvPayload
    BY <1>9, FramedPayload, ReadPayloadKeepsFraming DEF WordRecvPayload
  <1>10. CASE ServerEnd
    BY <1>10, QuietKeepsFraming DEF ServerEnd
  <1>11. CASE UNCHANGED vars
    BY <1>11, QuietKeepsFraming DEF vars
  <1>12. QED
    BY <1>1, <1>2, <1>3, <1>4, <1>5, <1>6, <1>7, <1>8, <1>9, <1>10, <1>11
    DEF Next, Server

THEOREM InvariantHolds == Spec => []IInv
  <1>1. Init => SentOK /\ FramedUntilTorn
    BY InitIInv
  <1>2. TypeOK /\ TypeOK' /\ SentOK /\ FramedUntilTorn /\ [Next]_vars
          => SentOK' /\ FramedUntilTorn'
    <2> SUFFICES ASSUME TypeOK, TypeOK', SentOK, FramedUntilTorn, [Next]_vars
                 PROVE  SentOK' /\ FramedUntilTorn'
      OBVIOUS
    <2>1. SentOK'
      BY NextSentOK
    <2>2. ASSUME torn' = {} PROVE Framed' /\ skew' = 0
      BY <2>2, TornGrows, NextFramed DEF FramedUntilTorn
    <2>3. QED
      BY <2>1, <2>2 DEF FramedUntilTorn
  <1>3. QED
    BY <1>1, <1>2, TypeCorrect, PTL DEF Spec, IInv

\* Wherever the connection is lost, and whatever the interleaving of the two
\* threads and the server: until a heartbeat has come inside an input, what
\* control_thread_func has handled is the first messages sent, whole, in order,
\* each once, and its next read begins where the client's next write began.
THEOREM Framing == Spec => []FramedUntilTorn
  <1>1. IInv => FramedUntilTorn
    BY DEF IInv
  <1>2. QED
    BY <1>1, InvariantHolds, PTL

-----------------------------------------------------------------------------
\* The control connection implements the abstract channel: each step of a
\* thread accepts a message, delivers the next one, breaks the channel, or is
\* not seen.
THEOREM Refinement == Spec => ImplementsChannel
  <1>1. Init => Channel!Init
    BY DEF Init, Channel!Init
  <1>2. IInv /\ IInv' /\ [Next]_vars => [Channel!Next]_(Channel!vars)
    <2> SUFFICES ASSUME IInv, IInv', [Next]_vars
                 PROVE  [Channel!Next]_(Channel!vars)
      OBVIOUS
    <2>1. CASE torn' # {}
      BY <2>1 DEF Channel!Next, Channel!Break
    <2>2. CASE torn' = {}
      <3>1. torn = {}
        BY <2>2, TornGrows
      <3>2. TypeOK /\ TypeOK' /\ SentOK /\ Framed /\ skew = 0
        BY <3>1 DEF IInv, FramedUntilTorn
      <3>3. ASSUME NEW msg \in Inputs \cup {Heartbeat},
                   sent' = Append(sent, msg), handled' = handled
            PROVE  Channel!Next
        BY <2>2, <3>1, <3>3 DEF Channel!Next, Channel!Accept
      <3>4. ASSUME sent' = sent, Len(handled) < Len(sent),
                   handled' = Append(handled, sent[Len(handled) + 1])
            PROVE  Channel!Next
        BY <2>2, <3>1, <3>4 DEF Channel!Next, Channel!Deliver
      <3>5. ASSUME sent' = sent, handled' = handled
            PROVE  UNCHANGED Channel!vars
        BY <2>2, <3>1, <3>5 DEF Channel!vars
      <3>6. ASSUME NEW msg \in Inputs, SendHeader(msg) PROVE Channel!Next
        BY <3>3, <3>6 DEF SendHeader
      <3>7. CASE SendHeartbeat
        BY <3>3, <3>7 DEF SendHeartbeat
      <3>8. CASE ServerRecvBare
        <4>1. sent' = sent
          BY <3>8 DEF ServerRecvBare
        <4>2. QED
          BY <3>2, <3>4, <3>8, <4>1, WordSteps, ReadBareKeepsFraming
      <3>9. CASE ServerRecvPayload
        <4>1. sent' = sent
          BY <3>9 DEF ServerRecvPayload
        <4>2. QED
          BY <3>2, <3>4, <3>9, <4>1, FramedPayload, ReadPayloadKeepsFraming
      <3>10. CASE \/ SendPayload \/ SendPayloadFails \/ ClientRecvReply \/ Disconnect
                  \/ ServerRecvHeader \/ ServerEnd \/ UNCHANGED vars
        <4>1. sent' = sent /\ handled' = handled
          BY <3>10 DEF SendPayload, SendPayloadFails, ClientRecvReply, Disconnect,
            ServerRecvHeader, ServerEnd, vars
        <4>2. QED
          BY <3>5, <4>1
      <3>11. QED
        BY <3>6, <3>7, <3>8, <3>9, <3>10 DEF Next, Server
    <2>3. QED
      BY <2>1, <2>2
  <1>3. QED
    BY <1>1, <1>2, InvariantHolds, PTL DEF Spec, ImplementsChannel, Channel!Spec

-----------------------------------------------------------------------------
\* Torn touch events.  An input and the heartbeats that lie inside it are one group on
\* the way, its host the input; any other message is a group of its own.

\* An input with a heartbeat inside, and how many there are.
Split(m) == m \in torn /\ ~IsHeartbeat(sent[m])
Beats(m) == IF Split(m) THEN IF Beat(m + 2) THEN 2 ELSE 1 ELSE 0

\* The group of message m, the place of a word in its group (its header is 0, then come
\* the heartbeats and the payload), the last place of a group, and the next group.
Host(m) == IF Beat(m) THEN IF Split(m - 1) THEN m - 1 ELSE m - 2 ELSE m
Rank(c) ==
    IF Beat(c.m) THEN c.m - Host(c.m) ELSE IF c.k = 0 THEN 0 ELSE c.k + Beats(c.m)
LastRank(h) == Beats(h) + Len(sent[h].data)
After(h) == h + Beats(h) + 1

\* Heartbeats follow the header they came after, and while the main thread is between
\* its two calls, nothing else has been sent since.
Grouped ==
    /\ \A m \in 1 .. Len(sent) :
        /\ Beat(m) => \/ m > 1 /\ Split(m - 1)
                      \/ m > 2 /\ Beat(m - 1) /\ Split(m - 2)
        /\ Split(m) => Beat(m + 1)
    /\ main # 0 =>
        /\ ~IsHeartbeat(sent[main])
        /\ sent[main].data # <<>>
        /\ Len(sent) = main + Beats(main)
        /\ \A i \in 1 .. Len(stream) : stream[i].m = main => stream[i].k = 0

\* The word at distance d behind a word in place r of group h, of n words on the way.
Runs(h, r, n, last, next) ==
    \A i, j \in 1 .. n : i < j =>
        /\ r[i] + (j - i) <= last[h[i]] => h[j] = h[i] /\ r[j] = r[i] + (j - i)
        /\ r[i] + (j - i) = last[h[i]] + 1 => h[j] = next[h[i]] /\ r[j] = 0

Hosts == [i \in 1 .. Len(stream) |-> Host(stream[i].m)]
Ranks == [i \in 1 .. Len(stream) |-> Rank(stream[i])]
LastRanks == [h \in 1 .. Len(sent) |-> LastRank(h)]
Afters == [h \in 1 .. Len(sent) |-> After(h)]

GroupsRunOn == Runs(Hosts, Ranks, Len(stream), LastRanks, Afters)

LEMMA NextGroupsRunOn ==
    GroupsRunOn' <=> Runs(Hosts', Ranks', Len(stream'), LastRanks', Afters')
  BY DEF GroupsRunOn, Runs

\* As many in A as in K, and the n-th is the n-th.
Paired(A, K, hs, ss) ==
    /\ Cardinality(A) = Cardinality(K)
    /\ \A i \in A, j \in K : Nth(A, i) = Nth(K, j) => hs[i] = ss[j]

\* The server has done with the first n messages: it is to read the header of the next
\* one or, of a torn touch event, the timestamp; or the payload of the next one.
ServerIsAt(n) ==
    /\ srv = "header" /\ stream # <<>> =>
        /\ Host(stream[1].m) = n + 1
        /\ \/ Rank(stream[1]) = 0
           \/ Split(n + 1) /\ stream[1].m = n + 1 /\ stream[1].k >= 4
    /\ srv = "payload" =>
        /\ n < Len(sent)
        /\ srvHdr = sent[n + 1].hdr
        /\ sent[n + 1].data # <<>>
        /\ stream # <<>> => Host(stream[1].m) = n + 1 /\ Rank(stream[1]) = 1

\* The client has written its groups to the end, or it is inside the last one.
ClientIsBehind(n) ==
    link = "up" =>
        /\ srv # "ended"
        /\ stream = <<>> =>
            IF srv = "payload"
            THEN main = n + 1 /\ main = Len(sent)
            ELSE main = 0 /\ n = Len(sent)
        /\ stream # <<>> =>
            LET c == stream[Len(stream)] IN
            IF main = 0
            THEN Rank(c) = LastRank(Host(c.m)) /\ After(Host(c.m)) = Len(sent) + 1
            ELSE Host(c.m) = main /\ Rank(c) = Beats(main)

Synced(n) ==
    /\ ~Beat(n + 1)
    /\ Paired(ActedOn, Intact \cap (1 .. n), handled, sent)
    /\ ServerIsAt(n)
    /\ ClientIsBehind(n)

Resync ==
    /\ Grouped
    /\ CellsAreOfMessages
    /\ GroupsRunOn
    /\ \E n \in 0 .. Len(sent) : Synced(n)

ResyncInv == TouchesTornOnce => Resync /\ skew = 0

\* Counting.
LEMMA NthType ==
    ASSUME NEW A \in SUBSET Nat, IsFiniteSet(A), NEW i
    PROVE  /\ Nth(A, i) \in Nat
           /\ Nth(A, i) <= Cardinality(A)
           /\ IsFiniteSet({j \in A : j <= i})
  <1>1. {j \in A : j <= i} \subseteq A
    OBVIOUS
  <1>2. IsFiniteSet({j \in A : j <= i}) /\ Cardinality({j \in A : j <= i}) <= Cardinality(A)
    BY <1>1, FS_Subset
  <1>3. QED
    BY <1>2, FS_CardinalityType DEF Nth

\* A new greatest element is the last, and leaves the numbers of the others.
LEMMA NthOfMore ==
    ASSUME NEW A \in SUBSET Nat, IsFiniteSet(A), NEW x \in Nat, \A i \in A : i < x
    PROVE  /\ IsFiniteSet(A \cup {x})
           /\ Cardinality(A \cup {x}) = Cardinality(A) + 1
           /\ Nth(A \cup {x}, x) = Cardinality(A) + 1
           /\ \A i \in A : Nth(A \cup {x}, i) = Nth(A, i)
  <1>1. x \notin A
    OBVIOUS
  <1>2. IsFiniteSet(A \cup {x}) /\ Cardinality(A \cup {x}) = Cardinality(A) + 1
    BY <1>1, FS_AddElement
  <1>3. {j \in A \cup {x} : j <= x} = A \cup {x}
    <2>1. \A j \in A : j <= x
      OBVIOUS
    <2>2. x <= x
      OBVIOUS
    <2>3. QED
      BY <2>1, <2>2
  <1>4. ASSUME NEW i \in A PROVE {j \in A \cup {x} : j <= i} = {j \in A : j <= i}
    OBVIOUS
  <1>5. QED
    BY <1>2, <1>3, <1>4 DEF Nth

LEMMA PairedMore ==
    ASSUME NEW A \in SUBSET Nat, NEW K \in SUBSET Nat, IsFiniteSet(A), IsFiniteSet(K),
           NEW hs, NEW ss, NEW ht, NEW st, NEW x \in Nat, NEW y \in Nat,
           Paired(A, K, hs, ss),
           \A i \in A : i < x /\ ht[i] = hs[i],
           \A j \in K : j < y /\ st[j] = ss[j],
           ht[x] = st[y]
    PROVE  Paired(A \cup {x}, K \cup {y}, ht, st)
  <1> DEFINE B == A \cup {x}
             L == K \cup {y}
  <1>1. /\ Cardinality(B) = Cardinality(A) + 1
        /\ Nth(B, x) = Cardinality(A) + 1
        /\ \A i \in A : Nth(B, i) = Nth(A, i)
    BY NthOfMore
  <1>2. /\ Cardinality(L) = Cardinality(K) + 1
        /\ Nth(L, y) = Cardinality(K) + 1
        /\ \A j \in K : Nth(L, j) = Nth(K, j)
    BY NthOfMore
  <1>3. Cardinality(A) = Cardinality(K) /\ Cardinality(A) \in Nat
    BY FS_CardinalityType DEF Paired
  <1>4. \A i \in A : Nth(A, i) \in Nat /\ Nth(A, i) <= Cardinality(A)
    BY NthType
  <1>5. \A j \in K : Nth(K, j) \in Nat /\ Nth(K, j) <= Cardinality(K)
    BY NthType
  <1>6. ASSUME NEW i \in B, NEW j \in L, Nth(B, i) = Nth(L, j)
        PROVE  ht[i] = st[j]
    <2> HIDE DEF B, L
    <2>1. i \in A \/ i = x
      BY DEF B
    <2>2. j \in K \/ j = y
      BY DEF L
    <2>3. CASE i \in A /\ j \in K
      <3>1. Nth(A, i) = Nth(K, j)
        BY <1>1, <1>2, <1>6, <2>3
      <3>2. QED
        BY <2>3, <3>1 DEF Paired
    <2>4. CASE i \in A /\ j = y
      BY <1>1, <1>2, <1>3, <1>4, <1>6, <2>4
    <2>5. CASE i = x /\ j \in K
      BY <1>1, <1>2, <1>3, <1>5, <1>6, <2>5
    <2>6. CASE i = x /\ j = y
      BY <2>6
    <2>7. QED
      BY <2>1, <2>2, <2>3, <2>4, <2>5, <2>6
  <1>7. Cardinality(B) = Cardinality(L)
    BY <1>1, <1>2, <1>3
  <1>8. QED
    BY <1>6, <1>7 DEF Paired

\* What is paired up to n is paired, for what comes behind has a greater number.
LEMMA PairedFromTheStart ==
    ASSUME NEW A \in SUBSET Nat, NEW K \in SUBSET Nat, IsFiniteSet(A), IsFiniteSet(K),
           NEW hs, NEW ss, NEW n \in Nat, Paired(A, K \cap (1 .. n), hs, ss),
           0 \notin K
    PROVE  /\ \A i \in A, j \in K : Nth(A, i) = Nth(K, j) => hs[i] = ss[j]
           /\ Cardinality(A) <= Cardinality(K)
  <1> DEFINE L == K \cap (1 .. n)
  <1>1. IsFiniteSet(L) /\ Cardinality(L) <= Cardinality(K)
    BY FS_Subset
  <1>2. Cardinality(A) = Cardinality(L) /\ Cardinality(A) \in Nat
    BY FS_CardinalityType DEF Paired
  <1>3. ASSUME NEW i \in A, NEW j \in K, Nth(A, i) = Nth(K, j)
        PROVE  hs[i] = ss[j]
    <2>1. CASE j <= n
      <3>1. j \in L
        BY <2>1
      <3>2. {k \in K : k <= j} = {k \in L : k <= j}
        <4>1. ASSUME NEW k \in K, k <= j PROVE k \in L
          <5>1. k \in Nat /\ k # 0 /\ j \in Nat
            OBVIOUS
          <5>2. k \in 1 .. n
            BY <2>1, <4>1, <5>1
          <5>3. QED
            BY <5>2
        <4>2. QED
          BY <4>1
      <3>3. Nth(K, j) = Nth(L, j)
        BY <3>2 DEF Nth
      <3>4. QED
        BY <1>3, <3>1, <3>3 DEF Paired
    <2>2. CASE j > n
      <3>1. L \cup {j} \subseteq {k \in K : k <= j}
        BY <2>2
      <3>2. j \notin L
        BY <2>2
      <3>3. /\ IsFiniteSet(L \cup {j})
            /\ Cardinality(L \cup {j}) = Cardinality(L) + 1
        BY <1>1, <3>2, FS_AddElement
      <3>4. IsFiniteSet({k \in K : k <= j})
        BY NthType
      <3>5. Cardinality(L \cup {j}) <= Nth(K, j)
        BY <3>1, <3>4, FS_Subset DEF Nth
      <3>6. Nth(A, i) \in Nat /\ Nth(A, i) <= Cardinality(A)
        BY NthType
      <3>7. QED
        BY <1>2, <1>3, <3>3, <3>5, <3>6
    <2>3. QED
      BY <2>1, <2>2
  <1>4. QED
    BY <1>1, <1>2, <1>3

-----------------------------------------------------------------------------
\* Places on the way.

\* The header of a new group behind the end of the last one.
LEMMA RunsHeader ==
    ASSUME NEW n \in Nat, NEW h, NEW r, NEW h2, NEW r2, NEW last, NEW next,
           \A i \in 1 .. n : /\ r[i] \in Nat /\ last[h[i]] \in Nat
                             /\ h2[i] = h[i] /\ r2[i] = r[i],
           Runs(h, r, n, last, next),
           n > 0 => r[n] = last[h[n]] /\ h2[n + 1] = next[h[n]],
           r2[n + 1] = 0
    PROVE  Runs(h2, r2, n + 1, last, next)
  <1> SUFFICES ASSUME NEW i \in 1 .. n + 1, NEW j \in 1 .. n + 1, i < j
               PROVE  /\ r2[i] + (j - i) <= last[h2[i]]
                            => h2[j] = h2[i] /\ r2[j] = r2[i] + (j - i)
                      /\ r2[i] + (j - i) = last[h2[i]] + 1 => h2[j] = next[h2[i]] /\ r2[j] = 0
    BY DEF Runs
  <1>1. i \in 1 .. n
    OBVIOUS
  <1>2. CASE j \in 1 .. n
    BY <1>1, <1>2 DEF Runs
  <1>3. CASE j = n + 1
    <2>1. CASE i = n
      BY <1>1, <1>3, <2>1
    <2>2. CASE i < n
      <3>1. r[i] \in Nat /\ last[h[i]] \in Nat /\ n \in 1 .. n
        BY <1>1
      <3>2. /\ r[i] + (n - i) <= last[h[i]] => h[n] = h[i] /\ r[n] = r[i] + (n - i)
            /\ r[i] + (n - i) = last[h[i]] + 1 => h[n] = next[h[i]] /\ r[n] = 0
        BY <1>1, <2>2 DEF Runs
      <3>3. h2[i] = h[i] /\ r2[i] = r[i] /\ r[n] = last[h[n]] /\ h2[n + 1] = next[h[n]]
        BY <1>1
      <3>4. QED
        BY <1>1, <1>3, <2>2, <3>1, <3>2, <3>3
    <2>3. QED
      BY <1>1, <2>1, <2>2
  <1>4. QED
    BY <1>2, <1>3

\* More words of the last group.
LEMMA RunsMore ==
    ASSUME NEW n \in Nat, NEW d \in Nat, NEW h, NEW r, NEW h2, NEW r2, NEW last, NEW next,
           NEW g, NEW s \in Nat,
           \A i \in 1 .. n : /\ r[i] \in Nat /\ last[h[i]] \in Nat
                             /\ h2[i] = h[i] /\ r2[i] = r[i],
           Runs(h, r, n, last, next),
           n > 0 => h[n] = g /\ r[n] = s,
           last[g] \in Nat, s + d <= last[g],
           \A i \in n + 1 .. n + d : h2[i] = g /\ r2[i] = s + (i - n)
    PROVE  Runs(h2, r2, n + d, last, next)
  <1> SUFFICES ASSUME NEW i \in 1 .. n + d, NEW j \in 1 .. n + d, i < j
               PROVE  /\ r2[i] + (j - i) <= last[h2[i]]
                            => h2[j] = h2[i] /\ r2[j] = r2[i] + (j - i)
                      /\ r2[i] + (j - i) = last[h2[i]] + 1 => h2[j] = next[h2[i]] /\ r2[j] = 0
    BY DEF Runs
  <1>1. CASE j <= n
    BY <1>1 DEF Runs
  <1>2. CASE i > n
    <2>1. h2[i] = g /\ r2[i] = s + (i - n) /\ h2[j] = g /\ r2[j] = s + (j - n)
      BY <1>2
    <2>2. QED
      BY <1>2, <2>1
  <1>3. CASE i <= n /\ j > n
    <2>1. h2[j] = g /\ r2[j] = s + (j - n)
      BY <1>3
    <2>2. /\ r[i] \in Nat /\ last[h[i]] \in Nat /\ h2[i] = h[i] /\ r2[i] = r[i]
          /\ h[n] = g /\ r[n] = s
      BY <1>3
    <2>3. CASE i = n
      BY <1>3, <2>1, <2>2, <2>3
    <2>4. CASE i < n
      <3>1. /\ r[i] + (n - i) <= last[h[i]] => h[n] = h[i] /\ r[n] = r[i] + (n - i)
            /\ r[i] + (n - i) = last[h[i]] + 1 => h[n] = next[h[i]] /\ r[n] = 0
        BY <1>3, <2>4 DEF Runs
      <3>2. QED
        BY <1>3, <2>1, <2>2, <2>4, <3>1
    <2>5. QED
      BY <1>3, <2>3, <2>4
  <1>4. QED
    BY <1>1, <1>2, <1>3

\* Reading from the front.
LEMMA RunsLess ==
    ASSUME NEW n \in Nat, NEW d \in 0 .. n, NEW h, NEW r, NEW h2, NEW r2, NEW last, NEW next,
           \A i \in 1 .. n - d : h2[i] = h[i + d] /\ r2[i] = r[i + d],
           Runs(h, r, n, last, next)
    PROVE  Runs(h2, r2, n - d, last, next)
  <1> SUFFICES ASSUME NEW i \in 1 .. n - d, NEW j \in 1 .. n - d, i < j
               PROVE  /\ r2[i] + (j - i) <= last[h2[i]]
                            => h2[j] = h2[i] /\ r2[j] = r2[i] + (j - i)
                      /\ r2[i] + (j - i) = last[h2[i]] + 1 => h2[j] = next[h2[i]] /\ r2[j] = 0
    BY DEF Runs
  <1>1. i + d \in 1 .. n /\ j + d \in 1 .. n /\ i + d < j + d /\ (j + d) - (i + d) = j - i
    OBVIOUS
  <1>2. /\ r[i + d] + ((j + d) - (i + d)) <= last[h[i + d]]
            => h[j + d] = h[i + d] /\ r[j + d] = r[i + d] + ((j + d) - (i + d))
        /\ r[i + d] + ((j + d) - (i + d)) = last[h[i + d]] + 1
            => h[j + d] = next[h[i + d]] /\ r[j + d] = 0
    BY <1>1 DEF Runs
  <1>3. h2[i] = h[i + d] /\ r2[i] = r[i + d] /\ h2[j] = h[j + d] /\ r2[j] = r[j + d]
    OBVIOUS
  <1>4. QED
    BY <1>1, <1>2, <1>3

-----------------------------------------------------------------------------
\* Groups.

LEMMA TornType ==
    ASSUME TypeOK, NEW m
    PROVE  /\ Beat(m) => m \in 1 .. Len(sent) /\ ~Split(m)
           /\ Split(m) => m \in 1 .. Len(sent) /\ ~Beat(m)
  BY DEF TypeOK, Beat, Split

LEMMA BeatsFacts ==
    ASSUME TypeOK, Grouped, NEW m \in 1 .. Len(sent)
    PROVE  /\ Beats(m) \in 0 .. 2
           /\ Split(m) => Beats(m) \in 1 .. 2 /\ Beat(m + 1)
           /\ ~Split(m) => Beats(m) = 0
           /\ Beats(m) = 2 => Beat(m + 2)
           /\ m + Beats(m) <= Len(sent)
  <1>1. Len(sent) \in Nat
    BY DEF TypeOK
  <1>2. Split(m) => Beat(m + 1)
    BY DEF Grouped
  <1>3. Beats(m) = 2 => Beat(m + 2)
    BY DEF Beats
  <1>4. Beat(m + 1) => m + 1 <= Len(sent)
    BY <1>1, TornType
  <1>5. Beat(m + 2) => m + 2 <= Len(sent)
    BY <1>1, TornType
  <1>6. QED
    BY <1>1, <1>2, <1>3, <1>4, <1>5 DEF Beats

LEMMA HostFacts ==
    ASSUME TypeOK, Grouped, NEW m \in 1 .. Len(sent)
    PROVE  /\ Host(m) \in 1 .. m
           /\ ~Beat(Host(m))
           /\ ~Beat(m) => Host(m) = m
           /\ Beat(m) => Split(Host(m)) /\ m - Host(m) \in 1 .. Beats(Host(m))
  <1>1. CASE ~Beat(m)
    BY <1>1 DEF Host
  <1>2. CASE Beat(m) /\ Split(m - 1)
    <2>1. Host(m) = m - 1
      BY <1>2 DEF Host
    <2>2. m - 1 \in 1 .. Len(sent) /\ ~Beat(m - 1)
      BY <1>2, TornType
    <2>3. Beats(m - 1) \in 1 .. 2
      BY <1>2, <2>2, BeatsFacts
    <2>4. QED
      BY <1>2, <2>1, <2>2, <2>3
  <1>3. CASE Beat(m) /\ ~Split(m - 1)
    <2>1. m > 2 /\ Beat(m - 1) /\ Split(m - 2) /\ Host(m) = m - 2
      BY <1>3 DEF Grouped, Host
    <2>2. m - 2 \in 1 .. Len(sent) /\ ~Beat(m - 2)
      BY <2>1, TornType
    <2>3. (m - 2) + 2 = m
      OBVIOUS
    <2>4. Beats(m - 2) = 2
      BY <1>3, <2>1, <2>3 DEF Beats
    <2>5. QED
      BY <1>3, <2>1, <2>2, <2>4
  <1>4. QED
    BY <1>1, <1>2, <1>3

\* A group begins behind a group.
LEMMA AfterIsHost ==
    ASSUME TypeOK, Grouped, NEW h \in 1 .. Len(sent), ~Beat(h)
    PROVE  /\ After(h) \in h + 1 .. Len(sent) + 1
           /\ ~Beat(After(h))
           /\ \A m \in h + 1 .. After(h) - 1 : Beat(m)
  <1> DEFINE b == Beats(h)
  <1>1. /\ b \in 0 .. 2
        /\ Split(h) => b \in 1 .. 2 /\ Beat(h + 1)
        /\ ~Split(h) => b = 0
        /\ b = 2 => Beat(h + 2)
        /\ h + b <= Len(sent)
    BY BeatsFacts
  <1>2. Len(sent) \in Nat
    BY DEF TypeOK
  <1>3. After(h) = h + b + 1
    BY DEF After
  <1>4. ~Beat(h + b + 1)
    <2> SUFFICES ASSUME Beat(h + b + 1) PROVE FALSE
      OBVIOUS
    <2> DEFINE m == h + b + 1
    <2>1. m \in 1 .. Len(sent)
      BY TornType
    <2>2. \/ m > 1 /\ Split(m - 1)
          \/ m > 2 /\ Beat(m - 1) /\ Split(m - 2)
      BY <2>1 DEF Grouped
    <2>3. CASE b = 0
      <3>1. m - 1 = h /\ ~Split(h)
        BY <1>1, <2>3
      <3>2. QED
        BY <2>2, <3>1
    <2>4. CASE b = 1
      <3>1. m - 1 = h + 1 /\ m - 2 = h /\ m = h + 2 /\ Split(h)
        BY <1>1, <2>4
      <3>2. Beats(h) # 1
        BY <3>1 DEF Beats
      <3>3. QED
        BY <2>4, <3>2
    <2>5. CASE b = 2
      <3>1. m - 1 = h + 2 /\ m - 2 = h + 1 /\ Beat(h + 1) /\ Beat(h + 2)
        BY <1>1, <2>5
      <3>2. ~Split(h + 1) /\ ~Split(h + 2)
        BY <3>1, TornType
      <3>3. QED
        BY <2>2, <3>1, <3>2
    <2>6. QED
      BY <1>1, <2>3, <2>4, <2>5
  <1>5. ASSUME NEW m \in h + 1 .. h + b PROVE Beat(m)
    <2> HIDE DEF b
    <2>1. b \in 0 .. 2 /\ m \in Int /\ m >= h + 1 /\ m <= h + b
      BY <1>1, <1>5
    <2>2. m = h + 1 \/ m = h + 2
      BY <2>1
    <2>3. CASE m = h + 1
      <3>1. b # 0
        BY <2>1, <2>3
      <3>2. Split(h)
        BY <1>1, <3>1
      <3>3. QED
        BY <1>1, <2>3, <3>2
    <2>4. CASE m = h + 2
      <3>1. b = 2
        BY <2>1, <2>4
      <3>2. QED
        BY <1>1, <2>4, <3>1
    <2>5. QED
      BY <2>2, <2>3, <2>4
  <1> HIDE DEF b
  <1>6. After(h) \in h + 1 .. Len(sent) + 1
    BY <1>1, <1>2, <1>3
  <1>7. After(h) - 1 = h + b
    BY <1>1, <1>3
  <1>8. QED
    BY <1>3, <1>4, <1>5, <1>6, <1>7

\* A message whose header is a heartbeat's is a heartbeat.
LEMMA BeatIsHeartbeat ==
    ASSUME NEW msg \in Inputs \cup {Heartbeat}
    PROVE  /\ IsHeartbeat(msg) <=> msg = Heartbeat
           /\ ~IsHeartbeat(msg) <=> msg \in Inputs
  BY InputsAssumption DEF IsHeartbeat

\* The words on the way and their places.
LEMMA CellPlace ==
    ASSUME TypeOK, SentOK, Grouped, CellsAreOfMessages, NEW i \in 1 .. Len(stream)
    PROVE  LET c == stream[i]
               h == Host(c.m)
               r == Rank(c)
           IN  /\ h \in 1 .. Len(sent) /\ h <= c.m /\ ~Beat(h)
               /\ Beats(h) \in 0 .. 2
               /\ Len(sent[h].data) \in Nat
               /\ r \in Nat
               /\ LastRank(h) = Beats(h) + Len(sent[h].data)
               /\ LastRank(h) \in Nat
               /\ r <= LastRank(h)
               /\ r = 0 => c.m = h /\ c.k = 0 /\ c.w = sent[h].hdr
               /\ r \in 1 .. Beats(h) => Split(h) /\ c.k = 0 /\ c.w = Heartbeat.hdr
               /\ r > Beats(h) => c.m = h /\ c.k = r - Beats(h) /\ c.w = sent[h].data[c.k]
  <1> DEFINE c == stream[i]
             h == Host(c.m)
             r == Rank(c)
  <1>1. /\ c.m \in 1 .. Len(sent) /\ c.k \in Nat
        /\ sent[c.m] \in Message /\ Len(sent[c.m].data) \in Nat
        /\ c.k <= Len(sent[c.m].data)
        /\ c.w = IF c.k = 0 THEN sent[c.m].hdr ELSE sent[c.m].data[c.k]
    BY CellFacts
  <1>2. /\ h \in 1 .. c.m
        /\ ~Beat(h)
        /\ ~Beat(c.m) => h = c.m
        /\ Beat(c.m) => Split(h) /\ c.m - h \in 1 .. Beats(h)
    BY <1>1, HostFacts
  <1>3. Len(sent) \in Nat
    BY DEF TypeOK
  <1>4. h \in 1 .. Len(sent) /\ h <= c.m
    BY <1>1, <1>2, <1>3
  <1>5. Beats(h) \in 0 .. 2
    BY <1>4, BeatsFacts
  <1>6. Len(sent[h].data) \in Nat
    <2>1. sent[h] \in Message
      BY <1>4 DEF TypeOK
    <2>2. QED
      BY <2>1, MessageFields
  <1>7. LastRank(h) = Beats(h) + Len(sent[h].data)
    BY DEF LastRank
  <1>8. CASE Beat(c.m)
    <2>1. r = c.m - h
      BY <1>8 DEF Rank
    <2>2. sent[c.m] = Heartbeat
      BY <1>1, <1>8, BeatIsHeartbeat DEF SentOK, Beat
    <2>3. Len(sent[c.m].data) = 0
      BY <2>2, HeartbeatIsMessage
    <2>4. c.k = 0 /\ c.w = Heartbeat.hdr
      BY <1>1, <2>2, <2>3
    <2>5. r \in 1 .. Beats(h) /\ Split(h)
      BY <1>2, <1>8, <2>1
    <2> HIDE DEF c, h, r
    <2>6. QED
      BY <1>2, <1>4, <1>5, <1>6, <1>7, <2>4, <2>5 DEF c, h, r
  <1>9. CASE ~Beat(c.m)
    <2>1. h = c.m
      BY <1>2, <1>9
    <2>2. r = IF c.k = 0 THEN 0 ELSE c.k + Beats(h)
      BY <1>9, <2>1 DEF Rank
    <2> HIDE DEF c, h, r
    <2>3. r \in Nat /\ r <= LastRank(h) /\ LastRank(h) \in Nat
      <3>1. PICK b \in Nat, d \in Nat, k \in Nat :
                b = Beats(h) /\ d = Len(sent[h].data) /\ k = c.k
        BY <1>1, <1>5, <1>6
      <3>2. k <= d
        BY <1>1, <2>1, <3>1
      <3>3. r = (IF k = 0 THEN 0 ELSE k + b) /\ LastRank(h) = b + d
        BY <1>7, <2>2, <3>1
      <3>4. QED
        BY <3>2, <3>3
    <2>4. r = 0 => c.m = h /\ c.k = 0 /\ c.w = sent[h].hdr
      BY <1>1, <1>5, <2>1, <2>2
    <2>5. r \notin 1 .. Beats(h)
      BY <1>1, <1>5, <2>2
    <2>6. r > Beats(h) => c.m = h /\ c.k = r - Beats(h) /\ c.w = sent[h].data[c.k]
      BY <1>1, <1>5, <2>1, <2>2
    <2>7. QED
      BY <1>2, <1>4, <1>5, <1>6, <1>7, <2>3, <2>4, <2>5, <2>6 DEF c, h, r
  <1>10. QED
    BY <1>8, <1>9

\* What is torn are touch events, whose timestamp nobody acts on.
LEMMA SplitIsTouch ==
    ASSUME TypeOK, SentOK, TouchesTornOnce, QuietTimestamps, NEW m, Split(m)
    PROVE  /\ m \in 1 .. Len(sent)
           /\ sent[m] \in Inputs
           /\ MsgType(sent[m].hdr) = TOUCH
           /\ Len(sent[m].data) = 5
           /\ \A k \in 4 .. 5 :
                /\ ~ReadsPayload(sent[m].data[k])
                /\ ~Acted([hdr |-> sent[m].data[k], data |-> <<>>])
                /\ ~Dereferences([hdr |-> sent[m].data[k], data |-> <<>>])
  <1>1. m \in 1 .. Len(sent) /\ m \in torn /\ ~IsHeartbeat(sent[m])
    BY DEF TypeOK, Split
  <1>2. sent[m] \in Inputs
    BY <1>1, BeatIsHeartbeat DEF SentOK
  <1>3. Injected(sent[m])
    BY <1>2 DEF QuietTimestamps
  <1>4. MsgType(sent[m].hdr) \in SystemKeys \cup {TOUCH, KEY, SCROLL}
    BY <1>3 DEF Injected, Dereferences
  <1>5. MsgType(sent[m].hdr) # HEARTBEAT
    BY <1>4 DEF SystemKeys, TOUCH, KEY, SCROLL, BACK, HOME, POWER, VOLUME_UP, VOLUME_DOWN,
      RECENTS, HEARTBEAT
  <1>6. MsgType(sent[m].hdr) = TOUCH
    BY <1>1, <1>5 DEF TouchesTornOnce
  <1>7. QED
    BY <1>1, <1>2, <1>6 DEF QuietTimestamps

\* Every message that was sent is acted on when it arrives.
LEMMA SentIsActed ==
    ASSUME QuietTimestamps, NEW msg \in Inputs \cup {Heartbeat}
    PROVE  Acted(msg)
  <1>1. CASE msg \in Inputs
    BY <1>1 DEF QuietTimestamps, Acted
  <1>2. CASE msg = Heartbeat
    <2>1. msg.hdr.lo = 255
      BY <1>2, HeartbeatIsMessage
    <2>2. QED
      BY <2>1 DEF Acted, MsgType, HEARTBEAT
  <1>3. QED
    BY <1>1, <1>2

\* A touch event whose first word is the header of a heartbeat is not acted on.
LEMMA BeatIsNoAction ==
    ASSUME NEW msg, MsgType(msg.hdr) = TOUCH, msg.data[1] = Heartbeat.hdr
    PROVE  ~Acted(msg)
  <1>1. msg.data[1].lo % 256 = 255
    BY HeartbeatIsMessage
  <1>2. ~ValidAction(msg)
    BY <1>1 DEF ValidAction
  <1>3. MsgType(msg.hdr) \notin SystemKeys /\ MsgType(msg.hdr) # HEARTBEAT
    BY DEF SystemKeys, TOUCH, BACK, HOME, POWER, VOLUME_UP, VOLUME_DOWN, RECENTS, HEARTBEAT
  <1>4. QED
    BY <1>2, <1>3 DEF Acted, Injected

-----------------------------------------------------------------------------
\* What was handled and what was sent.

LEMMA CountedSets ==
    ASSUME TypeOK, NEW n \in Nat
    PROVE  /\ ActedOn \in SUBSET Nat /\ IsFiniteSet(ActedOn)
           /\ Intact \in SUBSET Nat /\ IsFiniteSet(Intact) /\ 0 \notin Intact
           /\ Intact \cap (1 .. n) \in SUBSET Nat
           /\ IsFiniteSet(Intact \cap (1 .. n))
  <1>1. Len(handled) \in Nat /\ Len(sent) \in Nat
    BY DEF TypeOK
  <1>2. IsFiniteSet(1 .. Len(handled)) /\ IsFiniteSet(1 .. Len(sent))
    BY <1>1, FS_Interval
  <1>3. ActedOn \subseteq 1 .. Len(handled) /\ Intact \subseteq 1 .. Len(sent)
    BY DEF ActedOn, Intact
  <1>4. IsFiniteSet(ActedOn) /\ IsFiniteSet(Intact)
    BY <1>2, <1>3, FS_Subset
  <1>5. Intact \cap (1 .. n) \subseteq Intact
    OBVIOUS
  <1>6. IsFiniteSet(Intact \cap (1 .. n))
    BY <1>4, <1>5, FS_Subset
  <1>7. ActedOn \in SUBSET Nat
    BY <1>1, <1>3
  <1>8. Intact \in SUBSET Nat /\ 0 \notin Intact
    BY <1>1, <1>3
  <1>9. QED
    BY <1>4, <1>6, <1>7, <1>8

LEMMA ActedOnMore ==
    ASSUME TypeOK, NEW msg \in Message, handled' = Append(handled, msg)
    PROVE  /\ \A i \in ActedOn : i < Len(handled) + 1 /\ handled'[i] = handled[i]
           /\ handled'[Len(handled) + 1] = msg
           /\ Acted(msg) => ActedOn' = ActedOn \cup {Len(handled) + 1}
           /\ ~Acted(msg) => ActedOn' = ActedOn
  <1> DEFINE l == Len(handled)
  <1>1. /\ l \in Nat /\ Len(handled') = l + 1
        /\ \A i \in 1 .. l : handled'[i] = handled[i]
        /\ handled'[l + 1] = msg
    BY DEF TypeOK
  <1>2. \A i \in ActedOn : i < l + 1 /\ handled'[i] = handled[i]
    BY <1>1 DEF ActedOn
  <1>3. ActedOn' = {i \in 1 .. l + 1 : Acted(handled'[i])}
    BY <1>1 DEF ActedOn
  <1> HIDE DEF l
  <1>4. ASSUME NEW i
        PROVE  i \in ActedOn' <=> i \in ActedOn \/ (i = l + 1 /\ Acted(msg))
    <2>1. i \in 1 .. l + 1 <=> i \in 1 .. l \/ i = l + 1
      BY <1>1
    <2>2. CASE i \in 1 .. l
      <3>1. i # l + 1 /\ handled'[i] = handled[i]
        BY <1>1, <2>2
      <3>2. QED
        BY <1>3, <2>1, <2>2, <3>1 DEF ActedOn, l
    <2>3. CASE i = l + 1
      <3>1. i \notin 1 .. l
        BY <1>1, <2>3
      <3>2. QED
        BY <1>1, <1>3, <2>1, <2>3, <3>1 DEF ActedOn, l
    <2>4. CASE i \notin 1 .. l + 1
      BY <1>3, <2>1, <2>4 DEF ActedOn, l
    <2>5. QED
      BY <2>1, <2>2, <2>3, <2>4
  <1>5. Acted(msg) => ActedOn' = ActedOn \cup {l + 1}
    BY <1>4
  <1>6. ~Acted(msg) => ActedOn' = ActedOn
    BY <1>4
  <1>7. QED
    BY <1>1, <1>2, <1>5, <1>6 DEF l

\* A message that arrives whole is the next one of both.
LEMMA PairedArrives ==
    ASSUME TypeOK, SentOK, QuietTimestamps, NEW n \in Nat, n < Len(sent), n + 1 \notin torn,
           Paired(ActedOn, Intact \cap (1 .. n), handled, sent),
           handled' = Append(handled, sent[n + 1]), sent' = sent, torn' = torn
    PROVE  Paired(ActedOn, Intact \cap (1 .. n + 1), handled, sent)'
  <1>1. /\ n + 1 \in 1 .. Len(sent) /\ Len(sent) \in Nat /\ Len(handled) \in Nat
    BY DEF TypeOK
  <1>2. sent[n + 1] \in Message /\ Acted(sent[n + 1])
    BY <1>1, SentIsActed DEF TypeOK, SentOK
  <1>3. /\ \A i \in ActedOn : i < Len(handled) + 1 /\ handled'[i] = handled[i]
        /\ handled'[Len(handled) + 1] = sent[n + 1]
        /\ ActedOn' = ActedOn \cup {Len(handled) + 1}
    BY <1>2, ActedOnMore
  <1> DEFINE K == Intact \cap (1 .. n)
  <1>4. \A j \in K : j < n + 1
    OBVIOUS
  <1>5. Intact' \cap (1 .. n + 1) = K \cup {n + 1}
    <2>1. Intact' = Intact /\ n + 1 \in Intact
      BY <1>1 DEF Intact
    <2>2. 1 .. n + 1 = (1 .. n) \cup {n + 1}
      OBVIOUS
    <2>3. QED
      BY <2>1, <2>2
  <1>6. /\ ActedOn \in SUBSET Nat /\ IsFiniteSet(ActedOn)
        /\ K \in SUBSET Nat /\ IsFiniteSet(K)
    BY CountedSets
  <1>7. Paired(ActedOn, K, handled, sent)
    OBVIOUS
  <1> HIDE DEF K
  <1>8. Len(handled) + 1 \in Nat /\ n + 1 \in Nat
    BY <1>1
  <1>9. Paired(ActedOn \cup {Len(handled) + 1}, K \cup {n + 1}, handled', sent')
    BY <1>3, <1>4, <1>6, <1>7, <1>8, PairedMore
  <1>10. Paired(ActedOn', Intact' \cap (1 .. n + 1), handled', sent')
    BY <1>3, <1>5, <1>9
  <1>11. QED
    BY <1>10 DEF Paired, Nth

\* What is ignored changes nothing, nor does passing torn messages.
LEMMA PairedIgnores ==
    ASSUME TypeOK, NEW n \in Nat, NEW p \in Nat, n <= p,
           \A m \in n + 1 .. p : m \in torn,
           Paired(ActedOn, Intact \cap (1 .. n), handled, sent),
           NEW msg \in Message, ~Acted(msg),
           handled' = Append(handled, msg), sent' = sent, torn' = torn
    PROVE  Paired(ActedOn, Intact \cap (1 .. p), handled, sent)'
  <1>1. /\ \A i \in ActedOn : handled'[i] = handled[i]
        /\ ActedOn' = ActedOn
    BY ActedOnMore
  <1>2. Intact' \cap (1 .. p) = Intact \cap (1 .. n)
    <2>1. Intact' = Intact
      BY DEF Intact
    <2>2. \A m \in Intact : m \in 1 .. p <=> m \in 1 .. n
      <3>1. \A m \in 1 .. p : m \in 1 .. n \/ m \in n + 1 .. p
        OBVIOUS
      <3>2. 1 .. n \subseteq 1 .. p
        OBVIOUS
      <3>3. QED
        BY <3>1, <3>2 DEF Intact
    <2>3. QED
      BY <2>1, <2>2
  <1>3. Paired(ActedOn, Intact \cap (1 .. n), handled, sent) =>
            Paired(ActedOn', Intact' \cap (1 .. p), handled', sent')
    <2> SUFFICES ASSUME Paired(ActedOn, Intact \cap (1 .. n), handled, sent)
                 PROVE  Paired(ActedOn, Intact \cap (1 .. n), handled', sent)
      BY <1>1, <1>2
    <2>1. QED
      BY <1>1 DEF Paired
  <1>4. QED
    BY <1>3 DEF Paired, Nth

-----------------------------------------------------------------------------
\* Reading.

LEMMA SameGroups ==
    ASSUME UNCHANGED <<sent, torn>>
    PROVE  /\ \A m : /\ Beat(m)' <=> Beat(m)
                     /\ Split(m)' <=> Split(m)
                     /\ Beats(m)' = Beats(m)
                     /\ Host(m)' = Host(m)
                     /\ LastRank(m)' = LastRank(m)
                     /\ After(m)' = After(m)
           /\ \A c : Rank(c)' = Rank(c)
  BY DEF Beat, Split, Beats, Host, LastRank, After, Rank

\* The places of the words behind the first.
LEMMA Along ==
    ASSUME TypeOK, SentOK, Resync, NEW j \in 1 .. Len(stream)
    PROVE  LET h == Host(stream[1].m)
               r == Rank(stream[1])
           IN  /\ r + (j - 1) <= LastRank(h)
                    => Host(stream[j].m) = h /\ Rank(stream[j]) = r + (j - 1)
               /\ r + (j - 1) = LastRank(h) + 1
                    => Host(stream[j].m) = After(h) /\ Rank(stream[j]) = 0
  <1> DEFINE h == Host(stream[1].m)
             r == Rank(stream[1])
  <1>1. 1 \in 1 .. Len(stream)
    BY DEF TypeOK
  <1>2. h \in 1 .. Len(sent) /\ r \in Nat /\ LastRank(h) \in Nat /\ r <= LastRank(h)
    BY <1>1, CellPlace DEF Resync
  <1>3. CASE j = 1
    BY <1>2, <1>3
  <1>4. CASE j # 1
    <2>1. 1 < j
      BY <1>4
    <2>2. /\ Ranks[1] + (j - 1) <= LastRanks[Hosts[1]]
                => Hosts[j] = Hosts[1] /\ Ranks[j] = Ranks[1] + (j - 1)
          /\ Ranks[1] + (j - 1) = LastRanks[Hosts[1]] + 1
                => Hosts[j] = Afters[Hosts[1]] /\ Ranks[j] = 0
      BY <1>1, <2>1 DEF Resync, GroupsRunOn, Runs
    <2>3. /\ Hosts[1] = h /\ Ranks[1] = r
          /\ Hosts[j] = Host(stream[j].m) /\ Ranks[j] = Rank(stream[j])
      BY <1>1 DEF Hosts, Ranks
    <2>4. LastRanks[h] = LastRank(h) /\ Afters[h] = After(h)
      BY <1>2 DEF LastRanks, Afters
    <2>5. QED
      BY <2>2, <2>3, <2>4
  <1>5. QED
    BY <1>3, <1>4

\* Reading the first d words.
LEMMA ReadKeepsGroups ==
    ASSUME TypeOK, Resync, NEW d \in Nat, d <= Len(stream), UNCHANGED <<sent, torn, main>>,
           stream' \in Seq(Cell), Len(stream') = Len(stream) - d,
           \A i \in 1 .. Len(stream) - d : stream'[i] = stream[i + d]
    PROVE  /\ Grouped' /\ CellsAreOfMessages' /\ GroupsRunOn'
           /\ stream' # <<>> =>
                /\ d < Len(stream)
                /\ stream'[1] = stream[d + 1]
                /\ stream'[Len(stream')] = stream[Len(stream)]
           /\ stream' = <<>> => Len(stream) = d
  <1> DEFINE l == Len(stream)
  <1>1. l \in Nat
    BY DEF TypeOK
  <1>2. \A i \in 1 .. l - d : i + d \in 1 .. l /\ stream'[i] = stream[i + d]
    BY <1>1
  <1>3. CellsAreOfMessages'
    <2> SUFFICES ASSUME NEW i \in 1 .. l - d
                 PROVE  /\ stream'[i].m \in 1 .. Len(sent)
                        /\ stream'[i].k \in 0 .. Len(sent[stream'[i].m].data)
                        /\ stream'[i].w = IF stream'[i].k = 0
                                          THEN sent[stream'[i].m].hdr
                                          ELSE sent[stream'[i].m].data[stream'[i].k]
      BY DEF CellsAreOfMessages
    <2>1. stream'[i] = stream[i + d] /\ i + d \in 1 .. Len(stream)
      BY <1>2
    <2>2. QED
      BY <2>1 DEF Resync, CellsAreOfMessages
  <1>4. GroupsRunOn'
    <2>1. \A i \in 1 .. l - d : Hosts'[i] = Hosts[i + d] /\ Ranks'[i] = Ranks[i + d]
      <3>1. ASSUME NEW i \in 1 .. l - d
            PROVE  Hosts'[i] = Host(stream[i + d].m) /\ Ranks'[i] = Rank(stream[i + d])
        BY <1>2, SameGroups DEF Hosts, Ranks
      <3>2. QED
        BY <1>2, <3>1 DEF Hosts, Ranks
    <2>2. LastRanks' = LastRanks /\ Afters' = Afters
      BY SameGroups DEF LastRanks, Afters
    <2>3. Runs(Hosts, Ranks, l, LastRanks, Afters)
      BY DEF Resync, GroupsRunOn
    <2>4. d \in 0 .. l
      BY <1>1
    <2> HIDE DEF l
    <2>5. Runs(Hosts', Ranks', l - d, LastRanks, Afters)
      BY <1>1, <2>1, <2>3, <2>4, RunsLess
    <2>6. QED
      BY <2>2, <2>5 DEF GroupsRunOn, Runs, l
  <1>5. Grouped'
    <2>1. \A m \in 1 .. Len(sent) :
            /\ Beat(m)' => \/ m > 1 /\ Split(m - 1)'
                           \/ m > 2 /\ Beat(m - 1)' /\ Split(m - 2)'
            /\ Split(m)' => Beat(m + 1)'
      BY SameGroups DEF Resync, Grouped
    <2>2. main # 0 => \A i \in 1 .. l - d : stream'[i].m = main => stream'[i].k = 0
      BY <1>2 DEF Resync, Grouped
    <2>3. main # 0 => /\ ~IsHeartbeat(sent[main])
                      /\ sent[main].data # <<>>
                      /\ Len(sent) = main + Beats(main)'
      BY SameGroups DEF Resync, Grouped
    <2>4. QED
      BY <2>1, <2>2, <2>3 DEF Grouped
  <1>6. stream' # <<>> <=> l - d > 0
    BY <1>1
  <1>7. ASSUME l - d > 0
        PROVE  /\ stream'[1] = stream[d + 1]
               /\ stream'[Len(stream')] = stream[l]
    BY <1>1, <1>2, <1>7
  <1>8. QED
    BY <1>1, <1>3, <1>4, <1>5, <1>6, <1>7

\* The place of the last word written, whatever is read before it.
LEMMA BehindKept ==
    ASSUME UNCHANGED <<sent, torn, main, link>>, NEW n, NEW p, ClientIsBehind(n),
           srv' # "ended", stream # <<>>, stream' # <<>>,
           stream'[Len(stream')] = stream[Len(stream)]
    PROVE  ClientIsBehind(p)'
  BY SameGroups DEF ClientIsBehind

LEMMA SamePaired ==
    ASSUME UNCHANGED <<sent, torn, handled>>, NEW n,
           Paired(ActedOn, Intact \cap (1 .. n), handled, sent)
    PROVE  Paired(ActedOn, Intact \cap (1 .. n), handled, sent)'
  <1>1. ActedOn' = ActedOn /\ Intact' = Intact
    BY DEF ActedOn, Intact
  <1>2. QED
    BY <1>1 DEF Paired, Nth

\* What the server reads where it reads a header: a header, or a word of a timestamp.
LEMMA NextRead ==
    ASSUME TypeOK, SentOK, QuietTimestamps, TouchesTornOnce, Resync,
           NEW n \in 0 .. Len(sent), Synced(n), srv = "header", stream # <<>>
    PROVE  LET c == stream[1] IN
           /\ n + 1 \in 1 .. Len(sent) /\ ~Beat(n + 1)
           /\ sent[n + 1] \in Inputs \cup {Heartbeat}
           /\ Beats(n + 1) \in 0 .. 2
           /\ Len(sent[n + 1].data) \in Nat
           /\ LastRank(n + 1) = Beats(n + 1) + Len(sent[n + 1].data)
           /\ Host(c.m) = n + 1
           /\ \/ Rank(c) = 0 /\ c.w = sent[n + 1].hdr
              \/ /\ Split(n + 1)
                 /\ c.k \in 4 .. 5 /\ c.w = sent[n + 1].data[c.k]
                 /\ Rank(c) = c.k + Beats(n + 1)
  <1> DEFINE c == stream[1]
  <1>1. 1 \in 1 .. Len(stream)
    BY DEF TypeOK
  <1>2. /\ Host(c.m) = n + 1
        /\ Rank(c) = 0 \/ (Split(n + 1) /\ c.m = n + 1 /\ c.k >= 4)
    BY DEF Synced, ServerIsAt
  <1>3. /\ n + 1 \in 1 .. Len(sent) /\ ~Beat(n + 1)
        /\ Beats(n + 1) \in 0 .. 2 /\ Len(sent[n + 1].data) \in Nat
        /\ LastRank(n + 1) = Beats(n + 1) + Len(sent[n + 1].data)
        /\ Rank(c) = 0 => c.w = sent[n + 1].hdr
    BY <1>1, <1>2, CellPlace DEF Resync
  <1>4. ASSUME Split(n + 1), c.m = n + 1, c.k >= 4
        PROVE  /\ c.k \in 4 .. 5 /\ c.w = sent[n + 1].data[c.k]
               /\ Rank(c) = c.k + Beats(n + 1)
    <2>1. Len(sent[n + 1].data) = 5
      BY <1>4, SplitIsTouch
    <2>2. /\ c.k \in Nat /\ c.k <= Len(sent[c.m].data)
          /\ c.w = IF c.k = 0 THEN sent[c.m].hdr ELSE sent[c.m].data[c.k]
      BY <1>1, CellFacts DEF Resync
    <2>3. c.k \in 4 .. 5 /\ c.w = sent[n + 1].data[c.k]
      BY <1>4, <2>1, <2>2
    <2>4. Rank(c) = c.k + Beats(n + 1)
      BY <1>3, <1>4, <2>3 DEF Rank
    <2>5. QED
      BY <2>3, <2>4
  <1>5. QED
    BY <1>2, <1>3, <1>4 DEF SentOK

\* control_thread_func reads a header whose payload is to be read.
LEMMA ReadHeaderResync ==
    ASSUME TypeOK, TypeOK', SentOK, QuietTimestamps, TouchesTornOnce, Resync, WordRecvHeader
    PROVE  Resync'
  <1> DEFINE l == Len(stream)
  <1>1. /\ srv = "header" /\ stream # <<>> /\ srv' = "payload"
        /\ UNCHANGED <<sent, torn, main, link, handled>>
        /\ ReadsPayload(stream[1].w) /\ srvHdr' = stream[1].w
        /\ l \in Nat /\ l > 0 /\ 1 <= l
        /\ stream' \in Seq(Cell) /\ Len(stream') = l - 1
        /\ \A i \in 1 .. l - 1 : stream'[i] = stream[i + 1]
    BY DEF TypeOK, WordRecvHeader
  <1>2. /\ Grouped' /\ CellsAreOfMessages' /\ GroupsRunOn'
        /\ stream' # <<>> =>
            /\ 1 < Len(stream)
            /\ stream'[1] = stream[1 + 1]
            /\ stream'[Len(stream')] = stream[Len(stream)]
        /\ stream' = <<>> => Len(stream) = 1
    BY <1>1, ReadKeepsGroups
  <1>3. PICK n \in 0 .. Len(sent) : Synced(n)
    BY DEF Resync
  <1> DEFINE c == stream[1]
  <1>4. /\ n + 1 \in 1 .. Len(sent) /\ ~Beat(n + 1)
        /\ sent[n + 1] \in Inputs \cup {Heartbeat}
        /\ Beats(n + 1) \in 0 .. 2
        /\ Len(sent[n + 1].data) \in Nat
        /\ LastRank(n + 1) = Beats(n + 1) + Len(sent[n + 1].data)
        /\ Host(c.m) = n + 1
        /\ \/ Rank(c) = 0 /\ c.w = sent[n + 1].hdr
           \/ /\ Split(n + 1)
              /\ c.k \in 4 .. 5 /\ c.w = sent[n + 1].data[c.k]
    BY <1>1, <1>3, NextRead
  <1>5. Rank(c) = 0 /\ c.w = sent[n + 1].hdr
    BY <1>1, <1>4, SplitIsTouch
  <1>6. sent[n + 1].data # <<>> /\ Len(sent[n + 1].data) > 0
    <2>1. sent[n + 1].data # <<>> /\ sent[n + 1] \in Message
      BY <1>1, <1>4, <1>5, SentFacts
    <2>2. QED
      BY <1>4, <2>1, MessageFields
  <1>7. ASSUME stream' # <<>> PROVE (Host(stream[1].m) = n + 1 /\ Rank(stream[1]) = 1)'
    <2>1. 2 \in 1 .. Len(stream) /\ stream'[1] = stream[2]
      BY <1>1, <1>2, <1>7
    <2>2. Rank(c) + (2 - 1) <= LastRank(Host(c.m))
      BY <1>4, <1>5, <1>6
    <2>3. Host(stream[2].m) = n + 1 /\ Rank(stream[2]) = 0 + (2 - 1)
      BY <1>4, <1>5, <2>1, <2>2, Along
    <2>4. QED
      BY <1>1, <2>1, <2>3, SameGroups
  <1>8. ServerIsAt(n)'
    <2>1. n < Len(sent)
      BY <1>4
    <2>2. srvHdr' = sent'[n + 1].hdr /\ sent'[n + 1].data # <<>> /\ n < Len(sent')
      BY <1>1, <1>4, <1>5, <1>6, <2>1
    <2>3. QED
      BY <1>1, <1>7, <2>2 DEF ServerIsAt
  <1>9. ClientIsBehind(n)'
    <2>1. ClientIsBehind(n)
      BY <1>3 DEF Synced
    <2>2. CASE stream' # <<>>
      BY <1>1, <1>2, <2>1, <2>2, BehindKept
    <2>3. CASE stream' = <<>>
      <3>1. Len(stream) = 1
        BY <1>2, <2>3
      <3>2. ASSUME link = "up" PROVE main = n + 1 /\ main = Len(sent)
        <4>1. IF main = 0
              THEN Rank(c) = LastRank(Host(c.m)) /\ After(Host(c.m)) = Len(sent) + 1
              ELSE Host(c.m) = main /\ Rank(c) = Beats(main)
          BY <1>1, <2>1, <3>1, <3>2 DEF ClientIsBehind
        <4>2. main # 0
          BY <1>4, <1>5, <1>6, <4>1
        <4>3. Len(sent) = main + Beats(main)
          BY <4>2 DEF Resync, Grouped
        <4>4. QED
          BY <1>4, <1>5, <4>1, <4>2, <4>3
      <3>3. QED
        BY <1>1, <2>3, <3>2 DEF ClientIsBehind
    <2>4. QED
      BY <2>2, <2>3
  <1>10. Synced(n)'
    <2>1. Paired(ActedOn, Intact \cap (1 .. n), handled, sent)'
      BY <1>1, <1>3, SamePaired DEF Synced
    <2>2. ~Beat(n + 1)'
      BY <1>1, <1>4 DEF Beat
    <2>3. QED
      BY <1>8, <1>9, <2>1, <2>2 DEF Synced
  <1>11. n \in 0 .. Len(sent')
    BY <1>1
  <1>12. QED
    BY <1>2, <1>10, <1>11 DEF Resync

\* A header that is handled at once: the next message, which has no payload, or a word
\* of a timestamp.
LEMMA ReadBareResync ==
    ASSUME TypeOK, TypeOK', SentOK, QuietTimestamps, TouchesTornOnce, Resync, WordRecvBare
    PROVE  Resync'
  <1> DEFINE l == Len(stream)
             c == stream[1]
             msg == [hdr |-> c.w, data |-> <<>>]
  <1>1. /\ srv = "header" /\ stream # <<>> /\ srv' = "header"
        /\ UNCHANGED <<sent, torn, main, link>>
        /\ ~ReadsPayload(c.w) /\ handled' = Append(handled, msg)
        /\ l \in Nat /\ 1 <= l
        /\ stream' \in Seq(Cell) /\ Len(stream') = l - 1
        /\ \A i \in 1 .. l - 1 : stream'[i] = stream[i + 1]
    BY DEF TypeOK, WordRecvBare, Handle
  <1>2. /\ Grouped' /\ CellsAreOfMessages' /\ GroupsRunOn'
        /\ stream' # <<>> =>
            /\ 1 < Len(stream)
            /\ stream'[1] = stream[1 + 1]
            /\ stream'[Len(stream')] = stream[Len(stream)]
        /\ stream' = <<>> => Len(stream) = 1
    BY <1>1, ReadKeepsGroups
  <1>3. PICK n \in 0 .. Len(sent) : Synced(n)
    BY DEF Resync
  <1> DEFINE b == Beats(n + 1)
             d == Len(sent[n + 1].data)
  <1>4. /\ n + 1 \in 1 .. Len(sent) /\ ~Beat(n + 1)
        /\ sent[n + 1] \in Inputs \cup {Heartbeat}
        /\ b \in 0 .. 2 /\ d \in Nat
        /\ LastRank(n + 1) = b + d
        /\ Host(c.m) = n + 1
        /\ \/ Rank(c) = 0 /\ c.w = sent[n + 1].hdr
           \/ /\ Split(n + 1)
              /\ c.k \in 4 .. 5 /\ c.w = sent[n + 1].data[c.k]
              /\ Rank(c) = c.k + b
    BY <1>1, <1>3, NextRead
  <1>5. /\ After(n + 1) = n + 1 + b + 1
        /\ After(n + 1) \in n + 2 .. Len(sent) + 1
        /\ ~Beat(After(n + 1))
        /\ \A m \in n + 2 .. After(n + 1) - 1 : Beat(m)
    <2>1. /\ After(n + 1) \in (n + 1) + 1 .. Len(sent) + 1
          /\ ~Beat(After(n + 1))
          /\ \A m \in (n + 1) + 1 .. After(n + 1) - 1 : Beat(m)
      BY <1>4, AfterIsHost DEF Resync
    <2>2. (n + 1) + 1 = n + 2
      OBVIOUS
    <2>3. QED
      BY <2>1, <2>2 DEF After
  <1>6. ASSUME stream' # <<>>
        PROVE  /\ 2 \in 1 .. l /\ stream'[1] = stream[2]
               /\ Rank(c) + 1 <= LastRank(n + 1)
                    => Host(stream[2].m) = n + 1 /\ Rank(stream[2]) = Rank(c) + 1
               /\ Rank(c) = LastRank(n + 1)
                    => Host(stream[2].m) = After(n + 1) /\ Rank(stream[2]) = 0
    <2>1. 2 \in 1 .. l /\ stream'[1] = stream[2]
      BY <1>1, <1>2, <1>6
    <2>2. /\ Rank(c) + (2 - 1) <= LastRank(Host(c.m))
                => Host(stream[2].m) = Host(c.m) /\ Rank(stream[2]) = Rank(c) + (2 - 1)
          /\ Rank(c) + (2 - 1) = LastRank(Host(c.m)) + 1
                => Host(stream[2].m) = After(Host(c.m)) /\ Rank(stream[2]) = 0
      BY <2>1, Along
    <2>3. 2 - 1 = 1
      OBVIOUS
    <2>4. QED
      BY <1>4, <2>1, <2>2, <2>3
  <1>7. ASSUME stream' = <<>>, link = "up"
        PROVE  IF main = 0
               THEN Rank(c) = LastRank(n + 1) /\ After(n + 1) = Len(sent) + 1
               ELSE n + 1 = main /\ Rank(c) = b
    <2>1. Len(stream) = 1 /\ ClientIsBehind(n)
      BY <1>2, <1>3, <1>7 DEF Synced
    <2>2. IF main = 0
          THEN Rank(c) = LastRank(Host(c.m)) /\ After(Host(c.m)) = Len(sent) + 1
          ELSE Host(c.m) = main /\ Rank(c) = Beats(main)
      BY <1>1, <1>7, <2>1 DEF ClientIsBehind
    <2>3. QED
      BY <1>4, <2>2
  <1>8. ASSUME NEW p \in 0 .. Len(sent), stream' = <<>>, link = "up" => main = 0 /\ p = Len(sent)
        PROVE  ClientIsBehind(p)'
    BY <1>1, <1>8 DEF ClientIsBehind
  <1>9. ASSUME NEW p \in 0 .. Len(sent), stream' # <<>>
        PROVE  ClientIsBehind(p)'
    <2>1. ClientIsBehind(n)
      BY <1>3 DEF Synced
    <2>2. QED
      BY <1>1, <1>2, <1>9, <2>1, BehindKept
  <1>10. Paired(ActedOn, Intact \cap (1 .. n), handled, sent)
    BY <1>3 DEF Synced
  <1>11. CASE Rank(c) = 0
    <2>1. c.w = sent[n + 1].hdr
      BY <1>4, <1>11
    <2>2. /\ sent[n + 1].data = <<>> /\ d = 0
          /\ msg = sent[n + 1]
      <3>1. sent[n + 1].data = <<>> /\ sent[n + 1] \in Message
        BY <1>1, <1>4, <2>1, SentFacts
      <3>2. QED
        BY <1>4, <2>1, <3>1 DEF Message
    <2>3. ~Split(n + 1) /\ n + 1 \notin torn
      <3>1. Split(n + 1) => Len(sent[n + 1].data) = 5
        BY SplitIsTouch
      <3>2. QED
        BY <1>4, <2>2, <3>1 DEF Split, Beat
    <2>4. b = 0 /\ After(n + 1) = n + 2 /\ LastRank(n + 1) = 0
      BY <1>4, <1>5, <2>2, <2>3 DEF Beats
    <2>5. Paired(ActedOn, Intact \cap (1 .. n + 1), handled, sent)'
      <3>1. n \in Nat /\ n < Len(sent)
        BY <1>4
      <3>2. handled' = Append(handled, sent[n + 1])
        BY <1>1, <2>2
      <3>3. QED
        BY <1>1, <1>10, <2>3, <3>1, <3>2, PairedArrives
    <2>6. ~Beat((n + 1) + 1)'
      BY <1>1, <1>5, <2>4, SameGroups
    <2>7. ServerIsAt(n + 1)'
      <3>1. ASSUME stream' # <<>>
            PROVE  (Host(stream[1].m) = (n + 1) + 1 /\ Rank(stream[1]) = 0)'
        BY <1>1, <1>6, <1>11, <2>4, <3>1, SameGroups
      <3>2. QED
        BY <1>1, <3>1 DEF ServerIsAt
    <2>8. ClientIsBehind(n + 1)'
      <3>1. CASE stream' = <<>>
        <4>1. link = "up" => main = 0 /\ n + 1 = Len(sent)
          <5>1. ASSUME link = "up", main # 0 PROVE FALSE
            BY <1>7, <2>2, <3>1, <5>1 DEF Resync, Grouped
          <5>2. ASSUME link = "up", main = 0 PROVE n + 1 = Len(sent)
            BY <1>4, <1>7, <2>4, <3>1, <5>2
          <5>3. QED
            BY <5>1, <5>2
        <4>2. QED
          BY <1>4, <1>8, <3>1, <4>1
      <3>2. QED
        BY <1>4, <1>9, <3>1
    <2>9. Synced(n + 1)'
      BY <2>5, <2>6, <2>7, <2>8 DEF Synced
    <2>10. QED
      BY <1>1, <1>2, <1>4, <2>9 DEF Resync
  <1>12. CASE Rank(c) # 0
    <2>1. /\ Split(n + 1)
          /\ c.k \in 4 .. 5 /\ c.w = sent[n + 1].data[c.k]
          /\ Rank(c) = c.k + b
      BY <1>4, <1>12
    <2>2. ~Acted(msg)
      BY <2>1, SplitIsTouch
    <2>3. d = 5 /\ LastRank(n + 1) = b + 5
      BY <1>4, <2>1, SplitIsTouch
    <2>4. msg \in Message
      <3>1. 1 \in 1 .. l
        BY <1>1
      <3>2. c.w \in Word
        BY <3>1, CellWord DEF TypeOK
      <3>3. QED
        BY <3>2 DEF Message
    <2>5. \A m \in n + 1 .. After(n + 1) - 1 : m \in torn
      <3>1. \A m \in n + 1 .. After(n + 1) - 1 : m = n + 1 \/ m \in n + 2 .. After(n + 1) - 1
        BY <1>5
      <3>2. QED
        BY <1>5, <2>1, <3>1 DEF Split, Beat
    <2>6. CASE c.k = 4
      <3>1. Rank(c) + 1 = LastRank(n + 1) /\ Rank(c) # LastRank(n + 1)
        BY <1>4, <2>1, <2>6, <2>3
      <3>2. Paired(ActedOn, Intact \cap (1 .. n), handled, sent)'
        <4>1. n \in Nat /\ n <= n /\ \A m \in n + 1 .. n : m \in torn
          OBVIOUS
        <4>2. QED
          BY <1>1, <1>10, <2>2, <2>4, <4>1, PairedIgnores
      <3>3. ServerIsAt(n)'
        <4>1. ASSUME stream' # <<>>
              PROVE  (Host(stream[1].m) = n + 1 /\ Split(n + 1) /\ stream[1].m = n + 1
                        /\ stream[1].k >= 4)'
          <5>1. 2 \in 1 .. Len(stream) /\ stream'[1] = stream[2]
            BY <1>6, <4>1
          <5>2. Host(stream[2].m) = n + 1 /\ Rank(stream[2]) = b + 5
            BY <1>4, <1>6, <2>1, <2>3, <2>6, <3>1, <4>1
          <5>3. stream[2].m = n + 1 /\ stream[2].k = (b + 5) - b
            BY <1>4, <5>1, <5>2, CellPlace DEF Resync
          <5>4. QED
            BY <1>1, <1>4, <2>1, <5>1, <5>2, <5>3, SameGroups
        <4>2. QED
          BY <1>1, <4>1 DEF ServerIsAt
      <3>4. ClientIsBehind(n)'
        <4>1. ASSUME stream' = <<>>, link = "up" PROVE FALSE
          BY <1>4, <1>7, <2>1, <2>6, <3>1, <4>1
        <4>2. QED
          BY <1>8, <1>9, <4>1
      <3>5. Synced(n)'
        BY <1>1, <1>4, <3>2, <3>3, <3>4, SameGroups DEF Synced
      <3>6. QED
        BY <1>1, <1>2, <3>5 DEF Resync
    <2>7. CASE c.k = 5
      <3>0. PICK p \in 0 .. Len(sent) : p = n + 1 + b
        BY <1>4, <1>5
      <3>1. /\ p \in 0 .. Len(sent) /\ n <= p /\ p + 1 = After(n + 1)
            /\ p \in Nat /\ n \in Nat /\ After(n + 1) - 1 = p
        BY <1>4, <1>5, <3>0
      <3>2. Rank(c) = LastRank(n + 1)
        BY <1>4, <2>1, <2>7, <2>3
      <3>3. Paired(ActedOn, Intact \cap (1 .. p), handled, sent)'
        BY <1>1, <1>10, <2>2, <2>4, <2>5, <3>1, PairedIgnores
      <3>4. ServerIsAt(p)'
        <4>1. ASSUME stream' # <<>>
              PROVE  (Host(stream[1].m) = p + 1 /\ Rank(stream[1]) = 0)'
          BY <1>1, <1>6, <3>1, <3>2, <4>1, SameGroups
        <4>2. QED
          BY <1>1, <4>1 DEF ServerIsAt
      <3>5. ClientIsBehind(p)'
        <4>1. ASSUME stream' = <<>>, link = "up" PROVE main = 0 /\ p = Len(sent)
          <5>1. main = 0
            BY <1>4, <1>7, <2>1, <2>7, <4>1
          <5>2. After(n + 1) = Len(sent) + 1
            BY <1>7, <4>1, <5>1
          <5>3. QED
            BY <1>4, <3>1, <5>1, <5>2
        <4>2. QED
          BY <1>8, <1>9, <3>1, <4>1
      <3>6. ~Beat(p + 1)'
        BY <1>1, <1>5, <3>1, SameGroups
      <3>7. Synced(p)'
        BY <3>3, <3>4, <3>5, <3>6 DEF Synced
      <3>8. QED
        BY <1>1, <1>2, <3>1, <3>7 DEF Resync
    <2>8. QED
      BY <2>1, <2>6, <2>7
  <1>13. QED
    BY <1>11, <1>12

\* A payload: of a message that is not torn it is the whole one; of a touch event that
\* is, it begins with a heartbeat, and the timestamp is left.
LEMMA ReadPayloadResync ==
    ASSUME TypeOK, TypeOK', SentOK, QuietTimestamps, TouchesTornOnce, Resync, WordRecvPayload
    PROVE  Resync'
  <1> DEFINE l == Len(stream)
             words == [k \in 1 .. PayloadWords |-> stream[k].w]
             msg == [hdr |-> srvHdr, data |-> words]
  <1>1. /\ srv = "payload" /\ srv' = "header"
        /\ UNCHANGED <<sent, torn, main, link>>
        /\ handled' = Append(handled, msg)
        /\ l >= PayloadWords
        /\ stream' = [i \in 1 .. Len(stream) - PayloadWords |-> stream[i + PayloadWords]]
    BY DEF WordRecvPayload, Handle
  <1>2. PICK n \in 0 .. Len(sent) : Synced(n)
    BY DEF Resync
  <1> DEFINE b == Beats(n + 1)
             d == Len(sent[n + 1].data)
  <1>3. /\ n < Len(sent) /\ srvHdr = sent[n + 1].hdr /\ sent[n + 1].data # <<>>
        /\ stream # <<>> => Host(stream[1].m) = n + 1 /\ Rank(stream[1]) = 1
        /\ ~Beat(n + 1)
        /\ Paired(ActedOn, Intact \cap (1 .. n), handled, sent)
    BY <1>1, <1>2 DEF Synced, ServerIsAt
  <1>4. /\ n \in Nat /\ n + 1 \in 1 .. Len(sent) /\ Len(sent) \in Nat /\ l \in Nat
        /\ sent[n + 1] \in Inputs \cup {Heartbeat}
    <2>1. Len(sent) \in Nat /\ l \in Nat
      BY DEF TypeOK
    <2>2. n \in Nat /\ n + 1 \in 1 .. Len(sent)
      BY <1>3, <2>1
    <2>3. QED
      BY <2>1, <2>2 DEF SentOK
  <1>5. /\ sent[n + 1] \in Message /\ d \in Nat /\ d > 0 /\ PayloadWords = d
    <2>1. /\ sent[n + 1] \in Message /\ d \in Nat /\ sent[n + 1].hdr.hi = 4 * d
      BY <1>4, SentFacts
    <2>2. d > 0
      BY <1>3, <2>1, MessageFields
    <2> HIDE DEF d
    <2>3. (4 * d) \div 4 = d
      BY <2>1
    <2>4. QED
      BY <1>3, <2>1, <2>2, <2>3 DEF PayloadWords
  <1>6. /\ stream' \in Seq(Cell) /\ Len(stream') = l - d
        /\ words \in Seq(Word) /\ Len(words) = d
        /\ \A i \in 1 .. l - d : stream'[i] = stream[i + d]
    <2>1. PICK rest : rest = [i \in 1 .. l - d |-> stream[i + d]]
      OBVIOUS
    <2>2. stream' = rest /\ words = [k \in 1 .. d |-> stream[k].w]
      BY <1>1, <1>5, <2>1
    <2>3. stream \in Seq(Cell) /\ d \in Nat /\ d <= l
      BY <1>1, <1>4, <1>5 DEF TypeOK
    <2> HIDE DEF d, words
    <2>4. /\ rest \in Seq(Cell) /\ Len(rest) = l - d
          /\ words \in Seq(Word) /\ Len(words) = d
      BY <2>1, <2>2, <2>3, RestOfStream
    <2>5. \A i \in 1 .. l - d : rest[i] = stream[i + d]
      BY <2>1
    <2>6. QED
      BY <2>2, <2>4, <2>5
  <1>7. /\ Grouped' /\ CellsAreOfMessages' /\ GroupsRunOn'
        /\ stream' # <<>> =>
            /\ d < Len(stream)
            /\ stream'[1] = stream[d + 1]
            /\ stream'[Len(stream')] = stream[Len(stream)]
        /\ stream' = <<>> => Len(stream) = d
    BY <1>1, <1>5, <1>6, ReadKeepsGroups, Zenon
  <1>8. stream # <<>> /\ 1 \in 1 .. l /\ d \in 1 .. l
    BY <1>1, <1>4, <1>5
  <1>9. /\ Host(stream[1].m) = n + 1 /\ Rank(stream[1]) = 1
        /\ b \in 0 .. 2 /\ LastRank(n + 1) = b + d
    <2>1. Host(stream[1].m) = n + 1 /\ Rank(stream[1]) = 1
      BY <1>3, <1>8
    <2>2. QED
      BY <1>8, <2>1, CellPlace DEF Resync
  <1>10. ASSUME NEW k \in 1 .. l
         PROVE  /\ k <= b + d => Host(stream[k].m) = n + 1 /\ Rank(stream[k]) = k
                /\ k = b + d + 1 => Host(stream[k].m) = After(n + 1) /\ Rank(stream[k]) = 0
    <2>1. 1 + (k - 1) = k
      OBVIOUS
    <2>2. /\ 1 + (k - 1) <= b + d => Host(stream[k].m) = n + 1 /\ Rank(stream[k]) = 1 + (k - 1)
          /\ 1 + (k - 1) = (b + d) + 1
                => Host(stream[k].m) = After(n + 1) /\ Rank(stream[k]) = 0
      BY <1>9, Along
    <2>3. QED
      BY <2>1, <2>2
  <1>11. ASSUME stream' = <<>>, link = "up"
         PROVE  IF main = 0
                THEN d = b + d /\ After(n + 1) = Len(sent) + 1
                ELSE n + 1 = main /\ d = b
    <2> DEFINE c == stream[Len(stream)]
    <2>1. Len(stream) = d /\ ClientIsBehind(n)
      BY <1>2, <1>7, <1>11 DEF Synced
    <2>2. IF main = 0
          THEN Rank(c) = LastRank(Host(c.m)) /\ After(Host(c.m)) = Len(sent) + 1
          ELSE Host(c.m) = main /\ Rank(c) = Beats(main)
      BY <1>8, <1>11, <2>1 DEF ClientIsBehind
    <2>3. d \in 1 .. l /\ d <= b + d /\ c = stream[d]
      BY <1>5, <1>8, <1>9, <2>1
    <2>4. Host(c.m) = n + 1 /\ Rank(c) = d
      BY <1>10, <2>3
    <2>5. QED
      BY <1>9, <2>2, <2>4
  <1>12. ASSUME NEW p \in 0 .. Len(sent), stream' = <<>>, link = "up" => main = 0 /\ p = Len(sent)
         PROVE  ClientIsBehind(p)'
    BY <1>1, <1>12 DEF ClientIsBehind
  <1>13. ASSUME NEW p \in 0 .. Len(sent), stream' # <<>>
         PROVE  ClientIsBehind(p)'
    <2>1. ClientIsBehind(n)
      BY <1>2 DEF Synced
    <2>2. QED
      BY <1>1, <1>7, <1>8, <1>13, <2>1, BehindKept
  <1>14. CASE ~Split(n + 1)
    <2>1. n + 1 \notin torn /\ b = 0 /\ After(n + 1) = n + 2
      BY <1>3, <1>4, <1>14 DEF Split, Beat, Beats, After
    <2>2. ASSUME NEW k \in 1 .. d PROVE words[k] = sent[n + 1].data[k]
      <3>1. k \in 1 .. l /\ k <= b + d
        BY <1>1, <1>4, <1>5, <2>1
      <3>2. Host(stream[k].m) = n + 1 /\ Rank(stream[k]) = k
        BY <1>10, <3>1
      <3>3. stream[k].k = k - b /\ stream[k].w = sent[n + 1].data[stream[k].k]
        <4>1. k > b /\ b = Beats(n + 1)
          BY <2>1
        <4>2. QED
          BY <3>1, <3>2, <4>1, CellPlace DEF Resync
      <3>4. QED
        BY <1>5, <2>1, <3>3
    <2>3. words = sent[n + 1].data
      <3>1. sent[n + 1].data \in Seq(Word)
        BY <1>5, MessageFields
      <3>2. sent[n + 1].data = [k \in 1 .. d |-> sent[n + 1].data[k]]
        BY <3>1
      <3>3. words = [k \in 1 .. d |-> words[k]]
        BY <1>5
      <3> HIDE DEF words
      <3>4. QED
        BY <2>2, <3>2, <3>3
    <2>4. msg = sent[n + 1]
      BY <1>3, <1>5, <2>3 DEF Message
    <2>5. Paired(ActedOn, Intact \cap (1 .. n + 1), handled, sent)'
      <3>1. handled' = Append(handled, sent[n + 1])
        BY <1>1, <2>4
      <3>2. QED
        BY <1>1, <1>3, <1>4, <2>1, <3>1, PairedArrives
    <2>6. ~Beat((n + 1) + 1)'
      <3>1. ~Beat(After(n + 1)) /\ (n + 1) + 1 = After(n + 1)
        BY <1>3, <1>4, <2>1, AfterIsHost DEF Resync
      <3>2. QED
        BY <1>1, <3>1, SameGroups
    <2>7. ServerIsAt(n + 1)'
      <3>1. ASSUME stream' # <<>>
            PROVE  (Host(stream[1].m) = (n + 1) + 1 /\ Rank(stream[1]) = 0)'
        <4>1. d + 1 \in 1 .. l /\ stream'[1] = stream[d + 1] /\ d + 1 = b + d + 1
          <5>1. d < l /\ stream'[1] = stream[d + 1]
            BY <1>7, <3>1
          <5>2. d \in Nat /\ l \in Nat /\ b = 0
            BY <1>4, <1>5, <2>1
          <5> HIDE DEF b, d, l
          <5>3. QED
            BY <5>1, <5>2
        <4>2. Host(stream[d + 1].m) = n + 2 /\ Rank(stream[d + 1]) = 0
          BY <1>10, <2>1, <4>1
        <4>3. QED
          BY <1>1, <4>1, <4>2, SameGroups
      <3>2. QED
        BY <1>1, <3>1 DEF ServerIsAt
    <2>8. ClientIsBehind(n + 1)'
      <3>1. ASSUME stream' = <<>>, link = "up" PROVE main = 0 /\ n + 1 = Len(sent)
        <4>1. main = 0
          BY <1>5, <1>11, <2>1, <3>1
        <4>2. After(n + 1) = Len(sent) + 1
          BY <1>11, <3>1, <4>1
        <4>3. QED
          BY <1>4, <2>1, <4>1, <4>2
      <3>2. n + 1 \in 0 .. Len(sent)
        BY <1>4
      <3>3. QED
        BY <1>12, <1>13, <3>1, <3>2
    <2>9. Synced(n + 1)'
      BY <2>5, <2>6, <2>7, <2>8 DEF Synced
    <2>10. n + 1 \in 0 .. Len(sent')
      BY <1>1, <1>4
    <2>11. QED
      BY <1>7, <2>9, <2>10 DEF Resync
  <1>15. CASE Split(n + 1)
    <2>1. d = 5 /\ MsgType(sent[n + 1].hdr) = TOUCH
      BY <1>15, SplitIsTouch
    <2>2. b \in 1 .. 2
      BY <1>4, <1>15, BeatsFacts DEF Resync
    <2>3. ~Acted(msg)
      <3>1. 1 \in 1 .. b /\ 1 \in 1 .. d
        BY <2>1, <2>2
      <3>2. stream[1].w = Heartbeat.hdr
        BY <1>8, <1>9, <3>1, CellPlace DEF Resync
      <3>3. words[1] = Heartbeat.hdr
        BY <1>5, <3>1, <3>2
      <3>4. MsgType(msg.hdr) = TOUCH /\ msg.data[1] = Heartbeat.hdr
        BY <1>3, <2>1, <3>3
      <3> HIDE DEF msg
      <3>5. QED
        BY <3>4, BeatIsNoAction
    <2>4. msg \in Message
      <3>1. srvHdr \in Word
        BY DEF TypeOK
      <3>2. QED
        BY <1>6, <3>1 DEF Message
    <2>5. Paired(ActedOn, Intact \cap (1 .. n), handled, sent)'
      <3>1. n <= n /\ \A m \in n + 1 .. n : m \in torn
        OBVIOUS
      <3>2. QED
        BY <1>1, <1>3, <1>4, <2>3, <2>4, <3>1, PairedIgnores
    <2>6. ServerIsAt(n)'
      <3>1. ASSUME stream' # <<>>
            PROVE  (Host(stream[1].m) = n + 1 /\ Split(n + 1) /\ stream[1].m = n + 1
                      /\ stream[1].k >= 4)'
        <4>1. 6 \in 1 .. l /\ stream'[1] = stream[6]
          BY <1>4, <1>7, <2>1, <3>1
        <4>2. Host(stream[6].m) = n + 1 /\ Rank(stream[6]) = 6
          BY <1>10, <2>1, <2>2, <4>1
        <4>3. stream[6].m = n + 1 /\ stream[6].k = 6 - b
          BY <2>2, <4>1, <4>2, CellPlace DEF Resync
        <4>4. stream[6].k >= 4
          BY <2>2, <4>3
        <4>5. QED
          BY <1>1, <1>15, <4>1, <4>2, <4>3, <4>4, SameGroups
      <3>2. QED
        BY <1>1, <3>1 DEF ServerIsAt
    <2>7. ClientIsBehind(n)'
      <3>1. ASSUME stream' = <<>>, link = "up" PROVE FALSE
        BY <1>11, <2>1, <2>2, <3>1
      <3>2. QED
        BY <1>12, <1>13, <3>1
    <2>8. Synced(n)'
      BY <1>1, <1>3, <2>5, <2>6, <2>7, SameGroups DEF Synced
    <2>9. QED
      BY <1>1, <1>7, <2>8 DEF Resync
  <1>16. QED
    BY <1>14, <1>15

-----------------------------------------------------------------------------
\* Writing, and the steps that neither write nor read.

LEMMA QuietResync ==
    ASSUME Resync, UNCHANGED <<stream, srvHdr, sent, torn, handled>>,
           \/ UNCHANGED <<main, srv, link>>
           \/ UNCHANGED <<main, srv>> /\ link' = "closed"
           \/ UNCHANGED <<srv, link>> /\ link = "closed" /\ main' = 0
           \/ UNCHANGED <<main, link>> /\ link = "closed" /\ srv' = "ended"
    PROVE  Resync'
  <1>1. PICK n \in 0 .. Len(sent) : Synced(n)
    BY DEF Resync
  <1>2. CellsAreOfMessages'
    BY DEF Resync, CellsAreOfMessages
  <1>3. GroupsRunOn'
    <2>1. /\ Hosts' = Hosts /\ Ranks' = Ranks
          /\ LastRanks' = LastRanks /\ Afters' = Afters
      BY SameGroups DEF Hosts, Ranks, LastRanks, Afters
    <2>2. QED
      BY <2>1 DEF Resync, GroupsRunOn, Runs
  <1>4. Grouped'
    <2>1. \A m \in 1 .. Len(sent) :
            /\ Beat(m)' => \/ m > 1 /\ Split(m - 1)'
                           \/ m > 2 /\ Beat(m - 1)' /\ Split(m - 2)'
            /\ Split(m)' => Beat(m + 1)'
      BY SameGroups DEF Resync, Grouped
    <2>2. CASE main' = 0
      BY <2>1, <2>2 DEF Grouped
    <2>3. CASE main' = main
      <3>1. main # 0 => /\ ~IsHeartbeat(sent[main])
                        /\ sent[main].data # <<>>
                        /\ Len(sent) = main + Beats(main)'
        BY <2>3, SameGroups DEF Resync, Grouped
      <3>2. main # 0 => \A i \in 1 .. Len(stream) : stream[i].m = main => stream[i].k = 0
        BY DEF Resync, Grouped
      <3>3. QED
        BY <2>1, <2>3, <3>1, <3>2 DEF Grouped
    <2>4. QED
      BY <2>2, <2>3
  <1>5. ServerIsAt(n)'
    BY <1>1, SameGroups DEF Synced, ServerIsAt
  <1>6. ClientIsBehind(n)'
    <2>1. CASE UNCHANGED <<main, srv, link>>
      BY <1>1, <2>1, SameGroups DEF Synced, ClientIsBehind
    <2>2. CASE link' = "closed"
      BY <2>2 DEF ClientIsBehind
    <2>3. QED
      BY <2>1, <2>2
  <1>7. Synced(n)'
    <2>1. Paired(ActedOn, Intact \cap (1 .. n), handled, sent)'
      BY <1>1, SamePaired DEF Synced
    <2>2. ~Beat(n + 1)'
      BY <1>1, SameGroups DEF Synced
    <2>3. QED
      BY <1>5, <1>6, <2>1, <2>2 DEF Synced
  <1>8. QED
    BY <1>2, <1>3, <1>4, <1>7 DEF Resync

\* One more message, untorn: the groups are what they were.
LEMMA MoreSent ==
    ASSUME TypeOK, NEW msg \in Message, sent' = Append(sent, msg), torn' = torn
    PROVE  /\ Len(sent) \in Nat /\ Len(sent') = Len(sent) + 1
           /\ \A m \in 1 .. Len(sent) : sent'[m] = sent[m]
           /\ sent'[Len(sent) + 1] = msg
           /\ \A m : /\ Beat(m)' <=> Beat(m)
                     /\ Split(m)' <=> Split(m)
                     /\ Beats(m)' = Beats(m)
                     /\ Host(m)' = Host(m)
                     /\ After(m)' = After(m)
           /\ \A c : Rank(c)' = Rank(c)
           /\ \A h \in 1 .. Len(sent) : LastRank(h)' = LastRank(h)
  <1>1. /\ Len(sent) \in Nat /\ Len(sent') = Len(sent) + 1
        /\ \A m \in 1 .. Len(sent) : sent'[m] = sent[m]
        /\ sent'[Len(sent) + 1] = msg
    BY DEF TypeOK
  <1>2. torn \subseteq 1 .. Len(sent)
    BY DEF TypeOK
  <1>3. \A m : (Beat(m)' <=> Beat(m)) /\ (Split(m)' <=> Split(m))
    BY <1>1, <1>2 DEF Beat, Split
  <1>4. \A m : Beats(m)' = Beats(m) /\ Host(m)' = Host(m)
    BY <1>3 DEF Beats, Host
  <1>5. \A m : After(m)' = After(m)
    BY <1>4 DEF After
  <1>6. \A c : Rank(c)' = Rank(c)
    BY <1>3, <1>4 DEF Rank
  <1>7. \A h \in 1 .. Len(sent) : LastRank(h)' = LastRank(h)
    BY <1>1, <1>4 DEF LastRank
  <1>8. QED
    BY <1>1, <1>3, <1>4, <1>5, <1>6, <1>7

\* What was acted on and the first n messages sent stay paired.
LEMMA SentKeepsPaired ==
    ASSUME TypeOK, NEW n \in 0 .. Len(sent), NEW msg \in Message, sent' = Append(sent, msg),
           \A m \in 1 .. n : m \in torn' <=> m \in torn,
           handled' = handled, Paired(ActedOn, Intact \cap (1 .. n), handled, sent)
    PROVE  Paired(ActedOn, Intact \cap (1 .. n), handled, sent)'
  <1>1. /\ Len(sent) \in Nat /\ Len(sent') = Len(sent) + 1
        /\ \A m \in 1 .. Len(sent) : sent'[m] = sent[m]
    BY DEF TypeOK
  <1>2. Intact' \cap (1 .. n) = Intact \cap (1 .. n)
    <2>1. \A m \in 1 .. n : m \in 1 .. Len(sent) /\ m \in 1 .. Len(sent')
      BY <1>1
    <2>2. QED
      BY <2>1 DEF Intact
  <1>3. ActedOn' = ActedOn
    BY DEF ActedOn
  <1>4. \A j \in Intact \cap (1 .. n) : sent'[j] = sent[j]
    BY <1>1
  <1> DEFINE K == Intact \cap (1 .. n)
  <1>5. Paired(ActedOn', Intact' \cap (1 .. n), handled', sent')
    <2>1. Paired(ActedOn, K, handled, sent) /\ \A j \in K : sent'[j] = sent[j]
      BY <1>4
    <2> HIDE DEF K
    <2>2. Paired(ActedOn, K, handled, sent')
      BY <2>1 DEF Paired
    <2>3. QED
      BY <1>2, <1>3, <2>2 DEF K
  <1>6. QED
    BY <1>5 DEF Paired, Nth

\* A header where the last group is complete.
LEMMA HeaderResync ==
    ASSUME TypeOK, SentOK, Resync, link = "up", main = 0, NEW msg \in Inputs \cup {Heartbeat},
           sent' = Append(sent, msg),
           stream' = Append(stream, HeaderCell(Len(sent) + 1, msg)),
           main' = (IF msg.data = <<>> THEN 0 ELSE Len(sent) + 1),
           UNCHANGED <<srv, srvHdr, link, torn, handled>>
    PROVE  Resync'
  <1> DEFINE l == Len(stream)
  <1>1. PICK N \in Nat : N = Len(sent)
    BY DEF TypeOK
  <1>2. /\ msg \in Message /\ Len(msg.data) \in Nat
        /\ msg.data = <<>> <=> Len(msg.data) = 0
        /\ msg.data # <<>> => ~IsHeartbeat(msg)
    <2>1. msg \in Message
      BY SentFacts
    <2>2. msg.data # <<>> => ~IsHeartbeat(msg)
      BY BeatIsHeartbeat, HeartbeatIsMessage
    <2>3. QED
      BY <2>1, <2>2, MessageFields
  <1>3. PICK new \in Cell : new = [w |-> msg.hdr, m |-> N + 1, k |-> 0]
    <2>1. [w |-> msg.hdr, m |-> N + 1, k |-> 0] \in Cell
      BY <1>2, MessageFields DEF Cell
    <2>2. QED
      BY <2>1
  <1>4. /\ N = Len(sent) /\ Len(sent') = N + 1
        /\ \A m \in 1 .. N : sent'[m] = sent[m]
        /\ sent'[N + 1] = msg
        /\ \A m : /\ Beat(m)' <=> Beat(m)
                  /\ Split(m)' <=> Split(m)
                  /\ Beats(m)' = Beats(m)
                  /\ Host(m)' = Host(m)
                  /\ After(m)' = After(m)
        /\ \A c : Rank(c)' = Rank(c)
        /\ \A h \in 1 .. N : LastRank(h)' = LastRank(h)
    BY <1>1, <1>2, MoreSent
  <1>5. /\ l \in Nat /\ Len(stream') = l + 1 /\ stream' # <<>>
        /\ \A i \in 1 .. l : stream'[i] = stream[i]
        /\ stream'[l + 1] = new
    <2>1. stream \in Seq(Cell) /\ stream' = Append(stream, new)
      BY <1>1, <1>3 DEF TypeOK, HeaderCell
    <2>2. QED
      BY <2>1
  <1>6. /\ ~Beat(N + 1) /\ ~Split(N + 1) /\ Beats(N + 1) = 0
        /\ Host(N + 1) = N + 1 /\ After(N + 1) = N + 2 /\ Rank(new) = 0
    <2>1. ~Beat(N + 1) /\ ~Split(N + 1)
      BY <1>4, TornType
    <2>2. QED
      BY <1>3, <1>4, <2>1 DEF Beats, Host, After, Rank
  <1>7. LastRank(N + 1)' = Len(msg.data)
    BY <1>2, <1>4, <1>6 DEF LastRank
  <1>8. \A i \in 1 .. l : /\ Host(stream[i].m) \in 1 .. N /\ stream[i].m \in 1 .. N
                          /\ Rank(stream[i]) \in Nat
                          /\ LastRank(Host(stream[i].m)) \in Nat
    BY <1>4, CellPlace, CellFacts DEF Resync
  <1> HIDE DEF l
  <1>9. CellsAreOfMessages'
    <2> SUFFICES ASSUME NEW i \in 1 .. Len(stream')
                 PROVE  /\ stream'[i].m \in 1 .. Len(sent')
                        /\ stream'[i].k \in 0 .. Len(sent'[stream'[i].m].data)
                        /\ stream'[i].w = IF stream'[i].k = 0
                                          THEN sent'[stream'[i].m].hdr
                                          ELSE sent'[stream'[i].m].data[stream'[i].k]
      BY Zenon DEF CellsAreOfMessages
    <2>1. CASE i \in 1 .. l
      <3>1. stream'[i] = stream[i] /\ stream[i].m \in 1 .. N
        BY <1>5, <1>8, <2>1
      <3>2. sent'[stream[i].m] = sent[stream[i].m] /\ stream[i].m \in 1 .. Len(sent')
        BY <1>4, <3>1
      <3>3. QED
        BY <2>1, <3>1, <3>2 DEF Resync, CellsAreOfMessages, l
    <2>2. CASE i = l + 1
      <3>1. stream'[i].m = N + 1 /\ stream'[i].k = 0 /\ stream'[i].w = msg.hdr
        BY <1>3, <1>5, <2>2
      <3>2. QED
        BY <1>2, <1>4, <3>1
    <2>3. i \in 1 .. l \/ i = l + 1
      BY <1>5
    <2>4. QED
      BY <2>1, <2>2, <2>3
  <1>10. GroupsRunOn'
    <2>1. \A i \in 1 .. l : /\ Hosts[i] = Host(stream[i].m) /\ Ranks[i] = Rank(stream[i])
                            /\ Hosts'[i] = Host(stream[i].m) /\ Ranks'[i] = Rank(stream[i])
      <3>1. \A i \in 1 .. l : Hosts'[i] = Host(stream'[i].m) /\ Ranks'[i] = Rank(stream'[i])
        BY <1>4, <1>5 DEF Hosts, Ranks
      <3>2. QED
        BY <1>5, <3>1 DEF Hosts, Ranks, l
    <2>2. Hosts'[l + 1] = N + 1 /\ Ranks'[l + 1] = 0
      <3>1. /\ Hosts'[l + 1] = Host(stream'[l + 1].m) /\ Ranks'[l + 1] = Rank(stream'[l + 1])
        BY <1>4, <1>5 DEF Hosts, Ranks
      <3>2. new.m = N + 1
        BY <1>3
      <3>3. QED
        BY <1>5, <1>6, <3>1, <3>2
    <2>3. \A h \in 1 .. N : /\ LastRanks'[h] = LastRank(h) /\ Afters'[h] = After(h)
                            /\ LastRanks[h] = LastRank(h) /\ Afters[h] = After(h)
      <3>1. \A h \in 1 .. N : LastRanks[h] = LastRank(h) /\ Afters[h] = After(h)
        BY <1>4 DEF LastRanks, Afters
      <3>2. \A h \in 1 .. N : LastRanks'[h] = LastRank(h) /\ Afters'[h] = After(h)
        BY <1>4 DEF LastRanks, Afters
      <3>3. QED
        BY <3>1, <3>2
    <2>4. Runs(Hosts, Ranks, l, LastRanks', Afters')
      <3>1. Runs(Hosts, Ranks, l, LastRanks, Afters)
        BY DEF Resync, GroupsRunOn, l
      <3>2. \A i \in 1 .. l : /\ LastRanks'[Hosts[i]] = LastRanks[Hosts[i]]
                              /\ Afters'[Hosts[i]] = Afters[Hosts[i]]
        BY <1>8, <2>1, <2>3
      <3>3. QED
        BY <3>1, <3>2 DEF Runs
    <2>5. l > 0 => Ranks[l] = LastRanks'[Hosts[l]] /\ Hosts'[l + 1] = Afters'[Hosts[l]]
      <3> SUFFICES ASSUME l > 0
                   PROVE  Ranks[l] = LastRanks'[Hosts[l]] /\ Hosts'[l + 1] = Afters'[Hosts[l]]
        OBVIOUS
      <3>1. l \in 1 .. l /\ stream # <<>>
        BY <1>5 DEF l
      <3>2. PICK n \in 0 .. Len(sent) : Synced(n)
        BY DEF Resync
      <3>3. /\ Rank(stream[l]) = LastRank(Host(stream[l].m))
            /\ After(Host(stream[l].m)) = N + 1
        BY <1>4, <3>1, <3>2 DEF Synced, ClientIsBehind, l
      <3>4. QED
        BY <1>8, <2>1, <2>2, <2>3, <3>1, <3>3
    <2>6. \A i \in 1 .. l : /\ Ranks[i] \in Nat /\ LastRanks'[Hosts[i]] \in Nat
                            /\ Hosts'[i] = Hosts[i] /\ Ranks'[i] = Ranks[i]
      BY <1>8, <2>1, <2>3
    <2>7. Runs(Hosts', Ranks', l + 1, LastRanks', Afters')
      BY <1>5, <2>2, <2>4, <2>5, <2>6, RunsHeader
    <2>8. QED
      BY <1>5, <2>7, NextGroupsRunOn
  <1>11. Grouped'
    <2>1. ASSUME NEW m \in 1 .. Len(sent')
          PROVE  /\ Beat(m)' => \/ m > 1 /\ Split(m - 1)'
                                \/ m > 2 /\ Beat(m - 1)' /\ Split(m - 2)'
                 /\ Split(m)' => Beat(m + 1)'
      <3>1. CASE m \in 1 .. N
        BY <1>4, <3>1 DEF Resync, Grouped
      <3>2. CASE m = N + 1
        BY <1>4, <1>6, <3>2
      <3>3. QED
        BY <1>4, <3>1, <3>2
    <2>2. CASE msg.data = <<>>
      BY <2>1, <2>2 DEF Grouped
    <2>3. CASE msg.data # <<>>
      <3>1. main' = N + 1 /\ sent'[main'] = msg /\ ~IsHeartbeat(msg)
        BY <1>2, <1>4, <2>3
      <3>2. ASSUME NEW i \in 1 .. Len(stream'), stream'[i].m = N + 1 PROVE stream'[i].k = 0
        <4>1. CASE i \in 1 .. l
          <5>1. stream'[i] = stream[i]
            BY <1>5, <4>1
          <5>2. stream[i].m \in 1 .. N
            BY <1>8, <4>1
          <5>3. stream[i].m = N + 1
            BY <3>2, <5>1
          <5>4. N \in Nat /\ N + 1 \notin 1 .. N
            OBVIOUS
          <5>5. QED
            BY <5>2, <5>3, <5>4
        <4>2. CASE i = l + 1
          BY <1>3, <1>5, <4>2
        <4>3. QED
          BY <1>5, <4>1, <4>2
      <3>3. Beats(main)' = 0
        BY <1>4, <1>6, <3>1
      <3>4. Len(sent') = main' + Beats(main)'
        BY <1>4, <3>1, <3>3
      <3>5. QED
        BY <2>1, <2>3, <3>1, <3>2, <3>4 DEF Grouped
    <2>4. QED
      BY <2>2, <2>3
  <1>12. PICK n \in 0 .. Len(sent) : Synced(n)
    BY DEF Resync
  <1>13. ServerIsAt(n)'
    <2>1. CASE stream # <<>>
      <3>1. stream'[1] = stream[1]
        <4>1. 1 \in 1 .. l
          BY <1>5, <2>1 DEF TypeOK, l
        <4>2. QED
          BY <1>5, <4>1
      <3>2. srv = "payload" => /\ n < Len(sent') /\ srvHdr = sent'[n + 1].hdr
                               /\ sent'[n + 1].data # <<>>
        <4>1. srv = "payload" => n < N /\ srvHdr = sent[n + 1].hdr /\ sent[n + 1].data # <<>>
          BY <1>4, <1>12 DEF Synced, ServerIsAt
        <4>2. n < N => n + 1 \in 1 .. N /\ n < N + 1
          BY <1>4
        <4>3. QED
          BY <1>4, <4>1, <4>2
      <3>3. /\ srv = "header" =>
                /\ Host(stream[1].m) = n + 1
                /\ \/ Rank(stream[1]) = 0
                   \/ Split(n + 1) /\ stream[1].m = n + 1 /\ stream[1].k >= 4
            /\ srv = "payload" => Host(stream[1].m) = n + 1 /\ Rank(stream[1]) = 1
        BY <1>12, <2>1 DEF Synced, ServerIsAt
      <3>4. QED
        BY <1>4, <3>1, <3>2, <3>3 DEF ServerIsAt
    <2>2. CASE stream = <<>>
      <3>1. srv # "payload" /\ n = N
        BY <1>4, <1>12, <2>2 DEF Synced, ClientIsBehind
      <3>2. l = 0 /\ stream'[1] = new /\ new.m = N + 1
        BY <1>3, <1>5, <2>2 DEF l
      <3>3. Host(new.m)' = n + 1 /\ Rank(new)' = 0
        <4>1. \A c : c.m = N + 1 /\ Rank(c) = 0 => Host(c.m)' = n + 1 /\ Rank(c)' = 0
          BY <1>4, <1>6, <3>1
        <4>2. QED
          BY <1>4, <1>6, <3>1, <3>2
      <3>4. QED
        BY <1>4, <1>6, <3>1, <3>2 DEF ServerIsAt
    <2>3. QED
      BY <2>1, <2>2
  <1>14. ClientIsBehind(n)'
    <2>1. srv' # "ended"
      BY <1>12 DEF Synced, ClientIsBehind
    <2>2. stream'[Len(stream')] = new /\ new.m = N + 1
      BY <1>3, <1>5
    <2>3. CASE msg.data = <<>>
      <3>1. LastRank(N + 1)' = 0 /\ After(N + 1)' = N + 2 /\ main' = 0
        BY <1>2, <1>4, <1>6, <1>7, <2>3
      <3>2. N \in Nat /\ N + 2 = Len(sent') + 1
        BY <1>4
      <3>3. QED
        BY <1>4, <1>5, <1>6, <2>1, <2>2, <3>1, <3>2 DEF ClientIsBehind
    <2>4. CASE msg.data # <<>>
      <3>1. main' = N + 1 /\ main' # 0
        BY <1>4, <2>4
      <3>2. QED
        BY <1>4, <1>5, <1>6, <2>1, <2>2, <3>1 DEF ClientIsBehind
    <2>5. QED
      BY <2>3, <2>4
  <1>15. Synced(n)'
    <2>1. Paired(ActedOn, Intact \cap (1 .. n), handled, sent)'
      BY <1>2, <1>12, SentKeepsPaired DEF Synced
    <2>2. ~Beat(n + 1)'
      BY <1>4, <1>12 DEF Synced
    <2>3. QED
      BY <1>13, <1>14, <2>1, <2>2 DEF Synced
  <1>16. n \in 0 .. Len(sent')
    BY <1>4
  <1>17. QED
    BY <1>9, <1>10, <1>11, <1>15, <1>16 DEF Resync

\* The payload of the main thread's message.
LEMMA PayloadResync ==
    ASSUME TypeOK, SentOK, Resync, SendPayload
    PROVE  Resync'
  <1> DEFINE l == Len(stream)
  <1>1. PICK g \in 1 .. Len(sent) : g = main
    BY DEF TypeOK, SendPayload
  <1>2. PICK d \in Nat : d = Len(sent[g].data)
    <2>1. sent[g] \in Message
      BY DEF TypeOK
    <2>2. QED
      BY <2>1, MessageFields
  <1> DEFINE t == PayloadCells(g, sent[g])
  <1>3. /\ main # 0 /\ link = "up" /\ main' = 0
        /\ stream' = stream \o t
        /\ UNCHANGED <<srv, srvHdr, link, sent, torn, handled>>
    BY <1>1 DEF SendPayload
  <1>4. /\ ~IsHeartbeat(sent[g]) /\ sent[g].data # <<>> /\ Len(sent) = g + Beats(g)
        /\ \A i \in 1 .. l : stream[i].m = g => stream[i].k = 0
    BY <1>1, <1>3 DEF Resync, Grouped
  <1>5. PICK b \in 0 .. 2 : b = Beats(g)
    BY BeatsFacts DEF Resync
  <1>6. /\ ~Beat(g) /\ Host(g) = g /\ After(g) = Len(sent) + 1
        /\ LastRank(g) = b + d /\ d > 0 /\ g \in Nat /\ Len(sent) \in Nat
    <2>1. ~Beat(g)
      BY <1>4 DEF Beat
    <2>2. d > 0
      <3>1. sent[g] \in Message
        BY DEF TypeOK
      <3>2. QED
        BY <1>2, <1>4, <3>1, MessageFields
    <2>3. QED
      BY <1>2, <1>4, <1>5, <2>1, <2>2 DEF Host, After, LastRank, TypeOK
  <1>7. /\ l \in Nat /\ Len(stream') = l + d /\ stream' # <<>>
        /\ \A i \in 1 .. l : stream'[i] = stream[i]
        /\ \A i \in l + 1 .. l + d :
            stream'[i] = [w |-> sent[g].data[i - l], m |-> g, k |-> i - l]
    <2>1. sent[g] \in Message /\ g \in Nat
      BY DEF TypeOK
    <2>2. /\ t \in Seq(Cell) /\ Len(t) = d
          /\ \A k \in 1 .. d : t[k] = [w |-> sent[g].data[k], m |-> g, k |-> k]
      BY <1>2, <2>1, PayloadCellsType
    <2> HIDE DEF t
    <2>3. stream \in Seq(Cell) /\ l \in Nat
      BY DEF TypeOK
    <2>4. /\ Len(stream \o t) = l + d
          /\ \A i \in 1 .. l + d : (stream \o t)[i] = IF i <= l THEN stream[i] ELSE t[i - l]
      BY <2>2, <2>3, Concatenation
    <2>5. \A i \in l + 1 .. l + d : i - l \in 1 .. d /\ ~(i <= l) /\ i \in 1 .. l + d
      BY <2>3
    <2>6. \A i \in 1 .. l : i <= l /\ i \in 1 .. l + d
      BY <2>3
    <2>7. Len(stream') > 0
      BY <1>3, <1>6, <2>3, <2>4
    <2>8. ASSUME NEW i \in 1 .. l PROVE stream'[i] = stream[i]
      BY <1>3, <2>4, <2>6
    <2>9. ASSUME NEW i \in l + 1 .. l + d
          PROVE  stream'[i] = [w |-> sent[g].data[i - l], m |-> g, k |-> i - l]
      <3>1. stream'[i] = t[i - l] /\ i - l \in 1 .. d
        BY <1>3, <2>4, <2>5
      <3>2. QED
        BY <2>2, <3>1
    <2>10. Len(stream') = l + d /\ stream' # <<>>
      <3>1. Len(stream') = l + d
        BY <1>3, <2>4
      <3>2. QED
        BY <2>7, <3>1
    <2>11. QED
      BY <2>3, <2>8, <2>9, <2>10
  <1>8. l \in Nat /\ \A i \in l + 1 .. l + d : i - l \in 1 .. d
    <2>1. l \in Nat
      BY DEF TypeOK
    <2> HIDE DEF l
    <2>2. QED
      BY <2>1
  <1>9. \A i \in l + 1 .. l + d :
            Host(stream'[i].m) = g /\ Rank(stream'[i]) = b + (i - l)
    <2> SUFFICES ASSUME NEW i \in l + 1 .. l + d
                 PROVE  Host(stream'[i].m) = g /\ Rank(stream'[i]) = b + (i - l)
      OBVIOUS
    <2>1. stream'[i].m = g /\ stream'[i].k = i - l /\ i - l \in Nat /\ i - l # 0
      <3>1. stream'[i] = [w |-> sent[g].data[i - l], m |-> g, k |-> i - l]
        BY <1>7
      <3>2. i - l \in Nat /\ i - l # 0
        BY <1>8
      <3>3. QED
        BY <3>1, <3>2
    <2>2. QED
      BY <1>5, <1>6, <2>1 DEF Rank
  <1>10. \A i \in 1 .. l : /\ Host(stream[i].m) \in 1 .. Len(sent)
                          /\ Rank(stream[i]) \in Nat
                          /\ LastRank(Host(stream[i].m)) \in Nat
    BY CellPlace DEF Resync
  <1> HIDE DEF l, t
  <1>11. CellsAreOfMessages'
    <2> SUFFICES ASSUME NEW i \in 1 .. Len(stream')
                 PROVE  /\ stream'[i].m \in 1 .. Len(sent)
                        /\ stream'[i].k \in 0 .. Len(sent[stream'[i].m].data)
                        /\ stream'[i].w = IF stream'[i].k = 0
                                          THEN sent[stream'[i].m].hdr
                                          ELSE sent[stream'[i].m].data[stream'[i].k]
      BY <1>3, Zenon DEF CellsAreOfMessages
    <2>1. CASE i \in 1 .. l
      <3>1. stream'[i] = stream[i]
        BY <1>7, <2>1
      <3>2. QED
        BY <2>1, <3>1 DEF Resync, CellsAreOfMessages, l
    <2>2. CASE i \in l + 1 .. l + d
      <3>1. /\ stream'[i].m = g /\ stream'[i].k = i - l
            /\ stream'[i].w = sent[g].data[i - l]
            /\ i - l \in 1 .. d
        <4>1. stream'[i] = [w |-> sent[g].data[i - l], m |-> g, k |-> i - l]
          BY <1>7, <2>2
        <4>2. i - l \in 1 .. d
          BY <1>8, <2>2
        <4>3. QED
          BY <4>1, <4>2
      <3>2. QED
        BY <1>2, <3>1
    <2>3. QED
      BY <1>7, <2>1, <2>2
  <1>12. GroupsRunOn'
    <2>1. \A i \in 1 .. l : /\ Hosts[i] = Host(stream[i].m) /\ Ranks[i] = Rank(stream[i])
                            /\ Hosts'[i] = Host(stream[i].m) /\ Ranks'[i] = Rank(stream[i])
      <3>1. \A i \in 1 .. l : Hosts'[i] = Host(stream'[i].m) /\ Ranks'[i] = Rank(stream'[i])
        BY <1>3, <1>7, SameGroups DEF Hosts, Ranks
      <3>2. QED
        BY <1>7, <3>1 DEF Hosts, Ranks, l
    <2>2. \A i \in l + 1 .. l + d : Hosts'[i] = g /\ Ranks'[i] = b + (i - l)
      <3>1. \A i \in l + 1 .. l + d :
                Hosts'[i] = Host(stream'[i].m) /\ Ranks'[i] = Rank(stream'[i])
        BY <1>3, <1>7, SameGroups DEF Hosts, Ranks
      <3>2. QED
        BY <1>9, <3>1
    <2>3. LastRanks' = LastRanks /\ Afters' = Afters
      BY <1>3, SameGroups DEF LastRanks, Afters
    <2>4. Runs(Hosts, Ranks, l, LastRanks, Afters)
      BY DEF Resync, GroupsRunOn, l
    <2>5. b \in Nat /\ LastRanks[g] \in Nat /\ b + d <= LastRanks[g]
      BY <1>6 DEF LastRanks
    <2>6. \A i \in 1 .. l : /\ Ranks[i] \in Nat /\ LastRanks[Hosts[i]] \in Nat
                            /\ Hosts'[i] = Hosts[i] /\ Ranks'[i] = Ranks[i]
      BY <1>10, <2>1 DEF LastRanks
    <2>7. l > 0 => Hosts[l] = g /\ Ranks[l] = b
      <3> SUFFICES ASSUME l > 0 PROVE Hosts[l] = g /\ Ranks[l] = b
        OBVIOUS
      <3>1. l \in 1 .. l /\ stream # <<>>
        BY <1>7 DEF l
      <3>2. PICK n \in 0 .. Len(sent) : Synced(n)
        BY DEF Resync
      <3>3. Host(stream[l].m) = g /\ Rank(stream[l]) = b
        BY <1>1, <1>3, <1>5, <3>1, <3>2 DEF Synced, ClientIsBehind, l
      <3>4. QED
        BY <2>1, <3>1, <3>3
    <2>8. Runs(Hosts', Ranks', l + d, LastRanks, Afters)
      BY <1>8, <2>2, <2>4, <2>5, <2>6, <2>7, RunsMore, Zenon
    <2>9. QED
      BY <1>7, <2>3, <2>8 DEF GroupsRunOn, Runs
  <1>13. Grouped'
    <2>1. \A m \in 1 .. Len(sent) :
            /\ Beat(m)' => \/ m > 1 /\ Split(m - 1)'
                           \/ m > 2 /\ Beat(m - 1)' /\ Split(m - 2)'
            /\ Split(m)' => Beat(m + 1)'
      BY <1>3, SameGroups DEF Resync, Grouped
    <2>2. QED
      BY <1>3, <2>1 DEF Grouped
  <1>14. PICK n \in 0 .. Len(sent) : Synced(n)
    BY DEF Resync
  <1>15. ServerIsAt(n)'
    <2>1. CASE stream # <<>>
      <3>1. stream'[1] = stream[1]
        <4>1. 1 \in 1 .. l
          BY <1>7, <2>1 DEF TypeOK, l
        <4>2. QED
          BY <1>7, <4>1
      <3>2. QED
        BY <1>3, <1>14, <2>1, <3>1, SameGroups DEF Synced, ServerIsAt
    <2>2. CASE stream = <<>>
      <3>1. srv = "payload" /\ g = n + 1 /\ g = Len(sent)
        BY <1>1, <1>3, <1>14, <2>2 DEF Synced, ClientIsBehind
      <3>2. b = 0
        BY <1>4, <1>5, <1>6, <3>1
      <3>3. l = 0 /\ 1 \in l + 1 .. l + d
        BY <1>6, <2>2 DEF l
      <3>4. Host(stream'[1].m) = n + 1 /\ Rank(stream'[1]) = 1
        BY <1>9, <3>1, <3>2, <3>3
      <3>5. n < Len(sent) /\ srvHdr = sent[n + 1].hdr /\ sent[n + 1].data # <<>>
        BY <1>14, <3>1 DEF Synced, ServerIsAt
      <3>6. QED
        BY <1>3, <3>1, <3>4, <3>5, SameGroups DEF ServerIsAt
    <2>3. QED
      BY <2>1, <2>2
  <1>16. ClientIsBehind(n)'
    <2>1. srv' # "ended"
      BY <1>3, <1>14 DEF Synced, ClientIsBehind
    <2>2. Len(stream') \in l + 1 .. l + d /\ Len(stream') - l = d
      BY <1>6, <1>7
    <2>3. Host(stream'[Len(stream')].m) = g /\ Rank(stream'[Len(stream')]) = b + d
      BY <1>9, <2>2
    <2>4. QED
      BY <1>3, <1>6, <1>7, <2>1, <2>3, SameGroups DEF ClientIsBehind
  <1>17. Synced(n)'
    <2>1. Paired(ActedOn, Intact \cap (1 .. n), handled, sent)'
      BY <1>3, <1>14, SamePaired DEF Synced
    <2>2. ~Beat(n + 1)'
      BY <1>3, <1>14, SameGroups DEF Synced
    <2>3. QED
      BY <1>15, <1>16, <2>1, <2>2 DEF Synced
  <1>18. QED
    BY <1>3, <1>11, <1>12, <1>13, <1>17 DEF Resync

\* The last group gets one word longer while it has no word behind the header's beats.
LEMMA RunsChange ==
    ASSUME NEW n \in Nat, NEW h, NEW r, NEW last, NEW next, NEW last2, NEW next2, NEW g,
           \A i \in 1 .. n : /\ r[i] \in Nat /\ last[h[i]] \in Nat /\ r[i] <= last[h[i]]
                             /\ h[i] # next[g]
                             /\ h[i] # g => last2[h[i]] = last[h[i]] /\ next2[h[i]] = next[h[i]]
                             /\ h[i] = g => last2[h[i]] = last[h[i]] + 1,
           Runs(h, r, n, last, next)
    PROVE  Runs(h, r, n, last2, next2)
  <1> SUFFICES ASSUME NEW i \in 1 .. n, NEW j \in 1 .. n, i < j
               PROVE  /\ r[i] + (j - i) <= last2[h[i]] => h[j] = h[i] /\ r[j] = r[i] + (j - i)
                      /\ r[i] + (j - i) = last2[h[i]] + 1 => h[j] = next2[h[i]] /\ r[j] = 0
    BY DEF Runs
  <1>1. /\ r[i] + (j - i) <= last[h[i]] => h[j] = h[i] /\ r[j] = r[i] + (j - i)
        /\ r[i] + (j - i) = last[h[i]] + 1 => h[j] = next[h[i]] /\ r[j] = 0
    BY DEF Runs
  <1>2. CASE h[i] # g
    BY <1>1, <1>2
  <1>3. CASE h[i] = g
    <2>1. r[i] \in Nat /\ last[g] \in Nat /\ r[i] <= last[g] /\ last2[g] = last[g] + 1
      BY <1>3
    <2>2. r[i] + (j - i) # last[g] + 1
      BY <1>1, <1>3
    <2>3. r[i] + (j - i) # last[g] + 2
      <3> SUFFICES ASSUME r[i] + (j - i) = last[g] + 2 PROVE FALSE
        OBVIOUS
      <3>1. j - 1 \in 1 .. n /\ i < j - 1 /\ r[i] + ((j - 1) - i) = last[g] + 1
        BY <2>1
      <3>2. h[j - 1] = next[g]
        BY <1>3, <3>1 DEF Runs
      <3>3. QED
        BY <3>1, <3>2
    <2>4. r[i] + (j - i) <= last2[g] => r[i] + (j - i) <= last[g]
      BY <2>1, <2>2
    <2>5. r[i] + (j - i) # last2[g] + 1
      BY <2>1, <2>3
    <2>6. QED
      BY <1>1, <1>3, <2>4, <2>5
  <1>4. QED
    BY <1>2, <1>3

\* A heartbeat inside the main thread's message g: it is the next word of g's group, and
\* the places of all words on the way are what they were.
LEMMA TornGroups ==
    ASSUME TypeOK, SentOK, Grouped, SendHeartbeat, TouchesTornOnce', main # 0,
           NEW g \in 1 .. Len(sent), g = main, NEW N \in Nat, N = Len(sent),
           NEW b \in 0 .. 2, b = Beats(g)
    PROVE  /\ b < 2 /\ N = g + b
           /\ \A m : /\ Beat(m)' <=> Beat(m) \/ m = N + 1
                     /\ Split(m)' <=> Split(m) \/ m = g
           /\ \A m \in 1 .. N : /\ Host(m)' = Host(m)
                                /\ m # g => Beats(m)' = Beats(m)
           /\ Beats(g)' = b + 1
           /\ Host(N + 1)' = g
  <1>1. /\ sent' = Append(sent, Heartbeat) /\ torn' = torn \cup {g, N + 1}
        /\ Len(sent') = N + 1 /\ sent'[N + 1] = Heartbeat
        /\ \A m \in 1 .. N : sent'[m] = sent[m]
    <2>1. sent' = Append(sent, Heartbeat) /\ torn' = torn \cup {g, N + 1}
      BY Zenon DEF SendHeartbeat
    <2>2. Heartbeat \in Message /\ sent \in Seq(Message)
      BY HeartbeatIsMessage DEF TypeOK
    <2>3. QED
      BY <2>1, <2>2
  <1>2. /\ N = g + b /\ ~IsHeartbeat(sent[g]) /\ torn \subseteq 1 .. N /\ g \in 1 .. N
    BY DEF Grouped, TypeOK
  <1>3. IsHeartbeat(Heartbeat)
    BY DEF IsHeartbeat
  <1>4. ASSUME NEW m
        PROVE  /\ Beat(m)' <=> Beat(m) \/ m = N + 1
               /\ Split(m)' <=> Split(m) \/ m = g
    <2>1. CASE m \in 1 .. N
      <3>1. m # N + 1
        BY <2>1
      <3>2. sent'[m] = sent[m] /\ (m \in torn' <=> m \in torn \/ m = g)
        BY <1>1, <2>1, <3>1
      <3>3. QED
        BY <1>2, <3>1, <3>2, Zenon DEF Beat, Split
    <2>2. CASE m = N + 1
      <3>1. m \in torn' /\ sent'[m] = Heartbeat
        BY <1>1, <2>2
      <3>2. m \notin torn /\ m # g
        BY <1>2, <2>2
      <3>3. QED
        BY <1>3, <2>2, <3>1, <3>2, Zenon DEF Beat, Split
    <2>3. CASE m \notin 1 .. N /\ m # N + 1
      <3>1. m \notin torn /\ m \notin torn' /\ m # g
        BY <1>1, <1>2, <2>3
      <3>2. QED
        BY <2>3, <3>1, Zenon DEF Beat, Split
    <2>4. QED
      BY <2>1, <2>2, <2>3
  <1>5. /\ Split(g) => b \in 1 .. 2 /\ Beat(g + 1)
        /\ ~Split(g) => b = 0
        /\ b = 2 => Beat(g + 2)
    BY BeatsFacts
  <1>6. b < 2
    <2> SUFFICES ASSUME b = 2 PROVE FALSE
      OBVIOUS
    <2>1. Beat(g + 1) /\ Beat(g + 2) /\ N + 1 = g + 3
      BY <1>2, <1>5
    <2>2. Beat(g + 1)' /\ Beat(g + 2)' /\ Beat(g + 3)'
      BY <1>4, <2>1
    <2>3. (g + 1) + 1 = g + 2 /\ (g + 1) + 2 = g + 3
      OBVIOUS
    <2>4. g + 1 \in torn' /\ Beat((g + 1) + 1)' /\ Beat((g + 1) + 2)'
      BY <2>2, <2>3 DEF Beat
    <2>5. QED
      BY <2>2, <2>4 DEF TouchesTornOnce
  <1>7. ~Beat(g)
    BY <1>2 DEF Beat
  <1>8. ASSUME NEW m \in 1 .. N PROVE Host(m)' = Host(m)
    <2>1. m # N + 1
      OBVIOUS
    <2>2. Beat(m)' <=> Beat(m)
      BY <1>4, <2>1
    <2>3. Beat(m) => (Split(m - 1)' <=> Split(m - 1))
      <3> SUFFICES ASSUME Beat(m), m - 1 = g PROVE Split(m - 1)
        BY <1>4
      <3>1. b # 0
        BY <1>2
      <3>2. QED
        BY <1>5, <3>1
    <2>4. QED
      BY <2>2, <2>3 DEF Host
  <1>9. ASSUME NEW m \in 1 .. N, m # g PROVE Beats(m)' = Beats(m)
    <2>1. Split(m)' <=> Split(m)
      BY <1>4, <1>9
    <2>2. Split(m) => (Beat(m + 2)' <=> Beat(m + 2))
      <3> SUFFICES ASSUME Split(m), m + 2 = N + 1 PROVE FALSE
        BY <1>4
      <3>1. b = 0 /\ m + 1 = g
        BY <1>2, <1>6, <1>9
      <3>2. Beat(m + 1)
        BY DEF Grouped
      <3>3. QED
        BY <1>7, <3>1, <3>2
    <2>3. QED
      BY <2>1, <2>2 DEF Beats
  <1>10. Beats(g)' = b + 1
    <2>1. Split(g)'
      BY <1>4
    <2>2. Beat(g + 2)' <=> Beat(g + 2) \/ g + 2 = N + 1
      BY <1>4
    <2>3. CASE b = 0
      <3>1. g + 2 # N + 1 /\ g + 2 \notin 1 .. N
        BY <1>2, <2>3
      <3>2. ~Beat(g + 2)
        BY <1>2, <3>1 DEF Beat
      <3>3. QED
        BY <2>1, <2>2, <2>3, <3>1, <3>2 DEF Beats
    <2>4. CASE b = 1
      <3>1. g + 2 = N + 1
        BY <1>2, <2>4
      <3>2. QED
        BY <2>1, <2>2, <2>4, <3>1 DEF Beats
    <2>5. QED
      BY <1>6, <2>3, <2>4
  <1>11. Host(N + 1)' = g
    <2>1. Beat(N + 1)'
      BY <1>4
    <2>2. Split((N + 1) - 1)' <=> Split((N + 1) - 1) \/ (N + 1) - 1 = g
      BY <1>4
    <2>3. CASE b = 0
      <3>1. (N + 1) - 1 = g
        BY <1>2, <2>3
      <3>2. QED
        BY <2>1, <2>2, <3>1 DEF Host
    <2>4. CASE b = 1
      <3>1. (N + 1) - 1 = g + 1 /\ (N + 1) - 2 = g /\ g + 1 # g
        BY <1>2, <2>4
      <3>2. Beat(g + 1)
        BY <1>5, <2>4
      <3>3. ~Split(g + 1)
        BY <3>2, TornType
      <3>4. QED
        BY <2>1, <2>2, <3>1, <3>3 DEF Host
    <2>5. QED
      BY <1>6, <2>3, <2>4
  <1>12. QED
    BY <1>2, <1>4, <1>6, <1>8, <1>9, <1>10, <1>11

\* A heartbeat between the two calls of the main thread.
LEMMA TornResync ==
    ASSUME TypeOK, SentOK, Resync, SendHeartbeat, TouchesTornOnce', main # 0
    PROVE  Resync'
  <1> DEFINE l == Len(stream)
  <1>1. PICK g \in 1 .. Len(sent) : g = main
    BY DEF TypeOK
  <1>2. PICK N \in Nat : N = Len(sent)
    BY DEF TypeOK
  <1>3. PICK b \in 0 .. 2 : b = Beats(g)
    BY BeatsFacts DEF Resync
  <1>4. /\ b < 2 /\ N = g + b
        /\ \A m : /\ Beat(m)' <=> Beat(m) \/ m = N + 1
                  /\ Split(m)' <=> Split(m) \/ m = g
        /\ \A m \in 1 .. N : /\ Host(m)' = Host(m)
                             /\ m # g => Beats(m)' = Beats(m)
        /\ Beats(g)' = b + 1
        /\ Host(N + 1)' = g
    BY <1>1, <1>2, <1>3, TornGroups DEF Resync
  <1>5. PICK new \in Cell : new = [w |-> Heartbeat.hdr, m |-> N + 1, k |-> 0]
    <2>1. Heartbeat.hdr \in Word
      BY HeartbeatIsMessage, MessageFields
    <2>2. [w |-> Heartbeat.hdr, m |-> N + 1, k |-> 0] \in Cell
      BY <2>1 DEF Cell
    <2>3. QED
      BY <2>2
  <1>6. /\ link = "up" /\ main' = main
        /\ UNCHANGED <<srv, srvHdr, link, handled>>
        /\ sent' = Append(sent, Heartbeat)
        /\ torn' = torn \cup {g, N + 1}
        /\ stream' = Append(stream, new)
    <2>1. torn' = torn \cup {main, Len(sent) + 1}
      BY Zenon DEF SendHeartbeat
    <2>2. QED
      BY <1>1, <1>2, <1>5, <2>1 DEF SendHeartbeat, HeaderCell
  <1>7. /\ Len(sent') = N + 1 /\ sent'[N + 1] = Heartbeat
        /\ \A m \in 1 .. N : sent'[m] = sent[m]
    <2>1. Heartbeat \in Message /\ sent \in Seq(Message)
      BY HeartbeatIsMessage DEF TypeOK
    <2>2. QED
      BY <1>2, <1>6, <2>1
  <1>8. /\ l \in Nat /\ Len(stream') = l + 1 /\ stream' # <<>>
        /\ \A i \in 1 .. l : stream'[i] = stream[i]
        /\ stream'[l + 1] = new
    <2>1. stream \in Seq(Cell)
      BY DEF TypeOK
    <2>2. QED
      BY <1>6, <2>1
  <1>9. /\ ~IsHeartbeat(sent[g]) /\ sent[g].data # <<>>
        /\ \A i \in 1 .. l : stream[i].m = g => stream[i].k = 0
        /\ ~Beat(g) /\ g \in 1 .. N /\ g # N + 1 /\ Host(g) = g
    BY <1>1, <1>2 DEF Resync, Grouped, Beat, Host
  <1>10. /\ After(g) = N + 1 /\ ~Beat(N + 1)
         /\ \A m \in g + 1 .. N : Beat(m)
    <2>1. After(g) = N + 1
      BY <1>3, <1>4 DEF After
    <2>2. After(g) - 1 = N
      BY <2>1
    <2>3. QED
      BY <1>2, <1>9, <2>1, <2>2, AfterIsHost DEF Resync
  <1>11. \A i \in 1 .. l : /\ Host(stream[i].m) \in 1 .. N /\ stream[i].m \in 1 .. N
                           /\ Rank(stream[i]) \in Nat
                           /\ LastRank(Host(stream[i].m)) \in Nat
                           /\ Rank(stream[i]) <= LastRank(Host(stream[i].m))
    BY <1>2, CellPlace, CellFacts DEF Resync
  <1> HIDE DEF l
  <1>12. ASSUME NEW c, c.m \in 1 .. N, c.m = g => c.k = 0
         PROVE  Rank(c)' = Rank(c) /\ Host(c.m)' = Host(c.m)
    <2>1. Host(c.m)' = Host(c.m) /\ (Beat(c.m)' <=> Beat(c.m))
      <3>1. c.m # N + 1
        BY <1>12
      <3>2. QED
        BY <1>4, <1>12, <3>1
    <2>2. c.m # g => Beats(c.m)' = Beats(c.m)
      BY <1>4, <1>12
    <2>3. QED
      BY <1>12, <2>1, <2>2 DEF Rank
  <1>13. ASSUME NEW i \in 1 .. l
         PROVE  \A c : c = stream[i] => Rank(c)' = Rank(c) /\ Host(c.m)' = Host(c.m)
    <2>1. stream[i].m \in 1 .. N /\ (stream[i].m = g => stream[i].k = 0)
      BY <1>9, <1>11, <1>13
    <2>2. QED
      BY <1>12, <2>1
  <1>14. Rank(new)' = b + 1 /\ new.m = N + 1
    <2>1. new.m = N + 1 /\ Beat(N + 1)' /\ Host(N + 1)' = g
      BY <1>4, <1>5
    <2>2. Beat(new.m)' /\ Host(new.m)' = g
      BY <2>1
    <2>3. (N + 1) - g = b + 1
      BY <1>4
    <2>4. QED
      BY <2>1, <2>2, <2>3 DEF Rank
  <1>15. /\ \A h \in 1 .. N : h # g => LastRank(h)' = LastRank(h) /\ After(h)' = After(h)
         /\ LastRank(g)' = LastRank(g) + 1 /\ After(g)' = N + 2
         /\ LastRank(g) \in Nat /\ LastRank(g) >= b
    <2>1. \A h \in 1 .. N : h # g => LastRank(h)' = LastRank(h) /\ After(h)' = After(h)
      BY <1>4, <1>7 DEF LastRank, After
    <2>2. Len(sent[g].data) \in Nat
      <3>1. sent[g] \in Message
        BY DEF TypeOK
      <3>2. QED
        BY <3>1, MessageFields
    <2>3. sent'[g] = sent[g]
      BY <1>7, <1>9
    <2>4. LastRank(g)' = LastRank(g) + 1 /\ LastRank(g) \in Nat /\ LastRank(g) >= b
      <3>1. LastRank(g) = b + Len(sent[g].data)
        BY <1>3 DEF LastRank
      <3>2. LastRank(g)' = Beats(g)' + Len(sent'[g].data)
        BY DEF LastRank
      <3>3. Beats(g)' = b + 1
        BY <1>4
      <3>4. PICK d \in Nat : d = Len(sent[g].data)
        BY <2>2
      <3>5. LastRank(g) = b + d
        BY <3>1, <3>4
      <3>6. LastRank(g)' = (b + 1) + d
        BY <2>3, <3>2, <3>3, <3>4
      <3>7. b \in Nat
        OBVIOUS
      <3>8. \A x, y \in Nat : (x + 1) + y = (x + y) + 1 /\ x + y \in Nat /\ x + y >= x
        OBVIOUS
      <3>9. QED
        BY <3>5, <3>6, <3>7, <3>8
    <2>5. After(g)' = N + 2
      BY <1>4 DEF After
    <2>6. QED
      BY <2>1, <2>4, <2>5
  <1>16. CellsAreOfMessages'
    <2> SUFFICES ASSUME NEW i \in 1 .. Len(stream')
                 PROVE  /\ stream'[i].m \in 1 .. Len(sent')
                        /\ stream'[i].k \in 0 .. Len(sent'[stream'[i].m].data)
                        /\ stream'[i].w = IF stream'[i].k = 0
                                          THEN sent'[stream'[i].m].hdr
                                          ELSE sent'[stream'[i].m].data[stream'[i].k]
      BY Zenon DEF CellsAreOfMessages
    <2>1. CASE i \in 1 .. l
      <3>1. stream'[i] = stream[i] /\ stream[i].m \in 1 .. N
        BY <1>8, <1>11, <2>1
      <3>2. sent'[stream[i].m] = sent[stream[i].m] /\ stream[i].m \in 1 .. Len(sent')
        BY <1>7, <3>1
      <3>3. QED
        BY <2>1, <3>1, <3>2 DEF Resync, CellsAreOfMessages, l
    <2>2. CASE i = l + 1
      <3>1. stream'[i].m = N + 1 /\ stream'[i].k = 0 /\ stream'[i].w = Heartbeat.hdr
        BY <1>5, <1>8, <2>2
      <3>2. Len(Heartbeat.data) = 0
        BY HeartbeatIsMessage
      <3>3. QED
        BY <1>7, <3>1, <3>2
    <2>3. QED
      BY <1>8, <2>1, <2>2
  <1>17. PICK n \in 0 .. Len(sent) : Synced(n)
    BY DEF Resync
  <1>18. l > 0 => Host(stream[l].m) = g /\ Rank(stream[l]) = b
    <2> SUFFICES ASSUME l > 0 PROVE Host(stream[l].m) = g /\ Rank(stream[l]) = b
      OBVIOUS
    <2>1. stream # <<>>
      BY <1>8 DEF l
    <2>2. QED
      BY <1>1, <1>3, <1>6, <1>17, <2>1 DEF Synced, ClientIsBehind, l
  <1>19. GroupsRunOn'
    <2>1. \A i \in 1 .. l : /\ Hosts[i] = Host(stream[i].m) /\ Ranks[i] = Rank(stream[i])
                            /\ Hosts'[i] = Host(stream[i].m) /\ Ranks'[i] = Rank(stream[i])
      <3> SUFFICES ASSUME NEW i \in 1 .. l
                   PROVE  /\ Hosts[i] = Host(stream[i].m) /\ Ranks[i] = Rank(stream[i])
                          /\ Hosts'[i] = Host(stream[i].m) /\ Ranks'[i] = Rank(stream[i])
        OBVIOUS
      <3>1. PICK c : c = stream[i]
        OBVIOUS
      <3>2. stream'[i] = c /\ i \in 1 .. Len(stream')
        BY <1>8, <3>1
      <3>3. Hosts'[i] = Host(c.m)' /\ Ranks'[i] = Rank(c)'
        BY <3>2 DEF Hosts, Ranks
      <3>4. Rank(c)' = Rank(c) /\ Host(c.m)' = Host(c.m)
        BY <1>13, <3>1
      <3>5. QED
        BY <3>1, <3>3, <3>4 DEF Hosts, Ranks, l
    <2>2. Hosts'[l + 1] = g /\ Ranks'[l + 1] = b + 1
      <3>1. Hosts'[l + 1] = Host(new.m)' /\ Ranks'[l + 1] = Rank(new)'
        BY <1>8 DEF Hosts, Ranks
      <3>2. Host(new.m)' = g
        BY <1>4, <1>14
      <3>3. QED
        BY <1>14, <3>1, <3>2
    <2>3. \A h \in 1 .. N : LastRanks[h] = LastRank(h) /\ Afters[h] = After(h)
      BY <1>2 DEF LastRanks, Afters
    <2>4. \A h \in 1 .. N : LastRanks'[h] = LastRank(h)' /\ Afters'[h] = After(h)'
      BY <1>7 DEF LastRanks, Afters
    <2>5. \A i \in 1 .. l :
            /\ Ranks[i] \in Nat /\ LastRanks[Hosts[i]] \in Nat
            /\ Ranks[i] <= LastRanks[Hosts[i]]
            /\ Hosts[i] # Afters[g]
            /\ Hosts[i] # g => /\ LastRanks'[Hosts[i]] = LastRanks[Hosts[i]]
                               /\ Afters'[Hosts[i]] = Afters[Hosts[i]]
            /\ Hosts[i] = g => LastRanks'[Hosts[i]] = LastRanks[Hosts[i]] + 1
      <3> SUFFICES ASSUME NEW i \in 1 .. l
                   PROVE  /\ Ranks[i] \in Nat /\ LastRanks[Hosts[i]] \in Nat
                          /\ Ranks[i] <= LastRanks[Hosts[i]]
                          /\ Hosts[i] # Afters[g]
                          /\ Hosts[i] # g => /\ LastRanks'[Hosts[i]] = LastRanks[Hosts[i]]
                                             /\ Afters'[Hosts[i]] = Afters[Hosts[i]]
                          /\ Hosts[i] = g => LastRanks'[Hosts[i]] = LastRanks[Hosts[i]] + 1
        OBVIOUS
      <3>1. /\ Hosts[i] \in 1 .. N /\ Ranks[i] \in Nat
            /\ LastRank(Hosts[i]) \in Nat /\ Ranks[i] <= LastRank(Hosts[i])
        BY <1>11, <2>1
      <3>2. Afters[g] = N + 1
        BY <1>9, <1>10, <2>3
      <3>3. Hosts[i] # N + 1
        BY <3>1
      <3>4. PICK h \in 1 .. N : h = Hosts[i]
        BY <3>1
      <3>5. /\ LastRanks[h] = LastRank(h) /\ Afters[h] = After(h)
            /\ LastRanks'[h] = LastRank(h)' /\ Afters'[h] = After(h)'
            /\ h # g => LastRank(h)' = LastRank(h) /\ After(h)' = After(h)
            /\ h = g => LastRank(h)' = LastRank(h) + 1
        BY <1>15, <2>3, <2>4
      <3>6. QED
        BY <3>1, <3>2, <3>3, <3>4, <3>5
    <2>6. Runs(Hosts, Ranks, l, LastRanks, Afters)
      BY DEF Resync, GroupsRunOn, l
    <2>7. Runs(Hosts, Ranks, l, LastRanks', Afters')
      <3>1. PICK r, h, last, next, last2, next2 :
                /\ r = Ranks /\ h = Hosts /\ last = LastRanks /\ next = Afters
                /\ last2 = LastRanks' /\ next2 = Afters'
        OBVIOUS
      <3>2. \A i \in 1 .. l :
                /\ r[i] \in Nat /\ last[h[i]] \in Nat /\ r[i] <= last[h[i]]
                /\ h[i] # next[g]
                /\ h[i] # g => last2[h[i]] = last[h[i]] /\ next2[h[i]] = next[h[i]]
                /\ h[i] = g => last2[h[i]] = last[h[i]] + 1
        BY <2>5, <3>1, Zenon
      <3>3. l \in Nat /\ Runs(h, r, l, last, next)
        BY <1>8, <2>6, <3>1
      <3>4. Runs(h, r, l, last2, next2)
        BY <3>2, <3>3, RunsChange, Zenon
      <3>5. QED
        BY <3>1, <3>4
    <2>8. \A i \in 1 .. l : /\ Ranks[i] \in Nat /\ LastRanks'[Hosts[i]] \in Nat
                            /\ Hosts'[i] = Hosts[i] /\ Ranks'[i] = Ranks[i]
      BY <2>1, <2>5
    <2>9. /\ LastRanks'[g] \in Nat /\ b + 1 <= LastRanks'[g] /\ b \in Nat /\ 1 \in Nat
      BY <1>9, <1>15, <2>4
    <2>10. l > 0 => Hosts[l] = g /\ Ranks[l] = b
      BY <1>8, <1>18, <2>1
    <2>11. \A i \in l + 1 .. l + 1 : Hosts'[i] = g /\ Ranks'[i] = b + (i - l)
      <3> SUFFICES ASSUME NEW i \in l + 1 .. l + 1
                   PROVE  Hosts'[i] = g /\ Ranks'[i] = b + (i - l)
        OBVIOUS
      <3>1. i = l + 1 /\ i - l = 1
        BY <1>8
      <3>2. QED
        BY <2>2, <3>1
    <2>12. Runs(Hosts', Ranks', l + 1, LastRanks', Afters')
      BY <1>8, <2>7, <2>8, <2>9, <2>10, <2>11, RunsMore, Zenon
    <2>13. QED
      BY <1>8, <2>12, NextGroupsRunOn
  <1>20. Grouped'
    <2>1. ASSUME NEW m \in 1 .. Len(sent')
          PROVE  /\ Beat(m)' => \/ m > 1 /\ Split(m - 1)'
                                \/ m > 2 /\ Beat(m - 1)' /\ Split(m - 2)'
                 /\ Split(m)' => Beat(m + 1)'
      <3>1. ASSUME m \in 1 .. N, Beat(m)
            PROVE  \/ m > 1 /\ Split(m - 1)'
                   \/ m > 2 /\ Beat(m - 1)' /\ Split(m - 2)'
        BY <1>2, <1>4, <3>1 DEF Resync, Grouped
      <3>2. ASSUME m = N + 1
            PROVE  \/ m > 1 /\ Split(m - 1)'
                   \/ m > 2 /\ Beat(m - 1)' /\ Split(m - 2)'
        <4>1. CASE b = 0
          <5>1. m - 1 = g /\ m > 1
            BY <1>4, <3>2, <4>1
          <5>2. QED
            BY <1>4, <5>1
        <4>2. CASE b = 1
          <5>1. m - 1 = N /\ m - 2 = g /\ m > 2 /\ N \in g + 1 .. N
            BY <1>4, <3>2, <4>2
          <5>2. Beat(N)
            BY <1>10, <5>1
          <5>3. QED
            BY <1>4, <5>1, <5>2
        <4>3. QED
          BY <1>4, <4>1, <4>2
      <3>3. ASSUME Split(m)' PROVE Beat(m + 1)'
        <4>1. CASE Split(m)
          <5>1. m \in 1 .. N /\ m \in 1 .. Len(sent)
            BY <1>2, <4>1, TornType
          <5>2. Beat(m + 1)
            BY <4>1, <5>1 DEF Resync, Grouped
          <5>3. QED
            BY <1>4, <5>2
        <4>2. CASE m = g
          <5>1. b = 0 => m + 1 = N + 1
            BY <1>4, <4>2
          <5>2. b = 1 => m + 1 \in g + 1 .. N
            BY <1>4, <4>2
          <5>3. QED
            BY <1>4, <1>10, <5>1, <5>2
        <4>3. QED
          BY <1>4, <3>3, <4>1, <4>2
      <3>4. Beat(m)' => Beat(m) \/ m = N + 1
        BY <1>4
      <3>5. Beat(m) => m \in 1 .. N
        BY <1>2, TornType
      <3>6. QED
        BY <3>1, <3>2, <3>3, <3>4, <3>5
    <2>2. ~IsHeartbeat(sent'[main']) /\ sent'[main'].data # <<>>
      BY <1>1, <1>6, <1>7, <1>9
    <2>3. Len(sent') = main' + Beats(main)'
      <3>1. Beats(main)' = Beats(g)'
        BY <1>1, <1>6
      <3>2. QED
        BY <1>1, <1>4, <1>6, <1>7, <3>1
    <2>4. ASSUME NEW i \in 1 .. Len(stream'), stream'[i].m = main' PROVE stream'[i].k = 0
      <3>1. CASE i \in 1 .. l
        BY <1>1, <1>6, <1>8, <1>9, <2>4, <3>1
      <3>2. CASE i = l + 1
        BY <1>5, <1>8, <3>2
      <3>3. QED
        BY <1>8, <3>1, <3>2
    <2>5. QED
      BY <2>1, <2>2, <2>3, <2>4 DEF Grouped
  <1>21. n < g
    <2>1. n + 1 \in 1 .. N
      <3>1. CASE stream = <<>>
        BY <1>1, <1>2, <1>6, <1>17, <3>1 DEF Synced, ClientIsBehind
      <3>2. CASE stream # <<>>
        <4>1. 1 \in 1 .. l
          BY <1>8, <3>2 DEF TypeOK, l
        <4>2. srv = "header" => Host(stream[1].m) = n + 1
          BY <1>17, <3>2 DEF Synced, ServerIsAt
        <4>3. srv = "payload" => n < N
          BY <1>2, <1>17 DEF Synced, ServerIsAt
        <4>4. srv # "ended"
          BY <1>6, <1>17 DEF Synced, ClientIsBehind
        <4>5. srv = "header" \/ srv = "payload"
          BY <4>4 DEF TypeOK
        <4>6. QED
          BY <1>2, <1>11, <4>1, <4>2, <4>3, <4>5
      <3>3. QED
        BY <3>1, <3>2
    <2>2. ~Beat(n + 1)
      BY <1>17 DEF Synced
    <2>3. n + 1 \notin g + 1 .. N
      BY <1>10, <2>2
    <2>4. QED
      BY <2>1, <2>3
  <1>22. ServerIsAt(n)'
    <2>1. srv = "payload" => /\ n < Len(sent') /\ srvHdr = sent'[n + 1].hdr
                             /\ sent'[n + 1].data # <<>>
      <3>1. srv = "payload" => srvHdr = sent[n + 1].hdr /\ sent[n + 1].data # <<>>
        BY <1>17 DEF Synced, ServerIsAt
      <3>2. n + 1 \in 1 .. N /\ n < N + 1
        BY <1>9, <1>21
      <3>3. QED
        BY <1>7, <3>1, <3>2
    <2>2. CASE stream # <<>>
      <3>1. 1 \in 1 .. l
        BY <1>8, <2>2 DEF TypeOK, l
      <3>2. PICK c : c = stream[1]
        OBVIOUS
      <3>3. stream'[1] = c /\ Rank(c)' = Rank(c) /\ Host(c.m)' = Host(c.m)
        BY <1>8, <1>13, <3>1, <3>2
      <3>4. /\ srv = "header" =>
                /\ Host(c.m) = n + 1
                /\ \/ Rank(c) = 0
                   \/ Split(n + 1) /\ c.m = n + 1 /\ c.k >= 4
            /\ srv = "payload" => Host(c.m) = n + 1 /\ Rank(c) = 1
        BY <1>17, <2>2, <3>2 DEF Synced, ServerIsAt
      <3>5. Split(n + 1) => Split(n + 1)'
        BY <1>4
      <3>6. QED
        BY <1>6, <2>1, <3>3, <3>4, <3>5 DEF ServerIsAt
    <2>3. CASE stream = <<>>
      <3>1. srv = "payload" /\ g = n + 1 /\ g = N
        BY <1>1, <1>2, <1>6, <1>17, <2>3 DEF Synced, ClientIsBehind
      <3>2. b = 0 /\ stream'[1] = new
        BY <1>4, <1>8, <2>3, <3>1 DEF l
      <3>3. Host(new.m)' = n + 1 /\ Rank(new)' = 1
        BY <1>4, <1>14, <3>1, <3>2
      <3>4. QED
        BY <1>6, <2>1, <3>1, <3>2, <3>3 DEF ServerIsAt
    <2>4. QED
      BY <2>2, <2>3
  <1>23. ClientIsBehind(n)'
    <2>1. srv' # "ended"
      BY <1>6, <1>17 DEF Synced, ClientIsBehind
    <2>2. Host(new.m)' = g /\ Rank(new)' = b + 1
      BY <1>4, <1>14
    <2>3. main' = g /\ main' # 0 /\ Beats(main)' = b + 1
      <3>1. main' = g /\ main' # 0
        BY <1>1, <1>6
      <3>2. Beats(main)' = Beats(g)'
        BY <3>1
      <3>3. QED
        BY <1>4, <3>1, <3>2
    <2>4. stream'[Len(stream')] = new
      BY <1>8
    <2>5. QED
      BY <1>8, <2>1, <2>2, <2>3, <2>4 DEF ClientIsBehind
  <1>24. Synced(n)'
    <2>1. \A m \in 1 .. n : m \in torn' <=> m \in torn
      BY <1>6, <1>9, <1>21
    <2>2. Heartbeat \in Message
      BY HeartbeatIsMessage
    <2>3. Paired(ActedOn, Intact \cap (1 .. n), handled, sent)'
      BY <1>6, <1>17, <2>1, <2>2, SentKeepsPaired DEF Synced
    <2>4. ~Beat(n + 1)'
      <3>1. n + 1 # N + 1
        BY <1>9, <1>21
      <3>2. QED
        BY <1>4, <1>17, <3>1 DEF Synced
    <2>5. QED
      BY <1>22, <1>23, <2>3, <2>4 DEF Synced
  <1>25. n \in 0 .. Len(sent')
    BY <1>2, <1>7
  <1>26. QED
    BY <1>16, <1>19, <1>20, <1>24, <1>25 DEF Resync

-----------------------------------------------------------------------------
\* The server finds its way back after every torn touch event.

\* Messages keep their numbers, and what is torn stays torn: when touch events have been
\* torn once after a step, they had been torn at most once before it.
LEMMA TornOnceBefore ==
    ASSUME TypeOK, [Next]_vars, TouchesTornOnce'
    PROVE  TouchesTornOnce
  <1>1. /\ torn \subseteq torn'
        /\ \A m \in 1 .. Len(sent) : sent'[m] = sent[m]
    <2>1. ASSUME NEW msg \in Message, sent' = Append(sent, msg)
          PROVE  \A m \in 1 .. Len(sent) : sent'[m] = sent[m]
      BY <2>1 DEF TypeOK
    <2>2. ASSUME NEW msg \in Inputs, SendHeader(msg)
          PROVE  /\ torn \subseteq torn'
                 /\ \A m \in 1 .. Len(sent) : sent'[m] = sent[m]
      <3>1. msg \in Message
        BY InputIsMessage
      <3>2. sent' = Append(sent, msg) /\ torn' = torn
        BY <2>2 DEF SendHeader
      <3>3. QED
        BY <2>1, <3>1, <3>2
    <2>3. CASE SendHeartbeat
      <3>1. Heartbeat \in Message
        BY HeartbeatIsMessage
      <3>2. sent' = Append(sent, Heartbeat) /\ torn \subseteq torn'
        BY <2>3, Zenon DEF SendHeartbeat
      <3>3. QED
        BY <2>1, <3>1, <3>2
    <2>4. CASE \/ SendPayload \/ SendPayloadFails \/ ClientRecvReply \/ Disconnect
               \/ Server \/ UNCHANGED vars
      BY <2>4 DEF SendPayload, SendPayloadFails, ClientRecvReply, Disconnect, Server,
        ServerRecvHeader, ServerRecvBare, ServerRecvPayload, ServerEnd, vars
    <2>5. QED
      BY <2>2, <2>3, <2>4 DEF Next
  <1>2. \A m \in torn : m \in torn' /\ m \in 1 .. Len(sent) /\ sent'[m] = sent[m]
    BY <1>1 DEF TypeOK
  <1>3. \A m : Beat(m) => Beat(m)'
    BY <1>2 DEF Beat, IsHeartbeat
  <1>4. ASSUME NEW m \in torn
        PROVE  /\ MsgType(sent[m].hdr) \in {TOUCH, HEARTBEAT}
               /\ ~(Beat(m) /\ Beat(m + 1) /\ Beat(m + 2))
    <2>1. /\ MsgType(sent'[m].hdr) \in {TOUCH, HEARTBEAT}
          /\ ~(Beat(m)' /\ Beat(m + 1)' /\ Beat(m + 2)')
      BY <1>2, <1>4 DEF TouchesTornOnce
    <2>2. QED
      BY <1>2, <1>3, <1>4, <2>1
  <1>5. QED
    BY <1>4 DEF TouchesTornOnce

LEMMA InitResync == Init => Resync
  <1> SUFFICES ASSUME Init PROVE Resync
    OBVIOUS
  <1>1. /\ stream = <<>> /\ sent = <<>> /\ handled = <<>> /\ torn = {}
        /\ main = 0 /\ srv = "header" /\ Len(sent) = 0 /\ Len(stream) = 0
    BY DEF Init
  <1>2. \A m : ~Beat(m) /\ ~Split(m)
    BY <1>1 DEF Beat, Split
  <1>3. Grouped
    BY <1>1 DEF Grouped
  <1>4. CellsAreOfMessages /\ GroupsRunOn
    BY <1>1 DEF CellsAreOfMessages, GroupsRunOn, Runs
  <1>5. Paired(ActedOn, Intact \cap (1 .. 0), handled, sent)
    <2>1. ActedOn = {} /\ Intact \cap (1 .. 0) = {}
      BY <1>1 DEF ActedOn, Intact
    <2>2. QED
      BY <2>1 DEF Paired
  <1>6. ServerIsAt(0) /\ ClientIsBehind(0)
    BY <1>1 DEF ServerIsAt, ClientIsBehind
  <1>7. Synced(0) /\ 0 \in 0 .. Len(sent)
    BY <1>1, <1>2, <1>5, <1>6 DEF Synced
  <1>8. QED
    BY <1>3, <1>4, <1>7 DEF Resync

LEMMA ResyncPayload ==
    ASSUME TypeOK, SentOK, Resync, skew = 0, ServerRecvPayload
    PROVE  WordRecvPayload
  <1>1. srv = "payload"
    BY DEF ServerRecvPayload
  <1>2. PICK n \in 0 .. Len(sent) : Synced(n)
    BY DEF Resync
  <1>3. n < Len(sent) /\ srvHdr = sent[n + 1].hdr
    BY <1>1, <1>2 DEF Synced, ServerIsAt
  <1>4. n + 1 \in 1 .. Len(sent)
    <2>1. Len(sent) \in Nat
      BY DEF TypeOK
    <2>2. QED
      BY <1>3, <2>1
  <1>5. QED
    BY <1>3, <1>4, WholePayload, WordSteps

LEMMA NextResync ==
    ASSUME QuietTimestamps, TypeOK, TypeOK', SentOK, Resync, skew = 0, [Next]_vars,
           TouchesTornOnce'
    PROVE  Resync' /\ skew' = 0
  <1>1. TouchesTornOnce
    BY TornOnceBefore
  <1>2. ASSUME NEW msg \in Inputs, SendHeader(msg) PROVE Resync' /\ skew' = 0
    BY <1>2, HeaderResync DEF SendHeader
  <1>3. CASE SendPayload
    BY <1>3, PayloadResync DEF SendPayload
  <1>4. CASE SendPayloadFails
    BY <1>4, QuietResync DEF SendPayloadFails
  <1>5. CASE SendHeartbeat /\ main = 0
    <2>1. /\ link = "up" /\ skew' = skew
          /\ sent' = Append(sent, Heartbeat)
          /\ stream' = Append(stream, HeaderCell(Len(sent) + 1, Heartbeat))
          /\ UNCHANGED <<srv, srvHdr, link, handled>>
      BY <1>5 DEF SendHeartbeat
    <2>2. torn' = torn
      BY <1>5, Zenon DEF SendHeartbeat
    <2>3. main' = (IF Heartbeat.data = <<>> THEN 0 ELSE Len(sent) + 1)
      BY <1>5, HeartbeatIsMessage DEF SendHeartbeat
    <2>4. QED
      BY <1>5, <2>1, <2>2, <2>3, HeaderResync
  <1>6. CASE SendHeartbeat /\ main # 0
    BY <1>6, TornResync DEF SendHeartbeat
  <1>7. CASE ClientRecvReply
    BY <1>7, QuietResync DEF ClientRecvReply
  <1>8. CASE Disconnect
    BY <1>8, QuietResync DEF Disconnect
  <1>9. CASE ServerRecvHeader
    BY <1>1, <1>9, WordSteps, ReadHeaderResync DEF WordRecvHeader
  <1>10. CASE ServerRecvBare
    BY <1>1, <1>10, WordSteps, ReadBareResync DEF WordRecvBare
  <1>11. CASE ServerRecvPayload
    BY <1>1, <1>11, ResyncPayload, ReadPayloadResync DEF WordRecvPayload
  <1>12. CASE ServerEnd
    BY <1>12, QuietResync DEF ServerEnd
  <1>13. CASE UNCHANGED vars
    BY <1>13, QuietResync DEF vars
  <1>14. QED
    BY <1>2, <1>3, <1>4, <1>5, <1>6, <1>7, <1>8, <1>9, <1>10, <1>11, <1>12, <1>13
    DEF Next, Server

LEMMA ResyncInvHolds ==
    ASSUME QuietTimestamps
    PROVE  Spec => []ResyncInv
  <1>1. Init => ResyncInv
    BY InitResync DEF ResyncInv, Init
  <1>2. IInv /\ IInv' /\ ResyncInv /\ [Next]_vars => ResyncInv'
    <2> SUFFICES ASSUME IInv, IInv', ResyncInv, [Next]_vars, TouchesTornOnce'
                 PROVE  Resync' /\ skew' = 0
      BY DEF ResyncInv
    <2>1. TypeOK /\ TypeOK' /\ SentOK
      BY DEF IInv
    <2>2. Resync /\ skew = 0
      BY <2>1, TornOnceBefore DEF ResyncInv
    <2>3. QED
      BY <2>1, <2>2, NextResync
  <1>3. QED
    BY <1>1, <1>2, InvariantHolds, PTL DEF Spec

LEMMA ResyncIsLocal ==
    ASSUME TypeOK, ResyncInv
    PROVE  TornTouchIsLocal
  <1> SUFFICES ASSUME TouchesTornOnce
               PROVE  /\ \A i \in ActedOn, j \in Intact :
                           Nth(ActedOn, i) = Nth(Intact, j) => handled[i] = sent[j]
                      /\ Cardinality(ActedOn) <= Cardinality(Intact)
                      /\ Drained => Cardinality(ActedOn) = Cardinality(Intact)
    BY DEF TornTouchIsLocal
  <1>1. PICK n \in 0 .. Len(sent) : Synced(n)
    BY DEF ResyncInv, Resync
  <1>2. n \in Nat /\ Paired(ActedOn, Intact \cap (1 .. n), handled, sent)
    BY <1>1 DEF Synced, TypeOK
  <1>3. /\ ActedOn \in SUBSET Nat /\ IsFiniteSet(ActedOn)
        /\ Intact \in SUBSET Nat /\ IsFiniteSet(Intact) /\ 0 \notin Intact
    BY CountedSets
  <1>4. /\ \A i \in ActedOn, j \in Intact :
              Nth(ActedOn, i) = Nth(Intact, j) => handled[i] = sent[j]
        /\ Cardinality(ActedOn) <= Cardinality(Intact)
    BY <1>2, <1>3, PairedFromTheStart
  <1>5. ASSUME Drained PROVE Cardinality(ActedOn) = Cardinality(Intact)
    <2>1. n = Len(sent)
      BY <1>1, <1>5 DEF Drained, Synced, ClientIsBehind
    <2>2. Intact \cap (1 .. n) = Intact
      BY <2>1 DEF Intact
    <2>3. QED
      BY <1>2, <2>2 DEF Paired
  <1>6. QED
    BY <1>4, <1>5

\* A torn touch event costs that event and the heartbeats inside it and nothing else:
\* control_thread_func falls back into step on the words of the timestamp, which the
\* client leaves 0.
THEOREM TornTouchCostsItself ==
    ASSUME QuietTimestamps
    PROVE  Spec => []TornTouchIsLocal
  <1>1. IInv /\ ResyncInv => TornTouchIsLocal
    BY ResyncIsLocal DEF IInv
  <1>2. QED
    BY <1>1, ResyncInvHolds, InvariantHolds, PTL

-----------------------------------------------------------------------------
\* The payload that was not read.

\* Any header that is handled at once is none of an event, as long as the server falls
\* back into step: it is a message without a payload, or a word of a timestamp.
LEMMA BareIsNoEvent ==
    ASSUME TypeOK, SentOK, QuietTimestamps, TouchesTornOnce, Resync, WordRecvBare
    PROVE  ~Dereferences([hdr |-> stream[1].w, data |-> <<>>])
  <1> DEFINE c == stream[1]
  <1>1. /\ srv = "header" /\ stream # <<>> /\ ~ReadsPayload(c.w)
    BY DEF WordRecvBare
  <1>2. PICK n \in 0 .. Len(sent) : Synced(n)
    BY DEF Resync
  <1>3. /\ n + 1 \in 1 .. Len(sent)
        /\ sent[n + 1] \in Inputs \cup {Heartbeat}
        /\ \/ c.w = sent[n + 1].hdr
           \/ /\ Split(n + 1)
              /\ c.k \in 4 .. 5 /\ c.w = sent[n + 1].data[c.k]
    BY <1>1, <1>2, NextRead
  <1>4. CASE c.w = sent[n + 1].hdr
    <2>1. sent[n + 1].data = <<>> /\ sent[n + 1].hdr.hi = 4 * Len(sent[n + 1].data)
      BY <1>1, <1>3, <1>4, SentFacts
    <2>2. c.w.hi = 0
      BY <1>4, <2>1
    <2>3. QED
      BY <2>2 DEF Dereferences, Sizeof, TOUCH, KEY, SCROLL
  <1>5. CASE Split(n + 1) /\ c.k \in 4 .. 5 /\ c.w = sent[n + 1].data[c.k]
    BY <1>5, SplitIsTouch
  <1>6. QED
    BY <1>3, <1>4, <1>5

\* A payload that was read is there, if the callback looks at it.
LEMMA ReadIsThere ==
    ASSUME TypeOK, PayloadBytes <= Available,
           Dereferences([hdr |-> srvHdr, data |-> Payload])
    PROVE  Payload # <<>>
  <1>1. srvHdr.hi \in Nat /\ PayloadWords \in Nat
    BY PayloadWordsIsNat DEF TypeOK
  <1>2. srvHdr.hi >= 4
    BY <1>1 DEF Dereferences, Sizeof, TOUCH, KEY, SCROLL
  <1>3. \A n \in Nat : n >= 4 => n \div 4 >= 1
    OBVIOUS
  <1>4. PayloadWords >= 1
    BY <1>1, <1>2, <1>3 DEF PayloadWords
  <1>5. QED
    BY <1>1, <1>4, PayloadType

LEMMA UnreadStep ==
    ASSUME TypeOK, SentOK, QuietTimestamps, TouchesTornOnce, Resync, skew = 0,
           NoNullPayload, [Next]_vars
    PROVE  NoNullPayload'
  <1>1. ASSUME NEW msg \in Message, handled' = Append(handled, msg),
               Dereferences(msg) => msg.data # <<>>
        PROVE  NoNullPayload'
    <2>1. handled \in Seq(Message)
      BY DEF TypeOK
    <2>2. ASSUME NEW i \in 1 .. Len(handled')
          PROVE  \/ handled'[i] = msg
                 \/ (i \in 1 .. Len(handled) /\ handled'[i] = handled[i])
      <3>1. /\ Len(handled') = Len(handled) + 1
            /\ handled'[Len(handled) + 1] = msg
            /\ \A j \in 1 .. Len(handled) : handled'[j] = handled[j]
        BY <1>1, <2>1
      <3>2. Len(handled) \in Nat
        BY <2>1
      <3>3. CASE i = Len(handled) + 1
        BY <3>1, <3>3
      <3>4. CASE i # Len(handled) + 1
        <4>1. i \in 1 .. Len(handled)
          BY <3>1, <3>2, <3>4
        <4>2. QED
          BY <3>1, <4>1
      <3>5. QED
        BY <3>3, <3>4
    <2>3. QED
      BY <1>1, <2>2 DEF NoNullPayload
  <1>2. CASE ServerRecvBare
    <2> DEFINE msg == [hdr |-> stream[1].w, data |-> <<>>]
    <2>1. WordRecvBare
      BY <1>2, WordSteps
    <2>2. msg \in Message
      <3>1. stream \in Seq(Cell) /\ stream # <<>>
        BY <2>1 DEF WordRecvBare, TypeOK
      <3>2. stream[1] \in Cell
        BY <3>1
      <3>3. QED
        BY <3>2, CellWord DEF Message
    <2>3. handled' = Append(handled, msg)
      BY <2>1 DEF WordRecvBare, Handle
    <2>4. ~Dereferences(msg)
      BY <2>1, BareIsNoEvent
    <2> HIDE DEF msg
    <2>5. QED
      BY <1>1, <2>2, <2>3, <2>4
  <1>3. CASE ServerRecvPayload
    <2> DEFINE msg == [hdr |-> srvHdr, data |-> Payload]
    <2>1. PayloadBytes <= Available
      <3>1. PayloadBytes \in Nat /\ Available \in Int
        BY PayloadWordsIsNat DEF TypeOK, PayloadBytes, Available
      <3>2. QED
        BY <1>3, <3>1 DEF ServerRecvPayload
    <2>2. msg \in Message
      BY <2>1, PayloadType DEF Message, TypeOK
    <2>3. handled' = Append(handled, msg)
      BY <1>3 DEF ServerRecvPayload, Handle
    <2>4. Dereferences(msg) => msg.data # <<>>
      BY <2>1, ReadIsThere
    <2> HIDE DEF msg
    <2>5. QED
      BY <1>1, <2>2, <2>3, <2>4
  <1>4. CASE handled' = handled
    BY <1>4 DEF NoNullPayload
  <1>5. QED
    BY <1>2, <1>3, <1>4
    DEF Next, SendHeader, SendPayload, SendPayloadFails, SendHeartbeat, ClientRecvReply,
        Disconnect, Server, ServerRecvHeader, ServerEnd, vars

\* on_control_message never copies from data that was not read, as long as heartbeats
\* land inside touch events only: the words of a timestamp, the only ones the server
\* then takes for headers, claim no event.  Inside another event they may.
THEOREM PayloadIsThere ==
    ASSUME QuietTimestamps
    PROVE  Spec => []TornTouchIsRead
  <1>1. Init => TornTouchIsRead
    BY DEF Init, TornTouchIsRead, NoNullPayload
  <1>2. IInv /\ ResyncInv /\ TornTouchIsRead /\ [Next]_vars => TornTouchIsRead'
    <2> SUFFICES ASSUME IInv, ResyncInv, TornTouchIsRead, [Next]_vars, TouchesTornOnce'
                 PROVE  NoNullPayload'
      BY DEF TornTouchIsRead
    <2>1. TypeOK /\ SentOK
      BY DEF IInv
    <2>2. TouchesTornOnce
      BY <2>1, TornOnceBefore
    <2>3. Resync /\ skew = 0 /\ NoNullPayload
      BY <2>2 DEF ResyncInv, TornTouchIsRead
    <2>4. QED
      BY <2>1, <2>2, <2>3, UnreadStep
  <1>3. QED
    BY <1>1, <1>2, ResyncInvHolds, InvariantHolds, PTL DEF Spec
=============================================================================
