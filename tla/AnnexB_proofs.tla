--------------------------- MODULE AnnexB_proofs ----------------------------
(***************************************************************************)
(* Proofs about AnnexB: the message with the parameter sets, for all       *)
(* parameter sets and every radix; and the scan for them, for every        *)
(* sequence of bytes.                                                      *)
(***************************************************************************)
EXTENDS AnnexB, Integers, SequenceTheorems, WellFoundedInduction, TLAPS

LOCAL INSTANCE FiniteSetsExt

-----------------------------------------------------------------------------
\* Division with a remainder.
LEMMA Division ==
    ASSUME NEW n \in Nat, NEW r \in Nat \ {0}
    PROVE  \E q \in Nat, m \in 0..r - 1 :
              n \div r = q /\ n % r = m /\ n = q * r + m
  <1>1. PICK q \in Nat : q = n \div r
    OBVIOUS
  <1>2. q * r \in Nat /\ q * r <= n /\ n < q * r + r
    <2>1. r * (n \div r) <= n /\ n < r * (n \div r) + r
      OBVIOUS
    <2>2. r * q = q * r /\ q * r \in Nat
      OBVIOUS
    <2>3. QED
      BY <1>1, <2>1, <2>2
  <1>3. PICK m \in 0..r - 1 : n = q * r + m
    <2>1. n - q * r \in 0..r - 1
      BY <1>2
    <2>2. n = q * r + (n - q * r)
      BY <1>2
    <2>3. QED
      BY <2>1, <2>2
  <1>4. n % r = m
    BY <1>3
  <1>5. QED
    BY <1>1, <1>3, <1>4

LEMMA QuotientBelow ==
    ASSUME NEW n \in Nat, NEW r \in Nat \ {0}, NEW b \in Nat, n < b * r
    PROVE  n \div r < b
  <1>1. PICK q \in Nat, m \in 0..r - 1 : n \div r = q /\ n = q * r + m
    BY Division
  <1>2. q * r <= n
    BY <1>1
  <1>3. SUFFICES ASSUME q >= b PROVE FALSE
    BY <1>1
  <1>4. q * r >= b * r
    BY <1>3
  <1>5. QED
    BY <1>2, <1>4

\* A length of four digits is read as it was written.
LEMMA LengthRead ==
    ASSUME NEW n \in Nat, n < Radix * Radix * Radix * Radix
    PROVE  /\ BigEndian(n) \in Seq(Nat)
           /\ Len(BigEndian(n)) = 4
           /\ FromBigEndian(BigEndian(n)) = n
  <1> USE RadixAssumption
  <1>1. PICK q1 \in Nat, d1 \in 0..Radix - 1 :
           n \div Radix = q1 /\ n % Radix = d1 /\ n = q1 * Radix + d1
    BY Division
  <1>2. PICK q2 \in Nat, d2 \in 0..Radix - 1 :
           q1 \div Radix = q2 /\ q1 % Radix = d2 /\ q1 = q2 * Radix + d2
    BY Division
  <1>3. PICK q3 \in Nat, d3 \in 0..Radix - 1 :
           q2 \div Radix = q3 /\ q2 % Radix = d3 /\ q2 = q3 * Radix + d3
    BY Division
  <1>4. q3 < Radix
    <2>1. PICK r2 \in Nat : r2 = Radix * Radix
      OBVIOUS
    <2>2. PICK r3 \in Nat : r3 = r2 * Radix
      BY <2>1
    <2>3. n < r3 * Radix
      BY <2>1, <2>2
    <2>4. q1 < r2 * Radix
      BY <1>1, <2>2, <2>3, QuotientBelow
    <2>5. q2 < Radix * Radix
      BY <1>2, <2>1, <2>4, QuotientBelow
    <2>6. QED
      BY <1>3, <2>5, QuotientBelow
  <1>5. q3 % Radix = q3
    BY <1>4
  <1>6. BigEndian(n) = <<q3, d3, d2, d1>>
    BY <1>1, <1>2, <1>3, <1>5 DEF BigEndian
  <1>7. FromBigEndian(<<q3, d3, d2, d1>>) = ((q3 * Radix + d3) * Radix + d2) * Radix + d1
    BY DEF FromBigEndian
  <1>8. ((q3 * Radix + d3) * Radix + d2) * Radix + d1 = n
    BY <1>1, <1>2, <1>3
  <1>9. QED
    BY <1>6, <1>7, <1>8

-----------------------------------------------------------------------------
\* t lies in buf behind the first k elements.
Placed(buf, k, t) == SubSeq(buf, k + 1, k + Len(t)) = t

\* A part of a sequence that agrees with another sequence is that sequence.
LEMMA Slice ==
    ASSUME NEW buf \in Seq(Nat), NEW t \in Seq(Nat), NEW k \in Nat,
           k + Len(t) <= Len(buf),
           \A i \in 1..Len(t) : buf[k + i] = t[i]
    PROVE  Placed(buf, k, t)
  <1> DEFINE part == SubSeq(buf, k + 1, k + Len(t))
  <1>1. Len(t) \in Nat /\ Len(buf) \in Nat
    OBVIOUS
  <1>2. \A i \in k + 1..k + Len(t) : buf[i] \in Nat
    <2>1. \A i \in 1..Len(buf) : buf[i] \in Nat
      OBVIOUS
    <2>2. QED
      BY <1>1, <2>1
  <1>3. /\ part \in Seq(Nat)
        /\ Len(part) = Len(t)
        /\ \A i \in 1..Len(t) : part[i] = t[i]
    <2>1. /\ part \in Seq(Nat)
          /\ Len(part) = IF k + 1 <= k + Len(t) THEN (k + Len(t)) - (k + 1) + 1 ELSE 0
          /\ \A i \in 1..(k + Len(t)) - (k + 1) + 1 : part[i] = buf[(k + 1) + i - 1]
      BY <1>1, <1>2, SubSeqProperties
    <2> HIDE DEF part
    <2>2. (k + Len(t)) - (k + 1) + 1 = Len(t)
      BY <1>1
    <2>3. Len(part) = Len(t)
      BY <1>1, <2>1, <2>2
    <2>4. ASSUME NEW i \in 1..Len(t)
          PROVE  part[i] = t[i]
      <3>1. (k + 1) + i - 1 = k + i
        BY <1>1
      <3>2. part[i] = buf[(k + 1) + i - 1]
        BY <2>1, <2>2
      <3>3. QED
        BY <3>1, <3>2
    <2>5. QED
      BY <2>1, <2>3, <2>4
  <1>4. part = t
    BY <1>3, SeqEqual
  <1>5. QED
    BY <1>4 DEF Placed

\* Two sequences one behind the other.
LEMMA Joined ==
    ASSUME NEW s \in Seq(Nat), NEW t \in Seq(Nat)
    PROVE  /\ s \o t \in Seq(Nat)
           /\ Len(s \o t) = Len(s) + Len(t)
           /\ \A i \in 1..Len(s) : (s \o t)[i] = s[i]
           /\ \A i \in 1..Len(t) : (s \o t)[Len(s) + i] = t[i]
  OBVIOUS

LEMMA First ==
    \A t, u \in Seq(Nat) : Placed(t \o u, 0, t)
  <1> TAKE t, u \in Seq(Nat)
  <1>1. t \o u \in Seq(Nat) /\ 0 + Len(t) <= Len(t \o u)
    BY Joined
  <1>2. \A i \in 1..Len(t) : (t \o u)[0 + i] = t[i]
    BY Joined
  <1>3. QED
    BY <1>1, <1>2, Slice

LEMMA Last ==
    \A s, t \in Seq(Nat) : Placed(s \o t, Len(s), t)
  <1> TAKE s, t \in Seq(Nat)
  <1>1. Len(s) \in Nat
    OBVIOUS
  <1>2. s \o t \in Seq(Nat) /\ Len(s) + Len(t) <= Len(s \o t)
    BY Joined
  <1>3. \A i \in 1..Len(t) : (s \o t)[Len(s) + i] = t[i]
    BY Joined
  <1>4. QED
    BY <1>1, <1>2, <1>3, Slice

LEMMA Middle ==
    \A s, t, u \in Seq(Nat) : Placed((s \o t) \o u, Len(s), t)
  <1> TAKE s, t, u \in Seq(Nat)
  <1>1. PICK st \in Seq(Nat) : st = s \o t
    BY Joined
  <1>2. PICK stu \in Seq(Nat) : stu = st \o u
    BY Joined
  <1>3. Len(s) \in Nat /\ Len(t) \in Nat /\ Len(u) \in Nat
    OBVIOUS
  <1>4. Len(st) = Len(s) + Len(t) /\ Len(stu) = Len(s) + Len(t) + Len(u)
    BY <1>1, <1>2, Joined
  <1>5. ASSUME NEW i \in 1..Len(t)
        PROVE  stu[Len(s) + i] = t[i]
    <2>1. Len(s) + i \in 1..Len(st)
      BY <1>3, <1>4
    <2>2. stu[Len(s) + i] = st[Len(s) + i]
      BY <1>2, <2>1, Joined
    <2>3. (s \o t)[Len(s) + i] = t[i]
      BY Joined
    <2>4. QED
      BY <1>1, <2>2, <2>3
  <1>6. Len(s) + Len(t) <= Len(stu)
    BY <1>3, <1>4
  <1>7. Placed(stu, Len(s), t)
    BY <1>3, <1>5, <1>6, Slice
  <1>8. QED
    BY <1>1, <1>2, <1>7

Grouped(s, t, u) == (s \o t) \o u = s \o (t \o u)

LEMMA Associative ==
    \A s, t, u \in Seq(Nat) : Grouped(s, t, u)
  <1> SUFFICES ASSUME NEW s \in Seq(Nat), NEW t \in Seq(Nat), NEW u \in Seq(Nat)
               PROVE  (s \o t) \o u = s \o (t \o u)
    BY DEF Grouped
  <1> QED
    BY ConcatAssociative, SMTT(30)

LEMMA Closed ==
    \A s, t \in Seq(Nat) : s \o t \in Seq(Nat)
  OBVIOUS

Longer(s, t) == Len(s \o t) = Len(s) + Len(t)

LEMMA Lengths ==
    \A s, t \in Seq(Nat) : Longer(s, t)
  BY DEF Longer

\* Where the four parts of the message are.
LaidOut(buf, a, s, b, p) ==
    /\ Len(buf) = Len(a) + Len(s) + Len(b) + Len(p)
    /\ Placed(buf, 0, a)
    /\ Placed(buf, Len(a), s)
    /\ Placed(buf, Len(a) + Len(s), b)
    /\ Placed(buf, Len(a) + Len(s) + Len(b), p)

LEMMA Layout ==
    \A a, s, b, p \in Seq(Nat) : LaidOut(((a \o s) \o b) \o p, a, s, b, p)
  <1> TAKE a, s, b, p \in Seq(Nat)
  <1>1. a \o s \in Seq(Nat) /\ b \o p \in Seq(Nat)
    BY Closed, Zenon
  <1>2. (a \o s) \o b \in Seq(Nat) /\ s \o (b \o p) \in Seq(Nat)
    BY <1>1, Closed, Zenon
  <1>3. Grouped(a \o s, b, p) /\ Grouped(a, s, b \o p)
    BY <1>1, Associative, Zenon
  <1>4. Placed(a \o (s \o (b \o p)), 0, a)
    BY <1>2, First, Zenon
  <1>5. Placed((a \o s) \o (b \o p), Len(a), s)
    BY <1>1, Middle, Zenon
  <1>6. Placed(((a \o s) \o b) \o p, Len(a \o s), b)
    BY <1>1, Middle, Zenon
  <1>7. Placed(((a \o s) \o b) \o p, Len((a \o s) \o b), p)
    BY <1>2, Last, Zenon
  <1>8. Longer(a, s) /\ Longer(a \o s, b) /\ Longer((a \o s) \o b, p)
    BY <1>1, <1>2, Lengths, Zenon
  <1>9. QED
    BY <1>3, <1>4, <1>5, <1>6, <1>7, <1>8, Zenon DEF LaidOut, Grouped, Longer

\* The client takes the parameter sets out of the message as the server put them in
\* (tcp_server_send_sps_pps, on_video_frame), for all parameter sets whose lengths
\* fit into four digits: with bytes, every uint32_t.
THEOREM ParamsArrive ==
    ASSUME NEW params \in [sps : Seq(Nat), pps : Seq(Nat)],
           Len(params.sps) < Radix * Radix * Radix * Radix,
           Len(params.pps) < Radix * Radix * Radix * Radix
    PROVE  Unpack(Pack(params)) = params
  <1>1. PICK s \in Seq(Nat), p \in Seq(Nat), m \in Nat, n \in Nat :
           /\ params = [sps |-> s, pps |-> p]
           /\ m = Len(s)
           /\ n = Len(p)
    <2>1. /\ params.sps \in Seq(Nat)
          /\ params.pps \in Seq(Nat)
          /\ params = [sps |-> params.sps, pps |-> params.pps]
      OBVIOUS
    <2>2. Len(params.sps) \in Nat /\ Len(params.pps) \in Nat
      BY <2>1
    <2>3. QED
      BY <2>1, <2>2
  <1>2. PICK a \in Seq(Nat) : a = BigEndian(m) /\ Len(a) = 4 /\ FromBigEndian(a) = m
    BY <1>1, LengthRead
  <1>3. PICK b \in Seq(Nat) : b = BigEndian(n) /\ Len(b) = 4 /\ FromBigEndian(b) = n
    BY <1>1, LengthRead
  <1>4. PICK buf :
           /\ buf = ((a \o s) \o b) \o p
           /\ Len(buf) = m + n + 8
           /\ SubSeq(buf, 1, 4) = a
           /\ SubSeq(buf, 5, m + 4) = s
           /\ SubSeq(buf, m + 5, m + 8) = b
           /\ SubSeq(buf, m + 9, m + n + 8) = p
    <2>1. PICK buf : buf = ((a \o s) \o b) \o p
      OBVIOUS
    <2>2. LaidOut(buf, a, s, b, p)
      BY <2>1, Layout, Zenon
    <2>3. Len(a) = 4 /\ Len(b) = 4 /\ Len(s) = m /\ Len(p) = n
      BY <1>1, <1>2, <1>3
    <2>4. /\ Len(buf) = 4 + m + 4 + n
          /\ SubSeq(buf, 0 + 1, 0 + 4) = a
          /\ SubSeq(buf, 4 + 1, 4 + m) = s
          /\ SubSeq(buf, 4 + m + 1, 4 + m + 4) = b
          /\ SubSeq(buf, 4 + m + 4 + 1, 4 + m + 4 + n) = p
      BY <2>2, <2>3, Zenon DEF LaidOut, Placed
    <2>5. /\ 0 + 1 = 1 /\ 0 + 4 = 4
          /\ 4 + 1 = 5 /\ 4 + m = m + 4
          /\ 4 + m + 1 = m + 5 /\ 4 + m + 4 = m + 8
          /\ 4 + m + 4 + 1 = m + 9 /\ 4 + m + 4 + n = m + n + 8
      OBVIOUS
    <2>6. QED
      BY <2>1, <2>4, <2>5, Zenon
  <1>5. Pack(params) = buf
    BY <1>1, <1>2, <1>3, <1>4 DEF Pack
  <1>6. /\ ~(Len(buf) < 8)
        /\ ~(4 + m + 4 > Len(buf))
        /\ ~(m + n + 8 > Len(buf))
    BY <1>4
  <1>7. Unpack(buf) = [sps |-> s, pps |-> p]
    BY <1>2, <1>3, <1>4, <1>6 DEF Unpack
  <1>8. QED
    BY <1>1, <1>5, <1>7

-----------------------------------------------------------------------------
(***************************************************************************)
(* Induction.  A set of positions that is not empty has a first and a last *)
(* element; a claim about all positions is proved by looking at the last   *)
(* one for which it fails.                                                 *)
(***************************************************************************)
LEMMA Least ==
    \A T \in SUBSET Nat : T # {} => \E x \in T : \A y \in T : x <= y
  <1>1. SUFFICES ASSUME NEW T \in SUBSET Nat, T # {}
                 PROVE  \E x \in T : \A y \in T : x <= y
    OBVIOUS
  <1>2. IsWellFoundedOn(OpToRel(<, Nat), Nat)
    BY NatLessThanWellFounded
  <1>3. PICK x \in T : \A y \in T : ~(<<y, x>> \in OpToRel(<, Nat))
    BY <1>1, <1>2, WFMin
  <1>4. \A y \in T : ~(y < x)
    BY <1>3 DEF OpToRel
  <1>5. QED
    BY <1>4

LEMMA Greatest ==
    ASSUME NEW n \in Nat, NEW T \in SUBSET (1..n), T # {}
    PROVE  \E x \in T : \A y \in T : y <= x
  <1> DEFINE mirror == {d \in 0..n : n - d \in T}
  <1>1. mirror \in SUBSET Nat /\ mirror # {}
    <2>1. PICK y \in T : y \in 1..n
      OBVIOUS
    <2>2. n - y \in 0..n /\ n - (n - y) = y
      BY <2>1
    <2>3. n - y \in mirror
      BY <2>1, <2>2
    <2>4. mirror \subseteq 0..n /\ 0..n \subseteq Nat
      OBVIOUS
    <2>5. QED
      BY <2>3, <2>4
  <1>2. PICK d \in mirror : \A e \in mirror : d <= e
    BY <1>1, Least
  <1>3. ASSUME NEW y \in T PROVE y <= n - d
    <2>1. n - y \in 0..n /\ n - (n - y) = y
      OBVIOUS
    <2>2. n - y \in mirror
      BY <2>1
    <2>3. d <= n - y
      BY <1>2, <2>2
    <2>4. QED
      BY <2>1, <2>3
  <1>4. QED
    BY <1>3

LEMMA MinIs ==
    ASSUME NEW T \in SUBSET Nat, T # {}
    PROVE  Min(T) \in T /\ \A y \in T : Min(T) <= y
  BY Least DEF Min

LEMMA MinUnique ==
    ASSUME NEW T \in SUBSET Nat, NEW x \in T, \A y \in T : x <= y
    PROVE  Min(T) = x
  <1>1. PICK m \in T : m = Min(T) /\ \A y \in T : m <= y
    BY MinIs
  <1>2. x <= m /\ m <= x /\ x \in Nat /\ m \in Nat
    BY <1>1
  <1>3. QED
    BY <1>1, <1>2

-----------------------------------------------------------------------------
(***************************************************************************)
(* A unit with the zeros behind it: everything from a start code to the    *)
(* next one, but for the one zero that may belong to that one.             *)
(***************************************************************************)
WholeUnit(data, k) ==
    LET later == {m \in Codes(data) : m > k}
        next == Min(later)
        end == CASE later = {} -> Len(data)
                 [] later # {} /\ next > k + 3 /\ data[next - 1] = 0 -> next - 2
                 [] OTHER -> next - 1
    IN  SubSeq(data, k + 3, end)

FirstWhole(data, type) ==
    LET hits == {k \in Codes(data) :
                    WholeUnit(data, k) # <<>> /\ NalType(WholeUnit(data, k)) = type}
    IN  IF hits = {} THEN <<>> ELSE WholeUnit(data, Min(hits))

\* The scan and the standard see the same start codes.

LEMMA CodeSeen ==
    ASSUME NEW data \in Seq(Nat), NEW i \in 1..Len(data)
    PROVE  /\ StartCodeLen(data, i) \in {0, 3, 4}
           /\ StartCodeLen(data, i) = 3 <=> i \in Codes(data)
           /\ StartCodeLen(data, i) = 4 <=> data[i] = 0 /\ i + 1 \in Codes(data)
  <1>1. Len(data) \in Nat
    OBVIOUS
  <1>2. i \in Codes(data) <=>
            i + 2 <= Len(data) /\ data[i] = 0 /\ data[i + 1] = 0 /\ data[i + 2] = 1
    BY <1>1 DEF Codes
  <1>3. i + 1 \in Codes(data) <=>
            i + 3 <= Len(data) /\ data[i + 1] = 0 /\ data[i + 2] = 0 /\ data[i + 3] = 1
    <2>1. (i + 1) + 1 = i + 2 /\ (i + 1) + 2 = i + 3
      OBVIOUS
    <2>2. i + 1 \in 1..Len(data) - 2 <=> i + 3 <= Len(data)
      BY <1>1
    <2>3. QED
      BY <2>1, <2>2 DEF Codes
  <1>4. CASE i + 2 > Len(data) \/ data[i] # 0 \/ data[i + 1] # 0
    <2>1. StartCodeLen(data, i) = 0
      BY <1>4 DEF StartCodeLen
    <2>2. i \notin Codes(data) /\ ~(data[i] = 0 /\ i + 1 \in Codes(data))
      BY <1>1, <1>2, <1>3, <1>4
    <2>3. QED
      BY <2>1, <2>2
  <1>5. CASE i + 2 <= Len(data) /\ data[i] = 0 /\ data[i + 1] = 0
    <2>1. StartCodeLen(data, i) =
              IF data[i + 2] = 1 THEN 3
              ELSE IF data[i + 2] = 0 /\ i + 3 <= Len(data) /\ data[i + 3] = 1 THEN 4
              ELSE 0
      BY <1>1, <1>5 DEF StartCodeLen
    <2>2. QED
      BY <1>2, <1>3, <1>5, <2>1
  <1>6. QED
    BY <1>1, <1>4, <1>5

LEMMA CodesApart ==
    ASSUME NEW data \in Seq(Nat), NEW k \in Codes(data), NEW m \in Codes(data), m > k
    PROVE  m >= k + 3
  <1>1. Len(data) \in Nat /\ k \in Nat /\ m \in Nat
    BY DEF Codes
  <1>2. data[k + 1] = 0 /\ data[k + 2] = 1 /\ data[m] = 0 /\ data[m + 1] = 0
    BY DEF Codes
  <1>3. m # k + 2
    BY <1>2
  <1>4. m # k + 1
    <2>1. m = k + 1 => m + 1 = k + 2
      BY <1>1
    <2>2. QED
      BY <1>2, <2>1
  <1>5. QED
    BY <1>1, <1>3, <1>4

LEMMA EndOfUnit ==
    ASSUME NEW data \in Seq(Nat), NEW start \in 1..Len(data) + 1
    PROVE  /\ NalEnd(data, start) \in start..Len(data) + 1
           /\ NalEnd(data, start) <= Len(data) => StartCodeLen(data, NalEnd(data, start)) > 0
           /\ \A j \in start..NalEnd(data, start) - 1 : StartCodeLen(data, j) = 0
  <1> DEFINE T == {j \in start..Len(data) : StartCodeLen(data, j) > 0} \cup {Len(data) + 1}
  <1>1. Len(data) \in Nat
    OBVIOUS
  <1>2. T \in SUBSET Nat /\ T # {} /\ NalEnd(data, start) = Min(T)
    BY <1>1 DEF NalEnd
  <1>3. NalEnd(data, start) \in T /\ \A j \in T : NalEnd(data, start) <= j
    <2> HIDE DEF T
    <2>1. Min(T) \in T /\ \A j \in T : Min(T) <= j
      BY <1>2, MinIs
    <2>2. QED
      BY <1>2, <2>1
  <1>4. ASSUME NEW j \in start..NalEnd(data, start) - 1
        PROVE  StartCodeLen(data, j) = 0
    <2>1. j \in start..Len(data) /\ j < NalEnd(data, start)
      BY <1>1, <1>3
    <2>2. ~(StartCodeLen(data, j) > 0)
      BY <1>1, <1>3, <2>1
    <2>3. j \in 1..Len(data)
      BY <1>1, <2>1
    <2>4. StartCodeLen(data, j) \in {0, 3, 4}
      BY <2>3, CodeSeen
    <2>5. 3 > 0 /\ 4 > 0
      OBVIOUS
    <2>6. QED
      BY <2>2, <2>4, <2>5
  <1>5. QED
    BY <1>1, <1>3, <1>4

\* A unit of the scan is such a unit, and the next start code is where the scan
\* goes on.
LEMMA SameUnit ==
    ASSUME NEW data \in Seq(Nat), NEW k \in Codes(data)
    PROVE  /\ k + 3 \in 1..Len(data) + 1
           /\ WholeUnit(data, k) = SubSeq(data, k + 3, NalEnd(data, k + 3) - 1)
           /\ \A m \in Codes(data) : m > k <=> m >= NalEnd(data, k + 3)
  <1> DEFINE later == {m \in Codes(data) : m > k}
             stop == NalEnd(data, k + 3)
  <1>1. Len(data) \in Nat /\ Codes(data) \subseteq 1..Len(data) - 2
    BY DEF Codes
  <1>2. k \in 1..Len(data) - 2 /\ k + 3 \in 1..Len(data) + 1
    BY <1>1
  <1>3. /\ stop \in k + 3..Len(data) + 1
        /\ stop <= Len(data) => StartCodeLen(data, stop) > 0
        /\ \A j \in k + 3..stop - 1 : StartCodeLen(data, j) = 0
    BY <1>2, EndOfUnit
  <1>4. ASSUME NEW m \in Codes(data) PROVE m > k <=> m >= stop
    <2>1. CASE m > k
      <3>1. m >= k + 3 /\ m \in 1..Len(data)
        BY <1>1, <2>1, CodesApart
      <3>2. StartCodeLen(data, m) = 3
        BY <3>1, CodeSeen
      <3>3. m \notin k + 3..stop - 1
        BY <1>3, <3>2
      <3>4. QED
        BY <1>2, <1>3, <2>1, <3>1, <3>3
    <2>2. CASE ~(m > k)
      BY <1>1, <1>2, <1>3, <2>2
    <2>3. QED
      BY <2>1, <2>2
  <1>5. CASE later = {}
    <2>1. stop = Len(data) + 1
      <3>1. SUFFICES ASSUME stop <= Len(data) PROVE FALSE
        BY <1>1, <1>3
      <3>2. stop \in 1..Len(data) /\ stop \in Nat
        <4> HIDE DEF stop
        <4>1. k + 3 >= 1 /\ stop >= k + 3 /\ stop \in Int
          BY <1>1, <1>2, <1>3
        <4>2. QED
          BY <1>1, <1>2, <3>1, <4>1
      <3>3. StartCodeLen(data, stop) \in {3, 4}
        BY <1>3, <3>1, <3>2, CodeSeen
      <3>4. stop \in Codes(data) \/ stop + 1 \in Codes(data)
        BY <3>2, <3>3, CodeSeen
      <3>5. stop > k /\ stop + 1 > k
        BY <1>2, <1>3, <3>2
      <3>6. QED
        BY <1>5, <3>4, <3>5
    <2>2. stop - 1 = Len(data)
      BY <1>1, <2>1
    <2>3. WholeUnit(data, k) = SubSeq(data, k + 3, Len(data))
      BY <1>5 DEF WholeUnit
    <2>4. QED
      BY <1>2, <1>4, <2>2, <2>3
  <1>6. CASE later # {}
    <2>1. PICK next : next = Min(later)
      OBVIOUS
    <2>2. next \in later /\ \A m \in later : next <= m
      <3>1. later \in SUBSET Nat
        BY <1>1
      <3>2. QED
        BY <1>6, <2>1, <3>1, MinIs
    <2>3. next \in Codes(data) /\ next > k /\ next \in 1..Len(data) - 2 /\ next >= k + 3
      BY <1>1, <2>2, CodesApart
    <2>4. stop <= next
      BY <1>4, <2>3
    <2>5. stop \in 1..Len(data) /\ stop \in Nat
      <3> HIDE DEF stop
      <3>1. k \in Nat /\ stop >= k + 3 /\ stop \in Int
        BY <1>1, <1>2, <1>3
      <3>2. next <= Len(data) /\ next \in Int
        BY <1>1, <2>3
      <3>3. QED
        BY <1>1, <2>4, <3>1, <3>2
    <2>6. stop = next \/ stop = next - 1
      <3>1. StartCodeLen(data, stop) \in {3, 4}
        BY <1>1, <1>3, <2>5, CodeSeen
      <3>2. stop \in Codes(data) \/ stop + 1 \in Codes(data)
        BY <2>5, <3>1, CodeSeen
      <3>3. stop > k /\ stop + 1 > k
        BY <1>2, <1>3, <2>5
      <3>4. next <= stop \/ next <= stop + 1
        BY <2>2, <3>2, <3>3
      <3>5. next \in Nat /\ stop \in Nat
        BY <1>1, <2>3, <2>5
      <3> HIDE DEF stop
      <3>6. QED
        BY <2>4, <3>4, <3>5
    <2>7. stop = next - 1 <=> next > k + 3 /\ data[next - 1] = 0
      <3>1. CASE stop = next - 1
        <4>1. StartCodeLen(data, stop) > 0 /\ next > k + 3
          BY <1>1, <1>2, <1>3, <2>3, <2>5, <3>1
        <4>2. stop \notin Codes(data)
          <5>1. SUFFICES ASSUME stop \in Codes(data) PROVE FALSE
            OBVIOUS
          <5>2. stop > k
            BY <1>2, <1>3, <2>5
          <5>3. next <= stop
            BY <2>2, <5>1, <5>2
          <5>4. QED
            BY <2>3, <3>1, <5>3
        <4>3. StartCodeLen(data, stop) = 4
          BY <2>5, <4>1, <4>2, CodeSeen
        <4>4. data[stop] = 0
          BY <2>5, <4>3, CodeSeen
        <4>5. QED
          BY <3>1, <4>1, <4>4
      <3>2. CASE stop # next - 1 /\ next > k + 3 /\ data[next - 1] = 0
        <4>1. next - 1 \in 1..Len(data) /\ (next - 1) + 1 = next /\ next - 1 \in k + 3..stop - 1
          <5> HIDE DEF stop
          <5>1. stop = next /\ next \in Nat /\ k \in Nat /\ next <= Len(data)
            BY <1>1, <1>2, <2>3, <2>6, <3>2
          <5>2. (next - 1) + 1 = next /\ next - 1 \in k + 3..next - 1
            BY <3>2, <5>1
          <5>3. next - 1 \in 1..Len(data)
            BY <1>1, <3>2, <5>1
          <5>4. QED
            BY <5>1, <5>2, <5>3
        <4>2. StartCodeLen(data, next - 1) = 4
          BY <2>3, <3>2, <4>1, CodeSeen
        <4>3. QED
          BY <1>3, <4>1, <4>2
      <3>3. QED
        BY <3>1, <3>2
    <2>8. stop - 1 = IF next > k + 3 /\ data[next - 1] = 0 THEN next - 2 ELSE next - 1
      <3>1. CASE stop = next - 1
        BY <2>3, <2>7, <3>1
      <3>2. CASE stop # next - 1
        BY <2>3, <2>6, <2>7, <3>2
      <3>3. QED
        BY <3>1, <3>2
    <2>9. WholeUnit(data, k) = SubSeq(data, k + 3, stop - 1)
      <3>1. CASE next > k + 3 /\ data[next - 1] = 0
        <4>1. WholeUnit(data, k) = SubSeq(data, k + 3, next - 2)
          BY <1>6, <2>1, <3>1 DEF WholeUnit
        <4>2. QED
          BY <2>8, <3>1, <4>1
      <3>2. CASE ~(next > k + 3 /\ data[next - 1] = 0)
        <4>1. WholeUnit(data, k) = SubSeq(data, k + 3, next - 1)
          BY <1>6, <2>1, <3>2 DEF WholeUnit
        <4>2. QED
          BY <2>8, <3>2, <4>1
      <3>3. QED
        BY <3>1, <3>2
    <2>10. QED
      BY <1>2, <1>4, <2>9
  <1>7. QED
    BY <1>5, <1>6

-----------------------------------------------------------------------------
(***************************************************************************)
(* NalUnits is defined by recursion, one step of which is Step.  That a    *)
(* function with this property exists is shown from the end of the data    *)
(* backwards.                                                              *)
(***************************************************************************)
Step(data, f, i) ==
    IF i + 4 > Len(data) THEN <<>>
    ELSE IF StartCodeLen(data, i) = 0 THEN f[i + 1]
    ELSE LET start == i + StartCodeLen(data, i)
             end == NalEnd(data, start)
         IN  <<SubSeq(data, start, end - 1)>> \o f[end]

From(data) == CHOOSE f : f = [i \in 1..Len(data) + 1 |-> Step(data, f, i)]

LEMMA NalUnitsFrom ==
    ASSUME NEW data
    PROVE  NalUnits(data) = From(data)[1]
  BY DEF NalUnits, From, Step

\* A step that finds a unit.
LEMMA UnitFound ==
    ASSUME NEW data \in Seq(Nat), NEW i \in 1..Len(data), i + 4 <= Len(data),
           StartCodeLen(data, i) # 0
    PROVE  LET start == i + StartCodeLen(data, i)
           IN  /\ start \in i + 3..Len(data)
               /\ NalEnd(data, start) \in start..Len(data) + 1
  <1>1. Len(data) \in Nat /\ StartCodeLen(data, i) \in {3, 4}
    BY CodeSeen
  <1>2. i + StartCodeLen(data, i) \in i + 3..Len(data)
    BY <1>1
  <1>3. i + StartCodeLen(data, i) \in 1..Len(data) + 1
    BY <1>1, <1>2
  <1>4. QED
    BY <1>2, <1>3, EndOfUnit

\* A step looks at later positions only.
LEMMA StepLooksAhead ==
    ASSUME NEW data \in Seq(Nat), NEW i \in 1..Len(data) + 1, NEW f, NEW g,
           \A j \in i + 1..Len(data) + 1 : f[j] = g[j]
    PROVE  Step(data, f, i) = Step(data, g, i)
  <1>1. Len(data) \in Nat
    OBVIOUS
  <1>2. CASE i + 4 > Len(data)
    BY <1>2 DEF Step
  <1>3. CASE ~(i + 4 > Len(data)) /\ StartCodeLen(data, i) = 0
    <2>1. i + 1 \in i + 1..Len(data) + 1
      BY <1>1, <1>3
    <2>2. f[i + 1] = g[i + 1]
      BY <2>1
    <2>3. QED
      BY <1>3, <2>2 DEF Step
  <1>4. CASE ~(i + 4 > Len(data)) /\ StartCodeLen(data, i) # 0
    <2> DEFINE start == i + StartCodeLen(data, i)
    <2>1. i \in 1..Len(data) /\ i + 4 <= Len(data)
      BY <1>1, <1>4
    <2>2. start \in i + 3..Len(data) /\ NalEnd(data, start) \in start..Len(data) + 1
      BY <1>4, <2>1, UnitFound
    <2>3. NalEnd(data, start) \in i + 1..Len(data) + 1
      BY <1>1, <2>2
    <2>4. f[NalEnd(data, start)] = g[NalEnd(data, start)]
      BY <2>3
    <2>5. QED
      BY <1>4, <2>4, Zenon DEF Step
  <1>5. QED
    BY <1>2, <1>3, <1>4

Solves(data, f, n) == f = [i \in n..Len(data) + 1 |-> Step(data, f, i)]

LEMMA OneMore ==
    ASSUME NEW data \in Seq(Nat), NEW n \in 1..Len(data), NEW g, Solves(data, g, n + 1)
    PROVE  \E f : Solves(data, f, n)
  <1> DEFINE f == [i \in n..Len(data) + 1 |-> IF i = n THEN Step(data, g, n) ELSE g[i]]
  <1>1. Len(data) \in Nat
    OBVIOUS
  <1>2. \A j \in n + 1..Len(data) + 1 : f[j] = g[j]
    BY <1>1
  <1>3. ASSUME NEW i \in n..Len(data) + 1
        PROVE  f[i] = Step(data, f, i)
    <2>1. i \in 1..Len(data) + 1 /\ \A j \in i + 1..Len(data) + 1 : f[j] = g[j]
      BY <1>1, <1>2
    <2>2. Step(data, f, i) = Step(data, g, i)
      <3> HIDE DEF f
      <3>1. QED
        BY <2>1, StepLooksAhead
    <2>3. CASE i = n
      BY <2>2, <2>3
    <2>4. CASE i # n
      <3>1. i \in n + 1..Len(data) + 1
        BY <1>1, <2>4
      <3>2. g[i] = Step(data, g, i)
        BY <3>1 DEF Solves
      <3>3. f[i] = g[i]
        BY <1>2, <3>1
      <3>4. QED
        BY <2>2, <3>2, <3>3
    <2>5. QED
      BY <2>3, <2>4
  <1>4. f = [i \in n..Len(data) + 1 |-> f[i]]
    OBVIOUS
  <1>5. Solves(data, f, n)
    <2> HIDE DEF f
    <2>1. QED
      BY <1>3, <1>4, Zenon DEF Solves
  <1>6. QED
    BY <1>5

LEMMA Solvable ==
    ASSUME NEW data \in Seq(Nat)
    PROVE  \E f : Solves(data, f, 1)
  <1> DEFINE bad == {n \in 1..Len(data) + 1 : ~\E f : Solves(data, f, n)}
  <1>1. Len(data) \in Nat
    OBVIOUS
  <1>2. SUFFICES ASSUME bad # {} PROVE FALSE
    <2>1. 1 \in 1..Len(data) + 1
      BY <1>1
    <2>2. QED
      BY <2>1, Zenon
  <1>3. PICK n \in bad : \A m \in bad : m <= n
    <2>1. bad \in SUBSET (1..Len(data) + 1) /\ Len(data) + 1 \in Nat
      BY <1>1
    <2> HIDE DEF bad
    <2>2. QED
      BY <1>2, <2>1, Greatest
  <1>4. CASE n = Len(data) + 1
    <2>1. Solves(data, [i \in n..Len(data) + 1 |-> <<>>], n)
      <3>1. \A f : \A i \in n..Len(data) + 1 : Step(data, f, i) = <<>>
        BY <1>1, <1>4 DEF Step
      <3>2. QED
        BY <3>1, Zenon DEF Solves
    <2>2. QED
      BY <2>1
  <1>5. CASE n # Len(data) + 1
    <2>1. n \in 1..Len(data) /\ n + 1 \in 1..Len(data) + 1 /\ ~(n + 1 <= n)
      BY <1>1, <1>5
    <2>2. PICK g : Solves(data, g, n + 1)
      BY <1>3, <2>1
    <2>3. QED
      BY <2>1, <2>2, OneMore
  <1>6. QED
    BY <1>4, <1>5

LEMMA FromStep ==
    ASSUME NEW data \in Seq(Nat)
    PROVE  \A i \in 1..Len(data) + 1 : From(data)[i] = Step(data, From(data), i)
  <1>1. From(data) = [i \in 1..Len(data) + 1 |-> Step(data, From(data), i)]
    BY Solvable, Zenon DEF Solves, From
  <1>2. QED
    BY <1>1, Zenon

-----------------------------------------------------------------------------
(***************************************************************************)
(* The first unit of a type, among the units of the scan and among those   *)
(* of the standard from a position on.                                     *)
(***************************************************************************)
OfType(nal, type) == nal # <<>> /\ NalType(nal) = type

LEMMA FirstOfNone == ASSUME NEW type PROVE FirstOfType(<<>>, type) = <<>>
  BY DEF FirstOfType

LEMMA FirstOfMore ==
    ASSUME NEW nal \in Seq(Nat), NEW nals \in Seq(Seq(Nat)), NEW type
    PROVE  FirstOfType(<<nal>> \o nals, type) =
               IF OfType(nal, type) THEN nal ELSE FirstOfType(nals, type)
  <1> DEFINE hits == {k \in DOMAIN nals : OfType(nals[k], type)}
  <1>1. PICK n \in Nat, all \in Seq(Seq(Nat)) :
           /\ all = <<nal>> \o nals
           /\ n = Len(nals) /\ Len(all) = n + 1
           /\ DOMAIN nals = 1..n /\ DOMAIN all = 1..n + 1
           /\ all[1] = nal
           /\ \A k \in 1..n : all[k + 1] = nals[k]
    <2>1. <<nal>> \in Seq(Seq(Nat)) /\ Len(<<nal>>) = 1 /\ <<nal>>[1] = nal
      OBVIOUS
    <2>2. /\ <<nal>> \o nals \in Seq(Seq(Nat))
          /\ Len(<<nal>> \o nals) = Len(nals) + 1
          /\ (<<nal>> \o nals)[1] = nal
          /\ \A k \in 1..Len(nals) : (<<nal>> \o nals)[k + 1] = nals[k]
      OBVIOUS
    <2>3. /\ Len(nals) \in Nat /\ DOMAIN nals = 1..Len(nals)
          /\ DOMAIN (<<nal>> \o nals) = 1..Len(nals) + 1
      BY <2>2
    <2>4. QED
      BY <2>2, <2>3, Zenon
  <1> DEFINE allHits == {k \in DOMAIN all : OfType(all[k], type)}
  <1>2. /\ FirstOfType(all, type) = IF allHits = {} THEN <<>> ELSE all[Min(allHits)]
        /\ FirstOfType(nals, type) = IF hits = {} THEN <<>> ELSE nals[Min(hits)]
    BY Zenon DEF FirstOfType, OfType
  <1>3. hits \in SUBSET Nat /\ allHits \in SUBSET Nat
    BY <1>1
  <1>4. \A k \in 1..n : k + 1 \in allHits <=> k \in hits
    BY <1>1
  <1>5. \A m \in allHits : m # 1 => m - 1 \in hits /\ (m - 1) + 1 = m
    <2>1. SUFFICES ASSUME NEW m \in 1..n + 1, m \in allHits, m # 1
                   PROVE  m - 1 \in hits /\ (m - 1) + 1 = m
      BY <1>1
    <2>2. m - 1 \in 1..n /\ (m - 1) + 1 = m
      BY <2>1
    <2>3. QED
      BY <1>4, <2>1, <2>2
  <1>6. 1 \in allHits <=> OfType(nal, type)
    BY <1>1
  <1>7. CASE OfType(nal, type)
    <2>1. Min(allHits) = 1
      <3>1. 1 \in allHits /\ \A m \in allHits : 1 <= m
        BY <1>1, <1>6, <1>7
      <3> HIDE DEF allHits
      <3>2. QED
        BY <1>3, <3>1, MinUnique
    <2>2. FirstOfType(all, type) = all[1]
      BY <1>2, <1>6, <1>7, <2>1
    <2>3. QED
      BY <1>1, <1>7, <2>2
  <1>8. CASE ~OfType(nal, type) /\ hits = {}
    <2>1. allHits = {}
      BY <1>5, <1>6, <1>8
    <2>2. QED
      BY <1>1, <1>2, <1>8, <2>1, Zenon
  <1>9. CASE ~OfType(nal, type) /\ hits # {}
    <2>1. PICK first : first = Min(hits)
      OBVIOUS
    <2>2. first \in hits /\ \A k \in hits : first <= k
      <3> HIDE DEF hits
      <3>1. QED
        BY <1>3, <1>9, <2>1, MinIs
    <2>3. first \in 1..n /\ first + 1 \in allHits
      BY <1>1, <1>4, <2>2
    <2>4. \A m \in allHits : first + 1 <= m
      <3>1. SUFFICES ASSUME NEW m \in allHits PROVE first + 1 <= m
        OBVIOUS
      <3>2. m # 1 /\ m \in Nat
        BY <1>3, <1>6, <1>9
      <3>3. first <= m - 1
        BY <1>5, <2>2, <3>2
      <3>4. QED
        BY <2>3, <3>2, <3>3
    <2>5. Min(allHits) = first + 1
      <3> HIDE DEF allHits
      <3>1. QED
        BY <1>3, <2>3, <2>4, MinUnique
    <2>6. FirstOfType(all, type) = all[first + 1]
      <3>1. allHits # {}
        BY <2>3
      <3>2. QED
        BY <1>2, <2>5, <3>1, Zenon
    <2>7. FirstOfType(nals, type) = nals[first]
      BY <1>2, <1>9, <2>1, Zenon
    <2>8. QED
      BY <1>1, <1>9, <2>3, <2>6, <2>7
  <1>10. QED
    BY <1>7, <1>8, <1>9

HitsFrom(data, i, type) ==
    {k \in Codes(data) : k >= i /\ OfType(WholeUnit(data, k), type)}

FirstFrom(data, i, type) ==
    IF HitsFrom(data, i, type) = {} THEN <<>>
    ELSE WholeUnit(data, Min(HitsFrom(data, i, type)))

LEMMA FirstFromStart ==
    ASSUME NEW data \in Seq(Nat), NEW type
    PROVE  FirstWhole(data, type) = FirstFrom(data, 1, type)
  <1>1. \A k \in Codes(data) : k >= 1
    BY DEF Codes
  <1>2. HitsFrom(data, 1, type) =
            {k \in Codes(data) : WholeUnit(data, k) # <<>> /\ NalType(WholeUnit(data, k)) = type}
    BY <1>1, Zenon DEF HitsFrom, OfType
  <1>3. QED
    BY <1>2, Zenon DEF FirstWhole, FirstFrom

\* Nothing begins between i and j.
LEMMA NoneBetween ==
    ASSUME NEW data \in Seq(Nat), NEW type, NEW i \in Nat, NEW j \in Nat,
           \A k \in Codes(data) : k >= i <=> k >= j
    PROVE  FirstFrom(data, i, type) = FirstFrom(data, j, type)
  <1>1. HitsFrom(data, i, type) = HitsFrom(data, j, type)
    BY Zenon DEF HitsFrom
  <1>2. QED
    BY <1>1, Zenon DEF FirstFrom

\* A unit begins behind k, the next one at the end of it.
LEMMA FirstFromCode ==
    ASSUME NEW data \in Seq(Nat), NEW type, NEW k \in Codes(data)
    PROVE  FirstFrom(data, k, type) =
               IF OfType(WholeUnit(data, k), type) THEN WholeUnit(data, k)
               ELSE FirstFrom(data, NalEnd(data, k + 3), type)
  <1> DEFINE hits == HitsFrom(data, k, type)
             later == HitsFrom(data, NalEnd(data, k + 3), type)
  <1>1. k \in Nat /\ Codes(data) \subseteq Nat
    BY DEF Codes
  <1>2. \A m \in Codes(data) : m > k <=> m >= NalEnd(data, k + 3)
    BY SameUnit
  <1>3. CASE OfType(WholeUnit(data, k), type)
    <2>1. k \in hits /\ hits \in SUBSET Nat /\ \A m \in hits : k <= m
      BY <1>1, <1>3 DEF HitsFrom
    <2>2. Min(hits) = k
      <3> HIDE DEF hits
      <3>1. QED
        BY <2>1, MinUnique
    <2>3. QED
      BY <1>3, <2>1, <2>2, Zenon DEF FirstFrom
  <1>4. CASE ~OfType(WholeUnit(data, k), type)
    <2>1. \A m \in Codes(data) : m >= k <=> m = k \/ m > k
      BY <1>1
    <2>2. hits = later
      BY <1>2, <1>4, <2>1, Zenon DEF HitsFrom
    <2>3. QED
      BY <1>4, <2>2, Zenon DEF FirstFrom
  <1>5. QED
    BY <1>3, <1>4

-----------------------------------------------------------------------------
(***************************************************************************)
(* The scan finds what the standard says.  Where the scan comes to, a zero *)
(* byte before a start code has been taken for a part of it, so that a     *)
(* code in the last 4 bytes is one of 3 bytes.                             *)
(***************************************************************************)
Fresh(data, i) == i \in Codes(data) /\ i > 1 => data[i - 1] # 0

LEMMA FreshNext ==
    ASSUME NEW data \in Seq(Nat), NEW i \in 1..Len(data), StartCodeLen(data, i) = 0
    PROVE  i \notin Codes(data) /\ Fresh(data, i + 1)
  <1>1. (i + 1) - 1 = i
    OBVIOUS
  <1>2. i \notin Codes(data) /\ ~(data[i] = 0 /\ i + 1 \in Codes(data))
    BY CodeSeen
  <1>3. QED
    BY <1>1, <1>2 DEF Fresh

\* The code the scan finds at i, where its unit starts, and where it goes on.
LEMMA FreshUnit ==
    ASSUME NEW data \in Seq(Nat), NEW i \in 1..Len(data), i + 4 <= Len(data),
           StartCodeLen(data, i) # 0
    PROVE  LET start == i + StartCodeLen(data, i)
           IN  /\ start - 3 \in Codes(data)
               /\ start - 3 \in {i, i + 1}
               /\ start - 3 = i + 1 => i \notin Codes(data)
               /\ Fresh(data, NalEnd(data, start))
  <1> DEFINE start == i + StartCodeLen(data, i)
             end == NalEnd(data, start)
  <1>1. Len(data) \in Nat /\ StartCodeLen(data, i) \in {3, 4}
    BY CodeSeen
  <1>2. start \in i + 3..Len(data) /\ end \in start..Len(data) + 1
    BY UnitFound
  <1>3. /\ start - 3 \in Codes(data)
        /\ start - 3 \in {i, i + 1}
        /\ start - 3 = i + 1 => i \notin Codes(data)
    <2>1. CASE StartCodeLen(data, i) = 3
      <3>1. i \in Codes(data) /\ start - 3 = i
        BY <2>1, CodeSeen
      <3>2. QED
        BY <3>1
    <2>2. CASE StartCodeLen(data, i) = 4
      <3>1. i + 1 \in Codes(data) /\ i \notin Codes(data) /\ start - 3 = i + 1
        BY <2>2, CodeSeen
      <3>2. QED
        BY <3>1
    <2>3. QED
      BY <1>1, <2>1, <2>2
  <1>4. Fresh(data, end)
    <2>1. SUFFICES ASSUME end \in Codes(data) PROVE data[end - 1] # 0
      BY DEF Fresh
    <2>2. CASE end = start
      <3>1. data[(start - 3) + 2] = 1
        BY <1>3 DEF Codes
      <3>2. (start - 3) + 2 = end - 1
        BY <1>2, <2>2
      <3>3. QED
        BY <3>1, <3>2
    <2>3. CASE end # start
      <3>1. end - 1 \in start..end - 1 /\ end - 1 \in 1..Len(data) /\ (end - 1) + 1 = end
        <4> HIDE DEF start, end
        <4>1. start \in Nat /\ end \in Nat /\ start >= 1 /\ start < end /\ end <= Len(data) + 1
          BY <1>1, <1>2, <2>3
        <4>2. QED
          BY <1>1, <4>1
      <3>2. StartCodeLen(data, end - 1) = 0
        <4>1. start \in 1..Len(data) + 1
          BY <1>1, <1>2
        <4>2. QED
          BY <3>1, <4>1, EndOfUnit
      <3>3. ~(data[end - 1] = 0 /\ (end - 1) + 1 \in Codes(data))
        BY <3>1, <3>2, CodeSeen
      <3>4. QED
        BY <2>1, <3>1, <3>3
    <2>4. QED
      BY <2>2, <2>3
  <1>5. QED
    BY <1>3, <1>4

\* In the last 4 bytes the standard sees no unit either.
LEMMA NoneAtEnd ==
    ASSUME NEW data \in Seq(Nat), ~ShortLast(data),
           NEW i \in 1..Len(data) + 1, i + 4 > Len(data), Fresh(data, i), NEW type
    PROVE  FirstFrom(data, i, type) = <<>>
  <1>1. Len(data) \in Nat
    OBVIOUS
  <1>2. SUFFICES ASSUME NEW k \in Codes(data), k >= i, WholeUnit(data, k) # <<>>
                 PROVE  FALSE
    BY DEF FirstFrom, HitsFrom, OfType
  <1>3. k \in 1..Len(data) - 2 /\ k \in {Len(data) - 3, Len(data) - 2}
    BY <1>1, <1>2 DEF Codes
  <1>4. CASE k = Len(data) - 2
    <2>1. k + 3 \in 1..Len(data) + 1 /\ k + 3 = Len(data) + 1
      BY <1>1, <1>4, SameUnit
    <2>2. NalEnd(data, k + 3) \in k + 3..Len(data) + 1
      BY <2>1, EndOfUnit
    <2>3. NalEnd(data, k + 3) - 1 < k + 3 /\ NalEnd(data, k + 3) - 1 \in Int /\ k + 3 \in Int
      BY <1>1, <2>1, <2>2
    <2>4. WholeUnit(data, k) = <<>>
      BY <2>3, SameUnit, SubSeqEmpty
    <2>5. QED
      BY <1>2, <2>4
  <1>5. CASE k = Len(data) - 3
    <2>1. i = k
      BY <1>1, <1>2, <1>3, <1>5
    <2>2. k > 1 => data[k - 1] # 0
      BY <2>1 DEF Fresh
    <2>3. QED
      BY <1>5, <2>2 DEF ShortLast
  <1>6. QED
    BY <1>3, <1>4, <1>5

LEMMA UnitType ==
    ASSUME NEW data \in Seq(Nat), NEW k \in Codes(data)
    PROVE  WholeUnit(data, k) \in Seq(Nat) /\ Len(WholeUnit(data, k)) <= Len(data)
  <1>1. k + 3 \in 1..Len(data) + 1 /\ Len(data) \in Nat
    BY SameUnit
  <1>2. NalEnd(data, k + 3) \in k + 3..Len(data) + 1
    BY <1>1, EndOfUnit
  <1>3. PICK first \in Int, last \in Int :
           /\ first = k + 3 /\ last = NalEnd(data, k + 3) - 1
           /\ first \in 1..Len(data) + 1 /\ last \in first - 1..Len(data)
    BY <1>1, <1>2
  <1>4. \A j \in first..last : data[j] \in Nat
    <2>1. \A j \in 1..Len(data) : data[j] \in Nat
      OBVIOUS
    <2>2. QED
      BY <1>1, <1>3, <2>1
  <1>5. /\ SubSeq(data, first, last) \in Seq(Nat)
        /\ Len(SubSeq(data, first, last)) = IF first <= last THEN last - first + 1 ELSE 0
    BY <1>4, SubSeqProperties
  <1>6. WholeUnit(data, k) = SubSeq(data, first, last)
    BY <1>3, SameUnit
  <1>7. Len(SubSeq(data, first, last)) <= Len(data)
    BY <1>1, <1>3, <1>5
  <1>8. QED
    BY <1>5, <1>6, <1>7

\* From every place it comes to, the scan finds sequences of bytes, and as the
\* first of a type the one the standard says.
Found(data, i) ==
    /\ From(data)[i] \in Seq(Seq(Nat))
    /\ ~ShortLast(data) /\ Fresh(data, i) =>
          \A type : FirstOfType(From(data)[i], type) = FirstFrom(data, i, type)

LEMMA FoundStep ==
    ASSUME NEW data \in Seq(Nat), NEW i \in 1..Len(data) + 1,
           \A j \in i + 1..Len(data) + 1 : Found(data, j)
    PROVE  Found(data, i)
  <1>1. Len(data) \in Nat /\ From(data)[i] = Step(data, From(data), i)
    BY FromStep
  <1>2. CASE i + 4 > Len(data)
    <2>1. From(data)[i] = <<>>
      BY <1>1, <1>2 DEF Step
    <2>2. QED
      BY <1>2, <2>1, FirstOfNone, NoneAtEnd DEF Found
  <1>3. CASE ~(i + 4 > Len(data)) /\ StartCodeLen(data, i) = 0
    <2>1. From(data)[i] = From(data)[i + 1]
      BY <1>1, <1>3 DEF Step
    <2>2. i \in 1..Len(data) /\ i \in Nat /\ i + 1 \in Nat /\ Found(data, i + 1)
      BY <1>1, <1>3
    <2>3. i \notin Codes(data) /\ Fresh(data, i + 1)
      BY <1>3, <2>2, FreshNext
    <2>4. \A k \in Codes(data) : k >= i <=> k >= i + 1
      <3>1. ASSUME NEW k \in Codes(data) PROVE k \in Nat /\ k # i
        BY <2>3 DEF Codes
      <3>2. QED
        BY <2>2, <3>1
    <2>5. \A type : FirstFrom(data, i, type) = FirstFrom(data, i + 1, type)
      BY <2>2, <2>4, NoneBetween
    <2>6. QED
      BY <2>1, <2>2, <2>3, <2>5, Zenon DEF Found
  <1>4. CASE ~(i + 4 > Len(data)) /\ StartCodeLen(data, i) # 0
    <2>1. i \in 1..Len(data) /\ i + 4 <= Len(data)
      BY <1>1, <1>4
    <2>2. PICK start, end, k :
             /\ start = i + StartCodeLen(data, i) /\ end = NalEnd(data, start)
             /\ k = start - 3
      OBVIOUS
    <2>3. start \in i + 3..Len(data) /\ end \in start..Len(data) + 1
      BY <1>4, <2>1, <2>2, UnitFound
    <2>4. /\ k \in Codes(data)
          /\ k \in {i, i + 1}
          /\ k = i + 1 => i \notin Codes(data)
          /\ Fresh(data, end)
      BY <1>4, <2>1, <2>2, FreshUnit
    <2>5. From(data)[i] = <<SubSeq(data, start, end - 1)>> \o From(data)[end]
      BY <1>1, <1>4, <2>2, Zenon DEF Step
    <2>6. k + 3 = start /\ k \in Nat /\ i \in Nat
      <3>1. i \in Nat /\ i + 1 \in Nat
        BY <1>1
      <3>2. k \in Nat
        BY <2>4, <3>1
      <3>3. start \in Int
        BY <1>1, <2>3
      <3>4. QED
        BY <2>2, <3>1, <3>2, <3>3
    <2>7. WholeUnit(data, k) = SubSeq(data, start, end - 1) /\ WholeUnit(data, k) \in Seq(Nat)
      BY <2>2, <2>4, <2>6, SameUnit, UnitType
    <2>8. Found(data, end)
      <3>1. end \in i + 1..Len(data) + 1
        BY <1>1, <2>3
      <3>2. QED
        BY <3>1
    <2>9. \A type : FirstFrom(data, i, type) = FirstFrom(data, k, type)
      <3>1. \A m \in Codes(data) : m >= i <=> m >= k
        <4>1. Codes(data) \subseteq Nat
          BY DEF Codes
        <4>2. QED
          BY <2>4, <2>6, <4>1
      <3>2. QED
        BY <2>6, <3>1, NoneBetween
    <2>10. PICK unit \in Seq(Nat), rest \in Seq(Seq(Nat)) :
              /\ unit = WholeUnit(data, k) /\ rest = From(data)[end]
              /\ From(data)[i] = <<unit>> \o rest
      BY <2>5, <2>7, <2>8, Zenon DEF Found
    <2>11. <<unit>> \o rest \in Seq(Seq(Nat))
      OBVIOUS
    <2>12. ASSUME ~ShortLast(data), NEW type
           PROVE  FirstOfType(From(data)[i], type) = FirstFrom(data, i, type)
      <3>1. FirstOfType(From(data)[i], type) =
                IF OfType(unit, type) THEN unit ELSE FirstOfType(rest, type)
        BY <2>10, FirstOfMore
      <3>2. FirstFrom(data, k, type) =
                IF OfType(unit, type) THEN unit ELSE FirstFrom(data, end, type)
        BY <2>2, <2>4, <2>6, <2>10, FirstFromCode
      <3>3. FirstOfType(rest, type) = FirstFrom(data, end, type)
        BY <2>4, <2>8, <2>10, <2>12, Zenon DEF Found
      <3>4. QED
        BY <2>9, <3>1, <3>2, <3>3, Zenon
    <2>13. QED
      BY <2>10, <2>11, <2>12, Zenon DEF Found
  <1>5. QED
    BY <1>2, <1>3, <1>4

LEMMA FoundAll ==
    ASSUME NEW data \in Seq(Nat)
    PROVE  Found(data, 1)
  <1> DEFINE bad == {i \in 1..Len(data) + 1 : ~Found(data, i)}
  <1>1. Len(data) \in Nat /\ 1 \in 1..Len(data) + 1
    OBVIOUS
  <1>2. SUFFICES ASSUME bad # {} PROVE FALSE
    BY <1>1
  <1>3. PICK i \in bad : \A j \in bad : j <= i
    <2>1. bad \in SUBSET (1..Len(data) + 1) /\ Len(data) + 1 \in Nat
      BY <1>1
    <2> HIDE DEF bad
    <2>2. QED
      BY <1>2, <2>1, Greatest
  <1>4. \A j \in i + 1..Len(data) + 1 : Found(data, j)
    <2>1. SUFFICES ASSUME NEW j \in i + 1..Len(data) + 1 PROVE j \notin bad
      BY <1>1
    <2>2. ~(j <= i)
      BY <1>1
    <2>3. QED
      BY <1>3, <2>2
  <1>5. QED
    BY <1>4, FoundStep

\* The units of the scan are sequences of bytes.
LEMMA NalUnitsType ==
    ASSUME NEW data \in Seq(Nat)
    PROVE  NalUnits(data) \in Seq(Seq(Nat))
  BY FoundAll, NalUnitsFrom DEF Found

\* What lies between the end of a unit and the next start code is zero.
LEMMA ZerosBehind ==
    ASSUME NEW data \in Seq(Nat), ByteStream(data), NEW k \in Codes(data)
    PROVE  \E m, e, n \in Nat :
              /\ n = Len(data) /\ k + 3 <= m /\ m <= e /\ e <= n + 1
              /\ UnitAt(data, k) = SubSeq(data, k + 3, m - 1)
              /\ WholeUnit(data, k) = SubSeq(data, k + 3, e - 1)
              /\ \A j \in m..e - 1 : data[j] = 0
  <1>1. PICK n \in Nat : n = Len(data)
    OBVIOUS
  <1>2. /\ k \in Nat /\ k + 3 \in 1..n + 1
        /\ WholeUnit(data, k) = SubSeq(data, k + 3, NalEnd(data, k + 3) - 1)
    <2>1. k \in Nat
      BY DEF Codes
    <2>2. /\ k + 3 \in 1..Len(data) + 1
          /\ WholeUnit(data, k) = SubSeq(data, k + 3, NalEnd(data, k + 3) - 1)
      BY SameUnit
    <2>3. QED
      BY <1>1, <2>1, <2>2, Zenon
  <1>3. PICK e \in Nat :
           /\ e = NalEnd(data, k + 3) /\ k + 3 <= e /\ e <= n + 1
           /\ e <= n => StartCodeLen(data, e) > 0
           /\ \A j \in k + 3..e - 1 : StartCodeLen(data, j) = 0
    <2>1. /\ NalEnd(data, k + 3) \in k + 3..Len(data) + 1
          /\ NalEnd(data, k + 3) <= Len(data) => StartCodeLen(data, NalEnd(data, k + 3)) > 0
          /\ \A j \in k + 3..NalEnd(data, k + 3) - 1 : StartCodeLen(data, j) = 0
      <3>1. k + 3 \in 1..Len(data) + 1
        BY <1>1, <1>2
      <3>2. QED
        BY <3>1, EndOfUnit, Zenon
    <2>2. PICK e \in k + 3..n + 1 : e = NalEnd(data, k + 3)
      BY <1>1, <2>1
    <2>3. e \in Nat /\ k + 3 <= e /\ e <= n + 1
      BY <1>1, <1>2
    <2>4. QED
      BY <1>1, <2>1, <2>2, <2>3
  <1> DEFINE T == Ends(data, k) \cup {n + 1}
  <1>4. Ends(data, k) \subseteq k + 3..n - 2 /\ T \in SUBSET Nat /\ T # {}
    BY <1>1, <1>2 DEF Ends
  <1>5. PICK m \in T : m = Min(T) /\ \A y \in T : m <= y
    <2> HIDE DEF T
    <2>1. QED
      BY <1>4, MinIs
  <1>6. /\ m \in Nat /\ k + 3 <= m /\ UnitAt(data, k) = SubSeq(data, k + 3, m - 1)
    BY <1>1, <1>2, <1>4, <1>5 DEF UnitAt
  <1>7. m <= e
    <2>1. CASE e <= n
      <3>1. /\ e + 2 <= n /\ data[e] = 0 /\ data[e + 1] = 0 /\ data[e + 2] \in {0, 1}
        <4>1. StartCodeLen(data, e) # 0 /\ Len(data) = n
          BY <1>1, <1>3, <2>1
        <4>2. ~(e + 2 > n) /\ data[e] = 0 /\ data[e + 1] = 0
          BY <4>1 DEF StartCodeLen
        <4>3. data[e + 2] \in {0, 1}
          BY <4>1 DEF StartCodeLen
        <4>4. QED
          BY <1>1, <1>3, <4>2, <4>3
      <3>2. e \in Ends(data, k)
        BY <1>1, <1>3, <3>1 DEF Ends
      <3>3. QED
        BY <1>5, <3>2
    <2>2. CASE e = n + 1
      BY <1>5, <2>2
    <2>3. QED
      BY <1>3, <2>1, <2>2
  <1> DEFINE Zero(j) == data[j] = 0 /\ data[j + 1] = 0 /\ data[j + 2] = 0
  <1>8. ASSUME NEW j \in m..e - 1, j <= n - 2 PROVE Zero(j)
    <2> DEFINE bad == {x \in m..e - 1 : x <= n - 2 /\ ~Zero(x)}
    <2>1. SUFFICES ASSUME bad # {} PROVE FALSE
      BY <1>8
    <2>2. bad \in SUBSET Nat
      BY <1>3, <1>6
    <2>3. PICK x \in bad : \A y \in bad : x <= y
      BY <2>1, <2>2, Least
    <2>4. /\ x \in Nat /\ m <= x /\ x <= e - 1 /\ x <= n - 2 /\ ~Zero(x)
      BY <1>3, <1>6, <2>3
    <2>5. StartCodeLen(data, x) = 0
      <3>1. x \in k + 3..e - 1
        <4>1. k + 3 \in Nat /\ e - 1 \in Int /\ k + 3 <= x
          BY <1>2, <1>3, <1>6, <2>4
        <4>2. QED
          BY <2>4, <4>1
      <3>2. QED
        BY <1>3, <3>1
    <2>6. ~(data[x] = 0 /\ data[x + 1] = 0 /\ data[x + 2] = 1)
      BY <1>1, <2>4, <2>5 DEF StartCodeLen
    <2>7. CASE x = m
      <3>1. m \in Ends(data, k)
        BY <1>5, <2>4, <2>7
      <3>2. data[m] = 0 /\ data[m + 1] = 0 /\ data[m + 2] \in {0, 1}
        BY <3>1 DEF Ends
      <3>3. QED
        BY <2>4, <2>6, <2>7, <3>2
    <2>8. CASE m < x
      <3>1. PICK y \in Nat : x = y + 1 /\ m <= y
        <4>1. x - 1 \in Nat /\ x = (x - 1) + 1 /\ m <= x - 1
          BY <1>6, <2>4, <2>8
        <4>2. QED
          BY <4>1
      <3>2. y \in m..e - 1 /\ y <= n - 3 /\ ~(x <= y)
        BY <1>3, <1>6, <2>4, <3>1
      <3>3. Zero(y)
        <4>1. y \notin bad
          BY <2>3, <3>2
        <4>2. y <= n - 2
          BY <3>2
        <4>3. QED
          BY <3>2, <4>1, <4>2
      <3>4. y \in 1..Len(data) - 3
        BY <1>1, <1>2, <1>6, <3>1, <3>2
      <3>5. data[y + 3] \in {0, 1}
        BY <3>3, <3>4 DEF ByteStream
      <3>6. y + 1 = x /\ y + 2 = x + 1 /\ y + 3 = x + 2
        BY <3>1
      <3>7. data[x] = 0 /\ data[x + 1] = 0 /\ data[x + 2] \in {0, 1}
        BY <3>3, <3>5, <3>6
      <3>8. QED
        BY <2>4, <2>6, <3>7
    <2>9. QED
      BY <1>6, <2>4, <2>7, <2>8
  <1>9. ASSUME NEW j \in m..e - 1 PROVE data[j] = 0
    <2>1. j \in Nat /\ m <= j /\ j <= e - 1 /\ j <= n
      BY <1>3, <1>6
    <2>2. CASE j <= n - 2
      BY <1>8, <2>2
    <2>3. CASE n - 2 < j
      <3>1. m \in Ends(data, k) /\ m <= n - 2
        BY <1>4, <1>5, <2>1
      <3>2. n - 2 \in m..e - 1
        BY <1>3, <1>6, <2>1, <2>3, <3>1
      <3>3. Zero(n - 2)
        BY <1>8, <3>2
      <3>4. j = (n - 2) + 1 \/ j = (n - 2) + 2
        BY <2>1, <2>3
      <3>5. QED
        BY <3>3, <3>4
    <2>4. QED
      BY <2>1, <2>2, <2>3
  <1>10. QED
    BY <1>1, <1>2, <1>3, <1>6, <1>7, <1>9

\* A unit has a type other than 0 with the zeros behind it and without.
LEMMA WholeIsPadded ==
    ASSUME NEW data \in Seq(Nat), ByteStream(data), NEW k \in Codes(data),
           NEW type, type # 0
    PROVE  /\ OfType(WholeUnit(data, k), type) <=> OfType(UnitAt(data, k), type)
           /\ OfType(UnitAt(data, k), type) => Padded(WholeUnit(data, k), UnitAt(data, k))
  <1>1. PICK m, e, n \in Nat :
           /\ n = Len(data) /\ k + 3 <= m /\ m <= e /\ e <= n + 1
           /\ UnitAt(data, k) = SubSeq(data, k + 3, m - 1)
           /\ WholeUnit(data, k) = SubSeq(data, k + 3, e - 1)
           /\ \A j \in m..e - 1 : data[j] = 0
    BY ZerosBehind
  <1>2. PICK a \in Nat : a = k + 3 /\ a >= 1 /\ a <= m
    BY <1>1 DEF Codes
  <1>3. /\ \A j \in 1..n : data[j] \in Nat
        /\ m <= e /\ e <= n + 1
    BY <1>1
  <1>4. PICK unit \in Seq(Nat) :
           /\ unit = UnitAt(data, k) /\ Len(unit) = m - a
           /\ \A j \in 1..m - a : unit[j] = data[a + j - 1]
    <2>1. \A j \in a..m - 1 : data[j] \in Nat
      BY <1>1, <1>2, <1>3
    <2>2. /\ SubSeq(data, a, m - 1) \in Seq(Nat)
          /\ Len(SubSeq(data, a, m - 1)) = IF a <= m - 1 THEN (m - 1) - a + 1 ELSE 0
          /\ \A j \in 1..(m - 1) - a + 1 : SubSeq(data, a, m - 1)[j] = data[a + j - 1]
      BY <1>2, <2>1, SubSeqProperties
    <2>3. (m - 1) - a + 1 = m - a /\ (~(a <= m - 1) => m - a = 0)
      BY <1>2
    <2>4. UnitAt(data, k) = SubSeq(data, a, m - 1)
      BY <1>1, <1>2
    <2>5. QED
      BY <2>2, <2>3, <2>4
  <1>5. PICK whole \in Seq(Nat) :
           /\ whole = WholeUnit(data, k) /\ Len(whole) = e - a
           /\ \A j \in 1..e - a : whole[j] = data[a + j - 1]
    <2>1. \A j \in a..e - 1 : data[j] \in Nat
      BY <1>1, <1>2, <1>3
    <2>2. /\ SubSeq(data, a, e - 1) \in Seq(Nat)
          /\ Len(SubSeq(data, a, e - 1)) = IF a <= e - 1 THEN (e - 1) - a + 1 ELSE 0
          /\ \A j \in 1..(e - 1) - a + 1 : SubSeq(data, a, e - 1)[j] = data[a + j - 1]
      <3>1. a \in Int /\ e - 1 \in Int
        OBVIOUS
      <3>2. QED
        BY <2>1, <3>1, SubSeqProperties
    <2>3. (e - 1) - a + 1 = e - a /\ (~(a <= e - 1) => e - a = 0)
      BY <1>2, <1>3
    <2>4. WholeUnit(data, k) = SubSeq(data, a, e - 1)
      BY <1>1, <1>2
    <2>5. QED
      BY <2>2, <2>3, <2>4
  <1>6. /\ \A j \in 1..m - a : whole[j] = unit[j]
        /\ \A j \in m - a + 1..e - a : whole[j] = 0
    <2>1. ASSUME NEW j \in 1..m - a PROVE whole[j] = unit[j]
      <3>1. j \in 1..e - a
        BY <1>2, <1>3
      <3>2. QED
        BY <1>4, <1>5, <2>1, <3>1
    <2>2. ASSUME NEW j \in m - a + 1..e - a PROVE whole[j] = 0
      <3>1. j \in 1..e - a /\ a + j - 1 \in m..e - 1
        <4>1. a \in Nat /\ m \in Nat /\ e \in Nat /\ a <= m /\ m <= e
          BY <1>2, <1>3
        <4>2. QED
          BY <2>2, <4>1
      <3>2. QED
        BY <1>1, <1>5, <3>1
    <2>3. QED
      BY <2>1, <2>2
  <1>7. CASE m = a
    <2>1. unit = <<>>
      BY <1>4, <1>7
    <2>2. whole # <<>> => NalType(whole) = 0
      <3>1. whole # <<>> => 1 \in m - a + 1..e - a
        <4>1. whole # <<>> => e - a # 0
          BY <1>5
        <4>2. e - a # 0 => 1 \in m - a + 1..e - a
          BY <1>2, <1>3, <1>7
        <4>3. QED
          BY <4>1, <4>2
      <3>2. whole # <<>> => whole[1] = 0
        BY <1>6, <3>1
      <3>3. 0 % 32 = 0
        OBVIOUS
      <3>4. QED
        BY <3>2, <3>3 DEF NalType
    <2>3. QED
      BY <1>4, <1>5, <2>1, <2>2 DEF OfType
  <1>8. CASE a < m
    <2>1. unit # <<>> /\ whole # <<>>
      <3>1. m - a # 0 /\ e - a # 0
        BY <1>2, <1>3, <1>8
      <3>2. QED
        BY <1>4, <1>5, <3>1
    <2>2. whole[1] = unit[1]
      <3>1. 1 \in 1..m - a
        BY <1>2, <1>8
      <3>2. QED
        BY <1>6, <3>1
    <2>3. NalType(whole) = NalType(unit)
      BY <2>2 DEF NalType
    <2>4. SubSeq(whole, 1, Len(unit)) = unit
      <3>1. Len(unit) \in Nat /\ Len(unit) <= Len(whole)
        <4>1. m - a \in Nat /\ m - a <= e - a
          BY <1>2, <1>3
        <4>2. QED
          BY <1>4, <1>5, <4>1
      <3>2. PICK c \in Nat : c = Len(unit) /\ c <= Len(whole) /\ c = m - a
        BY <1>4, <3>1
      <3>3. \A j \in 1..c : whole[j] \in Nat
        <4>1. \A j \in 1..Len(whole) : whole[j] \in Nat
          OBVIOUS
        <4>2. Len(whole) \in Nat
          OBVIOUS
        <4>3. QED
          BY <3>2, <4>1, <4>2
      <3>4. PICK part \in Seq(Nat) :
               /\ part = SubSeq(whole, 1, c) /\ Len(part) = c
               /\ \A j \in 1..c : part[j] = whole[1 + j - 1]
        <4>1. /\ SubSeq(whole, 1, c) \in Seq(Nat)
              /\ Len(SubSeq(whole, 1, c)) = IF 1 <= c THEN c - 1 + 1 ELSE 0
              /\ \A j \in 1..c - 1 + 1 : SubSeq(whole, 1, c)[j] = whole[1 + j - 1]
          BY <3>3, SubSeqProperties
        <4>2. c - 1 + 1 = c /\ (~(1 <= c) => c = 0)
          OBVIOUS
        <4>3. QED
          BY <4>1, <4>2
      <3>5. \A j \in 1..c : part[j] = unit[j]
        <4>1. \A j \in 1..c : 1 + j - 1 = j
          OBVIOUS
        <4>2. QED
          BY <1>6, <3>2, <3>4, <4>1
      <3>6. part = unit
        BY <3>2, <3>4, <3>5, SeqEqual
      <3>7. QED
        BY <3>2, <3>4, <3>6
    <2>5. Len(unit) <= Len(whole) /\ \A j \in Len(unit) + 1..Len(whole) : whole[j] = 0
      <3>1. m - a <= e - a
        BY <1>2, <1>3
      <3>2. QED
        BY <1>4, <1>5, <1>6, <3>1
    <2>6. Padded(whole, unit)
      BY <2>1, <2>4, <2>5 DEF Padded
    <2>7. QED
      BY <1>4, <1>5, <2>1, <2>3, <2>6 DEF OfType
  <1>9. QED
    BY <1>2, <1>7, <1>8

LEMMA FirstIsPadded ==
    ASSUME NEW data \in Seq(Nat), ByteStream(data), NEW type, type # 0
    PROVE  Padded(FirstWhole(data, type), FirstUnit(data, type))
  <1> DEFINE wholes == {k \in Codes(data) : OfType(WholeUnit(data, k), type)}
             units == {k \in Codes(data) : OfType(UnitAt(data, k), type)}
  <1>1. wholes = units
    BY WholeIsPadded
  <1>2. /\ FirstWhole(data, type) =
               IF wholes = {} THEN <<>> ELSE WholeUnit(data, Min(wholes))
        /\ FirstUnit(data, type) = IF units = {} THEN <<>> ELSE UnitAt(data, Min(units))
    BY Zenon DEF FirstWhole, FirstUnit, OfType
  <1>3. CASE units = {}
    <2>1. Padded(<<>>, <<>>)
      BY DEF Padded
    <2>2. QED
      BY <1>1, <1>2, <1>3, <2>1
  <1>4. CASE units # {}
    <2>1. units \in SUBSET Nat
      BY DEF Codes
    <2>2. PICK k \in units : k = Min(units)
      <3> HIDE DEF units
      <3>1. QED
        BY <1>4, <2>1, MinIs
    <2>3. Padded(WholeUnit(data, k), UnitAt(data, k))
      BY <2>2, WholeIsPadded
    <2>4. QED
      BY <1>1, <1>2, <1>4, <2>2, <2>3
  <1>5. QED
    BY <1>3, <1>4

\* The scan finds the units with the zeros behind them.
LEMMA ScanFindsWhole ==
    ASSUME NEW data \in Seq(Nat), ~ShortLast(data)
    PROVE  Extract(data) = [sps |-> FirstWhole(data, SPS), pps |-> FirstWhole(data, PPS)]
  <1>1. Fresh(data, 1)
    BY DEF Fresh
  <1>2. \A type : FirstOfType(NalUnits(data), type) = FirstWhole(data, type)
    BY <1>1, FoundAll, NalUnitsFrom, FirstFromStart DEF Found
  <1>3. QED
    BY <1>2, Zenon DEF Extract

\* For every byte stream of H.264, however long, that does not end in a unit of one
\* byte behind a start code of 3 bytes: the parameter sets the server takes out of
\* it (sw_extract_and_send_sps_pps) are those annex B of the standard finds there,
\* but for zeros behind them, and it finds one exactly when the standard does.
THEOREM ScanFinds ==
    ASSUME NEW data \in Seq(Nat), ByteStream(data), ~ShortLast(data)
    PROVE  SameParams(Extract(data), Reference(data))
  <1>1. /\ Extract(data).sps = FirstWhole(data, SPS)
        /\ Extract(data).pps = FirstWhole(data, PPS)
    BY ScanFindsWhole
  <1>2. Reference(data).sps = FirstUnit(data, SPS) /\ Reference(data).pps = FirstUnit(data, PPS)
    BY DEF Reference
  <1>3. SPS # 0 /\ PPS # 0
    BY DEF SPS, PPS
  <1>4. QED
    BY <1>1, <1>2, <1>3, FirstIsPadded, Zenon DEF SameParams

LEMMA FirstWholeType ==
    ASSUME NEW data \in Seq(Nat), NEW type
    PROVE  FirstWhole(data, type) \in Seq(Nat) /\ Len(FirstWhole(data, type)) <= Len(data)
  <1> DEFINE hits == HitsFrom(data, 1, type)
  <1>1. CASE hits = {}
    <2>1. FirstWhole(data, type) = <<>>
      BY <1>1, FirstFromStart DEF FirstFrom
    <2>2. Len(data) \in Nat /\ <<>> \in Seq(Nat) /\ Len(<<>>) = 0
      OBVIOUS
    <2>3. QED
      BY <2>1, <2>2
  <1>2. CASE hits # {}
    <2>1. Min(hits) \in hits
      <3>1. hits \in SUBSET Nat
        BY DEF HitsFrom, Codes
      <3> HIDE DEF hits
      <3>2. QED
        BY <1>2, <3>1, MinIs
    <2>2. Min(hits) \in Codes(data)
      BY <2>1 DEF HitsFrom
    <2>3. FirstWhole(data, type) = WholeUnit(data, Min(hits))
      BY <1>2, FirstFromStart, Zenon DEF FirstFrom
    <2>4. QED
      BY <2>2, <2>3, UnitType
  <1>3. QED
    BY <1>1, <1>2

\* No bytes, no parameter sets.
LEMMA NothingInEmpty == Reference(<<>>) = NoParams
  <1>1. Codes(<<>>) = {}
    BY DEF Codes
  <1>2. \A type : FirstUnit(<<>>, type) = <<>>
    BY <1>1 DEF FirstUnit
  <1>3. QED
    BY <1>2 DEF Reference, NoParams

\* From the keyframe to the decoder: for every byte stream of fewer than Radix^4
\* bytes that does not end in a unit of one byte behind a start code of 3 bytes,
\* the client unpacks from the message (on_video_frame) the parameter sets the
\* standard finds in the keyframe they were taken from, but for zeros behind them.
THEOREM ParamsOfKeyframeArrive ==
    ASSUME NEW data \in Seq(Nat), ByteStream(data), ~ShortLast(data),
           Len(data) < Radix * Radix * Radix * Radix
    PROVE  SameParams(Unpack(Pack(Extract(data))), Reference(data))
  <1>1. PICK sps \in Seq(Nat), pps \in Seq(Nat) :
           /\ sps = FirstWhole(data, SPS) /\ pps = FirstWhole(data, PPS)
           /\ Len(sps) <= Len(data) /\ Len(pps) <= Len(data)
    BY FirstWholeType
  <1>2. PICK max \in Nat : max = Radix * Radix * Radix * Radix
    BY RadixAssumption
  <1>3. Len(sps) < max /\ Len(pps) < max
    <2>1. Len(sps) \in Nat /\ Len(pps) \in Nat /\ Len(data) \in Nat
      OBVIOUS
    <2>2. QED
      BY <1>1, <1>2, <2>1
  <1>4. PICK params \in [sps : Seq(Nat), pps : Seq(Nat)] :
           params = Extract(data) /\ params.sps = sps /\ params.pps = pps
    <2>1. [sps |-> sps, pps |-> pps] \in [sps : Seq(Nat), pps : Seq(Nat)]
      BY Zenon
    <2>2. Extract(data) = [sps |-> sps, pps |-> pps]
      BY <1>1, ScanFindsWhole
    <2>3. [sps |-> sps, pps |-> pps].sps = sps /\ [sps |-> sps, pps |-> pps].pps = pps
      OBVIOUS
    <2>4. QED
      BY <2>1, <2>2, <2>3, Zenon
  <1>5. Unpack(Pack(params)) = params
    BY <1>2, <1>3, <1>4, ParamsArrive
  <1>6. QED
    BY <1>4, <1>5, ScanFinds
=============================================================================
