------------------------------- MODULE AnnexB -------------------------------
(***************************************************************************)
(* The parameter sets of H.264 on their way to the decoder, as functions   *)
(* on sequences of bytes: the scan that finds SPS and PPS in a keyframe of *)
(* OpenH264 (video_encoder.c), the message the server packs them in        *)
(* (tcp_server.c), and how the client takes that message apart (main.c).   *)
(*                                                                         *)
(* Offsets of the code count from 0, positions here from 1.                *)
(***************************************************************************)
EXTENDS Naturals, Sequences

LOCAL INSTANCE FiniteSetsExt

\* Values of a byte in a length prefix: 256.  A small radix lets short
\* parameter sets have lengths of several digits.
CONSTANT Radix

ASSUME RadixAssumption == Radix \in Nat \ {0, 1}

SPS == 7
PPS == 8

\* The start code at position i: 0,0,1 or 0,0,0,1, or none.
StartCodeLen(data, i) ==
    IF i + 2 > Len(data) \/ data[i] # 0 \/ data[i + 1] # 0 THEN 0
    ELSE IF data[i + 2] = 1 THEN 3
    ELSE IF data[i + 2] = 0 /\ i + 3 <= Len(data) /\ data[i + 3] = 1 THEN 4
    ELSE 0

\* The NAL unit whose first byte is at start ends before the next start code.
NalEnd(data, start) ==
    Min({j \in start..Len(data) : StartCodeLen(data, j) > 0} \cup {Len(data) + 1})

\* The NAL units from position 1 on; a start code in the last 4 bytes is not
\* looked at.
NalUnits(data) ==
    LET from[i \in 1..Len(data) + 1] ==
            IF i + 4 > Len(data) THEN <<>>
            ELSE IF StartCodeLen(data, i) = 0 THEN from[i + 1]
            ELSE LET start == i + StartCodeLen(data, i)
                     end == NalEnd(data, start)
                 IN  <<SubSeq(data, start, end - 1)>> \o from[end]
    IN  from[1]

NalType(nal) == nal[1] % 32

\* The first unit of a type that is not empty, or <<>>.
FirstOfType(nals, type) ==
    LET hits == {k \in DOMAIN nals : nals[k] # <<>> /\ NalType(nals[k]) = type}
    IN  IF hits = {} THEN <<>> ELSE nals[Min(hits)]

\* sw_extract_and_send_sps_pps: it fails when one of the two is missing.
Extract(data) ==
    [sps |-> FirstOfType(NalUnits(data), SPS), pps |-> FirstOfType(NalUnits(data), PPS)]

Complete(params) == params.sps # <<>> /\ params.pps # <<>>

-----------------------------------------------------------------------------
\* A length as four digits, the highest first, and back.
BigEndian(n) ==
    LET high == n \div Radix
        higher == high \div Radix
        highest == higher \div Radix
    IN  <<highest % Radix, higher % Radix, high % Radix, n % Radix>>

FromBigEndian(d) == ((d[1] * Radix + d[2]) * Radix + d[3]) * Radix + d[4]

\* tcp_server_send_sps_pps: each parameter set behind its length.
Pack(params) ==
    BigEndian(Len(params.sps)) \o params.sps \o BigEndian(Len(params.pps)) \o params.pps

NoParams == [sps |-> <<>>, pps |-> <<>>]

\* on_video_frame: nothing is read beyond the end of the message, and a message
\* that is too short for its lengths is dropped.
Unpack(buf) ==
    IF Len(buf) < 8 THEN NoParams
    ELSE LET spsLen == FromBigEndian(SubSeq(buf, 1, 4)) IN
         IF 4 + spsLen + 4 > Len(buf) THEN NoParams
         ELSE LET ppsLen == FromBigEndian(SubSeq(buf, spsLen + 5, spsLen + 8)) IN
              IF spsLen + ppsLen + 8 > Len(buf) THEN NoParams
              ELSE [sps |-> SubSeq(buf, 5, spsLen + 4),
                    pps |-> SubSeq(buf, spsLen + 9, spsLen + ppsLen + 8)]

-----------------------------------------------------------------------------
(***************************************************************************)
(* What H.264 (annex B) says: a NAL unit begins behind 0,0,1 and ends      *)
(* before the next 0,0,0 or 0,0,1, or where the data end; zeros between it *)
(* and the next 0,0,1 belong to no unit.                                   *)
(***************************************************************************)
Codes(data) ==
    {k \in 1..Len(data) - 2 : data[k] = 0 /\ data[k + 1] = 0 /\ data[k + 2] = 1}

Ends(data, k) ==
    {m \in k + 3..Len(data) - 2 : data[m] = 0 /\ data[m + 1] = 0 /\ data[m + 2] \in {0, 1}}

UnitAt(data, k) == SubSeq(data, k + 3, Min(Ends(data, k) \cup {Len(data) + 1}) - 1)

FirstUnit(data, type) ==
    LET hits == {k \in Codes(data) :
                    UnitAt(data, k) # <<>> /\ NalType(UnitAt(data, k)) = type}
    IN  IF hits = {} THEN <<>> ELSE UnitAt(data, Min(hits))

Reference(data) == [sps |-> FirstUnit(data, SPS), pps |-> FirstUnit(data, PPS)]

\* Three zeros are in no unit: they are followed by zeros and a start code, or by
\* zeros to the end.
ByteStream(data) ==
    \A k \in 1..Len(data) - 3 :
        data[k] = 0 /\ data[k + 1] = 0 /\ data[k + 2] = 0 => data[k + 3] \in {0, 1}

\* What was found is the unit, or the unit and zeros.
Padded(found, unit) ==
    /\ found = <<>> <=> unit = <<>>
    /\ Len(unit) <= Len(found)
    /\ SubSeq(found, 1, Len(unit)) = unit
    /\ \A k \in Len(unit) + 1..Len(found) : found[k] = 0

SameParams(found, params) == Padded(found.sps, params.sps) /\ Padded(found.pps, params.pps)

\* The data ends in a unit of one byte, behind a start code of 3: the only unit
\* that lies, code and all, in the last 4 bytes.
ShortLast(data) ==
    LET k == Len(data) - 3
    IN  k \in Codes(data) /\ (k > 1 => data[k - 1] # 0)
=============================================================================
