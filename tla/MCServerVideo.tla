--------------------------- MODULE MCServerVideo ----------------------------
(***************************************************************************)
(* ServerVideo with keyframes made of few bytes: an ordinary one, one with *)
(* the PPS first, other units before and between, zeros behind the         *)
(* parameter sets and the SPS at the end of the data, and one without a    *)
(* PPS, with start codes of 3 and 4 bytes.                                 *)
(***************************************************************************)
EXTENDS ServerVideo

LOCAL INSTANCE SequencesExt

Sps == <<103, 9>>
OtherSps == <<103, 0, 1, 9, 9>>
Pps == <<104, 0, 9>>
OtherPps == <<104, 1>>
Idr == <<101, 0, 1>>
Delimiter == <<9, 240>>

\* The units, each behind a start code of 3 or 4 bytes.
Coded(units, codes) ==
    FlattenSeq([k \in DOMAIN units |->
                   (IF codes[k] = 3 THEN <<0, 0, 1>> ELSE <<0, 0, 0, 1>>) \o units[k]])

MCAccessUnits ==
    {Coded(<<Delimiter, OtherPps \o <<0>>, Idr, OtherSps \o <<0, 0>>>>, <<3, 4, 3, 4>>),
     Coded(<<Sps, Pps, Idr>>, <<4, 4, 4>>),
     Coded(<<Sps, Idr>>, <<4, 4>>)}

MCCodecParams == {[sps |-> Sps, pps |-> Pps]}

\* sw_extract_and_send_sps_pps finds what the standard says, but for zeros behind
\* it, in every byte stream of up to 7 bytes (start codes, an SPS, a PPS), but for
\* a last unit of one byte, behind a start code of 3.
ASSUME ScanAssumption ==
    \A n \in 0..7 : \A data \in [1..n -> {0, 1, 103, 104}] :
        ByteStream(data) /\ ~ShortLast(data) => SameParams(Extract(data), Reference(data))

\* What tcp_server_send_sps_pps packs, on_video_frame unpacks; and what was cut
\* off it drops.
ASSUME PackAssumption ==
    \A m, n \in 1..6 :
        LET params == [sps |-> [k \in 1..m |-> k], pps |-> [k \in 1..n |-> k]]
            buf == Pack(params)
        IN  /\ Unpack(buf) = params
            /\ \A k \in 0..Len(buf) - 1 : Unpack(SubSeq(buf, 1, k)) = NoParams
=============================================================================
