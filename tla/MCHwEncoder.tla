---------------------------- MODULE MCHwEncoder ----------------------------
(***************************************************************************)
(* An instance of HwEncoder for TLC, and the behaviours of it in which     *)
(* OH_AVMemory_GetAddr never fails and no callback comes between           *)
(* encode_frame's test of the slot and its push.                           *)
(***************************************************************************)
EXTENDS HwEncoder

CalmSpec == Init /\ [][Next /\ ~GetAddrFails /\ ~raced']_vars /\ Fairness
=============================================================================
