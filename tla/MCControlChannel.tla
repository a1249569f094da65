------------------------- MODULE MCControlChannel -------------------------
(***************************************************************************)
(* An instance of ControlChannel for TLC: a touch, the A key (Linux key    *)
(* code 30), a wheel event with dy = -208 and the Back command.            *)
(* The x coordinate of the touch and the wheel is 64, a word that reads as *)
(* a BACK header if the server ever reads it as one; the word of the key   *)
(* reads as a header with a payload of 30 bytes, the one of the wheel as a *)
(* scroll whose payload does not fit the buffer.                           *)
(***************************************************************************)
EXTENDS ControlChannel

DOWN == 0

MCInputs ==
    {TouchEvent(DOWN, 64, 100), KeyEvent(DOWN, 30),
     ScrollEvent(64, 100, 0, -208), SystemKey(BACK)}

ASSUME TimestampsAreQuiet == QuietTimestamps
===========================================================================
