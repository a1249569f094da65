---------------------------- MODULE FifoChannel ----------------------------
(***************************************************************************)
(* What the control channel promises, with nothing said of bytes: messages *)
(* are handed to the receiver one at a time, whole, in the order in which  *)
(* they were accepted.  The promise ends when the channel breaks.          *)
(*                                                                         *)
(* accepted is never shortened: the messages on the way are the ones after *)
(* the first Len(delivered) of it.                                         *)
(***************************************************************************)
EXTENDS Naturals, Sequences

CONSTANT Message

VARIABLES
    accepted,   \* every message given to the channel, in order
    delivered,  \* every message handed to the receiver, in order
    broken      \* framing has been lost: no promise is left

vars == <<accepted, delivered, broken>>

Init ==
    /\ accepted = <<>>
    /\ delivered = <<>>
    /\ broken = FALSE

Accept(msg) ==
    /\ ~broken
    /\ accepted' = Append(accepted, msg)
    /\ UNCHANGED <<delivered, broken>>

Deliver ==
    /\ ~broken
    /\ Len(delivered) < Len(accepted)
    /\ delivered' = Append(delivered, accepted[Len(delivered) + 1])
    /\ UNCHANGED <<accepted, broken>>

\* The step that breaks the channel, and every step after it.
Break == broken' = TRUE

Next ==
    \/ \E msg \in Message : Accept(msg)
    \/ Deliver
    \/ Break

Spec == Init /\ [][Next]_vars
=============================================================================
