---------------------------- MODULE MCClientVideo ---------------------------
(***************************************************************************)
(* ClientVideo with a picture, the same picture turned, a smaller one and  *)
(* one that is too large to be received, and another size announced.       *)
(***************************************************************************)
EXTENDS ClientVideo

MCSizes == {<<1, 1>>, <<1, 2>>, <<2, 1>>, <<2, 2>>}
MCConfigSize == <<3, 1>>
=============================================================================
