--------------------------- MODULE MCEpollSession ---------------------------
(* Instances of EpollSession for TLC. *)
EXTENDS EpollSession, TLC

CONSTANTS c1, c2, c3, a1, a2, b1

TwoAndOne == c1 :> <<a1, a2>> @@ c2 :> <<b1>>
LastSends == c1 :> <<>> @@ c2 :> <<>> @@ c3 :> <<a1, a2>>
=============================================================================
