---------------------------- MODULE MCEpollSend -----------------------------
(* Instances of EpollSend for TLC. *)
EXTENDS EpollSend, TLC

CONSTANTS a1, a2, b1, b2

TwoCalls == {<<a1, a2>>, <<b1, b2>>}
=============================================================================
