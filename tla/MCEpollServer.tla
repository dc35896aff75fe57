--------------------------- MODULE MCEpollServer ----------------------------
(* An instance of EpollServer for TLC. *)
EXTENDS EpollServer, TLC

CONSTANTS a1, a2, b1, b2, c1

ThreeCalls == {<<a1, a2>>, <<b1, b2>>, <<c1>>}
Symmetry   == Permutations(Senders)
=============================================================================
