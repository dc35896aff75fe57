---------------------------- MODULE MCTimeAction ----------------------------
(* Instances of TimeAction for TLC. *)
EXTENDS TimeAction, TLC

\* Timers are interchangeable.  Used for the safety runs only.
Symmetry == Permutations(Timers)
=============================================================================
