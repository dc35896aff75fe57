---------------------------- MODULE MCThreadPool ----------------------------
(* Instances of ThreadPool for TLC. *)
EXTENDS ThreadPool, TLC

\* Callers and messages are interchangeable; workers are not (the owner joins
\* them in order).  Used for the safety runs only.
Symmetry == Permutations(Callers) \cup Permutations(Msgs)
=============================================================================
