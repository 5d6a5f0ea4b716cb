--------------------------- MODULE MCEnergySaver ---------------------------
(* Instances of EnergySaver for TLC. *)
EXTENDS EnergySaver, TLC

CONSTANTS a1, u1, u2

\* One application with one window.
OneWindow == u1 :> a1

\* One application with two windows.
TwoWindows == [u \in {u1, u2} |-> a1]

WindowSymmetry == Permutations({u1, u2})
=============================================================================
