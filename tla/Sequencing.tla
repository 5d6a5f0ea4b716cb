----------------------------- MODULE Sequencing -----------------------------
(***************************************************************************)
(* Sequences made of sets of numbers and of other sequences, by what they  *)
(* hold and in which order: no fold and no recursion, so that the proofs   *)
(* can reason about them.                                                  *)
(***************************************************************************)
EXTENDS Naturals, Sequences, FiniteSets

\* The numbers in S, a finite set, from the least up.
Ascending(S) ==
    [k \in 1 .. Cardinality(S) |->
        CHOOSE x \in S : 1 + Cardinality({y \in S : y < x}) = k]

\* The elements of s that are not in I, in the order of s.
Without(s, I) ==
    LET kept == Ascending({i \in DOMAIN s : s[i] \notin I})
    IN  [k \in DOMAIN kept |-> s[kept[k]]]
=============================================================================
