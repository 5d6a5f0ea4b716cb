------------------------------ MODULE MCTables ------------------------------
(***************************************************************************)
(* Tables for TLC: as its parts share no state, one of them moves in a     *)
(* behaviour and the other stays as it begins.                             *)
(***************************************************************************)
EXTENDS Tables

CONSTANTS p1, p2, p3, first, second

\* Two programs; the one first in the alphabet is the busier.
TwoPrograms == {<<1, 1>>, <<2, 0>>}

\* Two services around a timer that is listed only among all unit types.
ThreeUnits == {1, 2, 3}
TwoServices == {1, 3}
LastService == {3}
AnySearch == {{1, 2, 3}, {2, 3}}
TwoJobs == {first, second}

VARIABLE part

MCInit ==
    /\ part \in {"apps", "services"}
    /\ TablesInit
    /\ part = "apps" => client

MCNext ==
    \/ part = "apps" /\ AppsMove /\ UNCHANGED part
    \/ part = "services" /\ ServicesMove /\ UNCHANGED part

MCSpec == MCInit /\ [][MCNext]_<<part, vars, servicesVars>>

MCSymmetry == Permutations(Pids) \union Permutations(TwoJobs)
=============================================================================
