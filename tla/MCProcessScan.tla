--------------------------- MODULE MCProcessScan ---------------------------
(***************************************************************************)
(* Samples for TLC: as its parts share no state, one of them moves in a    *)
(* behaviour and the others stay as they begin.                            *)
(***************************************************************************)
EXTENDS Samples

CONSTANTS p1, app, shell, d1

\* One number, which processes take in turn: what a scan remembers of a number
\* depends on no other.
OneNumber == {p1}
TwoUnits  == {app, shell}

ScansFailAndWantsChange == {"fails", "wantsGPU"}

\* What each of the others is given.
OneDevice  == {d1}
TwoCores   == {0, 1}
TwoNumbers == {1, 2}
OneProgram == {1}
ThreeSamples == 0 .. 2

VARIABLE part

MCInit ==
    /\ part \in {"scan", "devices", "cpu", "graph", "picked"}
    /\ SamplesInit
    /\ part = "devices" \/ (kind = "disks" /\ counter[d1] = 0)
    /\ part = "picked" \/ page = "apps"

MCNext ==
    /\ UNCHANGED part
    /\ \/ part = "scan" /\ ScanMoves
       \/ part = "devices" /\ DevicesMove
       \/ part = "cpu" /\ CPUMoves
       \/ part = "graph" /\ GraphMoves
       \/ part = "picked" /\ PickedMoves

MCSpec == MCInit /\ [][MCNext]_<<part, samplesVars>>
=============================================================================
