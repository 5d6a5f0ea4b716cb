------------------------------ MODULE Samples ------------------------------
(***************************************************************************)
(* What is sampled about once a second, and what is done with it: the scan *)
(* of processes (ProcessScan), the disks and interfaces (Traffic), the     *)
(* processor (Processor), the samples behind a graph (Ring), and the       *)
(* processes the window holds on to (Identity). Each has a goroutine, or a *)
(* part of the window, of its own, and they share no state here.           *)
(***************************************************************************)
EXTENDS ProcessScan

CONSTANTS
    DeviceNames, SpaceEvery, MaxBytes,       \* Traffic's
    CoreNumbers, MaxTime,                    \* Processor's
    HistLen, Values,                         \* Ring's
    Numbers, Programs, MaxStart              \* Identity's

ASSUME SpaceEveryAssumption == SpaceEvery \in Nat \ {0}
ASSUME MaxBytesAssumption   == MaxBytes \in Nat \ {0}
ASSUME HistLenAssumption    == HistLen \in Nat \ {0}
ASSUME CoreNumbersAssumption == CoreNumbers \subseteq Nat /\ IsFiniteSet(CoreNumbers)

VARIABLES
    counter, index, figure, kind, since, step, firstTick, interval, reading, tick,
    measured, own, found, stat, newest, moved, elapsed, whole, meanwhile, lag,
    idle, total, online, samples, before, usage, busy, back, truth,
    data, head, n, recent,
    table, starts, page, lastScan, lastSnap, grouped, menu, target, targets, checked,
    rows, shownKey, eased, meant, touched

Devices == INSTANCE Traffic
    WITH Devices <- DeviceNames, first <- firstTick, dt <- interval, listed <- found,
         truth <- meanwhile

CPU == INSTANCE Processor
    WITH Cores <- CoreNumbers, prev <- before

Graph == INSTANCE Ring WITH Samples <- Values

Picked == INSTANCE Identity
    WITH PIDs <- Numbers, Names <- Programs, world <- table, scan <- lastScan

devicesVars == <<counter, index, figure, kind, since, step, firstTick, interval,
                 reading, tick, measured, own, found, stat, newest, moved, elapsed,
                 whole, meanwhile, lag>>
cpuVars     == <<idle, total, online, samples, before, usage, busy, back, truth>>
graphVars   == <<data, head, n, recent>>
pickedVars  == <<table, starts, page, lastScan, lastSnap, grouped, menu, target,
                 targets, checked, rows, shownKey, eased, meant, touched>>
samplesVars == <<vars, devicesVars, cpuVars, graphVars, pickedVars>>

SamplesInit == Init /\ Devices!Init /\ CPU!Init /\ Graph!Init /\ Picked!Init

ScanMoves    == Next /\ UNCHANGED <<devicesVars, cpuVars, graphVars, pickedVars>>
DevicesMove  == Devices!Next /\ UNCHANGED <<vars, cpuVars, graphVars, pickedVars>>
CPUMoves     == CPU!Next /\ UNCHANGED <<vars, devicesVars, graphVars, pickedVars>>
GraphMoves   == Graph!Next /\ UNCHANGED <<vars, devicesVars, cpuVars, pickedVars>>
PickedMoves  == Picked!Next /\ UNCHANGED <<vars, devicesVars, cpuVars, graphVars>>

SamplesNext == ScanMoves \/ DevicesMove \/ CPUMoves \/ GraphMoves \/ PickedMoves

SamplesSpec == SamplesInit /\ [][SamplesNext]_samplesVars

\* Traffic: a graph shows what has been moved.
GraphIsTraffic == Devices!GraphIsTraffic

\* Traffic: a figure measured now and then is right again in time.
FiguresCatchUp == Devices!FiguresCatchUp

\* Processor: a percentage is of the time between two readings.
UsageIsTime == CPU!UsageIsTime

\* Ring: a graph is the last samples, in their order.
RingIsLastSamples == Graph!RingIsLastSamples

\* Identity: the menu acts on the processes its row stood for.
SignalsWhatWasMeant == Picked!SignalsWhatWasMeant

=============================================================================
