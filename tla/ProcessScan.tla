---- MODULE ProcessScan ----
(***************************************************************************)
(* The scan of /proc that internal/process takes about once a second       *)
(* (collect, process_linux.go), and what it remembers from one scan to the *)
(* next: the counters it makes rates of, the processes known to use the    *)
(* GPU, the unit each process runs in, and the two buffers of rows.        *)
(*                                                                         *)
(* A scan is three steps, between which processes come and go and the      *)
(* window reads the rows: Begin (the time and the list of processes), Read *)
(* (every process on it) and Publish (the swap of the buffers).            *)
(*                                                                         *)
(* One counter, work, stands for what a process has done since it began:   *)
(* its CPU time in ticks of the clock and its I/O, one unit a tick. A rate *)
(* is kept as the two numbers it is the quotient of. Time passes between   *)
(* scans, not within one. Left out: names, memory, kernel threads, how     *)
(* much of the GPU is used, and the estimate of network traffic.           *)
(*                                                                         *)
(* A definition marked "mutant" is a mistake the next one might have held. *)
(***************************************************************************)

EXTENDS Integers, FiniteSets

CONSTANTS
    PIDs,         \* process numbers
    Units,        \* systemd units
    Cores,        \* processors
    Word,         \* 2^64: counters are unsigned and wrap
    RescanTicks,  \* gpuRescanTicks and unitRescanTicks, both 30
    MaxWork,      \* bound: what a process may do in all
    MaxGap,       \* bound: ticks of the clock between scans
    Permitted     \* of Happenings, what may happen

Happenings ==
    {"reuse",     \* a process takes a number that the last scan saw in use
     "fails",     \* a list of processes cannot be had
     "wantsIO",   \* disk figures come to be wanted, or no longer are
     "wantsGPU"}  \* likewise the use of the GPU

ASSUME CoresAssumption == Cores \in Nat \ {0}
ASSUME RescanAssumption == RescanTicks \in Nat \ {0}
ASSUME WordAssumption == Word \in Nat /\ MaxWork \in Nat /\ MaxWork < Word
ASSUME GapAssumption == MaxGap \in Nat \ {0}

VARIABLES
    world,      \* the process behind each number, or none
    gap,        \* ticks since lastTime
    \* the collector
    first,      \* lastTime is still zero
    prev,       \* prev: what the last scan read, by number
    gpuPids,    \* gpuPids: the processes seen to hold a GPU handle
    gpuCount,   \* gpuScanCounter, modulo gpuRescanTicks
    unitCount,  \* unitScanCounter, modulo unitRescanTicks
    wantIO,     \* wantDiskIO
    wantGPU,    \* wantGPU
    phase,      \* how far collect has come: "idle", "listed" or "read"
    dt,         \* the seconds this scan takes to have passed
    listed,     \* pids
    scratch,    \* scratch: the rows this scan builds
    \* what the window sees
    procs,      \* procs: the rows of the last scan
    front,      \* which of the two buffers procs is
    reader,     \* the buffer View holds the read lock on, or none
    \* for the properties alone, of each process:
    done,       \* what it has done since a scan last read it, or Unread
    lapse,      \* the ticks since then; Unread too if a scan failed since
    unshown,    \* the scans on end that have missed the GPU handle it holds
    misplaced   \* the scans on end that have it in a unit it is not in

collector == <<first, prev, gpuPids, gpuCount, unitCount>>
wants     == <<wantIO, wantGPU>>
scan      == <<phase, dt, listed, scratch>>
window    == <<procs, front, reader>>
history   == <<done, lapse, unshown, misplaced>>
vars      == <<world, gap, collector, wants, scan, window, history>>

None == [pid |-> "none"]

Unread == -1

Buffers == {1, 2}

----------------------------------------------------------------------------
(* the machine *)

\* work is what the process has done; gpu, that it holds a GPU handle.
Process == [work : 0..MaxWork, gpu : BOOLEAN, unit : Units]

Running == {p \in PIDs : world[p] # None}

\* A process begins. The number may be one the last scan saw in use.
Spawn(p) ==
    /\ p \notin Running
    /\ p \notin DOMAIN prev \/ "reuse" \in Permitted
    /\ \E gpu \in BOOLEAN, unit \in Units :
          world' = [world EXCEPT ![p] = [work |-> 0, gpu |-> gpu, unit |-> unit]]
    /\ done' = [done EXCEPT ![p] = Unread]
    /\ lapse' = [lapse EXCEPT ![p] = Unread]
    /\ UNCHANGED <<gap, collector, wants, scan, window, unshown, misplaced>>

Exit(p) ==
    /\ p \in Running
    /\ world' = [world EXCEPT ![p] = None]
    /\ done' = [done EXCEPT ![p] = Unread]
    /\ lapse' = [lapse EXCEPT ![p] = Unread]
    /\ unshown' = [unshown EXCEPT ![p] = 0]
    /\ misplaced' = [misplaced EXCEPT ![p] = 0]
    /\ UNCHANGED <<gap, collector, wants, scan, window>>

\* A process opens or closes the GPU, or is moved to another unit.
Alter(p) ==
    /\ p \in Running
    /\ \/ /\ world' = [world EXCEPT ![p].gpu = ~@]
          /\ unshown' = [unshown EXCEPT ![p] = 0]
          /\ UNCHANGED misplaced
       \/ /\ \E unit \in Units \ {world[p].unit} :
                world' = [world EXCEPT ![p].unit = unit]
          /\ misplaced' = [misplaced EXCEPT ![p] = 0]
          /\ UNCHANGED unshown
    /\ UNCHANGED <<gap, collector, wants, scan, window, done, lapse>>

\* The clock ticks between scans: as many processes work as there are cores.
Tick ==
    /\ phase = "idle"
    /\ gap < MaxGap
    /\ gap' = gap + 1
    /\ \E busy \in SUBSET {p \in Running : world[p].work < MaxWork} :
          /\ Cardinality(busy) <= Cores
          /\ world' = [p \in PIDs |->
                IF p \in busy THEN [world[p] EXCEPT !.work = @ + 1] ELSE world[p]]
          /\ done' = [p \in PIDs |->
                IF p \in busy /\ done[p] # Unread THEN done[p] + 1 ELSE done[p]]
    /\ lapse' = [p \in PIDs |-> IF lapse[p] # Unread THEN lapse[p] + 1 ELSE Unread]
    /\ UNCHANGED <<collector, wants, scan, window, unshown, misplaced>>

----------------------------------------------------------------------------
(* collect *)

\* Subtraction of unsigned counters.
Minus(a, b) == (a - b) % Word

\* deltaRate: a counter that went backwards has no rate.
Delta(cur, last) == IF cur < last THEN 0 ELSE cur - last

\* The seconds a scan takes to have passed: none on the very first.
OneSecond == IF first THEN 0 ELSE 1                   \* mutant: as the timer is set
Elapsed == IF first THEN 0 ELSE gap

\* collect as far as listPIDs. A list that cannot be had ends the scan, after
\* lastTime has been moved on.
Begin(ok) ==
    /\ phase = "idle"
    /\ gap > 0 \/ first
    /\ ok \/ "fails" \in Permitted
    /\ first' = FALSE
    /\ gap' = 0
    /\ IF ok
       THEN /\ phase' = "listed"
            /\ dt' = Elapsed
            /\ listed' = Running
            /\ UNCHANGED lapse
       ELSE /\ lapse' = [p \in PIDs |-> Unread]
            /\ UNCHANGED <<phase, dt, listed>>
    /\ UNCHANGED <<world, prev, gpuPids, gpuCount, unitCount, wants, scratch,
                   window, done, unshown, misplaced>>

\* The processes of the list that are still there to be read.
Readable == {p \in listed : world[p] # None}

\* The unit is read when a process is new, and every process's now and then.
UnitRead(p) ==
    IF p \in DOMAIN prev /\ unitCount # 0 THEN prev[p].unit ELSE world[p].unit

\* Whose descriptors are walked for GPU handles: the known users', new ones',
\* and now and then everybody's.
WalkedKnown ==                                        \* mutant: no full sweep
    IF wantGPU THEN {p \in Readable : p \notin DOMAIN prev \/ p \in gpuPids} ELSE {}
Walked ==
    IF wantGPU
    THEN {p \in Readable : gpuCount = 0 \/ p \notin DOMAIN prev \/ p \in gpuPids}
    ELSE {}

\* What is read of the disk figures when nobody wants them is zero.
BytesRead(p) == IF wantIO THEN world[p].work ELSE 0

\* What the process has done since it was last read, if it has been.
Did(p) == IF done[p] = Unread THEN 0 ELSE done[p]

\* What the next scan will compare with.
Remembered ==
    [p \in Readable |->
        [jiffies |-> world[p].work, bytes |-> BytesRead(p), unit |-> UnitRead(p)]]

\* The row of a process. dt is zero on the very first scan, which has no rates.
\* The last fields are for the properties: what the process did since it was last
\* read, and how long that is.
RowSinceStart(p) ==                                   \* mutant: compares with 0
    [cpu |-> IF p \in DOMAIN prev /\ dt > 0 THEN world[p].work ELSE 0,
     read |-> 0, dt |-> dt, gpu |-> p \in Walked /\ world[p].gpu,
     unit |-> UnitRead(p), did |-> Did(p), took |-> lapse[p]]
Row(p) ==
    LET rated == p \in DOMAIN prev /\ dt > 0
    IN  [cpu  |-> IF rated THEN Minus(world[p].work, prev[p].jiffies) ELSE 0,
         read |-> IF rated THEN Delta(BytesRead(p), prev[p].bytes) ELSE 0,
         dt   |-> dt,
         gpu  |-> p \in Walked /\ world[p].gpu,
         unit |-> UnitRead(p),
         did  |-> Did(p),
         took |-> lapse[p]]

\* collect as far as the swap of the maps.
Read ==
    /\ phase = "listed"
    /\ phase' = "read"
    /\ scratch' = [p \in Readable |-> Row(p)]
    /\ prev' = Remembered
    /\ gpuPids' = {p \in Walked : world[p].gpu}
    /\ gpuCount' = (gpuCount + 1) % RescanTicks
    /\ unitCount' = (unitCount + 1) % RescanTicks
    /\ listed' = {}
    /\ dt' = 0
    /\ done' = [p \in PIDs |-> IF p \in Readable THEN 0 ELSE done[p]]
    /\ lapse' = [p \in PIDs |-> IF p \in Readable THEN 0 ELSE lapse[p]]
    /\ unshown' = [p \in PIDs |->
            IF p \in Readable /\ wantGPU /\ world[p].gpu /\ p \notin Walked
            THEN unshown[p] + 1 ELSE 0]
    /\ misplaced' = [p \in PIDs |->
            IF p \in Readable /\ world[p].unit # UnitRead(p)
            THEN misplaced[p] + 1 ELSE 0]
    /\ UNCHANGED <<world, gap, first, wants, window>>

\* The buffers are swapped, under the lock the readers hold.
Publish ==
    /\ phase = "read"
    /\ reader = 0
    /\ phase' = "idle"
    /\ procs' = scratch
    /\ front' \in Buffers \ {front}
    /\ scratch' = [p \in {} |-> None]
    /\ UNCHANGED <<world, gap, collector, wants, dt, listed, reader, history>>

----------------------------------------------------------------------------
(* the window *)

\* View and SnapshotInto: the rows are read with the read lock held.
BeginView ==
    /\ reader = 0
    /\ reader' = front
    /\ UNCHANGED <<world, gap, collector, wants, scan, procs, front, history>>

EndView ==
    /\ reader # 0
    /\ reader' = 0
    /\ UNCHANGED <<world, gap, collector, wants, scan, procs, front, history>>

\* SetWantDiskIO and SetWantGPU, by the page that comes up and by the columns
\* the user puts away.
SetWants(io, gpu) ==
    /\ <<io, gpu>> # wants
    /\ io = wantIO \/ "wantsIO" \in Permitted
    /\ gpu = wantGPU \/ "wantsGPU" \in Permitted
    /\ wantIO' = io
    /\ wantGPU' = gpu
    /\ unshown' = IF gpu = wantGPU THEN unshown ELSE [p \in PIDs |-> 0]
    /\ UNCHANGED <<world, gap, collector, scan, window, done, lapse, misplaced>>

----------------------------------------------------------------------------

\* A collector that has scanned nothing, on a machine where nothing runs yet.
Init ==
    /\ world = [p \in PIDs |-> None]
    /\ gap = 0
    /\ first = TRUE
    /\ prev = [p \in {} |-> None]
    /\ gpuPids = {}
    /\ gpuCount = 0
    /\ unitCount = 0
    /\ wantIO = TRUE
    /\ wantGPU = TRUE
    /\ phase = "idle"
    /\ dt = 0
    /\ listed = {}
    /\ scratch = [p \in {} |-> None]
    /\ procs = [p \in {} |-> None]
    /\ front = 1
    /\ reader = 0
    /\ done = [p \in PIDs |-> Unread]
    /\ lapse = [p \in PIDs |-> Unread]
    /\ unshown = [p \in PIDs |-> 0]
    /\ misplaced = [p \in PIDs |-> 0]

Collect ==
    \/ \E ok \in BOOLEAN : Begin(ok)
    \/ Read
    \/ Publish

Next ==
    \/ \E p \in PIDs : Spawn(p) \/ Exit(p) \/ Alter(p)
    \/ Tick
    \/ Collect
    \/ BeginView
    \/ EndView
    \/ \E io, gpu \in BOOLEAN : SetWants(io, gpu)

Spec == Init /\ [][Next]_vars

----------------------------------------------------------------------------
(* properties *)

Memory == [jiffies : 0..MaxWork, bytes : 0..MaxWork, unit : Units]

Rows == [cpu : 0..(Word - 1), read : 0..MaxWork, dt : 0..MaxGap, gpu : BOOLEAN,
         unit : Units, did : 0..MaxWork, took : (0..MaxGap) \union {Unread}]

\* A function to S on some of the numbers.
Partial(f, S) == DOMAIN f \subseteq PIDs /\ \A p \in DOMAIN f : f[p] \in S

\* Every variable holds a value of its kind.
TypeOK ==
    /\ world \in [PIDs -> Process \union {None}]
    /\ gap \in 0..MaxGap
    /\ first \in BOOLEAN
    /\ Partial(prev, Memory)
    /\ gpuPids \subseteq PIDs
    /\ gpuCount \in 0..(RescanTicks - 1)
    /\ unitCount \in 0..(RescanTicks - 1)
    /\ wantIO \in BOOLEAN
    /\ wantGPU \in BOOLEAN
    /\ phase \in {"idle", "listed", "read"}
    /\ dt \in 0..MaxGap
    /\ listed \subseteq PIDs
    /\ Partial(scratch, Rows)
    /\ Partial(procs, Rows)
    /\ front \in Buffers
    /\ reader \in Buffers \union {0}
    /\ done \in [PIDs -> (0..MaxWork) \union {Unread}]
    /\ lapse \in [PIDs -> (0..MaxGap) \union {Unread}]
    /\ unshown \in [PIDs -> Nat]
    /\ misplaced \in [PIDs -> Nat]

\* Work is shown once, as a rate over the time it took: the CPU and disk columns
\* show of a process what it has done since it was last read, or nothing yet,
\* divided by the time since then (process_linux.go:30-36, 120-128, 182). Failed
\* scans lose no work and double none, but the first scan after one takes too
\* little time to have passed: its interval is not compared.
WorkIsShownOnce ==
    \A p \in DOMAIN procs :
        /\ procs[p].cpu = procs[p].did
        /\ procs[p].read = procs[p].did
        /\ procs[p].took # Unread => procs[p].dt = procs[p].took

\* The periodic sweeps miss nothing, whatever else has been looked for meanwhile:
\* a GPU handle is found within gpuRescanTicks scans of being opened, and a
\* process moved to another unit is shown in it within unitRescanTicks
\* (process_linux.go:64-72, 106-112, 133, 306-309, 422-426).
SweepsFindAll ==
    \A p \in PIDs : unshown[p] < RescanTicks /\ misplaced[p] < RescanTicks

====
