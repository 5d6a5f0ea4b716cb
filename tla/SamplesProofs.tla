--------------------------- MODULE SamplesProofs ---------------------------
(***************************************************************************)
(* Proofs about ProcessScan, for any numbers of processes, units and scans *)
(* between sweeps, and about Samples, which is what its parts do with      *)
(* nothing shared: the figures of disks and interfaces, the usage of the   *)
(* cores, the buffer behind a graph and the processes the Apps menu acts   *)
(* on, for any devices, cores, numbers and lengths.                        *)
(* What a hypothesis rules out breaks the property when it happens.        *)
(***************************************************************************)
EXTENDS Samples, SequenceTheorems, FiniteSetTheorems, TLAPS

----------------------------------------------------------------------------
(* ProcessScan: the operators it is built from.                             *)

\* Counting the scans, modulo gpuRescanTicks.
LEMMA NextCount ==
    ASSUME NEW count \in 0 .. (RescanTicks - 1)
    PROVE  (count + 1) % RescanTicks = IF count = RescanTicks - 1 THEN 0 ELSE count + 1
BY RescanAssumption

\* Subtracting counters of one process: what it did between the two readings.
LEMMA MinusWithin ==
    ASSUME NEW cur \in 0 .. MaxWork, NEW last \in 0 .. MaxWork
    PROVE  /\ Minus(cur, last) \in 0 .. (Word - 1)
           /\ last <= cur => Minus(cur, last) = cur - last
BY WordAssumption DEF Minus

LEMMA DeltaWithin ==
    ASSUME NEW cur \in 0 .. MaxWork, NEW last \in 0 .. MaxWork
    PROVE  /\ Delta(cur, last) \in 0 .. MaxWork
           /\ last <= cur => Delta(cur, last) = cur - last
BY WordAssumption DEF Delta

\* None is not a process.
LEMMA NoneIsNot == None \notin Process
<1> SUFFICES ASSUME None \in Process PROVE FALSE
  OBVIOUS
<1>1. DOMAIN None = {"pid"}
  BY DEF None
<1>2. DOMAIN None = {"work", "gpu", "unit"}
  BY DEF Process
<1> QED BY <1>1, <1>2

----------------------------------------------------------------------------
(* Types.                                                                   *)

\* A process has not done more since it was last read than since it began.
DidNoMore == \A p \in Running : done[p] # Unread => done[p] <= world[p].work

\* A process that was read, with no scan failed since, was read when the clock was,
\* and is on the list of the scan under way.
LapseIsTheInterval ==
    /\ phase = "listed" => gap = 0 /\ ~first
    /\ \A p \in PIDs : lapse[p] # Unread =>
            /\ ~first
            /\ p \in Running
            /\ lapse[p] = IF phase = "listed" THEN dt ELSE gap
            /\ phase = "listed" => p \in listed

TypeInv == TypeOK /\ DidNoMore /\ LapseIsTheInterval

\* What a scan reads of a process is of its kind.
LEMMA ReadType ==
    ASSUME TypeInv, NEW p \in Readable
    PROVE  /\ p \in PIDs /\ world[p] \in Process
           /\ UnitRead(p) \in Units
           /\ BytesRead(p) \in 0 .. MaxWork
           /\ Did(p) \in 0 .. MaxWork
           /\ Remembered[p] \in Memory
           /\ Row(p) \in Rows
<1>1. p \in PIDs /\ world[p] \in Process
  BY DEF Readable, TypeInv, TypeOK
<1>2. world[p].work \in 0 .. MaxWork /\ world[p].unit \in Units /\ world[p].gpu \in BOOLEAN
  BY <1>1 DEF Process
<1>3. p \in DOMAIN prev => /\ prev[p].unit \in Units
                           /\ prev[p].jiffies \in 0 .. MaxWork
                           /\ prev[p].bytes \in 0 .. MaxWork
  BY DEF TypeInv, TypeOK, Partial, Memory
<1>4. UnitRead(p) \in Units
  BY <1>2, <1>3 DEF UnitRead
<1>5. BytesRead(p) \in 0 .. MaxWork
  BY <1>2, WordAssumption DEF BytesRead
<1>6. Did(p) \in 0 .. MaxWork
  BY <1>1, WordAssumption DEF Did, TypeInv, TypeOK
<1>7. Remembered[p] \in Memory
  BY <1>2, <1>4, <1>5 DEF Remembered, Memory
<1>8. Row(p) \in Rows
  <2> DEFINE rated == p \in DOMAIN prev /\ dt > 0
             cpu == IF rated THEN Minus(world[p].work, prev[p].jiffies) ELSE 0
             read == IF rated THEN Delta(BytesRead(p), prev[p].bytes) ELSE 0
  <2>1. cpu \in 0 .. (Word - 1)
    BY <1>2, <1>3, MinusWithin, WordAssumption
  <2>2. read \in 0 .. MaxWork
    <3>1. CASE rated
      <4>1. Delta(BytesRead(p), prev[p].bytes) \in 0 .. MaxWork
        BY <1>3, <1>5, <3>1, DeltaWithin
      <4> QED BY <3>1, <4>1
    <3>2. CASE ~rated
      BY <3>2, WordAssumption
    <3> QED BY <3>1, <3>2
  <2>3. dt \in 0 .. MaxGap
    BY DEF TypeInv, TypeOK
  <2>4. (p \in Walked /\ world[p].gpu) \in BOOLEAN
    OBVIOUS
  <2> HIDE DEF cpu, read
  <2>6. lapse[p] \in (0..MaxGap) \union {Unread}
    BY <1>1 DEF TypeInv, TypeOK
  <2>5. [cpu |-> cpu, read |-> read, dt |-> dt, gpu |-> p \in Walked /\ world[p].gpu,
         unit |-> UnitRead(p), did |-> Did(p), took |-> lapse[p]] \in Rows
    BY <1>4, <1>6, <2>1, <2>2, <2>3, <2>4, <2>6 DEF Rows
  <2> QED BY <2>5 DEF Row, cpu, read
<1> QED BY <1>1, <1>4, <1>5, <1>6, <1>7, <1>8

LEMMA InitTypeInv == Init => TypeInv
BY WordAssumption, GapAssumption, RescanAssumption
   DEF Init, TypeInv, TypeOK, Partial, DidNoMore, LapseIsTheInterval, Running, Buffers, Unread

LEMMA MachineType ==
    ASSUME TypeInv, NEW p \in PIDs, Spawn(p) \/ Exit(p) \/ Alter(p)
    PROVE  TypeInv'
<1> USE DEF TypeInv
<1>1. /\ UNCHANGED <<gap, first, prev, gpuPids, gpuCount, unitCount, wantIO, wantGPU,
                     phase, dt, listed, scratch, procs, front, reader>>
  BY DEF Spawn, Exit, Alter, collector, wants, scan, window
<1>2. CASE Spawn(p)
  <2>1. PICK gpu \in BOOLEAN, unit \in Units :
            world' = [world EXCEPT ![p] = [work |-> 0, gpu |-> gpu, unit |-> unit]]
    BY <1>2 DEF Spawn
  <2>2. [work |-> 0, gpu |-> gpu, unit |-> unit] \in Process
    BY WordAssumption DEF Process
  <2>3. world' \in [PIDs -> Process \union {None}]
    BY <2>1, <2>2 DEF TypeOK
  <2>4. done' \in [PIDs -> (0..MaxWork) \union {Unread}] /\ UNCHANGED <<unshown, misplaced>>
    BY <1>2 DEF Spawn, TypeOK
  <2>5. DidNoMore'
    BY <1>2, <2>1 DEF Spawn, DidNoMore, Running, TypeOK
  <2>6. lapse' = [lapse EXCEPT ![p] = Unread]
    BY <1>2 DEF Spawn
  <2>7. LapseIsTheInterval'
    BY <1>1, <2>1, <2>6 DEF LapseIsTheInterval, Running, TypeOK
  <2> QED BY <1>1, <2>3, <2>4, <2>5, <2>6, <2>7 DEF TypeOK, Partial
<1>3. CASE Exit(p)
  <2>1. DidNoMore'
    BY <1>3 DEF Exit, DidNoMore, Running, TypeOK
  <2>2. LapseIsTheInterval'
    BY <1>1, <1>3 DEF Exit, LapseIsTheInterval, Running, TypeOK
  <2> QED BY <1>1, <1>3, <2>1, <2>2 DEF Exit, TypeOK, Partial
<1>4. CASE Alter(p)
  <2>1. world[p] \in Process /\ done' = done /\ lapse' = lapse
    BY <1>4 DEF Alter, Running, TypeOK
  <2>2. PICK gpu \in BOOLEAN, unit \in Units :
            world' = [world EXCEPT ![p] = [work |-> world[p].work, gpu |-> gpu, unit |-> unit]]
    <3>1. CASE world' = [world EXCEPT ![p].gpu = ~@]
      <4>1. [world[p] EXCEPT !.gpu = ~@]
                = [work |-> world[p].work, gpu |-> ~world[p].gpu, unit |-> world[p].unit]
        BY <2>1 DEF Process
      <4>2. world' = [world EXCEPT ![p] = [world[p] EXCEPT !.gpu = ~@]]
        BY <3>1
      <4>3. world[p].unit \in Units /\ (~world[p].gpu) \in BOOLEAN
        BY <2>1 DEF Process
      <4> QED BY <4>1, <4>2, <4>3
    <3>2. ASSUME NEW unit \in Units, world' = [world EXCEPT ![p].unit = unit]
          PROVE  world' = [world EXCEPT ![p] = [work |-> world[p].work, gpu |-> world[p].gpu,
                                                unit |-> unit]]
      <4>1. [world[p] EXCEPT !.unit = unit]
                = [work |-> world[p].work, gpu |-> world[p].gpu, unit |-> unit]
        BY <2>1 DEF Process
      <4>2. world' = [world EXCEPT ![p] = [world[p] EXCEPT !.unit = unit]]
        BY <3>2
      <4> QED BY <4>1, <4>2
    <3>3. world[p].gpu \in BOOLEAN
      BY <2>1 DEF Process
    <3> QED BY <1>4, <3>1, <3>2, <3>3 DEF Alter
  <2>3. [work |-> world[p].work, gpu |-> gpu, unit |-> unit] \in Process
    BY <2>1 DEF Process
  <2>4. world' \in [PIDs -> Process \union {None}]
    BY <2>2, <2>3 DEF TypeOK
  <2>5. unshown' \in [PIDs -> Nat] /\ misplaced' \in [PIDs -> Nat]
    BY <1>4 DEF Alter, TypeOK
  <2>6. DidNoMore'
    BY <1>4, <2>1, <2>2 DEF DidNoMore, Running, TypeOK, Alter
  <2>7. world'[p] # None /\ \A q \in PIDs : q # p => world'[q] = world[q]
    BY <2>2, <2>3, NoneIsNot DEF TypeOK
  <2>8. Running' = Running
    BY <1>4, <2>7 DEF Running, Alter
  <2>9. LapseIsTheInterval'
    BY <1>1, <2>1, <2>8 DEF LapseIsTheInterval
  <2> QED BY <1>1, <2>1, <2>4, <2>5, <2>6, <2>9 DEF TypeOK, Partial
<1> QED BY <1>2, <1>3, <1>4

LEMMA TickType ==
    ASSUME TypeInv, Tick
    PROVE  TypeInv'
<1>1. PICK working \in SUBSET {p \in Running : world[p].work < MaxWork} :
          /\ world' = [p \in PIDs |->
                IF p \in working THEN [world[p] EXCEPT !.work = @ + 1] ELSE world[p]]
          /\ done' = [p \in PIDs |->
                IF p \in working /\ done[p] # Unread THEN done[p] + 1 ELSE done[p]]
  BY DEF Tick
<1>2. ASSUME NEW p \in working
      PROVE  /\ world[p] \in Process /\ world'[p] \in Process
             /\ world'[p].work = world[p].work + 1
             /\ done'[p] \in (0 .. MaxWork) \union {Unread}
             /\ done'[p] # Unread => done'[p] <= world'[p].work
  <2>1. world[p] \in Process /\ world[p].work \in 0 .. (MaxWork - 1) /\ p \in PIDs
    BY WordAssumption DEF Running, TypeInv, TypeOK, Process
  <2>2. world'[p] = [work |-> world[p].work + 1, gpu |-> world[p].gpu, unit |-> world[p].unit]
    BY <1>1, <2>1 DEF Process
  <2>3. world[p].work + 1 \in 0 .. MaxWork
    BY <2>1, WordAssumption
  <2>4. world'[p] \in Process
    BY <2>1, <2>2, <2>3 DEF Process
  <2>5. done[p] \in (0 .. MaxWork) \union {Unread} /\ (done[p] # Unread => done[p] <= world[p].work)
    BY <2>1 DEF TypeInv, TypeOK, DidNoMore, Running
  <2> QED BY <1>1, <2>1, <2>2, <2>3, <2>4, <2>5, WordAssumption DEF Unread
<1>3. world' \in [PIDs -> Process \union {None}]
  BY <1>1, <1>2 DEF TypeInv, TypeOK
<1>4. done' \in [PIDs -> (0..MaxWork) \union {Unread}]
  <2> SUFFICES ASSUME NEW p \in PIDs PROVE done'[p] \in (0..MaxWork) \union {Unread}
    BY <1>1
  <2> QED BY <1>1, <1>2 DEF TypeInv, TypeOK
<1>5. DidNoMore'
  <2> SUFFICES ASSUME NEW p \in Running', done'[p] # Unread PROVE done'[p] <= world'[p].work
    BY DEF DidNoMore
  <2>1. CASE p \notin working
    BY <1>1, <2>1 DEF TypeInv, TypeOK, DidNoMore, Running
  <2> QED BY <1>2, <2>1
<1>6. gap \in 0 .. (MaxGap - 1) /\ gap' = gap + 1 /\ phase = "idle" /\ phase' = phase
  BY GapAssumption DEF Tick, scan, TypeInv, TypeOK
<1>7. \A p \in PIDs : lapse[p] # Unread => lapse[p] = gap
  BY <1>6 DEF TypeInv, LapseIsTheInterval
<1>8. lapse' = [p \in PIDs |-> IF lapse[p] # Unread THEN gap + 1 ELSE Unread]
  BY <1>7 DEF Tick
<1>9. Running \subseteq Running'
  <2> SUFFICES ASSUME NEW p \in Running PROVE world'[p] # None
    BY DEF Running
  <2> QED BY <1>1, <1>2, NoneIsNot DEF Running
<1>10. gap' \in 0 .. MaxGap /\ lapse' \in [PIDs -> (0..MaxGap) \union {Unread}]
  <2>1. gap + 1 \in 0 .. MaxGap
    BY <1>6, GapAssumption
  <2> QED BY <1>6, <1>8, <2>1
<1>11. LapseIsTheInterval'
  <2>1. first' = first
    BY DEF Tick, collector
  <2> QED BY <1>6, <1>8, <1>9, <2>1 DEF TypeInv, LapseIsTheInterval
<1> QED BY <1>3, <1>4, <1>5, <1>10, <1>11
        DEF Tick, collector, wants, scan, window, TypeInv, TypeOK, Partial

LEMMA BeginType ==
    ASSUME TypeInv, NEW ok \in BOOLEAN, Begin(ok)
    PROVE  TypeInv'
<1>1. /\ UNCHANGED <<world, prev, gpuPids, gpuCount, unitCount, wantIO, wantGPU, scratch,
                     procs, front, reader, done, unshown, misplaced>>
      /\ first' \in BOOLEAN /\ gap' \in 0 .. MaxGap /\ dt' \in 0 .. MaxGap
      /\ phase' \in {"idle", "listed", "read"} /\ listed' \subseteq PIDs
  <2>1. UNCHANGED <<world, prev, gpuPids, gpuCount, unitCount, wantIO, wantGPU, scratch,
                    procs, front, reader, done, unshown, misplaced>>
    BY DEF Begin, wants, window
  <2>2. gap \in 0 .. MaxGap /\ dt \in 0 .. MaxGap /\ listed \subseteq PIDs
    BY DEF TypeInv, TypeOK
  <2>3. 0 \in 0 .. MaxGap
    BY GapAssumption
  <2>4. Running \subseteq PIDs
    BY DEF Running
  <2>5. CASE ok
    BY <2>1, <2>2, <2>3, <2>4, <2>5 DEF Begin, Elapsed
  <2>6. CASE ~ok
    BY <2>1, <2>2, <2>3, <2>6 DEF Begin
  <2> QED BY <2>5, <2>6
<1>2. lapse' \in [PIDs -> (0..MaxGap) \union {Unread}] /\ LapseIsTheInterval'
  <2>1. CASE ok
    <3>1. lapse' = lapse /\ phase' = "listed" /\ gap' = 0 /\ dt' = Elapsed /\ listed' = Running
      BY <2>1 DEF Begin
    <3>2. phase = "idle" /\ first' = FALSE
      BY DEF Begin
    <3>3. \A p \in PIDs : lapse[p] # Unread => ~first /\ p \in Running /\ lapse[p] = gap
      BY <3>2 DEF TypeInv, LapseIsTheInterval
    <3>4. \A p \in PIDs : lapse[p] # Unread => lapse[p] = dt'
      BY <3>1, <3>3 DEF Elapsed
    <3>5. Running' = Running
      BY <1>1 DEF Running
    <3>6. LapseIsTheInterval'
      BY <3>1, <3>2, <3>3, <3>4, <3>5 DEF LapseIsTheInterval
    <3> QED BY <3>1, <3>6 DEF TypeInv, TypeOK
  <2>2. CASE ~ok
    <3>1. lapse' = [p \in PIDs |-> Unread] /\ phase' = "idle"
      BY <2>2 DEF Begin
    <3> QED BY <3>1 DEF LapseIsTheInterval
  <2> QED BY <2>1, <2>2
<1> QED BY <1>1, <1>2 DEF TypeInv, TypeOK, Partial, DidNoMore, Running

LEMMA ReadKeepsType ==
    ASSUME TypeInv, Read
    PROVE  TypeInv'
<1>1. /\ UNCHANGED <<world, gap, first, wantIO, wantGPU, procs, front, reader>>
      /\ phase' = "read" /\ listed' = {} /\ dt' = 0
  BY DEF Read, wants, window
<1>2. Partial(prev, Memory)'
  BY ReadType DEF Read, Partial, Remembered
<1>3. Partial(scratch, Rows)'
  BY ReadType DEF Read, Partial
<1>4. gpuPids' \subseteq PIDs
  BY DEF Read, Walked, Readable, TypeInv, TypeOK
<1>5. gpuCount' \in 0..(RescanTicks - 1) /\ unitCount' \in 0..(RescanTicks - 1)
  BY RescanAssumption, NextCount DEF Read, TypeInv, TypeOK
<1>6. done' \in [PIDs -> (0..MaxWork) \union {Unread}]
  BY WordAssumption DEF Read, TypeInv, TypeOK
<1>7. unshown' \in [PIDs -> Nat] /\ misplaced' \in [PIDs -> Nat]
  BY DEF Read, TypeInv, TypeOK
<1>8. DidNoMore'
  <2> SUFFICES ASSUME NEW p \in Running, done'[p] # Unread PROVE done'[p] <= world[p].work
    BY <1>1 DEF DidNoMore, Running
  <2>1. world[p] \in Process /\ p \in PIDs
    BY DEF Running, TypeInv, TypeOK
  <2>2. world[p].work \in 0 .. MaxWork
    BY <2>1 DEF Process
  <2> QED BY <2>1, <2>2 DEF Read, TypeInv, TypeOK, DidNoMore
<1>9. lapse' = [p \in PIDs |-> IF p \in Readable THEN 0 ELSE lapse[p]] /\ phase = "listed"
  BY DEF Read
<1>10. lapse' \in [PIDs -> (0..MaxGap) \union {Unread}]
  BY <1>9, GapAssumption DEF TypeInv, TypeOK
<1>11. LapseIsTheInterval'
  <2> SUFFICES ASSUME NEW p \in PIDs, lapse'[p] # Unread
               PROVE  ~first /\ p \in Running /\ lapse'[p] = 0 /\ gap = 0
    BY <1>1 DEF LapseIsTheInterval, Running
  <2>1. gap = 0
    BY <1>9 DEF TypeInv, LapseIsTheInterval
  <2>2. CASE p \in Readable
    <3>1. p \in Running /\ lapse'[p] = 0
      BY <1>9, <2>2 DEF Readable, Running
    <3> QED BY <2>1, <3>1, <1>9 DEF TypeInv, LapseIsTheInterval
  <2>3. CASE p \notin Readable
    <3>1. p \in listed /\ p \in Running
      BY <1>9, <2>3 DEF TypeInv, LapseIsTheInterval
    <3> QED BY <2>3, <3>1 DEF Readable, Running
  <2> QED BY <2>2, <2>3
<1> QED BY <1>1, <1>2, <1>3, <1>4, <1>5, <1>6, <1>7, <1>8, <1>10, <1>11, GapAssumption
        DEF TypeInv, TypeOK

LEMMA NextType == TypeInv /\ [Next]_vars => TypeInv'
<1> SUFFICES ASSUME TypeInv, [Next]_vars PROVE TypeInv'
  OBVIOUS
<1>1. CASE Publish
  <2>1. Partial(procs, Rows)' /\ Partial(scratch, Rows)'
    BY <1>1 DEF Publish, TypeInv, TypeOK, Partial
  <2> QED BY <1>1, <2>1 DEF Publish, collector, wants, history, TypeInv, TypeOK, Partial,
                            DidNoMore,
              LapseIsTheInterval, Running, Buffers
<1>2. CASE BeginView
  BY <1>2 DEF BeginView, collector, wants, scan, history, TypeInv, TypeOK, Partial,
              DidNoMore,
              LapseIsTheInterval, Running
<1>3. CASE EndView
  BY <1>3 DEF EndView, collector, wants, scan, history, TypeInv, TypeOK, Partial,
              DidNoMore,
              LapseIsTheInterval, Running
<1>4. ASSUME NEW io \in BOOLEAN, NEW gpu \in BOOLEAN, SetWants(io, gpu) PROVE TypeInv'
  BY <1>4 DEF SetWants, collector, scan, window, TypeInv, TypeOK, Partial, DidNoMore,
              LapseIsTheInterval, Running
<1>5. CASE UNCHANGED vars
  BY <1>5 DEF vars, collector, wants, scan, window, history, TypeInv, TypeOK, Partial,
              DidNoMore,
              LapseIsTheInterval, Running
<1> QED BY <1>1, <1>2, <1>3, <1>4, <1>5, MachineType, TickType, BeginType, ReadKeepsType
        DEF Next, Collect

\* Every variable holds a value of its kind; a row's figures are within what a
\* process can do and what a word can hold.
THEOREM ScanTypeCorrect == Spec => []TypeOK
<1>1. TypeInv => TypeOK
  BY DEF TypeInv
<1> QED BY <1>1, InitTypeInv, NextType, PTL DEF Spec

----------------------------------------------------------------------------
(* Sweeps.                                                                  *)

\* What may have gone unseen for so many scans: those since the sweep before.
SinceSweep(past, count) ==
    past <= IF count = 0 THEN RescanTicks - 1 ELSE count - 1

SweepsInv ==
    \A p \in PIDs : SinceSweep(unshown[p], gpuCount) /\ SinceSweep(misplaced[p], unitCount)

LEMMA SweepsNext == TypeInv /\ SweepsInv /\ [Next]_vars => SweepsInv'
<1> SUFFICES ASSUME TypeInv, SweepsInv, [Next]_vars, NEW p \in PIDs
             PROVE  SinceSweep(unshown'[p], gpuCount') /\ SinceSweep(misplaced'[p], unitCount')
  BY DEF SweepsInv, SinceSweep
<1> USE DEF SinceSweep
<1>1. /\ SinceSweep(unshown[p], gpuCount) /\ SinceSweep(misplaced[p], unitCount)
      /\ unshown[p] \in Nat /\ misplaced[p] \in Nat
      /\ gpuCount \in 0 .. (RescanTicks - 1) /\ unitCount \in 0 .. (RescanTicks - 1)
  BY DEF SweepsInv, TypeInv, TypeOK
<1>2. ASSUME NEW past \in Nat, NEW count \in 0 .. (RescanTicks - 1)
      PROVE  SinceSweep(0, count)
  BY <1>2, RescanAssumption
<1>3. CASE Read
  <2>1. ASSUME NEW past \in Nat, NEW count \in 0 .. (RescanTicks - 1), NEW m \in {0, past + 1},
               SinceSweep(past, count), count = 0 => m = 0
        PROVE  SinceSweep(m, (count + 1) % RescanTicks)
    BY <2>1, NextCount, RescanAssumption
  <2>2. unshown'[p] \in {0, unshown[p] + 1} /\ (gpuCount = 0 => unshown'[p] = 0)
    BY <1>3 DEF Read, Walked
  <2>3. misplaced'[p] \in {0, misplaced[p] + 1} /\ (unitCount = 0 => misplaced'[p] = 0)
    BY <1>3 DEF Read, UnitRead
  <2>4. gpuCount' = (gpuCount + 1) % RescanTicks /\ unitCount' = (unitCount + 1) % RescanTicks
    BY <1>3 DEF Read
  <2> HIDE DEF SinceSweep
  <2> QED BY <1>1, <2>1, <2>2, <2>3, <2>4
<1>4. CASE ~Read
  <2>1. UNCHANGED <<gpuCount, unitCount>>
    BY <1>4 DEF Next, Spawn, Exit, Alter, Tick, Collect, Begin, Publish, BeginView, EndView,
                SetWants, vars, collector
  <2>2. unshown'[p] \in {0, unshown[p]} /\ misplaced'[p] \in {0, misplaced[p]}
    <3>1. ASSUME NEW q \in PIDs, Spawn(q) \/ Exit(q) \/ Alter(q)
          PROVE  unshown'[p] \in {0, unshown[p]} /\ misplaced'[p] \in {0, misplaced[p]}
      BY <3>1 DEF Spawn, Exit, Alter, TypeInv, TypeOK
    <3>2. ASSUME NEW io \in BOOLEAN, NEW gpu \in BOOLEAN, SetWants(io, gpu)
          PROVE  unshown'[p] \in {0, unshown[p]} /\ misplaced'[p] \in {0, misplaced[p]}
      BY <3>2 DEF SetWants
    <3>3. CASE UNCHANGED <<unshown, misplaced>>
      BY <3>3
    <3> QED BY <1>4, <3>1, <3>2, <3>3
            DEF Next, Tick, Collect, Begin, Publish, BeginView, EndView, vars, history
  <2> QED BY <1>1, <1>2, <2>1, <2>2
<1> QED BY <1>3, <1>4

\* The periodic sweeps miss nothing, whatever may happen and however often they are made.
THEOREM SweepsFindEverything == Spec => []SweepsFindAll
<1>1. Init => SweepsInv
  BY RescanAssumption DEF Init, SweepsInv, SinceSweep
<1>2. TypeInv /\ SweepsInv => SweepsFindAll
  BY RescanAssumption DEF SweepsInv, SinceSweep, SweepsFindAll, TypeInv, TypeOK
<1> QED BY <1>1, <1>2, InitTypeInv, NextType, SweepsNext, PTL DEF Spec

----------------------------------------------------------------------------
(* Work.                                                                    *)

\* A number the last scan saw in use is still of the process it saw, and what that
\* one has done since is the difference of the counters; any other process has not
\* been read.
ReadSince(p) ==
    IF p \in DOMAIN prev
    THEN /\ done[p] # Unread
         /\ done[p] = world[p].work - prev[p].jiffies
         /\ prev[p].bytes = prev[p].jiffies
    ELSE done[p] = Unread

\* A row's figures are what its process did, over the time it took.
ShownOnce(row) ==
    /\ row.cpu = row.did
    /\ row.read = row.did
    /\ row.took # Unread => row.dt = row.took

WorkInv ==
    /\ wantIO
    /\ \A p \in Running : ReadSince(p)
    /\ first \/ (phase = "listed" /\ dt = 0) => DOMAIN prev = {}
    /\ phase = "listed" => ~first /\ Running \cap DOMAIN prev \subseteq listed
    /\ \A p \in DOMAIN scratch : ShownOnce(scratch[p])
    /\ \A p \in DOMAIN procs : ShownOnce(procs[p])

\* The world without reuse of numbers and with the disk figures always wanted.
Orderly == Permitted \cap {"reuse", "wantsIO"} = {}

LEMMA MachineWork ==
    ASSUME Orderly, TypeInv, WorkInv, NEW p \in PIDs, Spawn(p) \/ Exit(p) \/ Alter(p)
    PROVE  WorkInv'
<1>1. UNCHANGED <<prev, wantIO, first, phase, dt, listed, scratch, procs>>
  BY DEF Spawn, Exit, Alter, collector, wants, scan, window
<1>2. \A q \in PIDs : q # p => world'[q] = world[q] /\ done'[q] = done[q]
  BY DEF Spawn, Exit, Alter, TypeInv, TypeOK
<1>3. ASSUME p \in Running'
      PROVE  ReadSince(p)' /\ (phase = "listed" /\ p \in DOMAIN prev => p \in listed)
  <2>1. CASE Spawn(p)
    <3>1. p \notin DOMAIN prev
      BY <2>1 DEF Spawn, Orderly
    <3> QED BY <1>1, <2>1, <3>1 DEF Spawn, ReadSince, TypeInv, TypeOK
  <2>2. CASE Exit(p)
    BY <1>3, <2>2 DEF Exit, Running, TypeInv, TypeOK
  <2>3. CASE Alter(p)
    <3>1. p \in Running /\ world[p] \in Process
      BY <2>3 DEF Alter, Running, TypeInv, TypeOK
    <3>2. world'[p].work = world[p].work /\ done' = done
      BY <2>3, <3>1 DEF Alter, Process, TypeInv, TypeOK
    <3> QED BY <1>1, <3>1, <3>2 DEF WorkInv, ReadSince
  <2> QED BY <2>1, <2>2, <2>3
<1>4. ASSUME NEW q \in Running', q # p
      PROVE  q \in Running /\ ReadSince(q)'
  BY <1>1, <1>2, <1>4 DEF WorkInv, ReadSince, Running
<1>5. \A q \in Running' : ReadSince(q)'
  BY <1>3, <1>4
<1>6. phase' = "listed" => ~first' /\ Running' \cap DOMAIN prev' \subseteq listed'
  BY <1>1, <1>3, <1>4 DEF WorkInv
<1> QED BY <1>1, <1>5, <1>6 DEF WorkInv, ShownOnce

LEMMA TickWork ==
    ASSUME TypeInv, WorkInv, Tick
    PROVE  WorkInv'
<1>1. UNCHANGED <<prev, wantIO, first, phase, dt, listed, scratch, procs>> /\ phase = "idle"
  BY DEF Tick, collector, wants, scan, window
<1>2. ASSUME NEW p \in Running'
      PROVE  ReadSince(p)'
  <2>1. PICK working \in SUBSET {q \in Running : world[q].work < MaxWork} :
            /\ world' = [q \in PIDs |->
                  IF q \in working THEN [world[q] EXCEPT !.work = @ + 1] ELSE world[q]]
            /\ done' = [q \in PIDs |->
                  IF q \in working /\ done[q] # Unread THEN done[q] + 1 ELSE done[q]]
    BY DEF Tick
  <2>2. p \in PIDs /\ p \in Running
    BY <2>1 DEF Running
  <2>3. world[p] \in Process /\ ReadSince(p) /\ done[p] \in (0 .. MaxWork) \union {Unread}
    BY <2>2 DEF TypeInv, TypeOK, Running, WorkInv
  <2>4. CASE p \notin working
    BY <1>1, <2>1, <2>2, <2>3, <2>4 DEF ReadSince
  <2>5. CASE p \in working
    <3>1. world'[p].work = world[p].work + 1
      BY <2>1, <2>2, <2>3, <2>5 DEF Process
    <3>2. p \in DOMAIN prev => prev[p].jiffies \in 0 .. MaxWork
      BY DEF TypeInv, TypeOK, Partial, Memory
    <3>3. world[p].work \in 0 .. MaxWork
      BY <2>3 DEF Process
    <3> QED BY <1>1, <2>1, <2>2, <2>3, <2>5, <3>1, <3>2, <3>3, WordAssumption
            DEF ReadSince, Unread
  <2> QED BY <2>4, <2>5
<1> QED BY <1>1, <1>2 DEF WorkInv, ShownOnce

LEMMA BeginWork ==
    ASSUME TypeInv, WorkInv, NEW ok \in BOOLEAN, Begin(ok)
    PROVE  WorkInv'
<1>1. UNCHANGED <<world, prev, wantIO, scratch, procs, done>> /\ first' = FALSE
  BY DEF Begin, wants, window
<1>2. phase = "idle" /\ gap \in Nat /\ (gap > 0 \/ first)
  BY DEF Begin, TypeInv, TypeOK
<1>3. phase' = "listed" => listed' = Running /\ dt' = IF first THEN 0 ELSE gap
  BY <1>2 DEF Begin, Elapsed
<1>4. phase' = "listed" /\ dt' = 0 => DOMAIN prev = {}
  BY <1>2, <1>3 DEF WorkInv
<1>5. \A p \in Running' : ReadSince(p)'
  BY <1>1 DEF WorkInv, ReadSince, Running
<1> QED BY <1>1, <1>3, <1>4, <1>5 DEF WorkInv, ShownOnce, Running

\* The row of a process shows what it did, for nobody else can have had its number.
LEMMA RowShows ==
    ASSUME TypeInv, WorkInv, phase = "listed", NEW p \in Readable
    PROVE  ShownOnce(Row(p))
<1>1. p \in Running /\ world[p] \in Process /\ ReadSince(p)
  BY DEF Readable, Running, TypeInv, TypeOK, WorkInv
<1>2. world[p].work \in 0 .. MaxWork /\ BytesRead(p) = world[p].work
  BY <1>1 DEF Process, BytesRead, WorkInv
<1>5. Row(p).took # Unread => Row(p).dt = Row(p).took
  BY <1>1 DEF Row, TypeInv, LapseIsTheInterval, Running
<1>3. CASE p \in DOMAIN prev
  <2>1. prev[p].jiffies \in 0 .. MaxWork /\ dt \in Nat /\ dt # 0
    BY <1>3 DEF TypeInv, TypeOK, Partial, Memory, WorkInv
  <2>2. done[p] \in 0 .. MaxWork /\ done[p] = world[p].work - prev[p].jiffies
        /\ prev[p].bytes = prev[p].jiffies
    BY <1>1, <1>3 DEF ReadSince, TypeInv, TypeOK, Running
  <2>3. prev[p].jiffies <= world[p].work
    BY <1>2, <2>1, <2>2, WordAssumption
  <2>4. /\ Minus(world[p].work, prev[p].jiffies) = done[p]
        /\ Delta(BytesRead(p), prev[p].bytes) = done[p]
    <3> PICK now, then : now = world[p].work /\ then = prev[p].jiffies
      OBVIOUS
    <3>1. now \in 0 .. MaxWork /\ then \in 0 .. MaxWork /\ then <= now
      BY <1>2, <2>1, <2>3
    <3>2. Minus(now, then) = now - then
      BY ONLY <3>1, MinusWithin
    <3>3. Delta(now, then) = now - then
      BY ONLY <3>1, DeltaWithin
    <3> QED BY <1>2, <2>2, <3>2, <3>3
  <2>5. Did(p) = done[p]
    BY <2>2, WordAssumption DEF Did, Unread
  <2>6. p \in DOMAIN prev /\ dt > 0
    BY <1>3, <2>1
  <2>7. Row(p).cpu = done[p] /\ Row(p).read = done[p]
    BY ONLY <2>4, <2>6 DEF Row
  <2>8. Row(p).did = done[p]
    BY ONLY <2>5 DEF Row
  <2> QED BY <1>5, <2>7, <2>8 DEF ShownOnce
<1>4. CASE p \notin DOMAIN prev
  <2>1. Did(p) = 0
    BY <1>1, <1>4 DEF ReadSince, Did
  <2>2. Row(p).cpu = 0 /\ Row(p).read = 0 /\ Row(p).did = 0
    BY <1>4, <2>1 DEF Row
  <2> QED BY <1>5, <2>2 DEF ShownOnce
<1> QED BY <1>3, <1>4

LEMMA ReadWork ==
    ASSUME TypeInv, WorkInv, Read
    PROVE  WorkInv'
<1>1. /\ UNCHANGED <<world, first, wantIO, procs>>
      /\ phase = "listed" /\ phase' = "read" /\ prev' = Remembered
      /\ scratch' = [p \in Readable |-> Row(p)]
      /\ done' = [p \in PIDs |-> IF p \in Readable THEN 0 ELSE done[p]]
  BY DEF Read, wants, window
<1>2. ~first'
  BY <1>1 DEF WorkInv
<1>3. ASSUME NEW p \in Running' PROVE ReadSince(p)'
  <2>1. p \in PIDs /\ p \in Running /\ world[p] \in Process
    BY <1>1 DEF Running, TypeInv, TypeOK
  <2>2. CASE p \in Readable
    <3>1. prev'[p].jiffies = world[p].work /\ prev'[p].bytes = world[p].work
      BY <1>1, <2>2 DEF Remembered, BytesRead, WorkInv
    <3>2. world[p].work \in 0 .. MaxWork
      BY <2>1 DEF Process
    <3> QED BY <1>1, <2>1, <2>2, <3>1, <3>2, WordAssumption DEF ReadSince, Remembered, Unread
  <2>3. CASE p \notin Readable
    <3>1. p \notin listed
      BY <2>1, <2>3 DEF Readable, Running
    <3>2. p \notin DOMAIN prev /\ done[p] = Unread
      BY <1>1, <2>1, <3>1 DEF WorkInv, ReadSince
    <3> QED BY <1>1, <2>1, <2>3, <3>2 DEF ReadSince, Remembered
  <2> QED BY <2>2, <2>3
<1>4. \A p \in DOMAIN scratch' : ShownOnce(scratch'[p])
  BY <1>1, RowShows
<1> QED BY <1>1, <1>2, <1>3, <1>4 DEF WorkInv, ShownOnce

LEMMA WorkNext == Orderly /\ TypeInv /\ WorkInv /\ [Next]_vars => WorkInv'
<1> SUFFICES ASSUME Orderly, TypeInv, WorkInv, [Next]_vars PROVE WorkInv'
  OBVIOUS
<1>1. CASE Publish
  <2>1. \A p \in Running' : ReadSince(p)'
    BY <1>1 DEF Publish, collector, history, WorkInv, ReadSince, Running
  <2> QED BY <1>1, <2>1 DEF Publish, collector, wants, history, WorkInv, ShownOnce
<1>2. CASE UNCHANGED <<world, collector, wants, scan, procs, done>>
  <2>1. \A p \in Running' : ReadSince(p)'
    BY <1>2 DEF collector, WorkInv, ReadSince, Running
  <2> QED BY <1>2, <2>1 DEF collector, wants, scan, WorkInv, ShownOnce, Running
<1>3. ASSUME NEW io \in BOOLEAN, NEW gpu \in BOOLEAN, SetWants(io, gpu) PROVE WorkInv'
  <2>1. UNCHANGED <<world, collector, scan, procs, done>> /\ wantIO' = wantIO
    BY <1>3 DEF SetWants, window, Orderly
  <2>2. \A p \in Running' : ReadSince(p)'
    BY <2>1 DEF collector, WorkInv, ReadSince, Running
  <2> QED BY <2>1, <2>2 DEF collector, scan, WorkInv, ShownOnce, Running
<1> QED BY <1>1, <1>2, <1>3, MachineWork, TickWork, BeginWork, ReadWork
        DEF Next, Collect, BeginView, EndView, vars, window, history

\* Unless a number is used twice between two scans, or the disk figures come to be
\* wanted between them, every row shows the work its process has done since it was
\* last read, once and never more; and, unless a scan has failed since, divided by
\* the time since then.
THEOREM WorkShownOnce == Orderly /\ Spec => []WorkIsShownOnce
<1> SUFFICES ASSUME Orderly PROVE Spec => []WorkIsShownOnce
  OBVIOUS
<1>1. Init => WorkInv
  BY DEF Init, WorkInv, Running
<1>2. WorkInv => WorkIsShownOnce
  BY DEF WorkInv, ShownOnce, WorkIsShownOnce
<1>3. TypeInv /\ WorkInv /\ [Next]_vars => WorkInv'
  BY WorkNext
<1> QED BY <1>1, <1>2, <1>3, InitTypeInv, NextType, PTL DEF Spec

----------------------------------------------------------------------------
(* Traffic *)

\* Devices stay, and are read on every tick, or are not replaced by others.
Counted == Permitted \cap {"gone", "unread"} = {}
Steady == Permitted \cap {"gone", "recreated"} = {}

Sampling == step \in {"measuring", "publishing"}

DeviceType ==
    /\ counter \in [DeviceNames -> 0 .. MaxBytes]
    /\ index \in [DeviceNames -> {1, 2}]
    /\ figure \in [DeviceNames -> {"one", "two"}]
    /\ since \in Nat /\ elapsed = since
    /\ step \in {"off", "idle", "measuring", "publishing"}
    /\ firstTick \in BOOLEAN /\ measured \in BOOLEAN
    /\ interval \in Nat \ {0}
    /\ tick \in 0 .. SpaceEvery - 1
    /\ moved \in [DeviceNames -> Nat]
    /\ whole \in [DeviceNames -> BOOLEAN]
    /\ lag \in [DeviceNames -> Nat]
    /\ step # "off" => DOMAIN found = DeviceNames /\ DOMAIN stat = DeviceNames
    /\ step = "off" => firstTick /\ DOMAIN newest = {}

\* What a device's counter was when last read, which is not yet its previous value
\* while a tick is under way.
LastRead(d) == IF Sampling THEN reading[d] ELSE stat[d].prev

NeverRead == MaxBytes + 2

\* A counter has gone up by what its device has moved since, or less.
CounterInv ==
    /\ Sampling => reading \in [DeviceNames -> 0 .. MaxBytes]
    /\ step # "off" => \A d \in DeviceNames :
            /\ stat[d].prev \in (0 .. MaxBytes) \cup {NeverRead}
            /\ firstTick => stat[d].prev = NeverRead /\ ~Sampling
            /\ LastRead(d) # NeverRead =>
                /\ counter[d] <= LastRead(d) + moved[d]
                /\ whole[d] => counter[d] = LastRead(d) + moved[d]

\* What a tick publishes: what it has read, and the time it has taken.
ReadingInv ==
    Sampling => \A d \in DeviceNames :
        /\ meanwhile[d].moved \in Nat
        /\ stat[d].prev # NeverRead =>
            /\ meanwhile[d].took = interval
            /\ reading[d] <= stat[d].prev + meanwhile[d].moved
            /\ meanwhile[d].whole => reading[d] = stat[d].prev + meanwhile[d].moved

\* The ticks there can be since a figure was last measured.
Since(t) == IF t = 0 THEN SpaceEvery ELSE t

\* A figure has been wrong for no longer than that.
LagInv ==
    \A d \in DeviceNames :
        /\ index[d] = 1 /\ (step # "off" => found[d] = 1)
        /\ lag[d] <= SpaceEvery
        /\ step = "off" => lag[d] = 0
        /\ step = "idle" => lag[d] <= Since(tick)
        /\ step = "measuring" => tick = 1 % SpaceEvery
        /\ step = "publishing" /\ measured =>
            /\ DOMAIN own = DeviceNames /\ tick = 1 % SpaceEvery
            /\ own[d] # figure[d] => lag[d] = 0
        /\ step = "publishing" /\ ~measured => lag[d] + 1 <= Since(tick)

LEMMA DevicesOnly == [SamplesNext]_samplesVars => Devices!Next \/ UNCHANGED devicesVars
BY DEF SamplesNext, ScanMoves, DevicesMove, CPUMoves, GraphMoves, PickedMoves, samplesVars

LEMMA ThereAll ==
    ASSUME DeviceType
    PROVE  Devices!There = DeviceNames
BY MaxBytesAssumption DEF DeviceType, Devices!There, Devices!Gone

LEMMA DeviceTypeInit == SamplesInit => DeviceType
<1> SUFFICES ASSUME Devices!Init PROVE DeviceType
  BY DEF SamplesInit
<1>1. counter \in [DeviceNames -> 0 .. MaxBytes]
  <2>1. counter \in [DeviceNames -> 0 .. 1]
    BY DEF Devices!Init
  <2> QED BY <2>1, MaxBytesAssumption
<1>2. /\ index \in [DeviceNames -> {1, 2}] /\ figure \in [DeviceNames -> {"one", "two"}]
      /\ moved \in [DeviceNames -> Nat] /\ whole \in [DeviceNames -> BOOLEAN]
      /\ lag \in [DeviceNames -> Nat]
  BY DEF Devices!Init
<1>3. /\ since = 0 /\ elapsed = 0 /\ step = "off"
      /\ firstTick /\ firstTick \in BOOLEAN /\ measured \in BOOLEAN
      /\ interval = 1 /\ tick = 0 /\ DOMAIN newest = {}
  BY DEF Devices!Init
<1> QED BY <1>1, <1>2, <1>3, SpaceEveryAssumption DEF DeviceType

LEMMA DeviceTypeNext ==
    ASSUME "gone" \notin Permitted, DeviceType, Devices!Next \/ UNCHANGED devicesVars
    PROVE  DeviceType'
<1>0. Devices!There = DeviceNames
  BY ThereAll
<1> USE DEF DeviceType, Devices!kernel, Devices!collector, Devices!shown, Devices!history
<1>1. ASSUME NEW d \in DeviceNames, Devices!Move(d) \/ Devices!Reset(d) \/ Devices!Change(d)
      PROVE  DeviceType'
  <2>1. CASE Devices!Move(d)
    BY <2>1, MaxBytesAssumption DEF Devices!Move
  <2>2. CASE Devices!Reset(d)
    BY <2>2, MaxBytesAssumption DEF Devices!Reset
  <2>3. CASE Devices!Change(d)
    BY <2>3 DEF Devices!Change, Devices!Figures
  <2> QED BY <1>1, <2>1, <2>2, <2>3
<1>2. ASSUME NEW d \in DeviceNames, Devices!Recreate(d) PROVE DeviceType'
  BY <1>2, MaxBytesAssumption DEF Devices!Recreate
<1>3. CASE Devices!Clock
  BY <1>3 DEF Devices!Clock
<1>4. CASE Devices!Discover
  BY <1>0, <1>4 DEF Devices!Discover
<1>5. ASSUME NEW ok \in BOOLEAN, Devices!Read(ok) PROVE DeviceType'
  <2>1. (tick + 1) % SpaceEvery \in 0 .. SpaceEvery - 1
    BY SpaceEveryAssumption
  <2>2. /\ moved' \in [DeviceNames -> Nat] /\ whole' \in [DeviceNames -> BOOLEAN]
        /\ since' = 0 /\ elapsed' = 0 /\ firstTick' = FALSE
        /\ measured' \in BOOLEAN /\ interval' \in Nat \ {0}
    BY <1>5 DEF Devices!Read, Devices!Last, Devices!Due
  <2>3. /\ step = "idle" /\ step' \in {"measuring", "publishing"} /\ tick' = (tick + 1) % SpaceEvery
        /\ UNCHANGED <<counter, index, figure, lag, found, stat, newest>>
    BY <1>5 DEF Devices!Read
  <2> QED BY <2>1, <2>2, <2>3
<1>6. ASSUME NEW ok \in BOOLEAN, Devices!Measure(ok) PROVE DeviceType'
  BY <1>6 DEF Devices!Measure
<1>7. CASE Devices!Publish
  <2>1. lag' \in [DeviceNames -> Nat]
    <3> DEFINE wrong(d) == d \in DOMAIN found /\ Devices!Sampled(d).figure # figure[d]
    <3>1. lag' = [d \in DeviceNames |-> IF wrong(d) THEN lag[d] + 1 ELSE 0]
      BY <1>7 DEF Devices!Publish
    <3> HIDE DEF wrong
    <3> QED BY <3>1
  <2>2. /\ step = "publishing" /\ step' = "idle" /\ DOMAIN stat' = DOMAIN found
        /\ since' = since /\ interval' = 1 /\ measured' \in BOOLEAN
        /\ UNCHANGED <<counter, index, figure, firstTick, tick, found, moved, elapsed, whole>>
    BY <1>7 DEF Devices!Publish, Devices!Last
  <2> QED BY <2>1, <2>2
<1>8. CASE UNCHANGED devicesVars
  BY <1>8 DEF devicesVars
<1> QED BY <1>1, <1>2, <1>3, <1>4, <1>5, <1>6, <1>7, <1>8
        DEF Devices!Next, Devices!Kernel, Devices!Collect

\* The counters, and what is made of them.
LEMMA CounterNext ==
    ASSUME Counted, DeviceType, CounterInv, ReadingInv, Devices!Next \/ UNCHANGED devicesVars
    PROVE  CounterInv' /\ ReadingInv'
<1>0. /\ Devices!There = DeviceNames /\ "gone" \notin Permitted /\ "unread" \notin Permitted
      /\ \A d \in DeviceNames : counter[d] \in 0 .. MaxBytes /\ moved[d] \in Nat
      /\ MaxBytes \in Nat
  BY ThereAll, MaxBytesAssumption DEF Counted, DeviceType
<1>1. ASSUME NEW d \in DeviceNames,
             Devices!Move(d) \/ Devices!Reset(d) \/ Devices!Change(d) \/ Devices!Recreate(d)
      PROVE  CounterInv' /\ ReadingInv'
  <2>1. /\ UNCHANGED <<step, firstTick, interval, reading, stat, meanwhile>>
        /\ \A e \in DeviceNames :
              \/ counter'[e] = counter[e] /\ moved'[e] = moved[e] /\ whole'[e] = whole[e]
              \/ /\ counter'[e] = counter[e] + 1 /\ moved'[e] = moved[e] + 1
                 /\ whole'[e] = whole[e]
              \/ counter'[e] = 0 /\ moved'[e] = moved[e] /\ whole'[e] = FALSE
    BY <1>0, <1>1 DEF Devices!Move, Devices!Reset, Devices!Change, Devices!Recreate, DeviceType,
                      Devices!collector, Devices!shown
  <2>2. ReadingInv'
    BY <2>1 DEF ReadingInv, Sampling
  <2>3. ASSUME NEW e \in DeviceNames, step # "off", LastRead(e) # NeverRead
        PROVE  /\ counter'[e] <= LastRead(e) + moved'[e]
               /\ whole'[e] => counter'[e] = LastRead(e) + moved'[e]
    <3>1. LastRead(e) \in Nat
      BY <2>3 DEF CounterInv, LastRead
    <3> QED BY <1>0, <2>1, <2>3, <3>1 DEF CounterInv
  <2>4. \A e \in DeviceNames : LastRead(e)' = LastRead(e)
    BY <2>1 DEF LastRead, Sampling
  <2> QED BY <2>1, <2>2, <2>3, <2>4 DEF CounterInv, Sampling
<1>2. CASE Devices!Clock \/ (\E ok \in BOOLEAN : Devices!Measure(ok)) \/ UNCHANGED devicesVars
  <2>1. /\ UNCHANGED <<firstTick, interval, reading, stat, meanwhile, counter, moved, whole>>
        /\ \/ step' = step
           \/ step = "measuring" /\ step' = "publishing"
    BY <1>2 DEF Devices!Clock, Devices!Measure, devicesVars, Devices!kernel, Devices!shown
  <2>2. Sampling' = Sampling /\ \A e \in DeviceNames : LastRead(e)' = LastRead(e)
    BY <2>1 DEF LastRead, Sampling
  <2> QED BY <2>1, <2>2 DEF CounterInv, ReadingInv
<1>3. CASE Devices!Discover
  <2>1. /\ step' = "idle" /\ \A d \in DeviceNames : stat'[d].prev = NeverRead
    BY <1>0, <1>3 DEF Devices!Discover, Devices!NoPrev, NeverRead
  <2> QED BY <2>1 DEF CounterInv, ReadingInv, Sampling, LastRead
<1>4. ASSUME NEW ok \in BOOLEAN, Devices!Read(ok), ok \/ "unread" \in Permitted
      PROVE  CounterInv' /\ ReadingInv'
  <2>1. /\ step = "idle" /\ step' \in {"measuring", "publishing"} /\ ~Sampling /\ Sampling'
        /\ firstTick' = FALSE /\ UNCHANGED <<counter, stat>>
        /\ reading' = counter
        /\ \A d \in DeviceNames :
              /\ moved'[d] = 0
              /\ meanwhile'[d].moved = moved[d] /\ meanwhile'[d].took = elapsed
              /\ meanwhile'[d].whole = whole[d]
    BY <1>0, <1>4 DEF Devices!Read, Sampling, DeviceType, Devices!kernel, Devices!shown
  <2>2. ~firstTick => interval' = elapsed
    BY <1>4 DEF Devices!Read, DeviceType
  <2>3. ASSUME NEW d \in DeviceNames
        PROVE  /\ LastRead(d)' = counter[d] /\ LastRead(d) = stat[d].prev
               /\ stat[d].prev \in (0 .. MaxBytes) \cup {NeverRead}
               /\ firstTick => stat[d].prev = NeverRead
    BY <2>1 DEF LastRead, CounterInv
  <2>4. reading' \in [DeviceNames -> 0 .. MaxBytes]
    BY <2>1 DEF DeviceType
  <2>5. CounterInv'
    BY <1>0, <2>1, <2>3, <2>4 DEF CounterInv
  <2>6. ReadingInv'
    <3> SUFFICES ASSUME NEW d \in DeviceNames
                 PROVE  /\ meanwhile'[d].moved \in Nat
                        /\ stat[d].prev # NeverRead =>
                            /\ meanwhile'[d].took = interval'
                            /\ counter[d] <= stat[d].prev + meanwhile'[d].moved
                            /\ meanwhile'[d].whole => counter[d] = stat[d].prev + meanwhile'[d].moved
      BY <2>1 DEF ReadingInv
    <3> QED BY <1>0, <2>1, <2>2, <2>3 DEF CounterInv
  <2> QED BY <2>5, <2>6
<1>5. CASE Devices!Publish
  <2>1. /\ Sampling /\ step' = "idle" /\ ~Sampling'
        /\ UNCHANGED <<counter, moved, whole, firstTick>>
        /\ \A d \in DeviceNames : stat'[d].prev = reading[d]
    BY <1>5 DEF Devices!Publish, Devices!Sampled, Sampling, DeviceType, CounterInv, Devices!kernel
  <2>2. \A d \in DeviceNames : LastRead(d)' = LastRead(d) /\ LastRead(d) = reading[d]
    BY <2>1 DEF LastRead
  <2>3. \A d \in DeviceNames : ~firstTick /\ reading[d] \in 0 .. MaxBytes
    BY <2>1 DEF CounterInv, Sampling
  <2> QED BY <2>1, <2>2, <2>3 DEF CounterInv, ReadingInv, Sampling
<1> QED BY <1>0, <1>1, <1>2, <1>3, <1>4, <1>5
        DEF Devices!Next, Devices!Kernel, Devices!Collect

\* Over the same time, less is moved at a lower rate.
LEMMA SameTime ==
    ASSUME NEW a \in Nat, NEW b \in Nat, NEW t \in Nat, a <= b
    PROVE  a * t <= b * t
OBVIOUS

LEMMA GraphNext ==
    ASSUME Counted, DeviceType, CounterInv, ReadingInv, GraphIsTraffic,
           Devices!Next \/ UNCHANGED devicesVars
    PROVE  GraphIsTraffic'
<1>1. CASE UNCHANGED newest
  BY <1>1 DEF GraphIsTraffic, Devices!GraphIsTraffic
<1>2. CASE Devices!Publish
  <2>1. /\ Sampling /\ DOMAIN found = DeviceNames /\ DOMAIN reading = DeviceNames
        /\ interval \in Nat
    BY <1>2 DEF Devices!Publish, Sampling, DeviceType, CounterInv
  <2>2. ASSUME NEW d \in DeviceNames
        PROVE  /\ newest'[d].truth = meanwhile[d]
               /\ newest'[d].compared <=> stat[d].prev # NeverRead
               /\ stat[d].prev # NeverRead =>
                    /\ newest'[d].rate.dt = interval
                    /\ newest'[d].rate.bytes = IF reading[d] < stat[d].prev THEN 0
                                               ELSE reading[d] - stat[d].prev
    BY <1>2, <2>1 DEF Devices!Publish, Devices!Sampled, Devices!RateOf, Devices!NoPrev, NeverRead
  <2>3. ASSUME NEW d \in DeviceNames, stat[d].prev # NeverRead
        PROVE  /\ newest'[d].rate.bytes * meanwhile[d].took <= meanwhile[d].moved * interval
               /\ meanwhile[d].whole => newest'[d].rate.bytes * meanwhile[d].took
                                            = meanwhile[d].moved * interval
    <3>1. /\ reading[d] \in Nat /\ stat[d].prev \in Nat /\ meanwhile[d].moved \in Nat
          /\ meanwhile[d].took = interval
          /\ reading[d] <= stat[d].prev + meanwhile[d].moved
          /\ meanwhile[d].whole => reading[d] = stat[d].prev + meanwhile[d].moved
      BY <2>1, <2>3 DEF CounterInv, ReadingInv, Sampling
    <3>2. /\ newest'[d].rate.bytes \in Nat /\ newest'[d].rate.bytes <= meanwhile[d].moved
          /\ meanwhile[d].whole => newest'[d].rate.bytes = meanwhile[d].moved
      BY <2>2, <2>3, <3>1
    <3> QED BY <2>1, <3>1, <3>2, SameTime
  <2>4. DOMAIN newest' = DeviceNames
    BY <1>2, <2>1 DEF Devices!Publish
  <2> QED BY <2>2, <2>3, <2>4 DEF GraphIsTraffic, Devices!GraphIsTraffic
<1> QED BY <1>1, <1>2
        DEF Devices!Next, Devices!Kernel, Devices!Collect, Devices!Move, Devices!Reset,
            Devices!Change, Devices!Plug, Devices!Recreate, Devices!Clock, Devices!Discover,
            Devices!Read, Devices!Measure, Devices!shown, devicesVars

\* As long as devices stay and can be read, a graph shows what has been moved: through
\* counters that start again, interfaces made anew under an old name, addresses that
\* cannot be had, and ticks and measurements however long.
THEOREM GraphsShowTraffic == Counted /\ SamplesSpec => []GraphIsTraffic
<1> SUFFICES ASSUME Counted PROVE SamplesSpec => []GraphIsTraffic
  OBVIOUS
<1> DEFINE Inv == DeviceType /\ CounterInv /\ ReadingInv /\ GraphIsTraffic
<1>1. SamplesInit => Inv
  <2>1. SamplesInit => CounterInv /\ ReadingInv /\ GraphIsTraffic
    BY DEF SamplesInit, Devices!Init, CounterInv, ReadingInv, Sampling, GraphIsTraffic,
           Devices!GraphIsTraffic
  <2> QED BY <2>1, DeviceTypeInit
<1>2. Inv /\ [SamplesNext]_samplesVars => Inv'
  BY DevicesOnly, DeviceTypeNext, CounterNext, GraphNext DEF Counted
<1> QED BY <1>1, <1>2, PTL DEF SamplesSpec

\* The ticks since a figure was measured, across one more tick.
LEMMA SinceTick ==
    ASSUME NEW t \in 0 .. SpaceEvery - 1
    PROVE  /\ (t + 1) % SpaceEvery \in 0 .. SpaceEvery - 1
           /\ t = 0 => (t + 1) % SpaceEvery = 1 % SpaceEvery
           /\ t # 0 => Since((t + 1) % SpaceEvery) = Since(t) + 1
           /\ Since(t) \in 1 .. SpaceEvery
           /\ Since(1 % SpaceEvery) \in 1 .. SpaceEvery
<1>1. SpaceEvery \in Nat /\ SpaceEvery >= 1
  BY SpaceEveryAssumption
<1>2. CASE t + 1 < SpaceEvery
  <2>1. (t + 1) % SpaceEvery = t + 1 /\ 1 % SpaceEvery = 1
    BY <1>1, <1>2
  <2> QED BY <1>1, <1>2, <2>1 DEF Since
<1>3. CASE t + 1 = SpaceEvery
  <2>1. (t + 1) % SpaceEvery = 0 /\ 1 % SpaceEvery \in 0 .. SpaceEvery - 1
    BY <1>1, <1>3
  <2> QED BY <1>1, <1>3, <2>1 DEF Since
<1> QED BY <1>1, <1>2, <1>3

\* How long figures have been wrong.
LEMMA LagNext ==
    ASSUME Steady, DeviceType, LagInv, Devices!Next \/ UNCHANGED devicesVars
    PROVE  LagInv'
<1>0. /\ Devices!There = DeviceNames /\ "gone" \notin Permitted /\ "recreated" \notin Permitted
      /\ tick \in 0 .. SpaceEvery - 1 /\ SpaceEvery \in Nat /\ SpaceEvery >= 1
      /\ \A d \in DeviceNames : lag[d] \in Nat
      /\ step # "off" => DOMAIN found = DeviceNames
      /\ step \in {"off", "idle", "measuring", "publishing"}
  BY ThereAll, SpaceEveryAssumption DEF Steady, DeviceType
<1>1. \A t \in 0 .. SpaceEvery - 1 : Since(t) \in 1 .. SpaceEvery
  BY SinceTick
<1>2. ASSUME NEW d \in DeviceNames,
             Devices!Move(d) \/ Devices!Reset(d) \/ Devices!Change(d)
      PROVE  LagInv'
  <2>1. /\ UNCHANGED <<step, tick, index, found, measured, own>>
        /\ \A e \in DeviceNames :
              \/ lag'[e] = lag[e] /\ figure'[e] = figure[e]
              \/ lag'[e] = 0
    BY <1>2 DEF Devices!Move, Devices!Reset, Devices!Change, Devices!collector, Devices!shown,
                DeviceType
  <2> QED BY <1>0, <1>1, <2>1 DEF LagInv
<1>3. CASE Devices!Clock \/ UNCHANGED devicesVars
  <2>1. UNCHANGED <<step, tick, index, found, measured, own, lag, figure>>
    BY <1>3 DEF Devices!Clock, devicesVars, Devices!kernel, Devices!shown
  <2> QED BY <2>1 DEF LagInv
<1>4. CASE Devices!Discover
  <2>1. /\ step = "off" /\ step' = "idle" /\ UNCHANGED <<tick, index, lag>>
        /\ \A d \in DeviceNames : found'[d] = index[d]
    BY <1>0, <1>4 DEF Devices!Discover, Devices!kernel, Devices!history
  <2> QED BY <1>0, <1>1, <2>1 DEF LagInv
<1>5. ASSUME NEW ok \in BOOLEAN, Devices!Read(ok) PROVE LagInv'
  <2>1. /\ step = "idle" /\ UNCHANGED <<index, found, lag>>
        /\ tick' = (tick + 1) % SpaceEvery
        /\ \/ step' = "measuring" /\ tick = 0
           \/ step' = "publishing" /\ ~measured' /\ tick # 0
    BY <1>5 DEF Devices!Read, Devices!Due, Devices!kernel, Devices!shown
  <2>2. CASE tick = 0
    BY <1>0, <1>1, <2>1, <2>2, SinceTick DEF LagInv
  <2>3. CASE tick # 0
    BY <1>0, <1>1, <2>1, <2>3, SinceTick DEF LagInv
  <2> QED BY <2>2, <2>3
<1>6. ASSUME NEW ok \in BOOLEAN, Devices!Measure(ok) PROVE LagInv'
  <2>1. /\ step = "measuring" /\ step' = "publishing" /\ UNCHANGED <<tick, index, found, figure>>
        /\ measured' = ok
    BY <1>6 DEF Devices!Measure, Devices!kernel, Devices!shown
  <2>2. CASE ok
    <3>1. lag' = lag
      BY <1>6, <2>2 DEF Devices!Measure
    <3>2. DOMAIN own' = DeviceNames /\ \A d \in DeviceNames : own'[d] = figure[d]
      BY <1>0, <1>6, <2>1, <2>2
         DEF Devices!Measure, Devices!Spaces, Devices!Addresses, LagInv
    <3> QED BY <1>0, <1>1, <2>1, <2>2, <3>1, <3>2 DEF LagInv
  <2>3. CASE ~ok
    <3>1. \A d \in DeviceNames : lag'[d] = 0
      BY <1>6, <2>3 DEF Devices!Measure
    <3> QED BY <1>0, <1>1, <2>1, <2>3, <3>1, SinceTick DEF LagInv
  <2> QED BY <2>2, <2>3
<1>7. CASE Devices!Publish
  <2>1. /\ step = "publishing" /\ step' = "idle" /\ UNCHANGED <<tick, index, found, figure>>
        /\ \A d \in DeviceNames :
              /\ lag'[d] \in {0, lag[d] + 1}
              /\ measured /\ own[d] = figure[d] => lag'[d] = 0
    BY <1>0, <1>7 DEF Devices!Publish, Devices!Sampled, Devices!kernel
  <2>2. ASSUME NEW d \in DeviceNames PROVE lag'[d] <= Since(tick)
    BY <1>0, <1>1, <2>1 DEF LagInv
  <2> QED BY <1>0, <1>1, <2>1, <2>2 DEF LagInv
<1> QED BY <1>0, <1>2, <1>3, <1>4, <1>5, <1>6, <1>7
        DEF Devices!Next, Devices!Kernel, Devices!Collect

\* As long as devices stay and are not replaced by others of their name, a figure that
\* is taken now and then is wrong for no more ticks on end than lie between two times it is
\* taken, whatever changes while one is, and whether or not counters can be read.
THEOREM FiguresAreCaughtUp == Steady /\ SamplesSpec => []FiguresCatchUp
<1> SUFFICES ASSUME Steady PROVE SamplesSpec => []FiguresCatchUp
  OBVIOUS
<1> DEFINE Inv == DeviceType /\ LagInv
<1>1. SamplesInit => LagInv
  BY SpaceEveryAssumption DEF SamplesInit, Devices!Init, LagInv
<1>2. Inv /\ [SamplesNext]_samplesVars => Inv'
  BY DevicesOnly, DeviceTypeNext, LagNext DEF Steady
<1>3. LagInv => FiguresCatchUp
  BY DEF LagInv, FiguresCatchUp, Devices!FiguresCatchUp
<1> QED BY <1>1, <1>2, <1>3, DeviceTypeInit, PTL DEF SamplesSpec

----------------------------------------------------------------------------
(* Ring *)

RingInv ==
    /\ data \in [0 .. HistLen - 1 -> Values \cup {0}]
    /\ head \in 0 .. HistLen - 1
    /\ n \in 0 .. HistLen
    /\ n < HistLen => head = n
    /\ recent = [i \in 1 .. n |-> data[(head - n + (i - 1) + HistLen) % HistLen]]

\* The places of a full turn, from any of them on.
LEMMA Turn ==
    ASSUME NEW x \in 0 .. 2 * HistLen - 1
    PROVE  x % HistLen = IF x < HistLen THEN x ELSE x - HistLen
<1>1. HistLen \in Nat \ {0}
  BY HistLenAssumption
<1>2. CASE x < HistLen
  BY <1>1, <1>2
<1>3. CASE x >= HistLen
  <2>1. (x - HistLen) % HistLen = x - HistLen
    BY <1>1, <1>3
  <2>2. x = HistLen * 1 + (x - HistLen)
    BY <1>1
  <2> QED BY <1>1, <1>3, <2>1, <2>2
<1> QED BY <1>1, <1>2, <1>3

\* The place of the i-th of the valid samples, oldest first.
Place(i) == (head - n + (i - 1) + HistLen) % HistLen

LEMMA PlaceIs ==
    ASSUME RingInv, NEW i \in 1 .. n
    PROVE  /\ Place(i) \in 0 .. HistLen - 1
           /\ n < HistLen => Place(i) = i - 1
           /\ n = HistLen => Place(i) = IF head + i - 1 < HistLen THEN head + i - 1
                                        ELSE head + i - 1 - HistLen
<1>1. HistLen \in Nat \ {0} /\ head \in 0 .. HistLen - 1 /\ n \in 0 .. HistLen
  BY HistLenAssumption DEF RingInv
<1>2. CASE n < HistLen
  <2>1. head = n /\ head - n + (i - 1) + HistLen = HistLen + i - 1
    BY <1>1, <1>2 DEF RingInv
  <2>2. PICK x \in 0 .. 2 * HistLen - 1 : x = HistLen + i - 1
    BY <1>1, <1>2
  <2>3. x % HistLen = IF x < HistLen THEN x ELSE x - HistLen
    BY Turn
  <2>4. Place(i) = x % HistLen
    BY <2>1, <2>2 DEF Place
  <2> QED BY <1>1, <1>2, <2>2, <2>3, <2>4
<1>3. CASE n = HistLen
  <2>1. head - n + (i - 1) + HistLen = head + i - 1
    BY <1>1, <1>3
  <2>2. PICK x \in 0 .. 2 * HistLen - 1 : x = head + i - 1
    BY <1>1, <1>3
  <2>3. x % HistLen = IF x < HistLen THEN x ELSE x - HistLen
    BY Turn
  <2>4. Place(i) = x % HistLen
    BY <2>1, <2>2 DEF Place
  <2> QED BY <1>1, <1>3, <2>2, <2>3, <2>4
<1> QED BY <1>1, <1>2, <1>3

LEMMA RingNext ==
    ASSUME RingInv, Graph!Next \/ UNCHANGED graphVars
    PROVE  RingInv'
<1>1. HistLen \in Nat \ {0} /\ head \in 0 .. HistLen - 1 /\ n \in 0 .. HistLen
      /\ recent = [i \in 1 .. n |-> data[Place(i)]]
  BY HistLenAssumption DEF RingInv, Place
<1>2. CASE UNCHANGED graphVars
  BY <1>2 DEF RingInv, graphVars
<1>3. ASSUME NEW v \in Values, Graph!Push(v) PROVE RingInv'
  <2>1. head' = IF head + 1 < HistLen THEN head + 1 ELSE 0
    <3>1. PICK x \in 0 .. 2 * HistLen - 1 : x = head + 1
      BY <1>1
    <3>2. x % HistLen = IF x < HistLen THEN x ELSE x - HistLen
      BY Turn
    <3> QED BY <1>1, <1>3, <3>1, <3>2 DEF Graph!Push
  <2>2. /\ n' \in 0 .. HistLen /\ n' = IF n < HistLen THEN n + 1 ELSE n
        /\ n' < HistLen => head' = n'
    BY <1>1, <1>3, <2>1 DEF Graph!Push, RingInv
  <2>3. /\ data' \in [0 .. HistLen - 1 -> Values \cup {0}]
        /\ data'[head] = v /\ \A x \in (0 .. HistLen - 1) \ {head} : data'[x] = data[x]
    BY <1>1, <1>3 DEF Graph!Push, RingInv
  <2>4. \A i \in 1 .. n' : Place(i)' =
            IF n' < HistLen THEN i - 1
            ELSE IF head' + i - 1 < HistLen THEN head' + i - 1 ELSE head' + i - 1 - HistLen
    <3> SUFFICES ASSUME NEW i \in 1 .. n' PROVE Place(i)' =
            IF n' < HistLen THEN i - 1
            ELSE IF head' + i - 1 < HistLen THEN head' + i - 1 ELSE head' + i - 1 - HistLen
      OBVIOUS
    <3>1. head' - n' + (i - 1) + HistLen \in 0 .. 2 * HistLen - 1
      BY <1>1, <2>1, <2>2
    <3> DEFINE x == head' - n' + (i - 1) + HistLen
    <3>2. x % HistLen = IF x < HistLen THEN x ELSE x - HistLen
      BY <3>1, Turn
    <3>3. Place(i)' = x % HistLen
      BY DEF Place
    <3> QED BY <1>1, <2>1, <2>2, <3>2, <3>3
  <2>5. recent \in Seq(Values \cup {0}) /\ Len(recent) = n /\ DOMAIN recent = 1 .. n
    <3>1. \A i \in 1 .. n : data[Place(i)] \in Values \cup {0}
      BY PlaceIs DEF RingInv
    <3>2. recent \in [1 .. n -> Values \cup {0}]
      BY <1>1, <3>1
    <3> QED BY <1>1, <3>2
  <2>6. recent' = [i \in 1 .. n' |-> data'[Place(i)']]
    <3>1. CASE n < HistLen
      <4>1. recent' = [i \in 1 .. n + 1 |-> IF i = n + 1 THEN v ELSE recent[i]]
        <5>1. recent' = Append(recent, v)
          <6>1. Len(recent) # HistLen
            BY <1>1, <2>5, <3>1
          <6>2. recent' = IF Len(recent) = HistLen THEN Append(Tail(recent), v)
                                                   ELSE Append(recent, v)
            BY <1>3 DEF Graph!Push
          <6> QED BY ONLY <6>1, <6>2
        <5>2. /\ Append(recent, v) \in Seq(Values \cup {0}) /\ Len(Append(recent, v)) = n + 1
              /\ \A i \in 1 .. n + 1 : Append(recent, v)[i] = IF i = n + 1 THEN v ELSE recent[i]
          BY <1>1, <2>5
        <5> QED BY <1>1, <5>1, <5>2
      <4>2. ASSUME NEW i \in 1 .. n + 1
            PROVE  data'[Place(i)'] = IF i = n + 1 THEN v ELSE recent[i]
        <5>1. Place(i)' = i - 1
          <6>1. CASE n + 1 < HistLen
            BY <1>1, <2>2, <2>4, <3>1, <6>1
          <6>2. CASE n + 1 = HistLen
            <7>1. n' = HistLen /\ head = n /\ head' = 0
              BY <1>1, <2>1, <2>2, <3>1, <6>2 DEF RingInv
            <7> QED BY <1>1, <2>4, <6>2, <7>1
          <6> QED BY <1>1, <3>1, <6>1, <6>2
        <5>2. head = n
          BY <3>1 DEF RingInv
        <5> QED BY <1>1, <2>3, <3>1, <5>1, <5>2, PlaceIs
      <4>3. n' = n + 1
        BY <1>1, <2>2, <3>1
      <4>4. [i \in 1 .. n' |-> data'[Place(i)']]
                = [i \in 1 .. n + 1 |-> IF i = n + 1 THEN v ELSE recent[i]]
        BY ONLY <4>2, <4>3
      <4> QED BY ONLY <4>1, <4>4
    <3>2. CASE n = HistLen
      <4>1. recent' = [i \in 1 .. n |-> IF i = n THEN v ELSE recent[i + 1]]
        <5>1. recent' = Append(Tail(recent), v)
          <6>1. Len(recent) = HistLen
            BY <2>5, <3>2
          <6>2. recent' = IF Len(recent) = HistLen THEN Append(Tail(recent), v)
                                                   ELSE Append(recent, v)
            BY <1>3 DEF Graph!Push
          <6> QED BY ONLY <6>1, <6>2
        <5>2. /\ Tail(recent) \in Seq(Values \cup {0}) /\ Len(Tail(recent)) = n - 1
              /\ \A i \in 1 .. n - 1 : Tail(recent)[i] = recent[i + 1]
          BY <1>1, <2>5, <3>2, HeadTailProperties
        <5>3. /\ Append(Tail(recent), v) \in Seq(Values \cup {0})
              /\ Len(Append(Tail(recent), v)) = n
              /\ \A i \in 1 .. n : Append(Tail(recent), v)[i] = IF i = n THEN v
                                                               ELSE Tail(recent)[i]
          BY <1>1, <5>2
        <5>4. \A i \in 1 .. n : recent'[i] = IF i = n THEN v ELSE recent[i + 1]
          BY <1>1, <5>1, <5>2, <5>3
        <5>5. recent' \in [1 .. n -> Values \cup {0}]
          <6>1. /\ recent' \in [1 .. Len(recent') -> Values \cup {0}]
                /\ Len(recent') = n
            BY <5>1, <5>3, LenProperties
          <6> QED BY <6>1
        <5> QED BY <5>4, <5>5
      <4>2. ASSUME NEW i \in 1 .. n
            PROVE  data'[Place(i)'] = IF i = n THEN v ELSE recent[i + 1]
        <5>1. Place(i)' = IF head' + i - 1 < HistLen THEN head' + i - 1
                          ELSE head' + i - 1 - HistLen
          BY <1>1, <2>2, <2>4, <3>2
        <5>2. CASE i = n
          <6>1. Place(i)' = head
            BY <1>1, <2>1, <3>2, <5>1, <5>2
          <6> QED BY <2>3, <5>2, <6>1
        <5>3. CASE i # n
          <6>1. Place(i)' = Place(i + 1) /\ Place(i + 1) # head /\ Place(i + 1) \in 0 .. HistLen - 1
            BY <1>1, <2>1, <3>2, <5>1, <5>3, PlaceIs
          <6> QED BY <1>1, <2>3, <5>3, <6>1
        <5> QED BY <5>2, <5>3
      <4>3. n' = n
        BY <1>1, <2>2, <3>2
      <4>4. [i \in 1 .. n' |-> data'[Place(i)']]
                = [i \in 1 .. n |-> IF i = n THEN v ELSE recent[i + 1]]
        BY ONLY <4>2, <4>3
      <4> QED BY ONLY <4>1, <4>4
    <3> QED BY <1>1, <3>1, <3>2
  <2> QED BY <1>1, <2>1, <2>2, <2>3, <2>6 DEF RingInv, Place
<1> QED BY <1>2, <1>3 DEF Graph!Next

LEMMA GraphOnly == [SamplesNext]_samplesVars => Graph!Next \/ UNCHANGED graphVars
BY DEF SamplesNext, ScanMoves, DevicesMove, CPUMoves, GraphMoves, PickedMoves, samplesVars

\* A graph of any length holds the last samples, in their order, and is scaled by the
\* highest of them.
THEOREM GraphIsRecent == SamplesSpec => []RingIsLastSamples
<1>1. SamplesInit => RingInv
  BY HistLenAssumption DEF SamplesInit, Graph!Init, RingInv
<1>2. RingInv /\ [SamplesNext]_samplesVars => RingInv'
  BY RingNext, GraphOnly
<1>3. RingInv => RingIsLastSamples
  <2> SUFFICES ASSUME RingInv PROVE RingIsLastSamples
    OBVIOUS
  <2>0. HistLen \in Nat \ {0} /\ head \in 0 .. HistLen - 1 /\ n \in 0 .. HistLen
    BY HistLenAssumption DEF RingInv
  <2>1. Graph!ReadInto = recent
    BY DEF RingInv, Graph!ReadInto
  <2>2. {data[x] : x \in 0 .. n - 1} = {recent[i] : i \in DOMAIN recent}
    <3>1. DOMAIN recent = 1 .. n /\ \A i \in 1 .. n : recent[i] = data[Place(i)]
      BY <2>0 DEF RingInv, Place
    <3>2. ASSUME NEW i \in 1 .. n PROVE Place(i) \in 0 .. n - 1
      BY <2>0, PlaceIs
    <3>3. ASSUME NEW x \in 0 .. n - 1 PROVE \E i \in 1 .. n : Place(i) = x
      <4>1. CASE n < HistLen
        <5>1. x + 1 \in 1 .. n /\ Place(x + 1) = x
          BY <2>0, <4>1, PlaceIs
        <5> QED BY <5>1
      <4>2. CASE n = HistLen /\ x >= head
        <5>1. x - head + 1 \in 1 .. n
          BY <2>0, <4>2
        <5>2. Place(x - head + 1) = x
          BY <2>0, <4>2, <5>1, PlaceIs
        <5> QED BY <5>1, <5>2
      <4>3. CASE n = HistLen /\ x < head
        <5>1. x - head + 1 + HistLen \in 1 .. n
          BY <2>0, <4>3
        <5>2. Place(x - head + 1 + HistLen) = x
          BY <2>0, <4>3, <5>1, PlaceIs
        <5> QED BY <5>1, <5>2
      <4> QED BY <2>0, <4>1, <4>2, <4>3
    <3> QED BY <3>1, <3>2, <3>3
  <2> QED BY <2>1, <2>2 DEF RingIsLastSamples, Graph!RingIsLastSamples, Graph!Highest
<1> QED BY <1>1, <1>2, <1>3, PTL DEF SamplesSpec

----------------------------------------------------------------------------
(* Identity *)

\* A number is used again neither between a scan and what looks it up, nor between
\* a check and the signal.
Quiet == Permitted \cap {"quick", "race"} = {}

Begins(p) == table[p].start
Choosing  == menu = "open"
Acting    == menu = "acting"

TableInv ==
    /\ starts \in Nat
    /\ table \in [Numbers -> {[start |-> 0]} \cup
                    [start : 1 .. starts, name : Programs, busy : BOOLEAN, nice : BOOLEAN]]
    /\ \A p \in DOMAIN lastScan : p \in Numbers /\ lastScan[p].start \in 1 .. starts
    /\ \A p \in DOMAIN lastSnap : p \in Numbers /\ lastSnap[p].start \in 1 .. starts

\* Those meant have been, and each one there still is going to be acted on, or has been.
MenuInv ==
    /\ menu \in {"closed", "open", "acting"}
    /\ meant \subseteq [pid : Numbers, start : 1 .. starts]
    /\ ~Acting => touched = {} /\ checked = Picked!NoIdent
    /\ menu = "closed" => targets = {} /\ meant = {}
    /\ checked # Picked!NoIdent => checked \in meant /\ Begins(checked.pid) \in {0, checked.start}
    /\ touched \subseteq meant
    /\ Choosing =>
        /\ target.start # 0 => target \in meant
        /\ \A t \in targets : t.start # 0 => t \in meant
        /\ \A m \in meant : Begins(m.pid) = m.start =>
                /\ targets = {} => m = target
                /\ targets # {} => m \in targets
                /\ m.pid = target.pid => m = target
    /\ Acting =>
        /\ \A t \in targets : t.start # 0 => t \in meant
        /\ \A m \in meant : Begins(m.pid) = m.start =>
                m \in touched \cup targets \cup {checked}

LEMMA PickedOnly == [SamplesNext]_samplesVars => Picked!Next \/ UNCHANGED pickedVars
BY DEF SamplesNext, ScanMoves, DevicesMove, CPUMoves, GraphMoves, PickedMoves, samplesVars

Processes(last) ==
    [start : 1 .. last, name : Programs, busy : BOOLEAN, nice : BOOLEAN]

LEMMA ProcessFacts ==
    ASSUME TableInv
    PROVE  /\ starts \in Nat /\ Picked!None = [start |-> 0]
           /\ \A p \in Picked!Running : p \in Numbers /\ table[p] \in Processes(starts)
           /\ \A p \in Picked!Running : Begins(p) \in 1 .. starts
           /\ \A p \in Numbers \ Picked!Running : Begins(p) = 0
           /\ \A p \in Numbers : Begins(p) \in 0 .. starts
<1>1. /\ starts \in Nat /\ Picked!None = [start |-> 0]
      /\ \A p \in Numbers : table[p] = Picked!None \/ table[p] \in Processes(starts)
  BY DEF TableInv, Processes, Picked!None
<1>2. \A p \in Picked!Running : p \in Numbers /\ table[p] \in Processes(starts)
  BY <1>1 DEF Picked!Running
<1>3. \A p \in Picked!Running : Begins(p) \in 1 .. starts
  BY <1>2 DEF Processes, Begins
<1>4. \A p \in Numbers \ Picked!Running : Begins(p) = 0
  BY <1>1 DEF Picked!Running, Begins
<1> QED BY <1>1, <1>2, <1>3, <1>4

\* What becomes of the numbers: one is given up, or taken by a process that begins now.
LEMMA TableNext ==
    ASSUME TableInv, Picked!Next \/ UNCHANGED pickedVars
    PROVE  /\ TableInv'
           /\ starts' \in Nat /\ starts <= starts'
           /\ \A p \in Numbers : Begins(p)' \in {Begins(p), 0, starts + 1}
<1>0. /\ starts \in Nat /\ table \in [Numbers -> {[start |-> 0]} \cup Processes(starts)]
      /\ Picked!None = [start |-> 0]
      /\ \A p \in Picked!Running : p \in Numbers /\ table[p] \in Processes(starts)
      /\ \A p \in Picked!Running : Begins(p) \in 1 .. starts
      /\ \A p \in DOMAIN lastScan : p \in Numbers /\ lastScan[p].start \in 1 .. starts
      /\ \A p \in DOMAIN lastSnap : p \in Numbers /\ lastSnap[p].start \in 1 .. starts
  BY ProcessFacts DEF TableInv, Processes
<1>1. ASSUME NEW p \in Numbers, Picked!Spawn(p)
      PROVE  /\ starts' = starts + 1 /\ UNCHANGED <<lastScan, lastSnap>>
             /\ table' \in [Numbers -> {[start |-> 0]} \cup Processes(starts + 1)]
             /\ \A q \in Numbers : Begins(q)' \in {Begins(q), starts + 1}
  <2>1. PICK name \in Programs, b \in BOOLEAN :
            table' = [table EXCEPT ![p] =
                        [start |-> starts + 1, name |-> name, busy |-> b, nice |-> FALSE]]
    BY <1>1 DEF Picked!Spawn
  <2>2. [start |-> starts + 1, name |-> name, busy |-> b, nice |-> FALSE]
            \in Processes(starts + 1)
    BY <1>0 DEF Processes
  <2>3. Processes(starts) \subseteq Processes(starts + 1)
    BY <1>0 DEF Processes
  <2>4. \A q \in Numbers : Begins(q)' \in {Begins(q), starts + 1}
    BY <1>0, <2>1 DEF Begins
  <2>5. table' \in [Numbers -> {[start |-> 0]} \cup Processes(starts + 1)]
    BY <1>0, <2>1, <2>2, <2>3
  <2> QED BY <1>1, <2>4, <2>5 DEF Picked!Spawn, Picked!apps
<1>2. ASSUME NEW p \in Numbers, Picked!Exit(p)
      PROVE  /\ starts' = starts /\ UNCHANGED <<lastScan, lastSnap>>
             /\ table' \in [Numbers -> {[start |-> 0]} \cup Processes(starts)]
             /\ \A q \in Numbers : Begins(q)' \in {Begins(q), 0}
  BY <1>0, <1>2 DEF Picked!Exit, Picked!apps, Begins
<1>3. ASSUME NEW p \in Numbers, Picked!EaseOff(p)
      PROVE  /\ starts' = starts /\ UNCHANGED <<lastScan, lastSnap>>
             /\ table' \in [Numbers -> {[start |-> 0]} \cup Processes(starts)]
             /\ \A q \in Numbers : Begins(q)' = Begins(q)
  <2>1. table' = [table EXCEPT ![p] = [table[p] EXCEPT !.nice = TRUE]]
    BY <1>3 DEF Picked!EaseOff
  <2>2. /\ table[p] \in Processes(starts)
        /\ [table[p] EXCEPT !.nice = TRUE] \in Processes(starts)
        /\ [table[p] EXCEPT !.nice = TRUE].start = table[p].start
    BY <1>0, <1>3 DEF Picked!EaseOff, Processes
  <2>3. \A q \in Numbers : Begins(q)' = Begins(q)
    BY <1>0, <2>1, <2>2 DEF Begins
  <2>4. table' \in [Numbers -> {[start |-> 0]} \cup Processes(starts)]
    BY <1>0, <2>1, <2>2
  <2> QED BY <1>3, <2>3, <2>4 DEF Picked!EaseOff, Picked!apps
<1>4. CASE Picked!Scan
  <2>1. /\ UNCHANGED <<starts, table, lastSnap>>
        /\ lastScan' = [p \in Picked!Running |-> table[p]]
    BY <1>4 DEF Picked!Scan, Picked!machine, Picked!apps
  <2>2. \A p \in DOMAIN lastScan' : p \in Numbers /\ lastScan'[p].start \in 1 .. starts
    BY <1>0, <2>1 DEF Begins
  <2> QED BY <1>0, <2>1, <2>2 DEF TableInv, Begins, Processes
<1>5. CASE Picked!Menu \/ (\E m \in BOOLEAN : Picked!UpdateOthers(m)) \/ UNCHANGED pickedVars
  <2>1. UNCHANGED <<starts, table, lastScan>> /\ lastSnap' \in {lastSnap, lastScan}
    BY <1>5 DEF Picked!Menu, Picked!UpdateApps, Picked!Group, Picked!PressRow,
                Picked!CloseMenu, Picked!Act, Picked!OpenLocation, Picked!Check, Picked!Carry,
                Picked!Done, Picked!UpdateOthers, Picked!machine, Picked!apps, pickedVars
  <2> QED BY <1>0, <2>1 DEF TableInv, Begins, Processes
<1>6. ASSUME starts' \in {starts, starts + 1}, UNCHANGED <<lastScan, lastSnap>>,
             table' \in [Numbers -> {[start |-> 0]} \cup Processes(starts')]
      PROVE  TableInv' /\ starts' \in Nat /\ starts <= starts'
  BY <1>0, <1>6 DEF TableInv, Processes
<1>7. ASSUME NEW p \in Numbers, Picked!Spawn(p) \/ Picked!Exit(p) \/ Picked!EaseOff(p)
      PROVE  /\ TableInv' /\ starts' \in Nat /\ starts <= starts'
             /\ \A q \in Numbers : Begins(q)' \in {Begins(q), 0, starts + 1}
  BY <1>1, <1>2, <1>3, <1>6, <1>7
<1> QED BY <1>4, <1>5, <1>7 DEF Picked!Next, Picked!Energy

\* A process that was meant and has ended does not come back.
LEMMA MenuQuiet ==
    ASSUME Quiet, TableInv, MenuInv,
           (\E p \in Numbers : Picked!Spawn(p) \/ Picked!Exit(p)) \/ Picked!Scan
                \/ Picked!Energy \/ UNCHANGED pickedVars
    PROVE  MenuInv'
<1>1. UNCHANGED <<menu, target, targets, checked, meant, touched>>
  BY DEF Picked!Spawn, Picked!Exit, Picked!Scan, Picked!Energy, Picked!UpdateOthers,
         Picked!EaseOff, Picked!apps, Picked!history, pickedVars
<1>2. starts \in Nat /\ starts' \in Nat /\ starts <= starts'
  <2>1. Picked!Next \/ UNCHANGED pickedVars
    BY DEF Picked!Next
  <2> QED BY <2>1, TableNext DEF TableInv
<1>3. \A p \in Numbers : Begins(p)' \in {Begins(p), 0, starts + 1}
  <2>1. Picked!Next \/ UNCHANGED pickedVars
    BY DEF Picked!Next
  <2> QED BY <2>1, TableNext
<1>4. \A m \in meant : /\ m.pid \in Numbers /\ m.start \in 1 .. starts /\ m.start \in 1 .. starts'
                       /\ Begins(m.pid)' = m.start => Begins(m.pid) = m.start
  BY <1>2, <1>3 DEF MenuInv
<1>6. meant \subseteq [pid : Numbers, start : 1 .. starts']
  BY <1>2 DEF MenuInv
<1>7. ASSUME checked # Picked!NoIdent
      PROVE  checked \in meant /\ Begins(checked.pid)' \in {0, checked.start}
  <2>1. /\ checked \in meant /\ checked.pid \in Numbers
        /\ Begins(checked.pid) \in {0, checked.start}
    BY <1>4, <1>7 DEF MenuInv
  <2>2. CASE UNCHANGED table
    BY <1>1, <2>1, <2>2 DEF Begins
  <2>3. ASSUME NEW p \in Numbers, Picked!Exit(p)
        PROVE  Begins(checked.pid)' \in {0, Begins(checked.pid)}
    BY <1>1, <2>1, <2>3, ProcessFacts DEF Picked!Exit, Begins, TableInv
  <2>4. ASSUME NEW p \in Numbers, Picked!EaseOff(p)
        PROVE  Begins(checked.pid)' = Begins(checked.pid)
    <3>1. table' = [table EXCEPT ![p] = [table[p] EXCEPT !.nice = TRUE]]
      BY <2>4 DEF Picked!EaseOff
    <3>2. [table[p] EXCEPT !.nice = TRUE].start = table[p].start
      BY <2>4, ProcessFacts DEF Picked!EaseOff, Processes
    <3> QED BY <1>1, <2>1, <3>1, <3>2 DEF Begins, TableInv
  <2>5. \A p \in Numbers : ~Picked!Spawn(p)
    BY <1>7 DEF Picked!Spawn, Picked!Between, Quiet
  <2> QED BY <2>1, <2>2, <2>3, <2>4, <2>5
          DEF Picked!Scan, Picked!Energy, Picked!UpdateOthers, Picked!machine, pickedVars
<1>5. UNCHANGED <<Picked!NoIdent, Choosing, Acting>>
  BY <1>1 DEF Choosing, Acting, Picked!NoIdent
<1> QED BY <1>1, <1>4, <1>5, <1>6, <1>7 DEF MenuInv

LEMMA MenuOpens ==
    ASSUME Quiet, TableInv, MenuInv, NEW p \in Numbers, Picked!PressRow(p)
    PROVE  MenuInv'
<1>1. /\ menu = "closed" /\ menu' = "open" /\ p \in DOMAIN lastSnap
      /\ target' = [pid |-> p, start |-> Begins(p)]
      /\ touched' = {} /\ UNCHANGED <<checked, starts, table>>
      /\ targets' = IF grouped THEN {[pid |-> q, start |-> Begins(q)] : q \in Picked!MembersOf(p)}
                    ELSE {}
      /\ meant' = {[pid |-> q, start |-> lastSnap[q].start] : q \in Picked!MembersOf(p)}
  BY DEF Picked!PressRow, Picked!machine, Picked!IdentOf, Picked!StartTime, Begins
<1>2. /\ p \in Picked!MembersOf(p) /\ Picked!MembersOf(p) \subseteq DOMAIN lastSnap
      /\ ~grouped => Picked!MembersOf(p) = {p}
  BY <1>1 DEF Picked!MembersOf
<1>3. \A q \in Picked!MembersOf(p) :
          /\ q \in Numbers /\ lastSnap[q].start \in 1 .. starts
          /\ Begins(q) = 0 \/ Begins(q) = lastSnap[q].start
  BY <1>2, ProcessFacts
     DEF TableInv, Picked!PressRow, Picked!NotTakenSince, Quiet, Picked!StartTime, Begins
<1>4. starts \in Nat
  BY DEF TableInv
<1>5. /\ \A m \in meant' : m.pid \in Numbers /\ m.start \in 1 .. starts
      /\ meant' \subseteq [pid : Numbers, start : 1 .. starts]
      /\ target'.start # 0 => target' \in meant'
      /\ \A t \in targets' : t.start # 0 => t \in meant'
  BY <1>1, <1>2, <1>3
<1>6. ASSUME NEW m \in meant', Begins(m.pid) = m.start
      PROVE  /\ targets' = {} => m = target'
             /\ targets' # {} => m \in targets'
             /\ m.pid = target'.pid => m = target'
  <2>1. PICK q \in Picked!MembersOf(p) : m = [pid |-> q, start |-> lastSnap[q].start]
    BY <1>1
  <2>2. m = [pid |-> q, start |-> Begins(q)]
    BY <1>6, <2>1
  <2>3. CASE grouped
    BY <1>1, <1>2, <2>2, <2>3
  <2>4. CASE ~grouped
    BY <1>1, <1>2, <2>2, <2>4
  <2> QED BY <2>3, <2>4
<1>7. /\ ~Acting' /\ Choosing' /\ ~Acting
      /\ Picked!NoIdent' = Picked!NoIdent /\ \A q \in Numbers : Begins(q)' = Begins(q)
  BY <1>1 DEF Acting, Choosing, Picked!NoIdent, Begins
<1>8. \A m \in meant' : Begins(m.pid)' = m.start => Begins(m.pid) = m.start
  BY <1>5, <1>7
<1>9. checked' = Picked!NoIdent
  BY <1>1, <1>7 DEF MenuInv
<1> QED BY <1>1, <1>5, <1>6, <1>7, <1>8, <1>9 DEF MenuInv

LEMMA MenuActs ==
    ASSUME Quiet, TableInv, MenuInv,
           \/ Picked!UpdateApps \/ Picked!Group \/ Picked!CloseMenu \/ Picked!Act
           \/ Picked!OpenLocation \/ Picked!Carry \/ Picked!Done
           \/ \E id \in targets : Picked!Check(id)
    PROVE  MenuInv'
<1> DEFINE alive(m) == Begins(m.pid) = m.start
<1>1. /\ UNCHANGED <<starts, table>> /\ UNCHANGED Picked!NoIdent
      /\ \A p : Begins(p)' = Begins(p)
      /\ starts \in Nat
  BY DEF Picked!UpdateApps, Picked!Group, Picked!CloseMenu, Picked!Act, Picked!OpenLocation,
         Picked!Check, Picked!Carry, Picked!Done, Picked!machine, Begins, TableInv,
         Picked!NoIdent
<1>2. CASE Picked!UpdateApps \/ Picked!Group
  <2>1. UNCHANGED <<menu, target, targets, checked, meant, touched>>
    BY <1>2 DEF Picked!UpdateApps, Picked!Group, Picked!history
  <2> QED BY <1>1, <2>1 DEF MenuInv, Choosing, Acting
<1>3. CASE Picked!CloseMenu
  <2>1. /\ menu = "open" /\ menu' = "closed" /\ targets' = {} /\ meant' = {}
        /\ UNCHANGED <<touched, checked>>
    BY <1>3 DEF Picked!CloseMenu
  <2> QED BY <1>1, <2>1 DEF MenuInv, Choosing, Acting
<1>4. CASE Picked!Done
  <2>1. /\ menu' = "closed" /\ targets' = {} /\ meant' = {} /\ touched' = {}
        /\ checked' = Picked!NoIdent
    BY <1>4 DEF Picked!Done, Picked!Between
  <2> QED BY <1>1, <2>1 DEF MenuInv, Choosing, Acting
<1>5. CASE Picked!Act
  <2>1. /\ menu = "open" /\ menu' = "acting" /\ UNCHANGED <<checked, touched, meant>>
        /\ targets' = IF targets = {} THEN {target} ELSE targets
    BY <1>5 DEF Picked!Act, Picked!history
  <2>2. /\ Choosing /\ ~Acting /\ ~Choosing' /\ Acting'
    BY <2>1 DEF Choosing, Acting
  <2>3. /\ \A t \in targets' : t.start # 0 => t \in meant
        /\ \A m \in meant : alive(m) => m \in targets'
    BY <2>1, <2>2 DEF MenuInv
  <2> QED BY <1>1, <2>1, <2>2, <2>3 DEF MenuInv
<1>6. CASE Picked!OpenLocation
  <2>1. /\ menu = "open" /\ menu' = "acting" /\ UNCHANGED <<checked, touched>>
        /\ targets' = {target} /\ meant' = {m \in meant : m.pid = target.pid}
    BY <1>6 DEF Picked!OpenLocation
  <2>2. /\ Choosing /\ ~Acting /\ ~Choosing' /\ Acting'
        /\ touched = {} /\ checked = Picked!NoIdent
    BY <2>1 DEF Choosing, Acting, MenuInv
  <2>3. /\ \A t \in targets' : t.start # 0 => t \in meant'
        /\ \A m \in meant' : alive(m) => m \in targets'
        /\ meant' \subseteq meant
    BY <2>1, <2>2 DEF MenuInv
  <2> QED BY <1>1, <2>1, <2>2, <2>3 DEF MenuInv
<1>7. ASSUME NEW id \in targets, Picked!Check(id) PROVE MenuInv'
  <2>1. /\ Acting /\ Acting' /\ ~Choosing' /\ checked = Picked!NoIdent
        /\ UNCHANGED <<menu, meant, touched>> /\ targets' = targets \ {id}
        /\ \/ checked' = id /\ id.start # 0 /\ alive(id)
           \/ checked' = Picked!NoIdent /\ ~(id.start # 0 /\ alive(id))
    BY <1>7 DEF Picked!Check, Picked!Between, Picked!Same, Picked!StartTime, Begins, Acting,
                Choosing, Picked!history
  <2>2. /\ Picked!NoIdent.start = 0 /\ Picked!NoIdent \notin meant
    BY <1>1 DEF MenuInv, Picked!NoIdent
  <2>3. ASSUME NEW m \in meant, alive(m) PROVE m \in touched \cup targets' \cup {checked'}
    <3>1. m \in touched \cup targets /\ m.start # 0
      BY <1>1, <2>1, <2>2, <2>3 DEF MenuInv
    <3> QED BY <2>1, <2>3, <3>1
  <2>4. checked' # Picked!NoIdent => checked' \in meant /\ Begins(checked'.pid) = checked'.start
    BY <2>1 DEF MenuInv
  <2> QED BY <1>1, <2>1, <2>3, <2>4 DEF MenuInv
<1>8. CASE Picked!Carry
  <2>1. /\ checked # Picked!NoIdent /\ checked' = Picked!NoIdent
        /\ UNCHANGED <<menu, target, targets, meant>>
        /\ touched' = IF checked.pid \in Picked!Running
                      THEN touched \cup {[pid |-> checked.pid, start |-> Begins(checked.pid)]}
                      ELSE touched
    BY <1>8 DEF Picked!Carry, Picked!Between, Picked!IdentOf, Picked!StartTime, Begins
  <2>2. /\ Acting /\ Acting' /\ ~Choosing'
        /\ checked \in meant /\ Begins(checked.pid) \in {0, checked.start}
        /\ checked.pid \in Numbers /\ checked.start \in 1 .. starts
        /\ checked = [pid |-> checked.pid, start |-> checked.start]
    BY <2>1 DEF MenuInv, Acting, Choosing
  <2>3. touched' = IF Begins(checked.pid) = checked.start THEN touched \cup {checked} ELSE touched
    BY <2>1, <2>2, ProcessFacts
  <2>4. /\ touched' \subseteq meant
        /\ \A m \in meant : alive(m) => m \in touched' \cup targets
    BY <2>2, <2>3 DEF MenuInv
  <2> QED BY <1>1, <2>1, <2>2, <2>4 DEF MenuInv
<1> QED BY <1>2, <1>3, <1>4, <1>5, <1>6, <1>7, <1>8

LEMMA MenuNext ==
    ASSUME Quiet, TableInv, MenuInv, Picked!Next \/ UNCHANGED pickedVars
    PROVE  MenuInv'
BY MenuQuiet, MenuOpens, MenuActs DEF Picked!Next, Picked!Menu

\* Unless a number is used again between a scan and the menu, or between the check and
\* the signal: what is chosen is carried out on the processes the row stood for, on no
\* others, and on all of them still there, though they end, and their numbers are taken,
\* while the menu is open and while it acts.
THEOREM MenuActsOnWhatWasMeant == Quiet /\ SamplesSpec => []SignalsWhatWasMeant
<1> SUFFICES ASSUME Quiet PROVE SamplesSpec => []SignalsWhatWasMeant
  OBVIOUS
<1> DEFINE Inv == TableInv /\ MenuInv
<1>1. SamplesInit => Inv
  <2> SUFFICES ASSUME Picked!Init PROVE TableInv /\ MenuInv
    BY DEF SamplesInit
  <2>1. TableInv
    BY DEF Picked!Init, TableInv, Picked!None, Picked!NoRows
  <2>2. MenuInv
    BY DEF Picked!Init, MenuInv, Choosing, Acting
  <2> QED BY <2>1, <2>2
<1>2. Inv /\ [SamplesNext]_samplesVars => Inv'
  BY PickedOnly, TableNext, MenuNext
<1>3. Inv => SignalsWhatWasMeant
  <2> SUFFICES ASSUME TableInv, MenuInv PROVE SignalsWhatWasMeant
    OBVIOUS
  <2>1. ASSUME menu = "acting", targets = {}, checked = Picked!NoIdent,
               NEW m \in meant, Begins(m.pid) = m.start
        PROVE  m \in touched
    <3>1. m \in touched \cup {checked} /\ m.start # 0
      BY <2>1 DEF MenuInv, Acting, TableInv
    <3> QED BY <2>1, <3>1 DEF Picked!NoIdent
  <2> QED BY <2>1 DEF SignalsWhatWasMeant, Picked!SignalsWhatWasMeant, Picked!Between,
                      Picked!StartTime, Begins, MenuInv
<1> QED BY <1>1, <1>2, <1>3, PTL DEF SamplesSpec

----------------------------------------------------------------------------
(* Processor: the sum over the cores.                                       *)

\* The ticks of every core, each with its core.
Ticks(time) == UNION {{c} \X (1 .. time[c]) : c \in CoreNumbers}

LEMMA SumIs ==
    ASSUME NEW time
    PROVE  CPU!OfAll(time) = Cardinality(Ticks(time))
BY Zenon DEF CPU!OfAll, Ticks, CPU!Cardinality, Cardinality

LEMMA CountIs ==
    ASSUME NEW S
    PROVE  CPU!Cardinality(S) = Cardinality(S)
BY Zenon DEF CPU!Cardinality, Cardinality

LEMMA TicksAre ==
    ASSUME NEW time \in [CoreNumbers -> Nat]
    PROVE  /\ IsFiniteSet(Ticks(time)) /\ Cardinality(Ticks(time)) \in Nat
           /\ \A c, k : <<c, k>> \in Ticks(time) <=> c \in CoreNumbers /\ k \in 1 .. time[c]
           /\ \A p \in Ticks(time) : \E c, k : p = <<c, k>>
<1> DEFINE Of(c) == {c} \X (1 .. time[c])
           U == {Of(c) : c \in CoreNumbers}
<1>1. \A T \in U : IsFiniteSet(T)
  <2> SUFFICES ASSUME NEW c \in CoreNumbers  PROVE IsFiniteSet(Of(c))
    OBVIOUS
  <2> PICK k \in Nat : k = time[c]
    OBVIOUS
  <2>1. IsFiniteSet(1 .. k)
    BY ONLY k \in Nat, FS_Interval
  <2>2. IsFiniteSet({c})
    BY ONLY FS_Singleton
  <2> QED  BY <2>1, <2>2, FS_Product
<1>2. IsFiniteSet(U)
  <2> DEFINE f == [c \in CoreNumbers |-> Of(c)]
  <2>1. f \in Surjection(CoreNumbers, U)
    <3> HIDE DEF Of
    <3> QED  BY DEF Surjection
  <2> HIDE DEF f, U
  <2> QED  BY <2>1, CoreNumbersAssumption, FS_Surjection
<1>3. IsFiniteSet(UNION U)
  <2> HIDE DEF U
  <2> QED  BY <1>1, <1>2, FS_UNION
<1>4. Ticks(time) = UNION U
  BY DEF Ticks
<1>5. \A c, k : <<c, k>> \in Ticks(time) <=> c \in CoreNumbers /\ k \in 1 .. time[c]
  BY DEF Ticks
<1>6. \A p \in Ticks(time) : \E c, k : p = <<c, k>>
  BY DEF Ticks
<1> HIDE DEF U
<1> QED  BY <1>3, <1>4, <1>5, <1>6, FS_CardinalityType

\* Of some of the cores one tick more.
LEMMA OneMore ==
    ASSUME NEW f \in [CoreNumbers -> Nat], NEW g \in [CoreNumbers -> Nat],
           NEW S \in SUBSET CoreNumbers,
           \A c \in CoreNumbers : g[c] = f[c] + IF c \in S THEN 1 ELSE 0
    PROVE  /\ Cardinality(S) \in Nat
           /\ Cardinality(Ticks(g)) = Cardinality(Ticks(f)) + Cardinality(S)
<1> DEFINE T == {<<c, g[c]>> : c \in S}
           h == [c \in S |-> <<c, g[c]>>]
<1>1. IsFiniteSet(S) /\ Cardinality(S) \in Nat
  BY CoreNumbersAssumption, FS_Subset, FS_CardinalityType
<1>2. h \in Bijection(S, T)
  <2>1. h \in [S -> T] /\ \A c, d \in S : h[c] = h[d] => c = d
    OBVIOUS
  <2>2. \A t \in T : \E c \in S : h[c] = t
    OBVIOUS
  <2> HIDE DEF h, T
  <2> QED  BY <2>1, <2>2 DEF Bijection, Injection, Surjection, IsInjective
<1>3. IsFiniteSet(T) /\ Cardinality(T) = Cardinality(S)
  <2> HIDE DEF h, T
  <2>1. ExistsBijection(S, T)
    BY <1>2 DEF ExistsBijection
  <2> QED  BY <1>1, <2>1, FS_Bijection
<1>4. Ticks(g) = Ticks(f) \union T
  <2>1. ASSUME NEW p \in Ticks(g)  PROVE p \in Ticks(f) \union T
    <3>1. PICK c, k : p = <<c, k>> /\ c \in CoreNumbers /\ k \in 1 .. g[c]
      BY TicksAre
    <3>2. CASE k \in 1 .. f[c]
      BY <3>1, <3>2, TicksAre
    <3>3. CASE k \notin 1 .. f[c]
      <4>1. c \in S /\ k = g[c]
        BY <3>1, <3>3
      <4> QED  BY <3>1, <4>1
    <3> QED  BY <3>2, <3>3
  <2>2. ASSUME NEW p \in Ticks(f)  PROVE p \in Ticks(g)
    <3>1. PICK c, k : p = <<c, k>> /\ c \in CoreNumbers /\ k \in 1 .. f[c]
      BY TicksAre
    <3>2. k \in 1 .. g[c]
      BY <3>1
    <3> QED  BY <3>1, <3>2, TicksAre
  <2>3. ASSUME NEW c \in S  PROVE <<c, g[c]>> \in Ticks(g)
    <3>1. c \in CoreNumbers /\ g[c] \in 1 .. g[c]
      OBVIOUS
    <3> QED  BY <3>1, TicksAre
  <2> QED  BY <2>1, <2>2, <2>3
<1>5. Ticks(f) \cap T = {}
  <2> SUFFICES ASSUME NEW c \in S, <<c, g[c]>> \in Ticks(f)  PROVE FALSE
    OBVIOUS
  <2>1. g[c] \in 1 .. f[c] /\ g[c] = f[c] + 1
    BY TicksAre
  <2> QED  BY <2>1
<1>6. /\ IsFiniteSet(Ticks(f)) /\ Cardinality(Ticks(f)) \in Nat
  BY TicksAre
<1>7. Cardinality(Ticks(f) \cap T) = 0
  BY <1>5, FS_EmptySet
<1> HIDE DEF T
<1>8. Cardinality(Ticks(f) \union T) = Cardinality(Ticks(f)) + Cardinality(T) - Cardinality(Ticks(f) \cap T)
  BY <1>3, <1>6, FS_Union
<1> QED  BY <1>1, <1>3, <1>4, <1>6, <1>7, <1>8

\* Of one core some ticks less.
LEMMA SomeLess ==
    ASSUME NEW f \in [CoreNumbers -> Nat], NEW g \in [CoreNumbers -> Nat],
           NEW c \in CoreNumbers, NEW lost \in 1 .. f[c],
           \A d \in CoreNumbers : g[d] = IF d = c THEN f[c] - lost ELSE f[d]
    PROVE  Cardinality(Ticks(g)) = Cardinality(Ticks(f)) - lost
<1> PICK n1, n2 \in Nat : n1 = f[c] /\ n2 = f[c] - lost
  OBVIOUS
<1>1. n2 < n1 /\ lost = n1 - n2 /\ lost \in Nat
  OBVIOUS
<1>2. \A d \in CoreNumbers : g[d] = IF d = c THEN n2 ELSE f[d]
  OBVIOUS
<1> DEFINE T == {c} \X (n2 + 1 .. n1)
<1>3. IsFiniteSet(T) /\ Cardinality(T) = lost
  <2>1. IsFiniteSet({c}) /\ Cardinality({c}) = 1
    BY FS_Singleton
  <2>2. IsFiniteSet(n2 + 1 .. n1) /\ Cardinality(n2 + 1 .. n1) = lost
    <3> PICK b \in Int : b = n2 + 1
      OBVIOUS
    <3>1. /\ IsFiniteSet(b .. n1)
          /\ Cardinality(b .. n1) = IF b > n1 THEN 0 ELSE n1 - b + 1
      BY ONLY b \in Int, n1 \in Int, FS_Interval
    <3>2. (IF b > n1 THEN 0 ELSE n1 - b + 1) = lost
      BY <1>1
    <3> QED  BY <3>1, <3>2
  <2>3. IsFiniteSet(T) /\ Cardinality(T) = Cardinality({c}) * Cardinality(n2 + 1 .. n1)
    BY <2>1, <2>2, FS_Product
  <2> QED  BY <1>1, <2>1, <2>2, <2>3
<1>4. Ticks(f) = Ticks(g) \union T
  <2>1. ASSUME NEW p \in Ticks(f)  PROVE p \in Ticks(g) \union T
    <3>1. PICK d, k : p = <<d, k>> /\ d \in CoreNumbers /\ k \in 1 .. f[d]
      BY TicksAre
    <3>2. CASE d = c /\ ~(k <= n2)
      <4>1. k \in n2 + 1 .. n1
        BY <3>1, <3>2
      <4> QED  BY <3>1, <3>2, <4>1
    <3>3. CASE ~(d = c /\ ~(k <= n2))
      <4>1. k \in 1 .. g[d]
        BY <1>2, <3>1, <3>3
      <4> QED  BY <1>2, <3>1, <4>1, TicksAre
    <3> QED  BY <3>2, <3>3
  <2>2. ASSUME NEW p \in Ticks(g)  PROVE p \in Ticks(f)
    <3>1. PICK d, k : p = <<d, k>> /\ d \in CoreNumbers /\ k \in 1 .. g[d]
      BY TicksAre
    <3>2. k \in 1 .. f[d]
      <4>1. CASE d = c
        BY <1>1, <1>2, <3>1, <4>1
      <4>2. CASE d # c
        BY <1>2, <3>1, <4>2
      <4> QED  BY <4>1, <4>2
    <3> QED  BY <3>1, <3>2, TicksAre
  <2>3. ASSUME NEW k \in n2 + 1 .. n1  PROVE <<c, k>> \in Ticks(f)
    <3>1. k \in 1 .. f[c]
      OBVIOUS
    <3> QED  BY <3>1, TicksAre
  <2> QED  BY <2>1, <2>2, <2>3
<1>5. Ticks(g) \cap T = {}
  <2> SUFFICES ASSUME NEW k \in n2 + 1 .. n1, <<c, k>> \in Ticks(g)  PROVE FALSE
    OBVIOUS
  <2>1. k \in 1 .. g[c] /\ g[c] = n2
    BY <1>2, TicksAre
  <2> QED  BY <2>1
<1>6. IsFiniteSet(Ticks(g)) /\ Cardinality(Ticks(g)) \in Nat
  BY TicksAre
<1>7. Cardinality(Ticks(g) \cap T) = 0
  BY <1>5, FS_EmptySet
<1> HIDE DEF T
<1>8. Cardinality(Ticks(g) \union T) = Cardinality(Ticks(g)) + Cardinality(T) - Cardinality(Ticks(g) \cap T)
  BY <1>3, <1>6, FS_Union
<1>9. Cardinality(Ticks(f)) = Cardinality(Ticks(g)) + lost
  BY <1>1, <1>3, <1>4, <1>6, <1>7, <1>8
<1> QED  BY <1>1, <1>2, <1>6, <1>9

----------------------------------------------------------------------------
(* Processor: what has been read accounts for what is shown.                *)

Times == [idle : Nat, total : Nat]
Spent == [used : Nat, of : Nat]

\* Between two readings of a CPU it has been in use for that time, and unless its
\* counters went back between them the time in all is known too.
Accounts(now, then, spent, went) ==
    /\ spent.used <= spent.of
    /\ then.total # 0 =>
          /\ (now.total - then.total) - (now.idle - then.idle) = spent.used
          /\ ~went => now.total - then.total = spent.of

\* What a reading made now would give.
Now(c) == [idle |-> CPU!IdleOf(c), total |-> CPU!TotalOf(c)]

LastTimes(c) == IF c \in DOMAIN samples THEN samples[c] ELSE before[c]

CPUTypes ==
    /\ idle \in [CoreNumbers -> Nat] /\ total \in [CoreNumbers -> Nat]
    /\ \A c \in CoreNumbers : idle[c] <= total[c]
    /\ online \subseteq CoreNumbers
    /\ DOMAIN samples \subseteq CPU!CPUs
    /\ \A c \in DOMAIN samples : /\ samples[c] \in Times
                                 /\ truth[c].busy \in Spent /\ truth[c].back \in BOOLEAN
    /\ before \in [CPU!CPUs -> Times]
    /\ busy \in [CPU!CPUs -> Spent]
    /\ back \in [CPU!CPUs -> BOOLEAN]

UsageInv ==
    /\ CPUTypes
    /\ \A c \in CPU!CPUs : Accounts(Now(c), LastTimes(c), busy[c], back[c])
    /\ \A c \in DOMAIN samples : Accounts(samples[c], before[c], truth[c].busy, truth[c].back)

LEMMA CPUsAre ==
    /\ CPU!CPUs = CoreNumbers \union {CPU!All} /\ CPU!All \in CPU!CPUs
    /\ CPU!All \notin CoreNumbers
    /\ \A c \in CPU!CPUs : c # CPU!All => c \in CoreNumbers
    /\ \A c \in CoreNumbers : c \in CPU!CPUs
BY CoreNumbersAssumption DEF CPU!CPUs, CPU!All

LEMMA TimesOf ==
    ASSUME idle \in [CoreNumbers -> Nat], total \in [CoreNumbers -> Nat], NEW c \in CPU!CPUs
    PROVE  /\ Now(c) \in Times
           /\ c = CPU!All => /\ Now(c).idle = Cardinality(Ticks(idle))
                             /\ Now(c).total = Cardinality(Ticks(total))
           /\ c # CPU!All => Now(c).idle = idle[c] /\ Now(c).total = total[c]
<1>1. CPU!IdleOf(c) = IF c = CPU!All THEN Cardinality(Ticks(idle)) ELSE idle[c]
  BY SumIs DEF CPU!IdleOf
<1>2. CPU!TotalOf(c) = IF c = CPU!All THEN Cardinality(Ticks(total)) ELSE total[c]
  BY SumIs DEF CPU!TotalOf
<1>3. CPU!IdleOf(c) \in Nat /\ CPU!TotalOf(c) \in Nat
  <2>1. CASE c = CPU!All
    BY <1>1, <1>2, <2>1, TicksAre
  <2>2. CASE c # CPU!All
    BY <1>1, <1>2, <2>2, CPUsAre
  <2> QED  BY <2>1, <2>2
<1> QED  BY <1>1, <1>2, <1>3 DEF Now, Times

\* What a CPU's counters, and what is spent of it, come to when it was in use for u
\* ticks and idle for i.
GoesOn(c, u, i) ==
    /\ Now(c)' = [idle |-> Now(c).idle + i, total |-> Now(c).total + (u + i)]
    /\ busy'[c] = [used |-> busy[c].used + u, of |-> busy[c].of + (u + i)]

LEMMA Halves ==
    ASSUME NEW S, IsFiniteSet(S), NEW T, T \subseteq S
    PROVE  /\ Cardinality(T) \in Nat /\ Cardinality(S \ T) \in Nat
           /\ Cardinality(S) = Cardinality(T) + Cardinality(S \ T)
<1>1. IsFiniteSet(T) /\ IsFiniteSet(S \ T)
  BY FS_Subset
<1>2. Cardinality(T) \in Nat /\ Cardinality(S \ T) \in Nat
  BY <1>1, FS_CardinalityType
<1>3. T \union (S \ T) = S /\ T \intersect (S \ T) = {}
  OBVIOUS
<1>4. Cardinality(S) = Cardinality(T) + Cardinality(S \ T) - Cardinality({})
  BY <1>1, <1>3, FS_Union, Zenon
<1>5. Cardinality({}) = 0
  BY FS_EmptySet
<1> QED  BY ONLY <1>2, <1>4, <1>5

\* The ticks of one core: it is in use, idle or offline.
LEMMA OneCore ==
    ASSUME NEW c, NEW inUse, NEW on, inUse \subseteq on
    PROVE  \E u, i \in Nat :
              /\ Cardinality(inUse \intersect {c}) = u
              /\ Cardinality(on \intersect {c}) = u + i
              /\ i = (IF c \in on \ inUse THEN 1 ELSE 0)
              /\ u + i = (IF c \in on THEN 1 ELSE 0)
<1>1. Cardinality({}) = 0 /\ Cardinality({c}) = 1
  BY FS_EmptySet, FS_Singleton
<1>2. CASE c \in inUse
  <2>1. inUse \intersect {c} = {c} /\ on \intersect {c} = {c}
    BY <1>2
  <2>2. Cardinality(inUse \intersect {c}) = 1 /\ Cardinality(on \intersect {c}) = 1
    BY <1>1, <2>1
  <2>3. c \in on /\ c \notin on \ inUse
    BY <1>2
  <2> WITNESS 1 \in Nat, 0 \in Nat
  <2> QED  BY <2>2, <2>3
<1>3. CASE c \in on \ inUse
  <2>1. inUse \intersect {c} = {} /\ on \intersect {c} = {c}
    BY <1>3
  <2>2. Cardinality(inUse \intersect {c}) = 0 /\ Cardinality(on \intersect {c}) = 1
    BY <1>1, <2>1
  <2>3. c \in on
    BY <1>3
  <2> WITNESS 0 \in Nat, 1 \in Nat
  <2> QED  BY <1>3, <2>2, <2>3
<1>4. CASE c \notin on
  <2>1. inUse \intersect {c} = {} /\ on \intersect {c} = {}
    BY <1>4
  <2>2. Cardinality(inUse \intersect {c}) = 0 /\ Cardinality(on \intersect {c}) = 0
    BY <1>1, <2>1
  <2>3. c \notin on /\ c \notin on \ inUse
    BY <1>4
  <2> WITNESS 0 \in Nat, 0 \in Nat
  <2> QED  BY <2>2, <2>3
<1> QED  BY <1>2, <1>3, <1>4

\* A core's ticks go by on the counters and on what is spent alike.
LEMMA TickCounts ==
    ASSUME CPUTypes, CPU!Tick
    PROVE  /\ idle' \in [CoreNumbers -> Nat] /\ total' \in [CoreNumbers -> Nat]
           /\ \A c \in CoreNumbers : idle[c] <= total[c] => idle'[c] <= total'[c]
           /\ \A c \in CPU!CPUs : \E u, i \in Nat : GoesOn(c, u, i)
           /\ DOMAIN busy' = CPU!CPUs
<1>1. /\ idle \in [CoreNumbers -> Nat] /\ total \in [CoreNumbers -> Nat]
      /\ online \in SUBSET CoreNumbers
  BY DEF CPUTypes
<1> PICK i0, t0, i1, t1 : i0 = idle /\ t0 = total /\ i1 = idle' /\ t1 = total'
  OBVIOUS
<1> PICK inUse \in SUBSET online :
        /\ idle' = [d \in CoreNumbers |-> idle[d] + IF d \in online \ inUse THEN 1 ELSE 0]
        /\ busy' = [d \in CPU!CPUs |->
              [used |-> busy[d].used
                          + CPU!Cardinality(IF d = CPU!All THEN inUse ELSE inUse \cap {d}),
               of   |-> busy[d].of
                          + CPU!Cardinality(IF d = CPU!All THEN online ELSE online \cap {d})]]
  BY DEF CPU!Tick
<1>2. total' = [d \in CoreNumbers |-> total[d] + IF d \in online THEN 1 ELSE 0]
  BY DEF CPU!Tick
<1>3. /\ i0 \in [CoreNumbers -> Nat] /\ t0 \in [CoreNumbers -> Nat]
      /\ \A d \in CoreNumbers : i1[d] = i0[d] + IF d \in online \ inUse THEN 1 ELSE 0
      /\ \A d \in CoreNumbers : t1[d] = t0[d] + IF d \in online THEN 1 ELSE 0
  BY <1>1, <1>2
<1>4. i1 \in [CoreNumbers -> Nat]
  BY <1>1
<1>5. t1 \in [CoreNumbers -> Nat]
  BY <1>1, <1>2
<1>6. \A d \in CoreNumbers : i0[d] <= t0[d] => i1[d] <= t1[d]
  BY <1>3
<1>7. ASSUME NEW c \in CPU!CPUs
      PROVE  \E u, i \in Nat : GoesOn(c, u, i)
  <2> PICK used, ticks : /\ used = (IF c = CPU!All THEN inUse ELSE inUse \cap {c})
                         /\ ticks = (IF c = CPU!All THEN online ELSE online \cap {c})
    OBVIOUS
  <2>1. busy'[c] = [used |-> busy[c].used + Cardinality(used),
                    of |-> busy[c].of + Cardinality(ticks)]
    BY CountIs
  <2>2. Now(c)' = [idle |-> CPU!IdleOf(c)', total |-> CPU!TotalOf(c)']
    BY DEF Now
  <2>3. SUFFICES \E u, i \in Nat :
             /\ Cardinality(used) = u /\ Cardinality(ticks) = u + i
             /\ CPU!IdleOf(c)' = Now(c).idle + i /\ CPU!TotalOf(c)' = Now(c).total + (u + i)
    <3> PICK u \in Nat, i \in Nat :
             /\ Cardinality(used) = u /\ Cardinality(ticks) = u + i
             /\ CPU!IdleOf(c)' = Now(c).idle + i /\ CPU!TotalOf(c)' = Now(c).total + (u + i)
      OBVIOUS
    <3>1. GoesOn(c, u, i)
      BY ONLY <2>1, <2>2, Cardinality(used) = u, Cardinality(ticks) = u + i,
              CPU!IdleOf(c)' = Now(c).idle + i, CPU!TotalOf(c)' = Now(c).total + (u + i), Zenon
         DEF GoesOn
    <3> QED  BY <3>1
  <2>4. CASE c = CPU!All
    <3>1. used = inUse /\ ticks = online
      BY <2>4
    <3> PICK U, I : U = Cardinality(inUse) /\ I = Cardinality(online \ inUse)
      OBVIOUS
    <3>2. U \in Nat /\ I \in Nat /\ Cardinality(online) = U + I
      BY <1>1, CoreNumbersAssumption, FS_Subset, Halves
    <3>3. online \ inUse \in SUBSET CoreNumbers
      BY <1>1
    <3>4. Cardinality(Ticks(i1)) = Cardinality(Ticks(i0)) + I
      BY <1>3, <1>4, <3>3, OneMore
    <3>5. Cardinality(Ticks(t1)) = Cardinality(Ticks(t0)) + (U + I)
      BY <1>1, <1>3, <1>5, <3>2, OneMore
    <3>6. CPU!IdleOf(c)' = Cardinality(Ticks(i1)) /\ CPU!TotalOf(c)' = Cardinality(Ticks(t1))
      BY <2>4, SumIs DEF CPU!IdleOf, CPU!TotalOf
    <3>7. Now(c).idle = Cardinality(Ticks(i0)) /\ Now(c).total = Cardinality(Ticks(t0))
      BY <1>1, <2>4, TimesOf
    <3> U \in Nat /\ I \in Nat
      BY <3>2
    <3> WITNESS U \in Nat, I \in Nat
    <3> QED  BY ONLY <3>1, <3>2, <3>4, <3>5, <3>6, <3>7, U = Cardinality(inUse), Zenon
  <2>5. CASE c # CPU!All
    <3>1. c \in CoreNumbers /\ used = inUse \cap {c} /\ ticks = online \cap {c}
      BY <2>5, CPUsAre
    <3>2. CPU!IdleOf(c)' = i1[c] /\ CPU!TotalOf(c)' = t1[c]
      BY <2>5 DEF CPU!IdleOf, CPU!TotalOf
    <3>3. Now(c).idle = i0[c] /\ Now(c).total = t0[c]
      BY <1>1, <2>5, TimesOf
    <3> PICK u \in Nat, i \in Nat :
             /\ Cardinality(inUse \cap {c}) = u
             /\ Cardinality(online \cap {c}) = u + i
             /\ i = (IF c \in online \ inUse THEN 1 ELSE 0)
             /\ u + i = (IF c \in online THEN 1 ELSE 0)
      BY OneCore
    <3>4. i1[c] = i0[c] + i /\ t1[c] = t0[c] + (u + i)
      BY ONLY <1>3, <3>1, i = (IF c \in online \ inUse THEN 1 ELSE 0),
              u + i = (IF c \in online THEN 1 ELSE 0), Zenon
    <3> WITNESS u \in Nat, i \in Nat
    <3> QED  BY <3>1, <3>2, <3>3, <3>4
  <2> QED  BY <2>4, <2>5
<1>8. DOMAIN busy' = CPU!CPUs
  OBVIOUS
<1> QED  BY <1>4, <1>5, <1>6, <1>7, <1>8

\* What accounts for a CPU's counters does so of what becomes of both after u more
\* ticks in use and i idle, as they are counted from the same reading.
LEMMA AccountsGoOn ==
    ASSUME NEW now \in Times, NEW then \in Times, NEW spent \in Spent, NEW went \in BOOLEAN,
           NEW u \in Nat, NEW i \in Nat, NEW on, NEW more,
           Accounts(now, then, spent, went),
           on = [idle |-> now.idle + i, total |-> now.total + (u + i)],
           more = [used |-> spent.used + u, of |-> spent.of + (u + i)]
    PROVE  Accounts(on, then, more, went) /\ more \in Spent
<1>1. /\ now.idle \in Nat /\ now.total \in Nat /\ then.idle \in Nat /\ then.total \in Nat
      /\ spent.used \in Nat /\ spent.of \in Nat
  BY DEF Times, Spent
<1>2. /\ on.idle = now.idle + i /\ on.total = now.total + (u + i)
      /\ more.used = spent.used + u /\ more.of = spent.of + (u + i)
  OBVIOUS
<1>3. more \in Spent
  BY <1>1 DEF Spent
<1>4. more.used <= more.of
  BY <1>1, <1>2 DEF Accounts
<1>5. ASSUME then.total # 0
      PROVE  /\ (on.total - then.total) - (on.idle - then.idle) = more.used
             /\ ~went => on.total - then.total = more.of
  <2>1. /\ (now.total - then.total) - (now.idle - then.idle) = spent.used
        /\ ~went => now.total - then.total = spent.of
    BY <1>5 DEF Accounts
  <2> QED  BY <1>1, <1>2, <2>1
<1> QED  BY <1>3, <1>4, <1>5 DEF Accounts

\* Nor does it matter to the time in use that counters go back, both by as much.
LEMMA AccountsGoBack ==
    ASSUME NEW now \in Times, NEW then \in Times, NEW spent \in Spent, NEW went,
           NEW lost \in Nat, NEW on,
           Accounts(now, then, spent, went),
           on.idle = now.idle - lost, on.total = now.total - lost
    PROVE  Accounts(on, then, spent, TRUE)
<1>1. /\ now.idle \in Nat /\ now.total \in Nat /\ then.idle \in Nat /\ then.total \in Nat
      /\ spent.used \in Nat /\ spent.of \in Nat
  BY DEF Times, Spent
<1>2. ASSUME then.total # 0
      PROVE  (on.total - then.total) - (on.idle - then.idle) = spent.used
  <2>1. (now.total - then.total) - (now.idle - then.idle) = spent.used
    BY <1>2 DEF Accounts
  <2> QED  BY <1>1, <2>1
<1> QED  BY <1>2 DEF Accounts

\* A reading is where counting starts anew.
LEMMA AccountsBegin ==
    ASSUME NEW now \in Times, NEW went
    PROVE  Accounts(now, now, [used |-> 0, of |-> 0], went)
BY DEF Accounts, Times

LEMMA UsageInit == SamplesInit => UsageInv
<1> SUFFICES ASSUME SamplesInit PROVE UsageInv
  OBVIOUS
<1>1. /\ idle = [c \in CoreNumbers |-> 0] /\ total = [c \in CoreNumbers |-> 1]
      /\ online = CoreNumbers /\ samples = CPU!NotRead
      /\ before = [c \in CPU!CPUs |-> [idle |-> 0, total |-> 0]]
      /\ busy = [c \in CPU!CPUs |-> [used |-> 0, of |-> 0]]
      /\ back = [c \in CPU!CPUs |-> FALSE]
  BY DEF SamplesInit, CPU!Init
<1>2. DOMAIN samples = {}
  BY <1>1 DEF CPU!NotRead
<1>3. CPUTypes
  <2>1. /\ [idle |-> 0, total |-> 0] \in Times /\ [used |-> 0, of |-> 0] \in Spent
    BY DEF Times, Spent
  <2> QED  BY <1>1, <1>2, <2>1 DEF CPUTypes
<1>4. ASSUME NEW c \in CPU!CPUs PROVE Accounts(Now(c), LastTimes(c), busy[c], back[c])
  <2>1. LastTimes(c) = [idle |-> 0, total |-> 0] /\ busy[c] = [used |-> 0, of |-> 0]
    BY <1>1, <1>2 DEF LastTimes
  <2> QED  BY <2>1 DEF Accounts
<1> QED  BY <1>2, <1>3, <1>4 DEF UsageInv

LEMMA TickAccounts ==
    ASSUME UsageInv, CPU!Tick
    PROVE  UsageInv'
<1>1. CPUTypes
  BY DEF UsageInv
<1>2. UNCHANGED <<online, samples, before, back, truth>>
  BY DEF CPU!Tick, CPU!stats
<1>3. /\ idle' \in [CoreNumbers -> Nat] /\ total' \in [CoreNumbers -> Nat]
      /\ \A c \in CoreNumbers : idle[c] <= total[c] => idle'[c] <= total'[c]
      /\ \A c \in CPU!CPUs : \E u, i \in Nat : GoesOn(c, u, i)
  BY <1>1, TickCounts
<1>4. ASSUME NEW c \in CPU!CPUs
      PROVE  Accounts(Now(c)', LastTimes(c)', busy'[c], back'[c]) /\ busy'[c] \in Spent
  <2> PICK u \in Nat, i \in Nat : GoesOn(c, u, i)
    BY <1>3
  <2> PICK now, then, spent, went, on, more :
          /\ now = Now(c) /\ then = LastTimes(c) /\ spent = busy[c] /\ went = back[c]
          /\ on = Now(c)' /\ more = busy'[c]
    OBVIOUS
  <2>1. now \in Times
    BY <1>1, TimesOf DEF CPUTypes
  <2>2. then \in Times
    BY <1>1 DEF LastTimes, CPUTypes
  <2>3. spent \in Spent /\ went \in BOOLEAN
    BY <1>1 DEF CPUTypes
  <2>4. Accounts(now, then, spent, went)
    BY DEF UsageInv
  <2>5. /\ on = [idle |-> now.idle + i, total |-> now.total + (u + i)]
        /\ more = [used |-> spent.used + u, of |-> spent.of + (u + i)]
    BY DEF GoesOn
  <2>6. LastTimes(c)' = then /\ back'[c] = went
    BY <1>2 DEF LastTimes
  <2>7. Accounts(on, then, more, went) /\ more \in Spent
    BY ONLY <2>1, <2>2, <2>3, <2>4, <2>5, u \in Nat, i \in Nat, AccountsGoOn, SMTT(30)
  <2> QED  BY <2>6, <2>7
<1>5. busy' \in [CPU!CPUs -> Spent]
  <2>1. busy' = [c \in CPU!CPUs |-> busy'[c]]
    BY DEF CPU!Tick
  <2> QED  BY <1>4, <2>1
<1>6. CPUTypes'
  BY <1>1, <1>2, <1>3, <1>5 DEF CPUTypes
<1>7. \A c \in DOMAIN samples' : Accounts(samples'[c], before'[c], truth'[c].busy, truth'[c].back)
  BY <1>2 DEF UsageInv
<1> QED  BY <1>4, <1>6, <1>7 DEF UsageInv

LEMMA SwitchAccounts ==
    ASSUME UsageInv, NEW x \in CoreNumbers, CPU!Switch(x)
    PROVE  UsageInv'
<1>1. CPUTypes
  BY DEF UsageInv
<1>2. UNCHANGED <<samples, before, busy, truth>>
  BY DEF CPU!Switch, CPU!stats
<1>3. online' \subseteq CoreNumbers
  BY <1>1 DEF CPU!Switch, CPUTypes
<1>4. \A c \in DOMAIN samples' : Accounts(samples'[c], before'[c], truth'[c].busy, truth'[c].back)
  BY <1>2 DEF UsageInv
<1>5. CASE UNCHANGED <<idle, total, back>>
  <2>1. CPUTypes'
    BY <1>1, <1>2, <1>3, <1>5 DEF CPUTypes
  <2>2. ASSUME NEW c \in CPU!CPUs
        PROVE  Accounts(Now(c)', LastTimes(c)', busy'[c], back'[c])
    <3>1. Now(c)' = Now(c)
      BY <1>5, SumIs DEF Now, CPU!IdleOf, CPU!TotalOf
    <3>2. LastTimes(c)' = LastTimes(c) /\ busy'[c] = busy[c] /\ back'[c] = back[c]
      BY <1>2, <1>5 DEF LastTimes
    <3> QED  BY <3>1, <3>2 DEF UsageInv
  <2> QED  BY <1>4, <2>1, <2>2 DEF UsageInv
<1>6. CASE ~UNCHANGED <<idle, total, back>>
  <2> PICK lost \in 1 .. idle[x] :
          /\ idle' = [idle EXCEPT ![x] = @ - lost]
          /\ total' = [total EXCEPT ![x] = @ - lost]
          /\ back' = [c \in CPU!CPUs |-> back[c] \/ c \in {x, CPU!All}]
    BY <1>6 DEF CPU!Switch
  <2> PICK i0, t0, i1, t1 : i0 = idle /\ t0 = total /\ i1 = idle' /\ t1 = total'
    OBVIOUS
  <2>1. /\ i0 \in [CoreNumbers -> Nat] /\ t0 \in [CoreNumbers -> Nat]
        /\ \A c \in CoreNumbers : i0[c] <= t0[c]
        /\ i0[x] \in Nat /\ t0[x] \in Nat /\ lost \in Nat /\ lost \in 1 .. i0[x]
        /\ lost \in 1 .. t0[x]
    BY <1>1 DEF CPUTypes
  <2>2. /\ i1 = [i0 EXCEPT ![x] = i0[x] - lost] /\ t1 = [t0 EXCEPT ![x] = t0[x] - lost]
    OBVIOUS
  <2>3. i0[x] - lost \in Nat /\ t0[x] - lost \in Nat
    BY <2>1
  <2>4. i1 \in [CoreNumbers -> Nat] /\ t1 \in [CoreNumbers -> Nat]
    BY <2>1, <2>2, <2>3
  <2>5. /\ \A c \in CoreNumbers : i1[c] = IF c = x THEN i0[x] - lost ELSE i0[c]
        /\ \A c \in CoreNumbers : t1[c] = IF c = x THEN t0[x] - lost ELSE t0[c]
    BY <2>1, <2>2
  <2>6. \A c \in CoreNumbers : i1[c] <= t1[c]
    BY <2>1, <2>5
  <2>7. back' \in [CPU!CPUs -> BOOLEAN]
    OBVIOUS
  <2>8. CPUTypes'
    BY <1>1, <1>2, <1>3, <2>4, <2>6, <2>7 DEF CPUTypes
  <2>9. ASSUME NEW c \in CPU!CPUs
        PROVE  Accounts(Now(c)', LastTimes(c)', busy'[c], back'[c])
    <3> PICK now, then, spent, went, on :
            /\ now = Now(c) /\ then = LastTimes(c) /\ spent = busy[c] /\ went = back[c]
            /\ on = Now(c)'
      OBVIOUS
    <3>1. now \in Times
      BY <1>1, TimesOf DEF CPUTypes
    <3>2. then \in Times /\ spent \in Spent /\ went \in BOOLEAN
      BY <1>1 DEF LastTimes, CPUTypes
    <3>3. Accounts(now, then, spent, went)
      BY DEF UsageInv
    <3>4. LastTimes(c)' = then /\ busy'[c] = spent
      BY <1>2 DEF LastTimes
    <3>5. on.idle = CPU!IdleOf(c)' /\ on.total = CPU!TotalOf(c)'
      BY DEF Now
    <3>6. CASE c = CPU!All
      <4>1. /\ Cardinality(Ticks(i1)) = Cardinality(Ticks(i0)) - lost
            /\ Cardinality(Ticks(t1)) = Cardinality(Ticks(t0)) - lost
        <5>1. Cardinality(Ticks(i1)) = Cardinality(Ticks(i0)) - lost
          BY ONLY <2>1, <2>4, <2>5, x \in CoreNumbers, SomeLess, ZenonT(30)
        <5>2. Cardinality(Ticks(t1)) = Cardinality(Ticks(t0)) - lost
          BY ONLY <2>1, <2>4, <2>5, x \in CoreNumbers, SomeLess, ZenonT(30)
        <5> QED  BY <5>1, <5>2
      <4>2. CPU!IdleOf(c)' = Cardinality(Ticks(i1)) /\ CPU!TotalOf(c)' = Cardinality(Ticks(t1))
        BY <3>6, SumIs DEF CPU!IdleOf, CPU!TotalOf
      <4>3. now.idle = Cardinality(Ticks(i0)) /\ now.total = Cardinality(Ticks(t0))
        BY <1>1, <3>6, TimesOf DEF CPUTypes
      <4>4. on.idle = now.idle - lost /\ on.total = now.total - lost
        BY <3>5, <4>1, <4>2, <4>3
      <4>5. back'[c] = TRUE
        BY <3>6
      <4>6. Accounts(on, then, spent, TRUE)
        BY ONLY <2>1, <3>1, <3>2, <3>3, <4>4, AccountsGoBack
      <4> QED  BY <3>4, <4>5, <4>6
    <3>7. CASE c # CPU!All /\ c = x
      <4>1. CPU!IdleOf(c)' = i1[x] /\ CPU!TotalOf(c)' = t1[x]
        BY <3>7 DEF CPU!IdleOf, CPU!TotalOf
      <4>2. now.idle = i0[x] /\ now.total = t0[x]
        BY <1>1, <3>7, TimesOf DEF CPUTypes
      <4>3. on.idle = now.idle - lost /\ on.total = now.total - lost
        BY <2>5, <3>5, <4>1, <4>2
      <4>4. back'[c] = TRUE
        BY <3>7
      <4>6. Accounts(on, then, spent, TRUE)
        BY ONLY <2>1, <3>1, <3>2, <3>3, <4>3, AccountsGoBack
      <4> QED  BY <3>4, <4>4, <4>6
    <3>8. CASE c # CPU!All /\ c # x
      <4>1. c \in CoreNumbers
        BY <3>8, CPUsAre
      <4>2. CPU!IdleOf(c)' = i1[c] /\ CPU!TotalOf(c)' = t1[c]
        BY <3>8 DEF CPU!IdleOf, CPU!TotalOf
      <4>3. CPU!IdleOf(c) = i0[c] /\ CPU!TotalOf(c) = t0[c]
        BY <3>8 DEF CPU!IdleOf, CPU!TotalOf
      <4>4. on = now
        BY <2>5, <3>8, <4>1, <4>2, <4>3 DEF Now
      <4>5. back'[c] = went
        BY <1>1, <3>8 DEF CPUTypes
      <4> QED  BY <3>3, <3>4, <4>4, <4>5
    <3> QED  BY <3>6, <3>7, <3>8
  <2> QED  BY <1>4, <2>8, <2>9 DEF UsageInv
<1> QED  BY <1>5, <1>6

LEMMA CollectAccounts ==
    ASSUME UsageInv, CPU!CollectCPU
    PROVE  UsageInv'
<1>1. CPUTypes
  BY DEF UsageInv
<1>2. /\ UNCHANGED <<idle, total, online, before>>
      /\ DOMAIN samples = {}
      /\ samples' = [c \in CPU!Lines |-> Now(c)]
      /\ truth' = [c \in CPU!Lines |-> [busy |-> busy[c], back |-> back[c]]]
      /\ busy' = [c \in CPU!CPUs |->
                    IF c \in CPU!Lines THEN [used |-> 0, of |-> 0] ELSE busy[c]]
      /\ back' = [c \in CPU!CPUs |-> c \notin CPU!Lines /\ back[c]]
  BY DEF CPU!CollectCPU, CPU!procStat, CPU!stats, CPU!NotRead, Now
<1>3. CPU!Lines \subseteq CPU!CPUs
  BY <1>1, CPUsAre DEF CPU!Lines, CPUTypes
<1>4. ASSUME NEW c PROVE Now(c)' = Now(c)
  BY <1>2, SumIs DEF Now, CPU!IdleOf, CPU!TotalOf
<1>5. \A c \in CPU!CPUs : Now(c) \in Times
  BY <1>1, TimesOf DEF CPUTypes
<1>6. CPUTypes'
  <2>1. [used |-> 0, of |-> 0] \in Spent
    BY DEF Spent
  <2>2. busy' \in [CPU!CPUs -> Spent]
    BY <1>1, <1>2, <2>1 DEF CPUTypes
  <2>3. back' \in [CPU!CPUs -> BOOLEAN]
    BY <1>2
  <2>4. \A c \in DOMAIN samples' : /\ samples'[c] \in Times
                                   /\ truth'[c].busy \in Spent /\ truth'[c].back \in BOOLEAN
    BY <1>1, <1>2, <1>3, <1>5 DEF CPUTypes
  <2>5. DOMAIN samples' \subseteq CPU!CPUs
    BY <1>2, <1>3
  <2> QED  BY <1>1, <1>2, <2>2, <2>3, <2>4, <2>5 DEF CPUTypes
<1>7. ASSUME NEW c \in CPU!CPUs
      PROVE  Accounts(Now(c)', LastTimes(c)', busy'[c], back'[c])
  <2>1. CASE c \in CPU!Lines
    <3>1. LastTimes(c)' = Now(c) /\ busy'[c] = [used |-> 0, of |-> 0]
      BY <1>2, <2>1 DEF LastTimes
    <3> QED  BY <1>4, <1>5, <3>1, AccountsBegin
  <2>2. CASE c \notin CPU!Lines
    <3>1. LastTimes(c)' = LastTimes(c) /\ busy'[c] = busy[c]
      BY <1>2, <2>2 DEF LastTimes
    <3>2. back'[c] = back[c]
      BY <1>1, <1>2, <2>2 DEF CPUTypes
    <3> QED  BY <1>4, <3>1, <3>2 DEF UsageInv
  <2> QED  BY <2>1, <2>2
<1>8. ASSUME NEW c \in DOMAIN samples'
      PROVE  Accounts(samples'[c], before'[c], truth'[c].busy, truth'[c].back)
  <2>1. c \in CPU!Lines /\ c \in CPU!CPUs
    BY <1>2, <1>3
  <2>2. LastTimes(c) = before[c]
    BY <1>2 DEF LastTimes
  <2>3. Accounts(Now(c), before[c], busy[c], back[c])
    BY <2>1, <2>2 DEF UsageInv
  <2>4. samples'[c] = Now(c) /\ truth'[c].busy = busy[c] /\ truth'[c].back = back[c]
    BY <1>2, <2>1
  <2> QED  BY <1>2, <2>3, <2>4
<1> QED  BY <1>6, <1>7, <1>8 DEF UsageInv

LEMMA PublishAccounts ==
    ASSUME UsageInv, CPU!PublishCPU
    PROVE  UsageInv'
<1>1. CPUTypes
  BY DEF UsageInv
<1>2. /\ UNCHANGED <<idle, total, online, busy, back>>
      /\ before' = [c \in CPU!CPUs |-> LastTimes(c)]
      /\ DOMAIN samples' = {}
  BY DEF CPU!PublishCPU, CPU!procStat, CPU!NotRead, LastTimes
<1>3. \A c \in CPU!CPUs : LastTimes(c) \in Times
  BY <1>1 DEF LastTimes, CPUTypes
<1>4. CPUTypes'
  BY <1>1, <1>2, <1>3 DEF CPUTypes
<1>5. ASSUME NEW c \in CPU!CPUs
      PROVE  Accounts(Now(c)', LastTimes(c)', busy'[c], back'[c])
  <2>1. Now(c)' = Now(c)
    BY <1>2, SumIs DEF Now, CPU!IdleOf, CPU!TotalOf
  <2>2. LastTimes(c)' = before'[c]
    BY <1>2 DEF LastTimes
  <2>3. LastTimes(c)' = LastTimes(c)
    BY <1>2, <2>2
  <2> QED  BY <1>2, <2>1, <2>3 DEF UsageInv
<1> QED  BY <1>2, <1>4, <1>5 DEF UsageInv

LEMMA CPUOnly == [SamplesNext]_samplesVars => CPU!Next \/ UNCHANGED cpuVars
BY DEF SamplesNext, samplesVars, ScanMoves, DevicesMove, CPUMoves, GraphMoves, PickedMoves

LEMMA UsageNext == UsageInv /\ [SamplesNext]_samplesVars => UsageInv'
<1> SUFFICES ASSUME UsageInv, [SamplesNext]_samplesVars
             PROVE  UsageInv'
  OBVIOUS
<1>1. CASE CPU!Next
  BY <1>1, TickAccounts, SwitchAccounts, CollectAccounts, PublishAccounts DEF CPU!Next
<1>2. CASE UNCHANGED cpuVars
  <2>1. UNCHANGED <<idle, total, online, samples, before, busy, back, truth>>
    BY <1>2 DEF cpuVars
  <2>2. ASSUME NEW c PROVE Now(c)' = Now(c)
    BY <2>1, SumIs DEF Now, CPU!IdleOf, CPU!TotalOf
  <2>3. ASSUME NEW c PROVE LastTimes(c)' = LastTimes(c)
    BY <2>1 DEF LastTimes
  <2>4. CPUTypes'
    BY <2>1 DEF UsageInv, CPUTypes
  <2> QED  BY <2>1, <2>2, <2>3, <2>4 DEF UsageInv
<1> QED  BY <1>1, <1>2, CPUOnly

\* What a reading is shown as, by what accounts for it.
LEMMA ShownIsSpent ==
    ASSUME NEW sm \in Times, NEW then \in Times, NEW spent \in Spent, NEW went \in BOOLEAN,
           Accounts(sm, then, spent, went)
    PROVE  /\ CPU!Usage(sm, then).used <= spent.used
           /\ then.total = 0 => CPU!Usage(sm, then).used = 0
           /\ then.total # 0 /\ ~went =>
                 CPU!Usage(sm, then).used * spent.of = spent.used * CPU!Usage(sm, then).of
<1>1. /\ sm.idle \in Nat /\ sm.total \in Nat /\ then.idle \in Nat /\ then.total \in Nat
      /\ spent.used \in Nat /\ spent.of \in Nat /\ spent.used <= spent.of
  BY DEF Times, Spent, Accounts
<1> PICK shown : shown = CPU!Usage(sm, then)
  OBVIOUS
<1>2. CASE then.total # 0 /\ sm.total > then.total /\ sm.idle >= then.idle
  <2>1. /\ shown.used = (sm.total - then.total) - (sm.idle - then.idle)
        /\ shown.of = sm.total - then.total
    BY <1>2 DEF CPU!Usage
  <2>2. shown.used = spent.used /\ (~went => shown.of = spent.of)
    BY <1>2, <2>1 DEF Accounts
  <2> QED  BY <1>1, <1>2, <2>2
<1>3. CASE ~(then.total # 0 /\ sm.total > then.total /\ sm.idle >= then.idle)
  <2>1. shown.used = 0 /\ shown.of = 1
    BY <1>3 DEF CPU!Usage, CPU!Unused
  <2>2. ASSUME then.total # 0, ~went
        PROVE  spent.used = 0
    <3>1. /\ (sm.total - then.total) - (sm.idle - then.idle) = spent.used
          /\ sm.total - then.total = spent.of
      BY <2>2 DEF Accounts
    <3> QED  BY <1>1, <1>3, <2>2, <3>1
  <2>3. 0 * spent.of = 0 /\ 0 * 1 = 0
    BY <1>1
  <2> QED  BY <1>1, <2>1, <2>2, <2>3
<1> QED  BY <1>2, <1>3

LEMMA PublishShows ==
    ASSUME UsageInv, CPU!PublishCPU, NEW c \in DOMAIN samples
    PROVE  LET shown == usage'[c]
               spent == truth[c].busy
           IN  /\ shown.used <= spent.used
               /\ before[c].total = 0 => shown.used = 0
               /\ before[c].total # 0 /\ ~truth[c].back =>
                       shown.used * spent.of = spent.used * shown.of
<1>1. /\ samples[c] \in Times /\ before[c] \in Times
      /\ truth[c].busy \in Spent /\ truth[c].back \in BOOLEAN /\ c \in CPU!CPUs
      /\ Accounts(samples[c], before[c], truth[c].busy, truth[c].back)
  BY DEF UsageInv, CPUTypes
<1>2. usage'[c] = CPU!Usage(samples[c], before[c])
  BY <1>1 DEF CPU!PublishCPU
<1> QED  BY ONLY <1>1, <1>2, ShownIsSpent

\* A percentage is of the time between two readings (cpu.go:32), for any number of cores
\* that come and go between them, and however their counters go back.
THEOREM UsageIsOfTheTime == SamplesSpec => UsageIsTime
<1>1. ASSUME UsageInv, [SamplesNext]_samplesVars
      PROVE  [samples' = CPU!NotRead =>
                \A c \in DOMAIN samples :
                    LET shown == usage'[c]
                        spent == truth[c].busy
                    IN  /\ shown.used <= spent.used
                        /\ before[c].total = 0 => shown.used = 0
                        /\ before[c].total # 0 /\ ~truth[c].back =>
                                shown.used * spent.of = spent.used * shown.of]_(CPU!vars)
  <2>1. CASE CPU!PublishCPU
    BY <1>1, <2>1, PublishShows
  <2>2. CASE CPU!Tick \/ \E c \in CoreNumbers : CPU!Switch(c)
    <3>1. samples' = samples
      BY <2>2 DEF CPU!Tick, CPU!Switch
    <3>2. samples = CPU!NotRead => DOMAIN samples = {}
      BY DEF CPU!NotRead
    <3> QED  BY <3>1, <3>2
  <2>3. CASE CPU!CollectCPU
    <3>1. DOMAIN samples = {}
      BY <2>3 DEF CPU!CollectCPU, CPU!NotRead
    <3> QED  BY <3>1
  <2>4. CASE UNCHANGED cpuVars
    BY <2>4 DEF cpuVars, CPU!vars, CPU!procStat, CPU!stats, CPU!history
  <2> QED  BY <1>1, <2>1, <2>2, <2>3, <2>4, CPUOnly DEF CPU!Next
<1> QED  BY <1>1, UsageInit, UsageNext, PTL DEF SamplesSpec, UsageIsTime, CPU!UsageIsTime

----------------------------------------------------------------------------
(* Samples: what is proved of a part alone holds beside the others.         *)

LEMMA ScanOnly == [SamplesNext]_samplesVars => [Next]_vars
BY DEF SamplesNext, samplesVars, ScanMoves, DevicesMove, CPUMoves, GraphMoves, PickedMoves

\* The scanner, the collectors and the window each do, running side by side, what they
\* are specified to do alone: sweeps find everything in the whole program too.
THEOREM PartsAsSpecified ==
    SamplesSpec => Spec /\ Devices!Spec /\ CPU!Spec /\ Graph!Spec /\ Picked!Spec
<1>1. SamplesInit => Init /\ Devices!Init /\ CPU!Init /\ Graph!Init /\ Picked!Init
  BY DEF SamplesInit
<1>2. [SamplesNext]_samplesVars => [Devices!Next]_(Devices!vars)
  BY DevicesOnly DEF devicesVars, Devices!vars, Devices!kernel, Devices!collector,
                     Devices!shown, Devices!history
<1>3. [SamplesNext]_samplesVars => [CPU!Next]_(CPU!vars)
  BY CPUOnly DEF cpuVars, CPU!vars, CPU!procStat, CPU!stats, CPU!history
<1>4. [SamplesNext]_samplesVars => [Graph!Next]_(Graph!vars)
  BY GraphOnly DEF graphVars, Graph!vars
<1>5. [SamplesNext]_samplesVars => [Picked!Next]_(Picked!vars)
  BY PickedOnly DEF pickedVars, Picked!vars, Picked!machine, Picked!apps, Picked!energy,
                    Picked!history
<1> QED  BY ScanOnly, <1>1, <1>2, <1>3, <1>4, <1>5, PTL
         DEF SamplesSpec, Spec, Devices!Spec, CPU!Spec, Graph!Spec, Picked!Spec
=============================================================================
