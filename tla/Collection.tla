---- MODULE Collection ----
(***************************************************************************)
(* Who samples the machine, and when they stop.                            *)
(*                                                                         *)
(*   samplers   the goroutines of stats.Collector, one per subsystem, that *)
(*              sleep at a gate while the window is hidden                 *)
(*   scanners   the goroutine of process.Collector that scans /proc: it is *)
(*              started when a page that needs it comes up, and stopped,   *)
(*              the main thread waiting for it, when that page goes away   *)
(*   main       the GTK thread: it shows and hides the window, changes     *)
(*              page, and at the end stops the samplers                    *)
(*                                                                         *)
(* A sampler's gate is one critical section (gate.mu), so it is one step   *)
(* here; closing stopCh and broadcasting to the sleepers are two, as the   *)
(* first is not done under the lock. When a select finds both a tick and a *)
(* closed stopCh, Go takes either.                                         *)
(*                                                                         *)
(* A scanner reads the stopCh field anew each time round its loop, and     *)
(* Start replaces that field: waitsOn keeps apart a scanner that waits on  *)
(* the channel now in the field from one that waits on a former one.       *)
(*                                                                         *)
(* A definition marked "mutant" is a mistake the next one might have held. *)
(*                                                                         *)
(* Left out: the interval of the tickers, what a sample reads, and how     *)
(* many there have been. What a scan reads is in ProcessScan.              *)
(***************************************************************************)

EXTENDS FiniteSets, Naturals

CONSTANTS
    Samplers,    \* the subsystems sampled: CPU, memory, disks, ...
    Scanners,    \* names for the goroutines process.Start may launch
    Pages,       \* the pages of the window
    NeedsProcs   \* those that show processes: Apps, Energy, Assistant

ASSUME PagesAssumption == NeedsProcs \subseteq Pages

VARIABLES
    \* stats.Collector
    paused,      \* gate.paused
    stopped,     \* stopCh is closed
    sampler,     \* where each sampling goroutine is
    asleep,      \* the samplers in cond.Wait
    closed,      \* Stop has closed the files
    \* process.Collector
    running,     \* Collector.running
    stopping,    \* the channel in Collector.stopCh is closed
    scanner,     \* where each scanning goroutine is
    waitsOn,     \* the channel it is selecting on: "current" or a former one
    procFD,      \* the descriptor held on /proc is open
    \* the window, and the thread that drives it
    visible,     \* Window.visible
    mapped,      \* GTK has the window on screen
    active,      \* Window.active
    main         \* what the main thread is doing

statsVars == <<paused, stopped, sampler, asleep, closed>>
procVars  == <<running, stopping, scanner, waitsOn, procFD>>
winVars   == <<visible, mapped, active>>
vars      == <<statsVars, procVars, winVars, main>>

----------------------------------------------------------------------------
(* stats.Collector: the gate and the goroutines behind it *)

\* sync.Cond.Broadcast: every sleeper goes back to check the gate.
Broadcast == asleep' = {}

\* Collector.Pause
Pause ==
    /\ paused' = TRUE
    /\ UNCHANGED <<stopped, sampler, asleep, closed>>

ResumeQuietly ==                                      \* mutant: no broadcast
    /\ paused' = FALSE
    /\ UNCHANGED <<stopped, sampler, asleep, closed>>

\* Collector.Resume
Resume ==
    /\ paused' = FALSE
    /\ Broadcast
    /\ UNCHANGED <<stopped, sampler, closed>>

\* Where a sampler that the gate lets through goes: the first sample is taken
\* at once, the others at a tick.
PastGate(pc) == IF pc = "starting" THEN "sampling" ELSE "ticking"

AtGate(s) == sampler[s] \in {"starting", "gate"} /\ s \notin asleep

\* waitResumed returns true.
PassGate(s) ==
    /\ AtGate(s)
    /\ ~paused
    /\ ~stopped
    /\ sampler' = [sampler EXCEPT ![s] = PastGate(@)]
    /\ UNCHANGED <<paused, stopped, asleep, closed>>

\* waitResumed waits on the condition.
FallAsleep(s) ==
    /\ AtGate(s)
    /\ paused
    /\ ~stopped
    /\ asleep' = asleep \union {s}
    /\ UNCHANGED <<paused, stopped, sampler, closed>>

\* waitResumed returns false.
LeaveAtGate(s) ==
    /\ AtGate(s)
    /\ stopped
    /\ sampler' = [sampler EXCEPT ![s] = "done"]
    /\ UNCHANGED <<paused, stopped, asleep, closed>>

\* The select takes the tick.
TakeTick(s) ==
    /\ sampler[s] = "ticking"
    /\ sampler' = [sampler EXCEPT ![s] = "sampling"]
    /\ UNCHANGED <<paused, stopped, asleep, closed>>

\* The select takes stopCh.
LeaveAtTick(s) ==
    /\ sampler[s] = "ticking"
    /\ stopped
    /\ sampler' = [sampler EXCEPT ![s] = "done"]
    /\ UNCHANGED <<paused, stopped, asleep, closed>>

SampleAgain(s) ==                                     \* mutant: gate left out
    /\ sampler[s] = "sampling"
    /\ sampler' = [sampler EXCEPT ![s] = "ticking"]
    /\ UNCHANGED <<paused, stopped, asleep, closed>>

\* collect returns, and the loop goes back to the gate.
FinishSample(s) ==
    /\ sampler[s] = "sampling"
    /\ sampler' = [sampler EXCEPT ![s] = "gate"]
    /\ UNCHANGED <<paused, stopped, asleep, closed>>

SamplerStep(s) ==
    /\ \/ PassGate(s)
       \/ FallAsleep(s)
       \/ LeaveAtGate(s)
       \/ TakeTick(s)
       \/ LeaveAtTick(s)
       \/ FinishSample(s)
    /\ UNCHANGED <<procVars, winVars, main>>

\* Collector.Stop, as far as closing stopCh.
CloseStopCh ==
    /\ main = "quitting"
    /\ main' = "closing"
    /\ stopped' = TRUE
    /\ UNCHANGED <<paused, sampler, asleep, closed, procVars, winVars>>

WakeNobody ==                                         \* mutant: no broadcast
    /\ main = "closing"
    /\ main' = "joining"
    /\ UNCHANGED <<statsVars, procVars, winVars>>

\* ... as far as the broadcast.
WakeAll ==
    /\ main = "closing"
    /\ main' = "joining"
    /\ Broadcast
    /\ UNCHANGED <<paused, stopped, sampler, closed, procVars, winVars>>

\* ... wg.Wait has returned: the files are closed, and the process ends.
CloseFiles ==
    /\ main = "joining"
    /\ \A s \in Samplers : sampler[s] = "done"
    /\ main' = "gone"
    /\ closed' = TRUE
    /\ UNCHANGED <<paused, stopped, sampler, asleep, procVars, winVars>>

----------------------------------------------------------------------------
(* process.Collector: one goroutine, started and stopped *)

ProcStartAgain ==                                     \* mutant: running not checked
    /\ running' = TRUE
    /\ stopping' = FALSE
    /\ \E s \in Scanners :
          /\ scanner[s] = "none"
          /\ scanner' = [scanner EXCEPT ![s] = "starting"]
    /\ waitsOn' = [s \in Scanners |-> "former"]
    /\ UNCHANGED procFD

\* Collector.Start: a new channel, so a goroutine left waiting on the last one
\* waits on it still.
ProcStart ==
    IF running
    THEN UNCHANGED procVars
    ELSE /\ running' = TRUE
         /\ stopping' = FALSE
         /\ \E s \in Scanners :
               /\ scanner[s] = "none"
               /\ scanner' = [scanner EXCEPT ![s] = "starting"]
         /\ waitsOn' = [s \in Scanners |-> "former"]
         /\ UNCHANGED procFD

\* Collector.Stop, as far as wg.Wait: the main thread is then to wait.
ProcStop ==
    IF running
    THEN /\ running' = FALSE
         /\ stopping' = TRUE
         /\ main' = "waiting"
         /\ UNCHANGED <<scanner, waitsOn, procFD>>
    ELSE UNCHANGED <<procVars, main>>

ScanNotAwaited == FALSE                               \* mutant: no wg.Wait
\* The main thread may do no more of Stop while this holds.
ScanUnderWay == \E s \in Scanners : scanner[s] # "none"

\* ... wg.Wait has returned: closePlatform.
ClosePlatform ==
    /\ main = "waiting"
    /\ ~ScanUnderWay
    /\ main' = "idle"
    /\ procFD' = FALSE
    /\ UNCHANGED <<running, stopping, scanner, waitsOn, statsVars, winVars>>

\* collect begins: it opens /proc unless that is open already.
BeginScan(s) ==
    /\ \/ scanner[s] = "starting"
       \/ scanner[s] = "ticking"
    /\ scanner' = [scanner EXCEPT ![s] = "scanning"]
    /\ procFD' = TRUE
    /\ UNCHANGED <<running, stopping, waitsOn>>

\* collect returns; the select reads the stopCh field afresh.
FinishScan(s) ==
    /\ scanner[s] = "scanning"
    /\ scanner' = [scanner EXCEPT ![s] = "ticking"]
    /\ waitsOn' = [waitsOn EXCEPT ![s] = "current"]
    /\ UNCHANGED <<running, stopping, procFD>>

\* The select takes stopCh: a channel that has been replaced was closed first.
LeaveScanning(s) ==
    /\ scanner[s] = "ticking"
    /\ waitsOn[s] = "former" \/ stopping
    /\ scanner' = [scanner EXCEPT ![s] = "none"]
    /\ UNCHANGED <<running, stopping, waitsOn, procFD>>

ScannerStep(s) ==
    /\ BeginScan(s) \/ FinishScan(s) \/ LeaveScanning(s)
    /\ UNCHANGED <<statsVars, winVars, main>>

----------------------------------------------------------------------------
(* the window *)

\* SetVisible(true), which GTK's map signal calls.
Show ==
    /\ main = "idle"
    /\ ~mapped
    /\ mapped' = TRUE
    /\ visible' = TRUE
    /\ Resume
    /\ IF active \in NeedsProcs THEN ProcStart ELSE UNCHANGED procVars
    /\ UNCHANGED <<active, main>>

\* SetVisible(false), which GTK's unmap signal calls.
Hide ==
    /\ main = "idle"
    /\ mapped
    /\ mapped' = FALSE
    /\ visible' = FALSE
    /\ Pause
    /\ ProcStop
    /\ UNCHANGED active

\* selectView: an entry of the sidebar is chosen, which takes a window on
\* screen.
SelectView(page) ==
    /\ main = "idle"
    /\ mapped
    /\ active' = page
    /\ IF page \in NeedsProcs
       THEN ProcStart /\ UNCHANGED main
       ELSE ProcStop
    /\ UNCHANGED <<statsVars, visible, mapped>>

\* The application's shutdown: after the window is unmapped when it is closed,
\* with it still on screen when Atlas restarts itself.
Shutdown ==
    /\ main = "idle"
    /\ main' = "quitting"
    /\ UNCHANGED <<statsVars, procVars, winVars>>

----------------------------------------------------------------------------

\* activate: the samplers are launched, and Build selects the page to open on,
\* before the window is on screen. visible is true from the start.
Init ==
    /\ paused = FALSE
    /\ stopped = FALSE
    /\ sampler = [s \in Samplers |-> "starting"]
    /\ asleep = {}
    /\ closed = FALSE
    /\ active \in Pages
    /\ running = (active \in NeedsProcs)
    /\ stopping = FALSE
    /\ \E launched \in Scanners :
          scanner = [s \in Scanners |->
                        IF running /\ s = launched THEN "starting" ELSE "none"]
    /\ waitsOn = [s \in Scanners |-> "former"]
    /\ procFD = FALSE
    /\ visible = TRUE
    /\ mapped = FALSE
    /\ main = "idle"

MainStep ==
    \/ CloseStopCh
    \/ WakeAll
    \/ CloseFiles
    \/ ClosePlatform

UserStep ==
    \/ Show
    \/ Hide
    \/ \E page \in Pages : SelectView(page)
    \/ Shutdown

Next ==
    \/ UserStep
    \/ main # "gone" /\ \E s \in Samplers : SamplerStep(s)
    \/ main # "gone" /\ \E s \in Scanners : ScannerStep(s)
    \/ MainStep

\* Go runs every goroutine that can run, a ticker ticks, and the main thread
\* finishes what it has begun. A select that finds the tick and stopCh both
\* ready picks one at random, so it does not pick the tick for ever: hence the
\* strong fairness. Nothing obliges the user to do anything.
Fairness ==
    /\ \A s \in Samplers : WF_vars(main # "gone" /\ SamplerStep(s))
    /\ \A s \in Scanners :
          /\ WF_vars(main # "gone" /\ ScannerStep(s))
          /\ SF_vars(main # "gone" /\ LeaveScanning(s)
                                 /\ UNCHANGED <<statsVars, winVars, main>>)
    /\ WF_vars(MainStep)

Spec == Init /\ [][Next]_vars /\ Fairness

----------------------------------------------------------------------------
(* properties *)

\* Every variable holds a value of its kind.
TypeOK ==
    /\ paused \in BOOLEAN
    /\ stopped \in BOOLEAN
    /\ sampler \in [Samplers ->
            {"starting", "gate", "ticking", "sampling", "done"}]
    /\ asleep \subseteq Samplers
    /\ closed \in BOOLEAN
    /\ running \in BOOLEAN
    /\ stopping \in BOOLEAN
    /\ scanner \in [Scanners -> {"none", "starting", "scanning", "ticking"}]
    /\ waitsOn \in [Scanners -> {"current", "former"}]
    /\ procFD \in BOOLEAN
    /\ visible \in BOOLEAN
    /\ mapped \in BOOLEAN
    /\ active \in Pages
    /\ main \in {"idle", "waiting", "quitting", "closing", "joining", "gone"}

\* The gate keeps the promise of SamplingGate: once it is paused or stopped a
\* sampler takes at most the one sample it was already let through to take,
\* and Stop closes the files under nobody (stats.go:295-329).
Gate == INSTANCE SamplingGate WITH
    mode   <- IF stopped THEN "stopped" ELSE IF paused THEN "paused" ELSE "running",
    owed   <- {s \in Samplers : sampler[s] = "ticking"},
    taking <- {s \in Samplers : sampler[s] = "sampling"},
    closed <- closed

GatePromise == Gate!Spec

\* The expensive scan runs where it is used and nowhere else: whenever the main
\* thread is free there is one scanning goroutine if the window is visible on a
\* page that shows processes, and otherwise none (window.go:473-536).
ScansWhereUsed ==
    main = "idle" =>
        Cardinality({s \in Scanners : scanner[s] # "none"}) =
            IF visible /\ active \in NeedsProcs THEN 1 ELSE 0

\* A scan never has /proc closed under it: the descriptor is a bare number, so
\* a scan that kept using it would read some other file (process.go:244-254,
\* process_linux.go:736-744).
ScanHasItsDescriptor ==
    \A s \in Scanners : scanner[s] = "scanning" => procFD

\* Nobody waits for ever. Not the main thread: quitting does not wait for a sampler
\* nobody wakes, though a hidden window's are all asleep when it comes
\* (stats.go:296-314), and leaving a page or hiding does not for a scan that was
\* not told to stop (process.go:244-254). And no sampler sleeps through Resume, so
\* that a window shown again has fresh figures (stats.go:323-329).
NobodyWaitsForEver ==
    /\ main = "quitting" ~> main = "gone"
    /\ main = "waiting" ~> main = "idle"
    /\ \A s \in Samplers :
          (~paused /\ ~stopped) ~> (sampler[s] = "sampling" \/ paused \/ stopped)

====
