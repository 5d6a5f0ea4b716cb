---- MODULE CollectionProofs ----
(***************************************************************************)
(* For any number of samplers, scanners and pages: the gate of Collection  *)
(* implements SamplingGate, the scan runs where it is used and is the only *)
(* one, and /proc is never closed under it.                                *)
(***************************************************************************)

EXTENDS Collection, FiniteSetTheorems, TLAPS

\* Next, with an action of the model on each line.
LEMMA NextCases ==
    ASSUME [Next]_vars
    PROVE  \/ Show
           \/ Hide
           \/ \E page \in Pages : SelectView(page)
           \/ Shutdown
           \/ \E s \in Samplers : SamplerStep(s)
           \/ \E s \in Scanners : ScannerStep(s)
           \/ CloseStopCh
           \/ WakeAll
           \/ CloseFiles
           \/ ClosePlatform
           \/ UNCHANGED vars
BY DEF Next, UserStep, MainStep

----------------------------------------------------------------------------

LEMMA TypeInit == Init => TypeOK
<1> SUFFICES ASSUME Init
             PROVE  TypeOK
    OBVIOUS
<1>1. sampler \in [Samplers ->
            {"starting", "gate", "ticking", "sampling", "done"}]
      BY DEF Init
<1>2. scanner \in [Scanners -> {"none", "starting", "scanning", "ticking"}]
      BY DEF Init
<1>3. waitsOn \in [Scanners -> {"current", "former"}]
      BY DEF Init
<1>4. running \in BOOLEAN
      BY DEF Init
<1> QED BY <1>1, <1>2, <1>3, <1>4 DEF Init, TypeOK

LEMMA TypeStep == TypeOK /\ [Next]_vars => TypeOK'
<1> SUFFICES ASSUME TypeOK, [Next]_vars
             PROVE  TypeOK'
    OBVIOUS
<1> USE DEF TypeOK, statsVars, procVars, winVars
<1>1. CASE Show
      BY <1>1 DEF Show, Resume, Broadcast, ProcStart
<1>2. CASE Hide
      BY <1>2 DEF Hide, Pause, ProcStop
<1>3. CASE \E page \in Pages : SelectView(page)
      BY <1>3 DEF SelectView, ProcStart, ProcStop
<1>4. CASE Shutdown
      BY <1>4 DEF Shutdown
<1>5. ASSUME NEW s \in Samplers, SamplerStep(s)
      PROVE  TypeOK'
  <2>1. sampler' \in [Samplers ->
                {"starting", "gate", "ticking", "sampling", "done"}]
        BY <1>5 DEF SamplerStep, PassGate, FallAsleep, LeaveAtGate, TakeTick,
                    LeaveAtTick, FinishSample, PastGate
  <2>2. asleep' \subseteq Samplers
        BY <1>5 DEF SamplerStep, PassGate, FallAsleep, LeaveAtGate, TakeTick,
                    LeaveAtTick, FinishSample
  <2>3. UNCHANGED <<paused, stopped, closed, procVars, winVars, main>>
        BY <1>5 DEF SamplerStep, PassGate, FallAsleep, LeaveAtGate, TakeTick,
                    LeaveAtTick, FinishSample
  <2> QED BY <2>1, <2>2, <2>3
<1>6. ASSUME NEW s \in Scanners, ScannerStep(s)
      PROVE  TypeOK'
  <2>1. CASE BeginScan(s)
        BY <1>6, <2>1 DEF ScannerStep, BeginScan
  <2>2. CASE FinishScan(s)
        BY <1>6, <2>2 DEF ScannerStep, FinishScan
  <2>3. CASE LeaveScanning(s)
        BY <1>6, <2>3 DEF ScannerStep, LeaveScanning
  <2> QED BY <1>6, <2>1, <2>2, <2>3 DEF ScannerStep
<1>7. CASE CloseStopCh
      BY <1>7 DEF CloseStopCh
<1>8. CASE WakeAll
      BY <1>8 DEF WakeAll, Broadcast
<1>9. CASE CloseFiles
      BY <1>9 DEF CloseFiles
<1>10. CASE ClosePlatform
      BY <1>10 DEF ClosePlatform
<1>11. CASE UNCHANGED vars
      BY <1>11 DEF vars
<1> QED BY <1>1, <1>2, <1>3, <1>4, <1>5, <1>6, <1>7, <1>8, <1>9, <1>10, <1>11,
           NextCases

\* Every variable keeps to its kind.
THEOREM TypeCorrect == Spec => []TypeOK
BY TypeInit, TypeStep, PTL DEF Spec

----------------------------------------------------------------------------

LEMMA DescriptorStep ==
    TypeOK /\ ScanHasItsDescriptor /\ [Next]_vars => ScanHasItsDescriptor'
<1> SUFFICES ASSUME TypeOK, ScanHasItsDescriptor, [Next]_vars
             PROVE  ScanHasItsDescriptor'
    OBVIOUS
<1> USE DEF TypeOK, ScanHasItsDescriptor, statsVars, procVars, winVars
<1>1. CASE Show
      BY <1>1 DEF Show, ProcStart
<1>2. CASE Hide
      BY <1>2 DEF Hide, ProcStop
<1>3. CASE \E page \in Pages : SelectView(page)
      BY <1>3 DEF SelectView, ProcStart, ProcStop
<1>4. CASE Shutdown
      BY <1>4 DEF Shutdown
<1>5. ASSUME NEW s \in Samplers, SamplerStep(s)
      PROVE  ScanHasItsDescriptor'
      BY <1>5 DEF SamplerStep
<1>6. ASSUME NEW s \in Scanners, ScannerStep(s)
      PROVE  ScanHasItsDescriptor'
  <2>1. CASE BeginScan(s)
        BY <1>6, <2>1 DEF ScannerStep, BeginScan
  <2>2. CASE FinishScan(s)
        BY <1>6, <2>2 DEF ScannerStep, FinishScan
  <2>3. CASE LeaveScanning(s)
        BY <1>6, <2>3 DEF ScannerStep, LeaveScanning
  <2> QED BY <1>6, <2>1, <2>2, <2>3 DEF ScannerStep
<1>7. CASE CloseStopCh \/ WakeAll \/ CloseFiles
      BY <1>7 DEF CloseStopCh, WakeAll, CloseFiles
<1>8. CASE ClosePlatform
      BY <1>8 DEF ClosePlatform, ScanUnderWay
<1>9. CASE UNCHANGED vars
      BY <1>9 DEF vars
<1> QED BY <1>1, <1>2, <1>3, <1>4, <1>5, <1>6, <1>7, <1>8, <1>9, NextCases

\* A scan never has /proc closed under it: closePlatform runs when wg.Wait has
\* seen every scanner leave, and a scan opens /proc before it reads.
THEOREM ScansKeepTheirDescriptor == Spec => []ScanHasItsDescriptor
<1>1. Init => ScanHasItsDescriptor
      BY DEF Init, ScanHasItsDescriptor
<1> QED BY <1>1, DescriptorStep, TypeCorrect, PTL DEF Spec

----------------------------------------------------------------------------

Live(s) == scanner[s] # "none"

\* What Start and Stop keep between them. A scanner that runs waits on the
\* channel Stop will close, or will read that channel when it gets there; one
\* that has been told to stop is waited for before anything else is done.
ScannerOrder ==
    /\ \A s, t \in Scanners : Live(s) /\ Live(t) => s = t
    /\ running =>
          /\ ~stopping
          /\ main # "waiting"
          /\ \E s \in Scanners : Live(s)
          /\ \A s \in Scanners : scanner[s] = "ticking" => waitsOn[s] = "current"
    /\ ~running /\ main # "waiting" => \A s \in Scanners : ~Live(s)
    /\ mapped => visible
    /\ main \in {"idle", "waiting"} =>
          (running <=> visible /\ active \in NeedsProcs)

LEMMA ScannerOrderInit == Init => ScannerOrder
<1> SUFFICES ASSUME Init PROVE ScannerOrder
  OBVIOUS
<1>1. PICK launched \in Scanners :
          scanner = [s \in Scanners |-> IF running /\ s = launched THEN "starting" ELSE "none"]
  BY DEF Init
<1>2. visible /\ ~stopping /\ main = "idle" /\ (running <=> active \in NeedsProcs)
  BY DEF Init
<1>3. \A s \in Scanners : /\ Live(s) <=> running /\ s = launched
                          /\ scanner[s] # "ticking"
  BY ONLY <1>1 DEF Live
<1> QED BY <1>1, <1>2, <1>3 DEF ScannerOrder

\* Start, when a scan runs, does nothing, and otherwise launches the one scan.
LEMMA ProcStartKeepsOrder ==
    ASSUME TypeOK, ScannerOrder, main = "idle", ProcStart
    PROVE  /\ running' /\ ~stopping'
           /\ \A s, t \in Scanners : Live(s)' /\ Live(t)' => s = t
           /\ \E s \in Scanners : Live(s)'
           /\ \A s \in Scanners :
                 scanner'[s] = "ticking" => waitsOn'[s] = "current"
<1> USE DEF TypeOK, ScannerOrder, Live
<1>1. CASE running
      BY <1>1 DEF ProcStart, procVars
<1>2. CASE ~running
  <2>1. PICK s \in Scanners : scanner' = [scanner EXCEPT ![s] = "starting"]
        BY <1>2 DEF ProcStart
  <2>2. \A t \in Scanners : scanner'[t] = IF t = s THEN "starting" ELSE "none"
        BY <1>2, <2>1
  <2> QED BY <1>2, <2>2 DEF ProcStart
<1> QED BY <1>1, <1>2

LEMMA ScannerOrderStep ==
    TypeOK /\ ScannerOrder /\ [Next]_vars => ScannerOrder'
<1> SUFFICES ASSUME TypeOK, ScannerOrder, [Next]_vars
             PROVE  ScannerOrder'
    OBVIOUS
<1> USE DEF statsVars, procVars, winVars
<1>1. CASE Show
  <2>1. CASE active \in NeedsProcs
        BY <1>1, <2>1, ProcStartKeepsOrder DEF Show, ScannerOrder, Live
  <2>2. CASE active \notin NeedsProcs
        BY <1>1, <2>2 DEF Show, ScannerOrder, Live
  <2> QED BY <2>1, <2>2
<1>2. CASE Hide
      BY <1>2 DEF Hide, ProcStop, TypeOK, ScannerOrder, Live
<1>3. ASSUME NEW page \in Pages, SelectView(page)
      PROVE  ScannerOrder'
  <2>1. CASE page \in NeedsProcs
        BY <1>3, <2>1, ProcStartKeepsOrder DEF SelectView, ScannerOrder, Live
  <2>2. CASE page \notin NeedsProcs
        BY <1>3, <2>2 DEF SelectView, ProcStop, TypeOK, ScannerOrder, Live
  <2> QED BY <2>1, <2>2
<1>4. CASE Shutdown
      BY <1>4 DEF Shutdown, ScannerOrder, Live
<1>5. ASSUME NEW s \in Samplers, SamplerStep(s)
      PROVE  ScannerOrder'
      BY <1>5 DEF SamplerStep, ScannerOrder, Live
<1>6. ASSUME NEW s \in Scanners, ScannerStep(s)
      PROVE  ScannerOrder'
  <2> USE DEF TypeOK, ScannerOrder, Live
  <2>1. CASE BeginScan(s)
        BY <1>6, <2>1 DEF ScannerStep, BeginScan
  <2>2. CASE FinishScan(s)
        BY <1>6, <2>2 DEF ScannerStep, FinishScan
  <2>3. CASE LeaveScanning(s)
    <3>1. ~running
          BY <2>3 DEF LeaveScanning
    <3> QED BY <1>6, <2>3, <3>1 DEF ScannerStep, LeaveScanning
  <2> QED BY <1>6, <2>1, <2>2, <2>3 DEF ScannerStep
<1>7. CASE CloseStopCh \/ WakeAll \/ CloseFiles
      BY <1>7 DEF CloseStopCh, WakeAll, CloseFiles, ScannerOrder, Live
<1>8. CASE ClosePlatform
      BY <1>8 DEF ClosePlatform, ScanUnderWay, ScannerOrder, Live
<1>9. CASE UNCHANGED vars
      BY <1>9 DEF vars, ScannerOrder, Live
<1> QED BY <1>1, <1>2, <1>3, <1>4, <1>5, <1>6, <1>7, <1>8, <1>9, NextCases

LEMMA OrderGivesScansWhereUsed == ScannerOrder => ScansWhereUsed
<1> SUFFICES ASSUME ScannerOrder, main = "idle"
             PROVE  Cardinality({s \in Scanners : Live(s)}) =
                        IF visible /\ active \in NeedsProcs THEN 1 ELSE 0
    BY DEF ScansWhereUsed, Live
<1> DEFINE live == {s \in Scanners : Live(s)}
<1>1. CASE running
  <2>1. PICK s \in Scanners : Live(s)
        BY <1>1 DEF ScannerOrder
  <2>2. live = {s}
        BY <2>1 DEF ScannerOrder
  <2>3. Cardinality({s}) = 1
        BY FS_Singleton
  <2> QED BY <1>1, <2>2, <2>3 DEF ScannerOrder
<1>2. CASE ~running
  <2>1. live = {}
        BY <1>2 DEF ScannerOrder
  <2>2. Cardinality({}) = 0
        BY FS_EmptySet
  <2> QED BY <1>2, <2>1, <2>2 DEF ScannerOrder
<1> QED BY <1>1, <1>2

\* Whenever the main thread is free, one scanning goroutine runs if the window
\* is visible on a page that shows processes, and none otherwise.
THEOREM OneScanWhereUsed == Spec => []ScansWhereUsed
BY ScannerOrderInit, ScannerOrderStep, OrderGivesScansWhereUsed, TypeCorrect,
   PTL DEF Spec

----------------------------------------------------------------------------

\* Where the main thread is in Stop says what has been stopped and closed.
StopOrder ==
    /\ stopped <=> main \in {"closing", "joining", "gone"}
    /\ closed <=> main = "gone"

LEMMA StopOrderStep == StopOrder /\ [Next]_vars => StopOrder'
<1> SUFFICES ASSUME StopOrder, [Next]_vars
             PROVE  StopOrder'
    OBVIOUS
<1> USE DEF StopOrder, statsVars, procVars, winVars
<1>1. CASE Show
      BY <1>1 DEF Show, Resume
<1>2. CASE Hide
      BY <1>2 DEF Hide, Pause, ProcStop
<1>3. CASE \E page \in Pages : SelectView(page)
      BY <1>3 DEF SelectView, ProcStop
<1>4. CASE Shutdown
      BY <1>4 DEF Shutdown
<1>5. ASSUME NEW s \in Samplers, SamplerStep(s)
      PROVE  StopOrder'
      BY <1>5 DEF SamplerStep, PassGate, FallAsleep, LeaveAtGate, TakeTick,
                  LeaveAtTick, FinishSample
<1>6. ASSUME NEW s \in Scanners, ScannerStep(s)
      PROVE  StopOrder'
      BY <1>6 DEF ScannerStep
<1>7. CASE CloseStopCh \/ WakeAll \/ CloseFiles \/ ClosePlatform
      BY <1>7 DEF CloseStopCh, WakeAll, CloseFiles, ClosePlatform
<1>8. CASE UNCHANGED vars
      BY <1>8 DEF vars
<1> QED BY <1>1, <1>2, <1>3, <1>4, <1>5, <1>6, <1>7, <1>8, NextCases

\* SamplingGate's variables, by name.
Mode == IF stopped THEN "stopped" ELSE IF paused THEN "paused" ELSE "running"
Owed == {s \in Samplers : sampler[s] = "ticking"}
Taking == {s \in Samplers : sampler[s] = "sampling"}

LEMMA GateInit == Init => Gate!Init
BY DEF Init, Gate!Init

\* A step of one sampler is a step of SamplingGate, or none it can see.
LEMMA GateSamplerStep ==
    ASSUME TypeOK, NEW s \in Samplers, SamplerStep(s)
    PROVE  [Gate!Next]_(Gate!vars)
<1> USE DEF TypeOK
<1>1. CASE PassGate(s)
  <2>1. CASE sampler[s] = "starting"
        BY <1>1, <2>1 DEF PassGate, AtGate, PastGate, Gate!Next, Gate!Admit
  <2>2. CASE sampler[s] = "gate"
        BY <1>1, <2>2 DEF PassGate, AtGate, PastGate, Gate!Next, Gate!Admit
  <2> QED BY <1>1, <2>1, <2>2 DEF PassGate, AtGate
<1>2. CASE FallAsleep(s)
      BY <1>2 DEF FallAsleep, Gate!vars
<1>3. CASE LeaveAtGate(s)
      BY <1>3 DEF LeaveAtGate, AtGate, Gate!vars
<1>4. CASE TakeTick(s)
      BY <1>4 DEF TakeTick, Gate!Next, Gate!Begin
<1>5. CASE LeaveAtTick(s)
      BY <1>5 DEF LeaveAtTick, Gate!Next, Gate!Forgo
<1>6. CASE FinishSample(s)
      BY <1>6 DEF FinishSample, Gate!Next, Gate!Finish
<1> QED BY <1>1, <1>2, <1>3, <1>4, <1>5, <1>6 DEF SamplerStep

LEMMA GateStep ==
    ASSUME TypeOK, StopOrder, [Next]_vars
    PROVE  [Gate!Next]_(Gate!vars)
<1> USE DEF TypeOK, StopOrder, statsVars, procVars, winVars
<1>1. CASE Show
      BY <1>1 DEF Show, Resume, Gate!Next, Gate!Resume, Gate!vars
<1>2. CASE Hide
      BY <1>2 DEF Hide, Pause, Gate!Next, Gate!Pause, Gate!vars
<1>3. CASE \E page \in Pages : SelectView(page)
      BY <1>3 DEF SelectView, Gate!vars
<1>4. CASE Shutdown
      BY <1>4 DEF Shutdown, Gate!vars
<1>5. ASSUME NEW s \in Samplers, SamplerStep(s)
      PROVE  [Gate!Next]_(Gate!vars)
      BY <1>5, GateSamplerStep
<1>6. ASSUME NEW s \in Scanners, ScannerStep(s)
      PROVE  [Gate!Next]_(Gate!vars)
      BY <1>6 DEF ScannerStep, Gate!vars
<1>7. CASE CloseStopCh
      BY <1>7 DEF CloseStopCh, Gate!Next, Gate!Stop
<1>8. CASE WakeAll \/ ClosePlatform
      BY <1>8 DEF WakeAll, ClosePlatform, Gate!vars
<1>9. CASE CloseFiles
      BY <1>9 DEF CloseFiles, Gate!Next, Gate!Close
<1>10. CASE UNCHANGED vars
      BY <1>10 DEF vars, Gate!vars
<1> QED BY <1>1, <1>2, <1>3, <1>4, <1>5, <1>6, <1>7, <1>8, <1>9, <1>10,
           NextCases

\* The gate keeps its promise: past a pause or a stop a sampler takes at most
\* the one sample it had been let through to take, none begins past the gate,
\* and Stop closes the files only when nobody reads them.
THEOREM GateImplementsPromise == Spec => GatePromise
<1>1. Init => StopOrder
      BY DEF Init, StopOrder
<1>2. Spec => []StopOrder
      BY <1>1, StopOrderStep, PTL DEF Spec
<1> QED BY <1>2, TypeCorrect, GateInit, GateStep, PTL
        DEF Spec, GatePromise, Gate!Spec

====
