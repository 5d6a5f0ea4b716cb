------------------------- MODULE EnergySaverProofs -------------------------
(***************************************************************************)
(* Proofs about EnergySaver, for any applications, units and thresholds.   *)
(* In order: the type invariant; the coherence of the controller's maps;   *)
(* the recovery file, which lists only what is held; silence for what      *)
(* plays; who has set each weight, and so the eases made by hand and the   *)
(* weights of others; and, for applications of one window, that everything *)
(* held is listed, that nothing is stranded, and that all that Atlas has   *)
(* eased by itself is put back when it closes or starts again. A theorem   *)
(* names the happenings it excludes; every other one may occur in it.      *)
(***************************************************************************)
EXTENDS EnergySaver, TLAPS

----------------------------------------------------------------------------
(* The operators the actions are built from.                                *)

\* What the proofs need of the weights.
LEMMA WeightFacts ==
    /\ EasedWeight \in Weights
    /\ DefaultWeight \in Weights
    /\ Unset \in Weights
    /\ Absent \notin Weights
BY DEF EasedWeight, DefaultWeight, Unset, Absent, Weights

\* What they need of the clocks.
LEMMA ClockFacts ==
    /\ 0 \in 0 .. EaseAfter
    /\ 0 \in 0 .. AudioEvery
    /\ AudioEvery \in 0 .. AudioEvery
    /\ 0 \in CalmClock
BY PolicyAssumption DEF CalmClock

\* A bounded clock stays within its bound.
LEMMA AtMostBound ==
    ASSUME NEW n \in Nat, NEW limit \in Nat
    PROVE  AtMost(n, limit) \in 0 .. limit
BY DEF AtMost

\* Whatever has elapsed, the calm clock has one of its values.
LEMMA CalmAfterType ==
    ASSUME NEW clock \in CalmClock, NEW dt \in Nat, NEW first \in BOOLEAN
    PROVE  CalmAfter(clock, dt, first) \in CalmClock
<1>1. RestoreAfter \in Nat
  BY PolicyAssumption
<1>2. CASE first
  BY <1>2 DEF CalmAfter, CalmClock
<1>3. CASE ~first /\ clock \in {Forever, Wrapped}
  BY <1>3 DEF CalmAfter, CalmClock
<1>4. CASE ~first /\ clock \notin {Forever, Wrapped}
  <2>1. clock + dt \in Nat
    BY <1>1, <1>4 DEF CalmClock
  <2>2. AtMost(clock + dt, RestoreAfter) \in 0 .. RestoreAfter
    BY <2>1, <1>1, AtMostBound
  <2> QED BY <1>4, <2>2 DEF CalmAfter, CalmClock
<1> QED BY <1>2, <1>3, <1>4

\* A call knows whom it will ease and restore, and which of their units.
LEMMA LookFirstType ==
    ASSUME TypeOK, NEW E \in SUBSET Apps, NEW R \in SUBSET Apps, LookFirst(E, R)
    PROVE  /\ due' \in SUBSET Apps
           /\ backing' \in SUBSET Apps
           /\ looked' \in SUBSET Units
BY DEF LookFirst, EasedUnitsOf, Held

\* Whom a Tick eases and restores, and who is Atlas's own to restore.
LEMMA ChosenAreApps ==
    /\ \A answers : ToEase(answers) \in SUBSET Apps /\ ToRestore(answers) \in SUBSET Apps
    /\ AutoApps \in SUBSET Apps
BY DEF ToEase, ToRestore, Due, AutoApps

\* A fresh controller has its types.
LEMMA FreshControllerType ==
    ASSUME FreshController
    PROVE  /\ sampling' \in BOOLEAN
           /\ sample' \in [Units -> Weights \union {Unreadable, Absent}]
           /\ ticked' \in BOOLEAN
           /\ soundAge' \in 0 .. AudioEvery
           /\ audible' \in SUBSET Apps
           /\ changed' \in BOOLEAN
           /\ due' \in SUBSET Apps
           /\ backing' \in SUBSET Apps
           /\ looked' \in SUBSET Units
           /\ since' \in SUBSET Units
           /\ began' \in SUBSET Apps
           /\ eased' \in [Apps -> BOOLEAN]
           /\ manual' \in [Apps -> BOOLEAN]
           /\ heavyFor' \in [Apps -> 0 .. EaseAfter]
           /\ calmFor' \in [Apps -> CalmClock]
           /\ cpu' \in [Apps -> Load]
           /\ foreign' \in SUBSET Apps
           /\ known' \in SUBSET Units
           /\ prev' \in [Units -> Weights \union {Absent}]
<1>1. /\ sample' \in [Units -> Weights \union {Unreadable, Absent}]
      /\ prev' \in [Units -> Weights \union {Absent}]
  BY DEF FreshController, NoEntry
<1>2. /\ eased' \in [Apps -> BOOLEAN]
      /\ manual' \in [Apps -> BOOLEAN]
  BY DEF FreshController, EveryApp
<1>3. /\ heavyFor' \in [Apps -> 0 .. EaseAfter]
      /\ calmFor' \in [Apps -> CalmClock]
      /\ soundAge' \in 0 .. AudioEvery
  BY ClockFacts DEF FreshController, EveryApp
<1>4. cpu' \in [Apps -> Load]
  BY DEF FreshController, EveryApp, Load
<1>5. /\ sampling' \in BOOLEAN
      /\ ticked' \in BOOLEAN
      /\ changed' \in BOOLEAN
      /\ audible' \in SUBSET Apps
      /\ foreign' \in SUBSET Apps
      /\ known' \in SUBSET Units
      /\ due' \in SUBSET Apps
      /\ backing' \in SUBSET Apps
      /\ looked' \in SUBSET Units
      /\ since' \in SUBSET Units
      /\ began' \in SUBSET Apps
  BY DEF FreshController
<1> QED BY <1>1, <1>2, <1>3, <1>4, <1>5

\* In a fresh controller nothing is eased.
LEMMA FreshControllerEased ==
    ASSUME FreshController
    PROVE  EasedIsWhatUnitsSay'
BY UnitsAssumption
   DEF FreshController, NoEntry, EveryApp, EasedIsWhatUnitsSay, AnyEased, Held

----------------------------------------------------------------------------
(* Type correctness.                                                        *)

\* What a starting Atlas is about to set back is listed in the file, and nobody else
\* is at work.
RestartInv ==
    /\ phase \in {"down", "restarting"} => lock = "free"
    /\ phase = "restarting" => \A u \in looked : file[u] # Absent

LEMMA RestartInvariant == Spec => []RestartInv
<1>1. Init => RestartInv
  BY DEF Init, RestartInv
<1>2. RestartInv /\ [Next]_vars => RestartInv'
  <2> SUFFICES ASSUME RestartInv, [Next]_vars, phase' \in {"down", "restarting"}
               PROVE  /\ lock' = "free"
                      /\ phase' = "restarting" => \A u \in looked' : file'[u] # Absent
    BY DEF RestartInv
  <2>1. CASE Restart
    <3>1. PICK bus \in BusReplies : looked' = Recovered(bus)
      BY <2>1 DEF Restart
    <3>2. lock' = "free" /\ file' = file
      BY <2>1 DEF Restart, RestartInv
    <3> QED BY <3>1, <3>2 DEF Recovered
  <2>2. CASE Recover \/ Start \/ Shutdown \/ Exit \/ Crash
    BY <2>2 DEF Recover, Start, Shutdown, Exit, Crash
  <2>3. CASE UserAction
    BY <2>3 DEF UserAction, Ease, Restore, SetAutomatic, SetNever, Asked
  <2>4. CASE TickFold \/ TickListen \/ CarryOut \/ Persist
    <3>1. lock # "free" \/ phase \in {"run", "closing"}
      BY <2>4 DEF TickFold, TickListen, CarryOut, Persist
    <3>2. phase \in {"down", "restarting"}
      BY <2>4 DEF TickFold, TickListen, CarryOut, Persist
    <3> QED BY <3>1, <3>2 DEF RestartInv
  <2>5. CASE TickSample \/ Environment \/ UNCHANGED vars
    <3>1. UNCHANGED <<phase, lock, looked, file>>
      BY <2>5 DEF TickSample, Environment, OpenUnit, CloseUnit, OthersSet, StartPlaying,
                  StopPlaying, atlas, process, calls, vars
    <3> QED BY <3>1 DEF RestartInv
  <2> QED BY <2>1, <2>2, <2>3, <2>4, <2>5 DEF Next, Ticker, Process
<1> QED BY <1>1, <1>2, PTL DEF Spec

LEMMA InitType == Init => TypeOK
<1> SUFFICES ASSUME Init PROVE TypeOK
  OBVIOUS
<1>1. /\ weight \in [Units -> Weights]
      /\ setBy \in [Units -> {"none", "auto", "hand"}]
      /\ file \in [Units -> Weights \union {Absent}]
      /\ sample \in [Units -> Weights \union {Unreadable, Absent}]
      /\ prev \in [Units -> Weights \union {Absent}]
  BY WeightFacts DEF Init, NoEntry
<1>2. /\ eased \in [Apps -> BOOLEAN]
      /\ manual \in [Apps -> BOOLEAN]
      /\ heavyFor \in [Apps -> 0 .. EaseAfter]
      /\ calmFor \in [Apps -> CalmClock]
      /\ cpu \in [Apps -> Load]
      /\ soundAge \in 0 .. AudioEvery
  BY ClockFacts DEF Init, EveryApp, Load
<1> QED BY <1>1, <1>2 DEF Init, TypeOK

LEMMA ProcessType == TypeOK /\ RestartInv /\ Process => TypeOK'
<1> SUFFICES ASSUME TypeOK, RestartInv, Process PROVE TypeOK'
  OBVIOUS
<1> USE DEF TypeOK
<1>1. CASE Restart
  BY <1>1 DEF Restart, Recovered, machine, snapshot, settings, sound, meanwhile, clocks,
              apps, units
<1>2. CASE Recover
  <2>1. PICK bus \in BusReplies :
            /\ weight' = [u \in Units |-> IF u \in looked \ bus.refused THEN file[u]
                                          ELSE weight[u]]
            /\ setBy' = [u \in Units |-> IF u \in looked \ bus.refused THEN "none"
                                         ELSE setBy[u]]
    BY <1>2 DEF Recover
  <2>2. weight' \in [Units -> Weights]
    BY <2>1, <1>2 DEF RestartInv, Recover
  <2>3. setBy' \in [Units -> {"none", "auto", "hand"}]
    BY <2>1
  <2> QED BY <1>2, <2>2, <2>3
          DEF Recover, snapshot, settings, sound, clocks, apps, units
<1>3. CASE Start
  <2>1. file' \in [Units -> Weights \union {Absent}]
    BY <1>3 DEF Start, NoEntry
  <2> QED BY <1>3, <2>1
          DEF Start, machine, snapshot, settings, sound, calls, meanwhile, clocks, apps,
              units
<1>4. CASE Shutdown
  <2>1. lock' \in {"put", "save"}
    BY <1>4 DEF Shutdown, PutThenSave
  <2> QED BY <1>4, <2>1, LookFirstType, ChosenAreApps
          DEF Shutdown, machine, snapshot, settings, sound, meanwhile, clocks, apps, units
<1>5. CASE Exit
  BY <1>5, FreshControllerType DEF Exit, machine, settings
<1>6. CASE Crash
  <2>1. file' \in [Units -> Weights \union {Absent}]
    BY <1>6 DEF Crash, NoEntry
  <2> QED BY <1>6, <2>1, FreshControllerType DEF Crash, machine, settings
<1> QED BY <1>1, <1>2, <1>3, <1>4, <1>5, <1>6 DEF Process

LEMMA UserActionType == TypeOK /\ UserAction => TypeOK'
<1> SUFFICES ASSUME TypeOK, UserAction PROVE TypeOK'
  OBVIOUS
<1> USE DEF TypeOK
<1>1. ASSUME NEW a \in Apps, Ease(a) PROVE TypeOK'
  <2>1. PICK bus \in BusReplies :
            LET lowered == Easable(UnitsOf(a, known), prev, bus)
            IN  /\ prev' = [u \in Units |->
                                IF u \in lowered THEN weight[u] ELSE prev[u]]
                /\ weight' = [u \in Units |->
                                IF u \in lowered THEN EasedWeight ELSE weight[u]]
    BY <1>1 DEF Ease
  <2>2. /\ prev' \in [Units -> Weights \union {Absent}]
        /\ weight' \in [Units -> Weights]
    BY <2>1, WeightFacts
  <2>3. /\ setBy' \in [Units -> {"none", "auto", "hand"}]
        /\ eased' \in [Apps -> BOOLEAN]
        /\ manual' \in [Apps -> BOOLEAN]
    BY <1>1 DEF Ease, AnyEased
  <2> QED BY <1>1, <2>2, <2>3
          DEF Ease, snapshot, settings, sound, calls, meanwhile, clocks
<1>2. ASSUME NEW a \in Apps, Restore(a) PROVE TypeOK'
  BY <1>2, LookFirstType
     DEF Restore, machine, snapshot, settings, sound, meanwhile, clocks, apps, units
<1>3. ASSUME NEW on \in BOOLEAN, SetAutomatic(on) PROVE TypeOK'
  <2>1. (IF on THEN {} ELSE AutoApps) \in SUBSET Apps
    BY ChosenAreApps
  <2>2. lock' \in {"free", "put", "save"}
    BY <1>3 DEF SetAutomatic, PutThenSave
  <2> QED BY <1>3, <2>1, <2>2, LookFirstType
          DEF SetAutomatic, machine, snapshot, sound, meanwhile, clocks, apps, units
<1>4. ASSUME NEW ids \in SUBSET Apps, SetNever(ids) PROVE TypeOK'
  <2>1. AutoApps \cap ids \in SUBSET Apps
    BY ChosenAreApps
  <2>2. lock' \in {"put", "save"}
    BY <1>4 DEF SetNever, PutThenSave
  <2> QED BY <1>4, <2>1, <2>2, LookFirstType
          DEF SetNever, machine, snapshot, sound, meanwhile, clocks, apps, units
<1>5. \A a \in Apps : never \union {a} \in SUBSET Apps /\ never \ {a} \in SUBSET Apps
  OBVIOUS
<1> QED BY <1>1, <1>2, <1>3, <1>4, <1>5 DEF UserAction

LEMMA EnvironmentType == TypeOK /\ Environment => TypeOK'
<1> SUFFICES ASSUME TypeOK, Environment PROVE TypeOK'
  OBVIOUS
<1> USE DEF TypeOK, atlas, process, snapshot, settings, sound, calls, meanwhile, clocks,
        apps, units, SinceWith
<1>1. ASSUME NEW u \in Units, OpenUnit(u) PROVE TypeOK'
  BY <1>1 DEF OpenUnit
<1>2. ASSUME NEW u \in Units, CloseUnit(u) PROVE TypeOK'
  BY <1>2, WeightFacts DEF CloseUnit
<1>3. ASSUME NEW u \in Units, NEW w \in OthersWeights, OthersSet(u, w)
      PROVE  TypeOK'
  BY <1>3, OthersAssumption DEF OthersSet
<1>4. ASSUME NEW a \in Apps, StartPlaying(a) \/ StopPlaying(a) PROVE TypeOK'
  BY <1>4 DEF StartPlaying, StopPlaying
<1> QED BY <1>1, <1>2, <1>3, <1>4 DEF Environment

LEMMA TickSampleType == TypeOK /\ TickSample => TypeOK'
<1> SUFFICES ASSUME TypeOK, TickSample PROVE TypeOK'
  OBVIOUS
<1> USE DEF TypeOK
<1>1. PICK hidden :
        sample' = [u \in Units |-> IF u \notin live THEN Absent
                                   ELSE IF u \in hidden THEN Unreadable
                                   ELSE KernelWeight(u)]
  BY DEF TickSample
<1>2. \A u \in Units : KernelWeight(u) \in Weights
  BY WeightFacts DEF KernelWeight
<1>3. sample' \in [Units -> Weights \union {Unreadable, Absent}]
  BY <1>1, <1>2
<1> QED BY <1>3
        DEF TickSample, machine, process, settings, sound, calls, meanwhile, clocks, apps,
            units

LEMMA TickFoldType == TypeOK /\ TickFold => TypeOK'
<1> SUFFICES ASSUME TypeOK, TickFold PROVE TypeOK'
  OBVIOUS
<1> USE DEF TypeOK
<1>1. PICK bus \in BusReplies, dt \in Intervals, l \in Loads :
        LET joined == Easable(Joining, prev, bus)
        IN  /\ prev' = LetGo(Folded(bus))
            /\ weight' = [u \in Units |->
                            IF u \in joined THEN EasedWeight ELSE weight[u]]
            /\ setBy' = [u \in Units |->
                            IF u \notin joined THEN setBy[u]
                            ELSE IF manual[AppOf[u]] THEN "hand" ELSE "auto"]
            /\ changed' = \/ TakenOver(Folded(bus)) # {}
                          \/ \E u \in Held \ Seen : UnitsOf(AppOf[u], Seen) # {}
                          \/ \E a \in Apps : eased[a] /\ UnitsOf(a, Seen) = {}
            /\ eased' = [a \in Apps |-> eased[a] /\ AnyEased(a, prev')]
            /\ manual' = [a \in Apps |-> /\ manual[a]
                                         /\ UnitsOf(a, Seen) # {}
                                         /\ eased[a] => AnyEased(a, prev')]
            /\ heavyFor' = HeavyClocks(dt, l, eased')
            /\ calmFor' = CalmClocks(dt, l)
            /\ cpu' = l
            /\ soundAge' = AtMost(soundAge + dt, AudioEvery)
  BY DEF TickFold
<1>2. dt \in Nat /\ EaseAfter \in Nat /\ RestoreAfter \in Nat /\ AudioEvery \in Nat
  BY PolicyAssumption
<1>3. Folded(bus) \in [Units -> Weights \union {Absent}]
  BY DEF Folded
<1>4. prev' \in [Units -> Weights \union {Absent}]
  BY <1>1, <1>3 DEF LetGo
<1>5. /\ weight' \in [Units -> Weights]
      /\ setBy' \in [Units -> {"none", "auto", "hand"}]
      /\ changed' \in BOOLEAN
  BY <1>1, WeightFacts
<1>6. /\ eased' \in [Apps -> BOOLEAN]
      /\ manual' \in [Apps -> BOOLEAN]
  BY <1>1
<1>7. soundAge' \in 0 .. AudioEvery
  <2>1. soundAge + dt \in Nat
    BY <1>2
  <2> QED BY <1>1, <1>2, <2>1, AtMostBound
<1>8. heavyFor' \in [Apps -> 0 .. EaseAfter]
  <2>1. \A a \in Apps : heavyFor[a] + dt \in Nat
    BY <1>2
  <2>2. /\ AtMost(dt, EaseAfter) \in 0 .. EaseAfter
        /\ \A a \in Apps : AtMost(heavyFor[a] + dt, EaseAfter) \in 0 .. EaseAfter
    BY <1>2, <2>1, AtMostBound
  <2> QED BY <1>1, <2>2, ClockFacts DEF HeavyClocks
<1>9. calmFor' \in [Apps -> CalmClock]
  <2>1. \A a \in Apps : CalmAfter(calmFor[a], dt, ~ticked) \in CalmClock
    BY <1>2, CalmAfterType
  <2> QED BY <1>1, <2>1, ClockFacts DEF CalmClocks
<1>10. cpu' \in [Apps -> Load]
  BY <1>1 DEF Loads
<1>11. foreign' \in SUBSET Apps
  BY UnitsAssumption DEF TickFold, ForeignApps, Seen
<1>12. /\ known' \in SUBSET Units
       /\ sample' \in [Units -> Weights \union {Unreadable, Absent}]
  BY DEF TickFold, Seen, NoEntry
<1> QED BY <1>4, <1>5, <1>6, <1>7, <1>8, <1>9, <1>10, <1>11, <1>12
        DEF TickFold, settings, calls, meanwhile

LEMMA TickListenType == TypeOK /\ TickListen => TypeOK'
<1> SUFFICES ASSUME TypeOK, TickListen PROVE TypeOK'
  OBVIOUS
<1> USE DEF TypeOK
<1>1. PICK answers \in AudioAnswers :
        /\ audible' = Heard(answers)
        /\ soundAge' = IF Asks /\ answers THEN 0 ELSE soundAge
        /\ LookFirst(ToEase(answers), ToRestore(answers))
        /\ lock' = IF ToEase(answers) \union ToRestore(answers) # {} THEN "put"
                   ELSE IF changed THEN "save" ELSE "free"
  BY DEF TickListen
<1>2. audible' \in SUBSET Apps /\ soundAge' \in 0 .. AudioEvery
  BY <1>1, ClockFacts DEF Heard
<1>3. lock' \in {"put", "save", "free"}
  BY <1>1
<1>4. /\ due' \in SUBSET Apps
      /\ backing' \in SUBSET Apps
      /\ looked' \in SUBSET Units
  BY <1>1, LookFirstType, ChosenAreApps
<1> QED BY <1>2, <1>3, <1>4
        DEF TickListen, machine, snapshot, settings, meanwhile, clocks, apps, units

LEMMA CarryOutType == TypeOK /\ CarryOut => TypeOK'
<1> SUFFICES ASSUME TypeOK, CarryOut PROVE TypeOK'
  OBVIOUS
<1> USE DEF TypeOK
<1> DEFINE lowered(bus) == Easable({u \in known : AppOf[u] \in due}, prev, bus)
           held == EasedUnitsOf(backing)
<1>1. PICK bus \in BusReplies :
        /\ prev' = [u \in Units |-> IF u \in lowered(bus) THEN weight[u]
                                    ELSE HeldAfter(held, bus)[u]]
        /\ weight' = [u \in Units |-> IF u \in lowered(bus) THEN EasedWeight
                                      ELSE IF u \in PutBack(held, bus) THEN prev[u]
                                      ELSE weight[u]]
        /\ setBy' = [u \in Units |-> IF u \in lowered(bus) THEN "auto"
                                     ELSE IF u \in PutBack(held, bus) THEN "none"
                                     ELSE setBy[u]]
  BY DEF CarryOut
<1>2. prev' \in [Units -> Weights \union {Absent}]
  BY <1>1 DEF HeldAfter
<1>3. PutBack(held, bus) \subseteq Held
  BY DEF PutBack, EasedUnitsOf
<1>4. weight' \in [Units -> Weights]
  BY <1>1, <1>3, WeightFacts DEF Held
<1>5. setBy' \in [Units -> {"none", "auto", "hand"}]
  BY <1>1
<1>6. eased' \in [Apps -> BOOLEAN] /\ manual' \in [Apps -> BOOLEAN]
  BY DEF CarryOut, AnyEased
<1>7. /\ heavyFor' \in [Apps -> 0 .. EaseAfter]
      /\ calmFor' \in [Apps -> CalmClock]
  BY ClockFacts DEF CarryOut
<1> QED BY <1>2, <1>4, <1>5, <1>6, <1>7
        DEF CarryOut, AfterCalls, snapshot, settings, sound

LEMMA PersistType == TypeOK /\ Persist => TypeOK'
<1> SUFFICES ASSUME TypeOK, Persist PROVE TypeOK'
  OBVIOUS
<1> USE DEF TypeOK
<1>1. file' \in [Units -> Weights \union {Absent}]
  BY DEF Persist, AutomaticEases
<1> QED BY <1>1
        DEF Persist, machine, snapshot, settings, sound, calls, meanwhile, clocks, apps,
            units

LEMMA StutterType == TypeOK /\ UNCHANGED vars => TypeOK'
BY DEF TypeOK, vars, machine, process, snapshot, settings, sound, calls,
       meanwhile, clocks, apps, units

\* Every variable keeps its type, whatever the constants: in particular a unit
\* is never given a weight that is not one, such as that of a unit Atlas does
\* not hold.
THEOREM TypeCorrect == Spec => []TypeOK
<1>1. TypeOK /\ RestartInv /\ [Next]_vars => TypeOK'
  BY ProcessType, UserActionType, EnvironmentType, TickSampleType,
     TickFoldType, TickListenType, CarryOutType, PersistType, StutterType
  DEF Next, Ticker
<1> QED BY <1>1, InitType, RestartInvariant, PTL DEF Spec

----------------------------------------------------------------------------
(* "Eased is whatever the units say".                                       *)

LEMMA TickFoldEased == TypeOK /\ EasedIsWhatUnitsSay /\ TickFold => EasedIsWhatUnitsSay'
<1> SUFFICES ASSUME TypeOK, EasedIsWhatUnitsSay, TickFold
             PROVE  EasedIsWhatUnitsSay'
  OBVIOUS
<1>1. PICK bus \in BusReplies :
        /\ prev' = LetGo(Folded(bus))
        /\ eased' = [a \in Apps |-> eased[a] /\ AnyEased(a, prev')]
  BY DEF TickFold
<1>2. ASSUME NEW u \in Units, prev'[u] # Absent
      PROVE  u \in Seen /\ eased[AppOf[u]]
  <2>1. Folded(bus)[u] # Absent
    BY <1>1, <1>2 DEF LetGo
  <2>2. u \in Seen
    BY <2>1 DEF Folded
  <2>3. CASE u \in Easable(Joining, prev, bus)
    BY <2>2, <2>3 DEF Easable, Joining
  <2>4. CASE u \notin Easable(Joining, prev, bus)
    <3>1. prev[u] # Absent
      BY <2>1, <2>2, <2>4 DEF Folded
    <3> QED BY <3>1, <2>2, UnitsAssumption DEF EasedIsWhatUnitsSay, AnyEased
  <2> QED BY <2>3, <2>4
<1>3. \A a \in Apps : AnyEased(a, prev') => eased[a]
  BY <1>2 DEF AnyEased
<1>4. \A a \in Apps : eased'[a] <=> AnyEased(a, prev')
  BY <1>1, <1>3 DEF TypeOK
<1>5. Held' \subseteq known'
  BY <1>2 DEF Held, TickFold
<1> QED BY <1>4, <1>5 DEF EasedIsWhatUnitsSay, AnyEased

LEMMA CarryOutEased ==
    TypeOK /\ EasedIsWhatUnitsSay /\ CarryOut => EasedIsWhatUnitsSay'
<1> SUFFICES ASSUME TypeOK, EasedIsWhatUnitsSay, CarryOut
             PROVE  EasedIsWhatUnitsSay'
  OBVIOUS
<1> DEFINE lowered(bus) == Easable({u \in known : AppOf[u] \in due}, prev, bus)
           held == EasedUnitsOf(backing)
<1>1. PICK bus \in BusReplies :
        prev' = [u \in Units |-> IF u \in lowered(bus) THEN weight[u]
                                 ELSE HeldAfter(held, bus)[u]]
  BY DEF CarryOut
<1>2. \A u \in Units : AppOf[u] \notin due \union backing => prev'[u] = prev[u]
  BY <1>1 DEF HeldAfter, Easable, EasedUnitsOf
<1>3. ASSUME NEW a \in Apps PROVE eased'[a] <=> AnyEased(a, prev')
  <2>1. CASE a \in due \union backing
    BY <2>1 DEF CarryOut
  <2>2. CASE a \notin due \union backing
    <3>1. eased'[a] = eased[a]
      BY <2>2 DEF CarryOut
    <3>2. AnyEased(a, prev') <=> AnyEased(a, prev)
      BY <1>2, <2>2 DEF AnyEased
    <3> QED BY <3>1, <3>2 DEF EasedIsWhatUnitsSay
  <2> QED BY <2>1, <2>2
<1>4. \A u \in Units : prev'[u] # Absent => u \in known \/ prev[u] # Absent
  BY <1>1 DEF HeldAfter, Easable
<1>5. Held' \subseteq known'
  BY <1>4 DEF Held, EasedIsWhatUnitsSay, CarryOut
<1> QED BY <1>3, <1>5 DEF EasedIsWhatUnitsSay, AnyEased

LEMMA EaseEased ==
    ASSUME TypeOK, EasedIsWhatUnitsSay, NEW a \in Apps, Ease(a)
    PROVE  EasedIsWhatUnitsSay'
<1>1. PICK bus \in BusReplies :
        prev' = [u \in Units |->
                    IF u \in Easable(UnitsOf(a, known), prev, bus)
                    THEN weight[u] ELSE prev[u]]
  BY DEF Ease
<1>2. \A u \in Units : AppOf[u] # a => prev'[u] = prev[u]
  BY <1>1 DEF Easable, UnitsOf
<1>3. ASSUME NEW b \in Apps PROVE eased'[b] <=> AnyEased(b, prev')
  <2>1. CASE b = a
    BY <2>1 DEF Ease, TypeOK
  <2>2. CASE b # a
    <3>1. AnyEased(b, prev') <=> AnyEased(b, prev)
      BY <1>2, <2>2 DEF AnyEased
    <3> QED BY <3>1, <2>2 DEF Ease, EasedIsWhatUnitsSay, TypeOK
  <2> QED BY <2>1, <2>2
<1>4. Held' \subseteq known'
  BY <1>1 DEF Held, EasedIsWhatUnitsSay, Ease, Easable, UnitsOf
<1> QED BY <1>3, <1>4 DEF EasedIsWhatUnitsSay, AnyEased

\* What the other actions leave alone.
LEMMA SameControllerEased ==
    EasedIsWhatUnitsSay /\ UNCHANGED <<apps, units>> => EasedIsWhatUnitsSay'
BY DEF EasedIsWhatUnitsSay, AnyEased, Held, apps, units

LEMMA UserActionEased ==
    TypeOK /\ EasedIsWhatUnitsSay /\ UserAction => EasedIsWhatUnitsSay'
<1> SUFFICES ASSUME TypeOK, EasedIsWhatUnitsSay, UserAction
             PROVE  EasedIsWhatUnitsSay'
  OBVIOUS
<1>1. \/ \E a \in Apps : Ease(a)
      \/ UNCHANGED <<apps, units>>
  BY DEF UserAction, Restore, SetAutomatic, SetNever
<1> QED BY <1>1, EaseEased, SameControllerEased

LEMMA ProcessEased ==
    TypeOK /\ EasedIsWhatUnitsSay /\ Process => EasedIsWhatUnitsSay'
<1> SUFFICES ASSUME TypeOK, EasedIsWhatUnitsSay, Process
             PROVE  EasedIsWhatUnitsSay'
  OBVIOUS
<1>1. CASE Restart \/ Recover \/ Start \/ Shutdown
  BY <1>1, SameControllerEased DEF Restart, Recover, Start, Shutdown
<1>2. CASE Exit \/ Crash
  BY <1>2, FreshControllerEased DEF Exit, Crash
<1> QED BY <1>1, <1>2 DEF Process

LEMMA EnvironmentEased ==
    EasedIsWhatUnitsSay /\ Environment => EasedIsWhatUnitsSay'
<1> SUFFICES ASSUME Environment PROVE UNCHANGED <<apps, units>>
  BY SameControllerEased
<1> QED BY DEF Environment, OpenUnit, CloseUnit, OthersSet, StartPlaying,
               StopPlaying, atlas

\* An application counts as eased exactly when a unit of it is, in every
\* reachable state: easing, restoring, joining, losing and forgetting units all
\* keep the flag of the application in step (ease.go:455).
THEOREM EasedCoherent == Spec => []EasedIsWhatUnitsSay
<1>1. Init => EasedIsWhatUnitsSay
  BY UnitsAssumption DEF Init, NoEntry, EveryApp, EasedIsWhatUnitsSay, AnyEased, Held
<1>2. TypeOK /\ EasedIsWhatUnitsSay /\ [Next]_vars => EasedIsWhatUnitsSay'
  <2> SUFFICES ASSUME TypeOK, EasedIsWhatUnitsSay, [Next]_vars
               PROVE  EasedIsWhatUnitsSay'
    OBVIOUS
  <2>1. CASE TickSample \/ TickListen
    BY <2>1, SameControllerEased DEF TickSample, TickListen
  <2>2. CASE Persist
    BY <2>2, SameControllerEased DEF Persist
  <2>3. CASE UNCHANGED vars
    BY <2>3, SameControllerEased DEF vars
  <2> QED BY <2>1, <2>2, <2>3, TickFoldEased, CarryOutEased, UserActionEased,
             ProcessEased, EnvironmentEased DEF Next, Ticker
<1> QED BY <1>1, <1>2, TypeCorrect, PTL DEF Spec

----------------------------------------------------------------------------
(* The crash-recovery file. ListedIsHeld speaks of a free lock and is not    *)
(* inductive: between the fold and the decision of a Tick the file still     *)
(* tells the truth, unless the fold has noted a change that will be saved.   *)

Settled == lock = "free" \/ (lock = "decide" /\ ~changed)

FileTellsTruth ==
    phase \in {"run", "closing"} /\ Settled =>
        \A u \in Units : file[u] # Absent => /\ eased[AppOf[u]]
                                             /\ ~manual[AppOf[u]]
                                             /\ prev[u] = file[u]

LEMMA TickFoldFile ==
    TypeOK /\ EasedIsWhatUnitsSay /\ FileTellsTruth /\ TickFold => FileTellsTruth'
<1> SUFFICES ASSUME TypeOK, EasedIsWhatUnitsSay, FileTellsTruth, TickFold,
                    ~changed',
                    NEW u \in Units, file[u] # Absent
             PROVE  eased'[AppOf[u]] /\ ~manual'[AppOf[u]] /\ prev'[u] = file[u]
  BY DEF FileTellsTruth, Settled, TickFold
<1>1. PICK bus \in BusReplies :
        /\ prev' = LetGo(Folded(bus))
        /\ changed' = \/ TakenOver(Folded(bus)) # {}
                      \/ \E v \in Held \ Seen : UnitsOf(AppOf[v], Seen) # {}
                      \/ \E a \in Apps : eased[a] /\ UnitsOf(a, Seen) = {}
        /\ eased' = [a \in Apps |-> eased[a] /\ AnyEased(a, prev')]
        /\ manual' = [a \in Apps |-> /\ manual[a]
                                     /\ UnitsOf(a, Seen) # {}
                                     /\ eased[a] => AnyEased(a, prev')]
  BY DEF TickFold
<1>2. AppOf[u] \in Apps
  BY UnitsAssumption
<1>3. eased[AppOf[u]] /\ ~manual[AppOf[u]] /\ prev[u] = file[u]
  BY DEF FileTellsTruth, Settled, TickFold
<1>4. u \in Seen
  BY <1>1, <1>2, <1>3 DEF Held
<1>5. Folded(bus)[u] = prev[u]
  BY <1>3, <1>4 DEF Folded, Easable
<1>6. prev'[u] = prev[u]
  BY <1>1, <1>5 DEF LetGo
<1>7. AnyEased(AppOf[u], prev')
  BY <1>3, <1>6 DEF AnyEased
<1> QED BY <1>1, <1>2, <1>3, <1>6, <1>7

LEMMA TickListenFile ==
    TypeOK /\ FileTellsTruth /\ TickListen => FileTellsTruth'
<1> SUFFICES ASSUME TypeOK, FileTellsTruth, TickListen,
                    phase \in {"run", "closing"}, lock' = "free",
                    NEW u \in Units, file[u] # Absent
             PROVE  eased[AppOf[u]] /\ ~manual[AppOf[u]] /\ prev[u] = file[u]
  BY DEF FileTellsTruth, Settled, TickListen, apps, units
<1>1. ~changed
  BY DEF TickListen
<1> QED BY <1>1 DEF FileTellsTruth, Settled, TickListen

LEMMA PersistFile == TypeOK /\ Persist => FileTellsTruth'
<1> SUFFICES ASSUME TypeOK, Persist, NEW u \in Units, AutomaticEases[u] # Absent
             PROVE  eased[AppOf[u]] /\ ~manual[AppOf[u]] /\ prev[u] = AutomaticEases[u]
  BY DEF FileTellsTruth, Persist, apps, units
<1> QED BY DEF AutomaticEases, IsAuto

LEMMA UserActionFile ==
    TypeOK /\ FileTellsTruth /\ UserAction => FileTellsTruth'
<1> SUFFICES ASSUME TypeOK, FileTellsTruth, UserAction PROVE FileTellsTruth'
  OBVIOUS
<1>1. CASE lock' \in {"put", "undo", "save"}
  BY <1>1 DEF FileTellsTruth, Settled
<1>2. CASE lock' \notin {"put", "undo", "save"}
  <2>1. SetAutomatic(TRUE)
    BY <1>2 DEF UserAction, Ease, Restore, SetNever, SetAutomatic, PutThenSave
  <2> QED BY <2>1 DEF FileTellsTruth, Settled, SetAutomatic, Asked, apps, units
<1> QED BY <1>1, <1>2

LEMMA ProcessFile == Process => FileTellsTruth'
<1> SUFFICES ASSUME Process PROVE FileTellsTruth'
  OBVIOUS
<1>1. CASE Start
  BY <1>1 DEF Start, NoEntry, FileTellsTruth
<1>2. CASE Restart \/ Recover \/ Shutdown \/ Exit \/ Crash
  BY <1>2 DEF Restart, Recover, Shutdown, Exit, Crash, FileTellsTruth
<1> QED BY <1>1, <1>2 DEF Process

LEMMA SameFile ==
    /\ FileTellsTruth
    /\ UNCHANGED <<phase, lock, changed, file, eased, manual, prev>>
    => FileTellsTruth'
BY DEF FileTellsTruth, Settled

LEMMA FileTruth == Spec => []FileTellsTruth
<1>1. Init => FileTellsTruth
  BY DEF Init, NoEntry, FileTellsTruth
<1>2. TypeOK /\ EasedIsWhatUnitsSay /\ FileTellsTruth /\ [Next]_vars
        => FileTellsTruth'
  <2> SUFFICES ASSUME TypeOK, EasedIsWhatUnitsSay, FileTellsTruth, [Next]_vars
               PROVE  FileTellsTruth'
    OBVIOUS
  <2>1. CASE TickSample
    BY <2>1, SameFile DEF TickSample, process, apps, units
  <2>2. CASE Environment
    BY <2>2, SameFile DEF Environment, OpenUnit, CloseUnit, OthersSet,
                          StartPlaying, StopPlaying, atlas, process, apps, units
  <2>3. CASE UNCHANGED vars
    BY <2>3, SameFile DEF vars, process, apps, units
  <2>4. CASE CarryOut
    BY <2>4 DEF CarryOut, AfterCalls, FileTellsTruth, Settled
  <2> QED BY <2>1, <2>2, <2>3, <2>4, TickFoldFile, TickListenFile, PersistFile,
             UserActionFile, ProcessFile DEF Next, Ticker
<1> QED BY <1>1, <1>2, TypeCorrect, EasedCoherent, PTL DEF Spec

\* Whatever fails, is refused, overtakes or kills it, a running Atlas never
\* leaves a unit in the crash-recovery file that it does not hold as eased
\* automatically, nor with another weight to restore than its own.
THEOREM ListedSound == Spec => []ListedIsHeld
<1>1. FileTellsTruth => ListedIsHeld
  BY DEF FileTellsTruth, Settled, ListedIsHeld, IsAuto
<1> QED BY <1>1, FileTruth, PTL

----------------------------------------------------------------------------
(* Sound.                                                                   *)

LEMMA TickListenSilent ==
    ASSUME TickListen
    PROVE  due' \cap playing = {}
<1>1. PICK answers \in AudioAnswers : due' = ToEase(answers)
  BY DEF TickListen, LookFirst
<1>2. ASSUME NEW a \in ToEase(answers) PROVE a \notin playing
  <2>1. answers /\ Asks
    BY <1>2 DEF ToEase, Asks, AsksForSound
  <2>2. Heard(answers) = playing
    BY <2>1 DEF Heard
  <2> QED BY <1>2, <2>1, <2>2 DEF ToEase
<1> QED BY <1>1, <1>2

\* Whoever Atlas is about to ease was silent when it asked.
DueIsSilent ==
    /\ lock = "put" => due \cap playing \subseteq began
    /\ lock = "undo" => due = {}

LEMMA DueSilent == Spec => []DueIsSilent
<1>1. Init => DueIsSilent
  BY DEF Init, DueIsSilent
<1>2. TypeOK /\ DueIsSilent /\ [Next]_vars => DueIsSilent'
  <2> SUFFICES ASSUME TypeOK, DueIsSilent, [Next]_vars PROVE DueIsSilent'
    OBVIOUS
  <2>1. CASE TickListen
    BY <2>1, TickListenSilent DEF TickListen, DueIsSilent, machine
  <2>2. CASE TickFold \/ CarryOut \/ Persist
    BY <2>2 DEF TickFold, CarryOut, AfterCalls, Persist, DueIsSilent
  <2>3. CASE UserAction
    BY <2>3 DEF UserAction, Ease, Restore, SetAutomatic, SetNever, LookFirst, DueIsSilent
  <2>4. CASE Process
    BY <2>4 DEF Process, Restart, Recover, Start, Shutdown, Exit, Crash, FreshController,
                LookFirst, DueIsSilent, machine, calls, meanwhile
  <2>5. CASE TickSample \/ UNCHANGED vars
    BY <2>5 DEF TickSample, DueIsSilent, machine, process, calls, meanwhile, vars
  <2>6. CASE Environment
    <3>1. UNCHANGED <<lock, due>>
      BY <2>6 DEF Environment, OpenUnit, CloseUnit, OthersSet, StartPlaying, StopPlaying,
                  atlas, process, calls
    <3>2. /\ began \subseteq began'
          /\ lock = "put" => playing' \subseteq playing \union began'
      BY <2>6 DEF Environment, OpenUnit, CloseUnit, OthersSet, StartPlaying, StopPlaying,
                  meanwhile
    <3> QED BY <3>1, <3>2 DEF DueIsSilent
  <2> QED BY <2>1, <2>2, <2>3, <2>4, <2>5, <2>6 DEF Next, Ticker
<1> QED BY <1>1, <1>2, TypeCorrect, PTL DEF Spec

LEMMA NextIsSilent ==
    ASSUME TypeOK, DueIsSilent, [Next]_vars, NEW u \in Units,
           setBy[u] # "auto", setBy'[u] = "auto", ~eased[AppOf[u]]
    PROVE  AppOf[u] \notin playing \ began
<1>1. CASE TickFold
  <2>1. PICK bus \in BusReplies :
          setBy' = [v \in Units |->
                      IF v \notin Easable(Joining, prev, bus) THEN setBy[v]
                      ELSE IF manual[AppOf[v]] THEN "hand" ELSE "auto"]
    BY <1>1 DEF TickFold
  <2>2. u \in Joining
    BY <2>1 DEF Easable
  <2> QED BY <2>2 DEF Joining
<1>2. CASE CarryOut
  <2>1. PICK bus \in BusReplies :
          setBy' = [v \in Units |->
                      IF v \in Easable({w \in known : AppOf[w] \in due}, prev, bus)
                      THEN "auto"
                      ELSE IF v \in PutBack(EasedUnitsOf(backing), bus) THEN "none"
                      ELSE setBy[v]]
    BY <1>2 DEF CarryOut
  <2>2. AppOf[u] \in due
    BY <2>1 DEF Easable
  <2> QED BY <1>2, <2>2 DEF CarryOut, DueIsSilent
<1>3. CASE TickSample \/ TickListen \/ Persist \/ UNCHANGED vars
  BY <1>3 DEF TickSample, TickListen, Persist, machine, vars
<1>4. CASE UserAction
  BY <1>4 DEF UserAction, Ease, Restore, SetAutomatic, SetNever, machine
<1>5. CASE Process
  BY <1>5 DEF Process, Restart, Recover, Start, Shutdown, Exit, Crash, machine
<1>6. CASE Environment
  BY <1>6 DEF Environment, OpenUnit, CloseUnit, OthersSet, StartPlaying,
              StopPlaying, TypeOK
<1> QED BY <1>1, <1>2, <1>3, <1>4, <1>5, <1>6 DEF Next, Ticker

\* "the one thing this must never do" (ease.go:420): whatever the sound check
\* answered before, whether it fails now, and however settings and sound change
\* under a Tick, an application that Atlas eases by itself was silent when PipeWire
\* was last asked, and plays only if it began after that.
THEOREM SoundSafe == Spec => NeverEasesSound
<1>1. TypeOK /\ DueIsSilent /\ [Next]_vars =>
        [\A u \in Units :
            setBy[u] # "auto" /\ setBy'[u] = "auto" /\ ~eased[AppOf[u]]
                => AppOf[u] \notin playing \ began]_vars
  BY NextIsSilent
<1> QED BY <1>1, TypeCorrect, DueSilent, PTL DEF Spec, NeverEasesSound

----------------------------------------------------------------------------
(* What each action that calls the service manager does to one unit.        *)

\* A unit whose weight is set is there.
LEMMA BusFacts ==
    ASSUME NEW bus \in BusReplies, NEW u \in Units
    PROVE  /\ \A S, p : u \in Easable(S, p, bus) => u \in S /\ u \in live /\ p[u] = Absent
           /\ \A R : u \in PutBack(R, bus) => u \in R /\ u \in live /\ u \in looked
           /\ u \notin live => u \in bus.refused
           /\ "refuse" \notin Permitted /\ u \in live => u \notin bus.refused
           /\ "unread" \notin Permitted /\ u \in live => u \notin bus.unread
<1>1. /\ Units \ live \subseteq bus.unread /\ Units \ live \subseteq bus.refused
      /\ "unread" \notin Permitted => bus.unread = Units \ live
      /\ "refuse" \notin Permitted => bus.refused = Units \ live
  BY DEF BusReplies
<1>2. \A S, p : u \in Easable(S, p, bus) => u \in S /\ u \in live /\ p[u] = Absent
  BY <1>1 DEF Easable
<1>3. \A R : u \in PutBack(R, bus) => u \in R /\ u \in live /\ u \in looked
  BY <1>1 DEF PutBack
<1> QED BY <1>1, <1>2, <1>3

\* The fold: the unit is a new window of an eased application and is eased with
\* it, or nothing is set.
LEMMA TickFoldUnit ==
    ASSUME TypeOK, TickFold, NEW u \in Units
    PROVE  /\ prev'[u] # Absent =>
                u \in Seen /\ sample[u] \in {Unreadable, EasedWeight}
           /\ u \in Seen /\ prev[u] # Absent /\ sample[u] \in {Unreadable, EasedWeight}
                => prev'[u] = prev[u]
           /\ manual'[AppOf[u]] => manual[AppOf[u]]
           /\ prev'[u] # Absent /\ manual[AppOf[u]] => manual'[AppOf[u]]
           /\ \/ /\ u \in live /\ u \in Joining /\ prev[u] = Absent
                 /\ weight'[u] = EasedWeight
                 /\ setBy'[u] = IF manual[AppOf[u]] THEN "hand" ELSE "auto"
              \/ /\ weight'[u] = weight[u]
                 /\ setBy'[u] = setBy[u]
                 /\ prev'[u] # Absent => prev'[u] = prev[u]
           /\ live' = live
<1>1. PICK bus \in BusReplies :
        /\ prev' = LetGo(Folded(bus))
        /\ weight' = [v \in Units |-> IF v \in Easable(Joining, prev, bus)
                                      THEN EasedWeight ELSE weight[v]]
        /\ setBy' = [v \in Units |->
                        IF v \notin Easable(Joining, prev, bus) THEN setBy[v]
                        ELSE IF manual[AppOf[v]] THEN "hand" ELSE "auto"]
        /\ manual' = [a \in Apps |-> /\ manual[a]
                                     /\ UnitsOf(a, Seen) # {}
                                     /\ eased[a] => AnyEased(a, prev')]
  BY DEF TickFold
<1>2. u \in Easable(Joining, prev, bus) => u \in live /\ u \in Joining /\ prev[u] = Absent
  BY BusFacts
<1>3. \/ u \in Easable(Joining, prev, bus)
      \/ prev'[u] # Absent => prev'[u] = prev[u]
  BY <1>1 DEF LetGo, Folded
<1>4. prev'[u] # Absent => u \in Seen /\ sample[u] \in {Unreadable, EasedWeight}
  BY <1>1 DEF LetGo, Folded, TakenOver, Seen
<1>5. u \in Seen /\ prev[u] # Absent /\ sample[u] \in {Unreadable, EasedWeight}
        => prev'[u] = prev[u]
  BY <1>1, <1>2 DEF LetGo, Folded, TakenOver
<1>6. AppOf[u] \in Apps
  BY UnitsAssumption
<1>7. u \in Seen => UnitsOf(AppOf[u], Seen) # {}
  BY DEF UnitsOf
<1>8. prev'[u] # Absent => AnyEased(AppOf[u], prev')
  BY DEF AnyEased
<1>9. /\ manual'[AppOf[u]] => manual[AppOf[u]]
      /\ prev'[u] # Absent /\ manual[AppOf[u]] => manual'[AppOf[u]]
  BY <1>1, <1>4, <1>6, <1>7, <1>8
<1>10. live' = live
  BY DEF TickFold
<1> QED BY <1>1, <1>2, <1>3, <1>4, <1>5, <1>9, <1>10

\* What was decided: the unit is eased, put back, given up, or left alone.
LEMMA CarryOutUnit ==
    ASSUME TypeOK, CarryOut, NEW u \in Units
    PROVE  /\ \/ /\ u \in live /\ u \in known /\ prev[u] = Absent /\ AppOf[u] \in due
                 /\ weight'[u] = EasedWeight /\ setBy'[u] = "auto"
                 /\ prev'[u] # Absent
              \/ /\ u \in live /\ u \in looked /\ prev[u] # Absent
                 /\ AppOf[u] \in backing
                 /\ setBy'[u] = "none"
                 /\ prev'[u] = Absent
              \/ /\ weight'[u] = weight[u]
                 /\ setBy'[u] = setBy[u]
                 /\ \/ prev'[u] = prev[u]
                    \/ /\ prev'[u] = Absent
                       /\ u \in EasedUnitsOf(backing) \ looked
                 /\ "refuse" \notin Permitted /\ u \in live /\ u \in looked
                       => u \notin EasedUnitsOf(backing)
           /\ prev'[u] # Absent /\ manual[AppOf[u]] => manual'[AppOf[u]]
           /\ manual'[AppOf[u]] => manual[AppOf[u]]
           /\ live' = live /\ known' = known
<1> DEFINE lowered(bus) == Easable({v \in known : AppOf[v] \in due}, prev, bus)
           held == EasedUnitsOf(backing)
<1>1. PICK bus \in BusReplies :
        /\ prev' = [v \in Units |-> IF v \in lowered(bus) THEN weight[v]
                                    ELSE HeldAfter(held, bus)[v]]
        /\ weight' = [v \in Units |-> IF v \in lowered(bus) THEN EasedWeight
                                      ELSE IF v \in PutBack(held, bus) THEN prev[v]
                                      ELSE weight[v]]
        /\ setBy' = [v \in Units |-> IF v \in lowered(bus) THEN "auto"
                                     ELSE IF v \in PutBack(held, bus) THEN "none"
                                     ELSE setBy[v]]
  BY DEF CarryOut
<1>2. AppOf[u] \in Apps /\ weight[u] # Absent
  BY UnitsAssumption, WeightFacts DEF TypeOK
<1>3. prev'[u] # Absent => AnyEased(AppOf[u], prev')
  BY DEF AnyEased
<1>4. /\ prev'[u] # Absent /\ manual[AppOf[u]] => manual'[AppOf[u]]
      /\ manual'[AppOf[u]] => manual[AppOf[u]]
      /\ live' = live /\ known' = known
  BY <1>2, <1>3 DEF CarryOut
<1>5. CASE u \in lowered(bus)
  <2>1. u \in live /\ u \in known /\ prev[u] = Absent /\ AppOf[u] \in due
    BY <1>5, BusFacts
  <2> QED BY <1>1, <1>2, <1>4, <1>5, <2>1
<1>6. CASE u \notin lowered(bus) /\ u \in PutBack(held, bus)
  <2>1. u \in held /\ u \in live /\ u \in looked
    BY <1>6, BusFacts
  <2>2. prev[u] # Absent /\ AppOf[u] \in backing
    BY <2>1 DEF EasedUnitsOf, Held
  <2>3. HeldAfter(held, bus)[u] = Absent
    BY <1>6, <2>1 DEF HeldAfter
  <2> QED BY <1>1, <1>4, <1>6, <2>1, <2>2, <2>3
<1>7. CASE u \notin lowered(bus) /\ u \notin PutBack(held, bus)
  <2>1. HeldAfter(held, bus)[u] = IF u \in held \ looked THEN Absent ELSE prev[u]
    BY <1>7 DEF HeldAfter
  <2>2. "refuse" \notin Permitted /\ u \in live /\ u \in looked => u \notin held
    BY <1>7, BusFacts DEF PutBack
  <2>3. weight'[u] = weight[u] /\ setBy'[u] = setBy[u] /\ prev'[u] = HeldAfter(held, bus)[u]
    BY <1>1, <1>7
  <2> QED BY <1>4, <2>1, <2>2, <2>3
<1> QED BY <1>5, <1>6, <1>7

\* Easing at the user's request.
LEMMA EaseUnit ==
    ASSUME TypeOK, NEW a \in Apps, Ease(a), NEW u \in Units
    PROVE  /\ \/ /\ AppOf[u] = a /\ u \in live /\ u \in known /\ prev[u] = Absent
                 /\ prev'[u] # Absent
                 /\ weight'[u] = EasedWeight /\ setBy'[u] = "hand"
              \/ /\ weight'[u] = weight[u] /\ prev'[u] = prev[u]
                 /\ setBy'[u] = IF AppOf[u] = a /\ prev[u] # Absent /\ weight[u] = EasedWeight
                                THEN "hand" ELSE setBy[u]
                 /\ AppOf[u] = a /\ u \in known /\ u \in live
                       /\ "refuse" \notin Permitted /\ "unread" \notin Permitted
                       => prev[u] # Absent
           /\ manual'[AppOf[u]] = (manual[AppOf[u]] \/ AppOf[u] = a)
           /\ live' = live /\ known' = known
<1>1. PICK bus \in BusReplies :
          /\ prev' = [v \in Units |->
                        IF v \in Easable(UnitsOf(a, known), prev, bus)
                        THEN weight[v] ELSE prev[v]]
          /\ weight' = [v \in Units |->
                        IF v \in Easable(UnitsOf(a, known), prev, bus)
                        THEN EasedWeight ELSE weight[v]]
  BY DEF Ease
<1>2. weight[u] # Absent /\ AppOf[u] \in Apps
  BY UnitsAssumption, WeightFacts DEF TypeOK
<1>3. manual'[AppOf[u]] = (manual[AppOf[u]] \/ AppOf[u] = a)
  BY <1>2 DEF Ease, TypeOK
<1>4. setBy'[u] = IF AppOf[u] = a /\ prev'[u] # Absent /\ weight'[u] = EasedWeight
                  THEN "hand" ELSE setBy[u]
  BY DEF Ease
<1>5. live' = live /\ known' = known
  BY DEF Ease
<1>6. CASE u \in Easable(UnitsOf(a, known), prev, bus)
  <2>1. u \in UnitsOf(a, known) /\ u \in live /\ prev[u] = Absent
    BY <1>6, BusFacts
  <2>2. AppOf[u] = a /\ u \in known
    BY <2>1 DEF UnitsOf
  <2> QED BY <1>1, <1>2, <1>3, <1>4, <1>5, <1>6, <2>1, <2>2
<1>7. CASE u \notin Easable(UnitsOf(a, known), prev, bus)
  <2>1. /\ AppOf[u] = a /\ u \in known /\ u \in live
        /\ "refuse" \notin Permitted /\ "unread" \notin Permitted
        => prev[u] # Absent
    BY <1>7, BusFacts DEF Easable, UnitsOf
  <2> QED BY <1>1, <1>3, <1>4, <1>5, <1>7, <2>1
<1> QED BY <1>6, <1>7

----------------------------------------------------------------------------
(* The machine: a unit that is gone has no weight set, and one that Atlas is *)
(* said to have eased has Atlas's.                                          *)

MachineInv ==
    \A u \in Units : /\ u \notin live => weight[u] = Unset
                     /\ setBy[u] # "none" => weight[u] = EasedWeight

\* So a unit that Atlas is said to have eased is there.
LEMMA EasedIsLive ==
    ASSUME MachineInv, NEW u \in Units, setBy[u] # "none"
    PROVE  u \in live /\ weight[u] = EasedWeight
BY DEF MachineInv, Unset, EasedWeight

LEMMA MachineInvariant == Spec => []MachineInv
<1>1. Init => MachineInv
  BY DEF Init, MachineInv
<1>2. TypeOK /\ MachineInv /\ [Next]_vars => MachineInv'
  <2> SUFFICES ASSUME TypeOK, MachineInv, [Next]_vars, NEW u \in Units
               PROVE  /\ u \notin live' => weight'[u] = Unset
                      /\ setBy'[u] # "none" => weight'[u] = EasedWeight
    BY DEF MachineInv
  <2>1. /\ u \notin live => weight[u] = Unset
        /\ setBy[u] # "none" => weight[u] = EasedWeight
    BY DEF MachineInv
  <2>2. CASE TickFold
    BY <2>1, <2>2, TickFoldUnit
  <2>3. CASE CarryOut
    BY <2>1, <2>3, CarryOutUnit
  <2>4. CASE TickSample \/ TickListen \/ Persist \/ UNCHANGED vars
    BY <2>1, <2>4 DEF TickSample, TickListen, Persist, machine, vars
  <2>5. CASE UserAction
    <3>1. ASSUME NEW a \in Apps, Ease(a)
          PROVE  /\ u \notin live' => weight'[u] = Unset
                 /\ setBy'[u] # "none" => weight'[u] = EasedWeight
      BY <2>1, <3>1, EaseUnit
    <3>2. (\E a \in Apps : Ease(a)) \/ UNCHANGED machine
      BY <2>5 DEF UserAction, Restore, SetAutomatic, SetNever
    <3> QED BY <2>1, <3>1, <3>2 DEF machine
  <2>6. CASE Process
    <3>1. CASE Recover
      <4>1. PICK bus \in BusReplies :
              /\ weight' = [v \in Units |-> IF v \in looked \ bus.refused THEN file[v] ELSE weight[v]]
              /\ setBy' = [v \in Units |-> IF v \in looked \ bus.refused THEN "none" ELSE setBy[v]]
        BY <3>1 DEF Recover
      <4> QED BY <2>1, <3>1, <4>1, BusFacts DEF Recover
    <3> QED BY <2>1, <2>6, <3>1 DEF Process, Restart, Start, Shutdown, Exit, Crash, machine
  <2>7. CASE Environment
    BY <2>1, <2>7 DEF Environment, OpenUnit, CloseUnit, OthersSet, StartPlaying, StopPlaying,
                      TypeOK
  <2> QED BY <2>2, <2>3, <2>4, <2>5, <2>6, <2>7 DEF Next, Ticker
<1> QED BY <1>1, <1>2, TypeCorrect, PTL DEF Spec

----------------------------------------------------------------------------
(* Between the look and the calls that set weights. Only what Atlas has      *)
(* eased by itself is put back without being asked for; what was given up    *)
(* did not have Atlas's weight, and what will be set back had it, unless     *)
(* somebody else has acted on the unit since.                                *)

CallsInv ==
    /\ lock = "put" => \A a \in backing : IsAuto(a)
    /\ lock \in {"put", "undo"} =>
            \A u \in EasedUnitsOf(backing) \ looked : setBy[u] = "none"
    /\ Looked => \A u \in looked : \/ weight[u] = EasedWeight
                                   \/ u \in since
                                   \/ u \notin live
                                   \/ "unread" \in Permitted

LEMMA LookFirstCalls ==
    ASSUME MachineInv, NEW E \in SUBSET Apps, NEW R \in SUBSET Apps, LookFirst(E, R),
           UNCHANGED <<live, weight, setBy, since, prev>>,
           lock' = "put" => \A a \in R : IsAuto(a)'
    PROVE  CallsInv'
<1>1. PICK bus \in BusReplies :
        looked' = EasedUnitsOf(R) \ ReadsAsOthers(EasedUnitsOf(R), bus)
  BY DEF LookFirst
<1>2. backing' = R /\ EasedUnitsOf(backing)' = EasedUnitsOf(R)
  BY DEF LookFirst, EasedUnitsOf, Held
<1>3. EasedUnitsOf(R) \subseteq Units
  BY DEF EasedUnitsOf, Held
<1>4. \A u \in EasedUnitsOf(R) \ looked' : setBy'[u] = "none"
  BY <1>1, <1>3 DEF ReadsAsOthers, MachineInv
<1>5. \A u \in looked' : weight'[u] = EasedWeight \/ u \notin live' \/ "unread" \in Permitted
  BY <1>1, <1>3, BusFacts DEF ReadsAsOthers
<1> QED BY <1>2, <1>4, <1>5 DEF CallsInv

LEMMA CallsInvariant == Spec => []CallsInv
<1>1. Init => CallsInv
  BY DEF Init, CallsInv, Looked
<1>2. TypeOK /\ MachineInv /\ RestartInv /\ CallsInv /\ [Next]_vars => CallsInv'
  <2> SUFFICES ASSUME TypeOK, MachineInv, RestartInv, CallsInv, [Next]_vars
               PROVE  CallsInv'
    OBVIOUS
  <2>1. CASE TickListen
    <3>1. PICK answers : LookFirst(ToEase(answers), ToRestore(answers))
      BY <2>1 DEF TickListen
    <3>2. \A a \in ToRestore(answers) : IsAuto(a)'
      BY <2>1 DEF TickListen, ToRestore, IsAuto, apps
    <3> QED BY <2>1, <3>1, <3>2, LookFirstCalls, ChosenAreApps
            DEF TickListen, machine, meanwhile, units
  <2>2. CASE UserAction
    <3>1. ASSUME NEW a \in Apps, Ease(a) PROVE CallsInv'
      BY <3>1 DEF Ease, Asked, CallsInv, Looked
    <3>2. ASSUME NEW a \in Apps, Restore(a) PROVE CallsInv'
      BY <3>2, LookFirstCalls DEF Restore, machine, meanwhile, units
    <3>3. \A a \in AutoApps : IsAuto(a)
      BY DEF AutoApps
    <3>4. ASSUME NEW on \in BOOLEAN, SetAutomatic(on) PROVE CallsInv'
      <4>1. (IF on THEN {} ELSE AutoApps) \in SUBSET Apps
        BY ChosenAreApps
      <4>2. \A a \in (IF on THEN {} ELSE AutoApps) : IsAuto(a)'
        BY <3>3, <3>4 DEF SetAutomatic, IsAuto, apps
      <4> QED BY <3>4, <4>1, <4>2, LookFirstCalls DEF SetAutomatic, machine, meanwhile, units
    <3>5. ASSUME NEW ids, SetNever(ids) PROVE CallsInv'
      <4>1. AutoApps \cap ids \in SUBSET Apps
        BY ChosenAreApps
      <4>2. \A a \in AutoApps \cap ids : IsAuto(a)'
        BY <3>3, <3>5 DEF SetNever, IsAuto, apps
      <4> QED BY <3>5, <4>1, <4>2, LookFirstCalls DEF SetNever, machine, meanwhile, units
    <3> QED BY <2>2, <3>1, <3>2, <3>4, <3>5 DEF UserAction
  <2>3. CASE Shutdown
    <3>1. \A a \in AutoApps : IsAuto(a)'
      BY <2>3 DEF Shutdown, AutoApps, IsAuto, apps
    <3> QED BY <2>3, <3>1, LookFirstCalls, ChosenAreApps
            DEF Shutdown, machine, meanwhile, units
  <2>4. CASE Restart
    BY <2>4 DEF Restart, Recovered, CallsInv, RestartInv, machine
  <2>5. CASE Recover \/ Start \/ Exit \/ Crash
    <3>1. phase' # "restarting"
      BY <2>5 DEF Recover, Start, Exit, Crash
    <3>2. CASE Recover
      BY <2>5, <3>1, <3>2 DEF Recover, CallsInv, RestartInv, Looked
    <3>3. CASE Start
      BY <3>1, <3>3 DEF Start, CallsInv, Looked, EasedUnitsOf, Held, IsAuto, machine,
                        calls, meanwhile, apps, units
    <3>4. CASE Exit \/ Crash
      BY <3>1, <3>4 DEF Exit, Crash, CallsInv, Looked
    <3> QED BY <2>5, <3>2, <3>3, <3>4
  <2>6. CASE TickFold \/ CarryOut \/ Persist
    <3>1. lock' \notin {"put", "undo"} /\ phase' # "restarting"
      BY <2>6 DEF TickFold, CarryOut, AfterCalls, Persist, RestartInv
    <3> QED BY <3>1 DEF CallsInv, Looked
  <2>7. CASE TickSample \/ UNCHANGED vars
    BY <2>7 DEF TickSample, CallsInv, Looked, EasedUnitsOf, Held, IsAuto, machine, process,
                calls, meanwhile, apps, units, vars
  <2>8. CASE Environment
    <3>1. UNCHANGED <<phase, lock, backing, looked, prev, eased, manual>>
      BY <2>8 DEF Environment, OpenUnit, CloseUnit, OthersSet, StartPlaying, StopPlaying,
                  atlas, process, calls, apps, units
    <3>2. ASSUME NEW u \in Units, setBy[u] = "none" PROVE setBy'[u] = "none"
      BY <2>8, <3>2 DEF Environment, OpenUnit, CloseUnit, OthersSet, StartPlaying,
                        StopPlaying, TypeOK
    <3>3. ASSUME NEW u \in Units, Looked
          PROVE  \/ u \in since'
                 \/ u \notin live'
                 \/ /\ weight'[u] = weight[u] /\ u \in live /\ u \notin since
      BY <2>8, <3>3 DEF Environment, OpenUnit, CloseUnit, OthersSet, StartPlaying,
                        StopPlaying, SinceWith, meanwhile, TypeOK
    <3>4. EasedUnitsOf(backing)' = EasedUnitsOf(backing) /\ Looked' = Looked
      BY <3>1 DEF EasedUnitsOf, Held, Looked
    <3>5. EasedUnitsOf(backing) \subseteq Units /\ looked \subseteq Units
      BY DEF EasedUnitsOf, Held, TypeOK
    <3>6. lock' = "put" => \A a \in backing' : IsAuto(a)'
      BY <3>1 DEF CallsInv, IsAuto
    <3>7. lock' \in {"put", "undo"} =>
            \A u \in EasedUnitsOf(backing)' \ looked' : setBy'[u] = "none"
      BY <3>1, <3>2, <3>4, <3>5 DEF CallsInv
    <3>8. Looked' => \A u \in looked' : \/ weight'[u] = EasedWeight
                                        \/ u \in since'
                                        \/ u \notin live'
                                        \/ "unread" \in Permitted
      BY <3>1, <3>3, <3>4, <3>5 DEF CallsInv
    <3> QED BY <3>6, <3>7, <3>8 DEF CallsInv
  <2> QED BY <2>1, <2>2, <2>3, <2>4, <2>5, <2>6, <2>7, <2>8 DEF Next, Ticker, Process
<1> QED BY <1>1, <1>2, TypeCorrect, MachineInvariant, RestartInvariant, PTL DEF Spec

----------------------------------------------------------------------------
(* The user's own eases.                                                    *)

\* What the user eased and the controller holds is not its own to restore.
HandIsManual ==
    \A u \in Units : setBy[u] = "hand" /\ prev[u] # Absent => manual[AppOf[u]]

\* A recovery would not put back what the user eased, save between the user's
\* request and the save it ends with.
FileSparesHand ==
    \/ phase = "run" /\ lock = "save"
    \/ \A u \in Units : setBy[u] = "hand" => file[u] = Absent

HandInv == HandIsManual /\ FileSparesHand

LEMMA TickFoldHand ==
    TypeOK /\ FileTellsTruth /\ HandInv /\ TickFold => HandInv'
<1> SUFFICES ASSUME TypeOK, FileTellsTruth, HandInv, TickFold, NEW u \in Units,
                    setBy'[u] = "hand"
             PROVE  /\ prev'[u] # Absent => manual'[AppOf[u]]
                    /\ file'[u] = Absent
  BY DEF HandInv, HandIsManual, FileSparesHand
<1>1. prev'[u] # Absent => manual'[AppOf[u]]
  BY TickFoldUnit DEF HandInv, HandIsManual
<1>2. prev[u] = Absent => file[u] = Absent
  BY DEF FileTellsTruth, Settled, TickFold
<1>3. setBy[u] = "hand" => file[u] = Absent
  BY DEF HandInv, FileSparesHand, TickFold
<1>4. setBy[u] = "hand" \/ prev[u] = Absent
  BY TickFoldUnit
<1> QED BY <1>1, <1>2, <1>3, <1>4 DEF TickFold

LEMMA CarryOutHand == TypeOK /\ HandInv /\ CarryOut => HandInv'
<1> SUFFICES ASSUME TypeOK, HandInv, CarryOut, NEW u \in Units, setBy'[u] = "hand"
             PROVE  /\ prev'[u] # Absent => manual'[AppOf[u]]
                    /\ file'[u] = Absent
  BY DEF HandInv, HandIsManual, FileSparesHand
<1>1. /\ setBy[u] = "hand"
      /\ prev'[u] # Absent => prev[u] # Absent /\ (manual[AppOf[u]] => manual'[AppOf[u]])
  BY CarryOutUnit
<1> QED BY <1>1 DEF CarryOut, HandInv, HandIsManual, FileSparesHand

LEMMA PersistHand == TypeOK /\ HandInv /\ Persist => HandInv'
<1> SUFFICES ASSUME TypeOK, HandInv, Persist PROVE HandInv'
  OBVIOUS
<1>1. ASSUME NEW u \in Units, setBy[u] = "hand" PROVE AutomaticEases[u] = Absent
  BY <1>1 DEF HandInv, HandIsManual, AutomaticEases, IsAuto
<1> QED BY <1>1 DEF HandInv, HandIsManual, FileSparesHand, Persist, machine, apps, units

LEMMA UserActionHand == TypeOK /\ HandInv /\ UserAction => HandInv'
<1> SUFFICES ASSUME TypeOK, HandInv, UserAction PROVE HandInv'
  OBVIOUS
<1>1. ASSUME NEW a \in Apps, Ease(a) PROVE HandInv'
  <2>1. ASSUME NEW u \in Units, setBy'[u] = "hand", prev'[u] # Absent
        PROVE  manual'[AppOf[u]]
    BY <1>1, <2>1, EaseUnit DEF HandInv, HandIsManual
  <2> QED BY <1>1, <2>1 DEF HandInv, HandIsManual, FileSparesHand, Ease, Asked
<1>2. CASE ~\E a \in Apps : Ease(a)
  <2>1. UNCHANGED <<setBy, prev, manual, file>> /\ phase = "run" /\ lock = "free"
    BY <1>2 DEF UserAction, Restore, SetAutomatic, SetNever, Asked, machine, apps, units
  <2> QED BY <2>1 DEF HandInv, HandIsManual, FileSparesHand
<1> QED BY <1>1, <1>2

LEMMA ProcessHand ==
    ASSUME "tear" \notin Permitted, TypeOK, HandInv, Process
    PROVE  HandInv'
<1>1. CASE Restart \/ Recover
  <2>1. \A u \in Units : setBy'[u] = "hand" => setBy[u] = "hand"
    BY <1>1 DEF Restart, Recover, machine
  <2> QED BY <1>1, <2>1
          DEF Restart, Recover, HandInv, HandIsManual, FileSparesHand, apps, units
<1>2. CASE Start
  BY <1>2 DEF Start, HandInv, HandIsManual, FileSparesHand, machine, apps, units, NoEntry
<1>3. CASE Shutdown
  BY <1>3 DEF Shutdown, HandInv, HandIsManual, FileSparesHand, machine, apps, units
<1>4. CASE Exit \/ Crash
  <2>1. file' = file /\ ~(phase = "run" /\ lock = "save")
    BY <1>4 DEF Exit, Crash
  <2>2. \A u \in Units : prev'[u] = Absent
    BY <1>4 DEF Exit, Crash, FreshController, NoEntry
  <2>3. setBy' = setBy
    BY <1>4 DEF Exit, Crash, machine
  <2> QED BY <2>1, <2>2, <2>3 DEF HandInv, HandIsManual, FileSparesHand
<1> QED BY <1>1, <1>2, <1>3, <1>4 DEF Process

LEMMA EnvironmentHand == TypeOK /\ HandInv /\ Environment => HandInv'
<1> SUFFICES ASSUME TypeOK, HandInv, Environment PROVE HandInv'
  OBVIOUS
<1>1. \A u \in Units : setBy'[u] = "hand" => setBy[u] = "hand"
  BY DEF Environment, OpenUnit, CloseUnit, OthersSet, StartPlaying, StopPlaying, TypeOK
<1>2. UNCHANGED <<prev, manual, phase, lock, file>>
  BY DEF Environment, OpenUnit, CloseUnit, OthersSet, StartPlaying, StopPlaying, atlas,
         process, apps, units
<1> QED BY <1>1, <1>2 DEF HandInv, HandIsManual, FileSparesHand

LEMMA HandInvariant == "tear" \notin Permitted /\ Spec => []HandInv
<1> SUFFICES ASSUME "tear" \notin Permitted PROVE Spec => []HandInv
  OBVIOUS
<1>1. Init => HandInv
  BY DEF Init, HandInv, HandIsManual, FileSparesHand, NoEntry
<1>2. TypeOK /\ FileTellsTruth /\ HandInv /\ [Next]_vars => HandInv'
  <2> SUFFICES ASSUME TypeOK, FileTellsTruth, HandInv, [Next]_vars PROVE HandInv'
    OBVIOUS
  <2>1. CASE TickSample \/ UNCHANGED vars
    BY <2>1 DEF TickSample, HandInv, HandIsManual, FileSparesHand, machine, process, apps,
                units, vars
  <2>2. CASE TickListen
    BY <2>2 DEF TickListen, HandInv, HandIsManual, FileSparesHand, machine, apps, units
  <2> QED BY <2>1, <2>2, TickFoldHand, CarryOutHand, PersistHand, UserActionHand, ProcessHand,
             EnvironmentHand DEF Next, Ticker
<1> QED BY <1>1, <1>2, TypeCorrect, FileTruth, PTL DEF Spec

LEMMA HandStep ==
    ASSUME TypeOK, MachineInv, RestartInv, CallsInv, HandInv, [Next]_vars, ~Environment,
           lock # "undo", NEW u \in Units, setBy[u] = "hand"
    PROVE  weight'[u] = weight[u]
<1>1. weight[u] = EasedWeight
  BY DEF MachineInv
<1>2. prev[u] # Absent => ~IsAuto(AppOf[u])
  BY DEF HandInv, HandIsManual, IsAuto
<1>3. CASE TickFold
  BY <1>1, <1>3, TickFoldUnit
<1>4. CASE CarryOut
  <2>1. AppOf[u] \in backing => IsAuto(AppOf[u])
    BY <1>4 DEF CarryOut, CallsInv
  <2> QED BY <1>1, <1>2, <1>4, <2>1, CarryOutUnit
<1>5. CASE TickSample \/ TickListen \/ Persist \/ UNCHANGED vars
  BY <1>5 DEF TickSample, TickListen, Persist, machine, vars
<1>6. CASE UserAction
  <2>1. ASSUME NEW a \in Apps, Ease(a) PROVE weight'[u] = weight[u]
    BY <1>1, <2>1, EaseUnit
  <2>2. (\E a \in Apps : Ease(a)) \/ UNCHANGED machine
    BY <1>6 DEF UserAction, Restore, SetAutomatic, SetNever
  <2> QED BY <2>1, <2>2 DEF machine
<1>7. CASE Process
  <2>1. CASE Recover
    <3>1. file[u] = Absent /\ u \notin looked
      BY <2>1 DEF HandInv, FileSparesHand, Recover, RestartInv
    <3> QED BY <2>1, <3>1 DEF Recover, TypeOK
  <2> QED BY <1>7, <2>1 DEF Process, Restart, Start, Shutdown, Exit, Crash, machine
<1> QED BY <1>3, <1>4, <1>5, <1>6, <1>7 DEF Next, Ticker

\* What the user eased by hand is left alone by every policy, setting, shutdown and
\* recovery, through refusals, hidden weights and a Tick under way when Atlas closes,
\* as long as Atlas is not killed between the user's request and its save.
THEOREM HandEasesKept == "tear" \notin Permitted /\ Spec => HandEasesStay
<1> SUFFICES ASSUME "tear" \notin Permitted PROVE Spec => HandEasesStay
  OBVIOUS
<1>1. TypeOK /\ MachineInv /\ RestartInv /\ CallsInv /\ HandInv /\ [Next]_vars =>
        [~Environment /\ lock # "undo" =>
            \A u \in Units : setBy[u] = "hand" => weight'[u] = weight[u]]_vars
  BY HandStep
<1> QED BY <1>1, TypeCorrect, MachineInvariant, RestartInvariant, CallsInvariant,
           HandInvariant, PTL DEF Spec, HandEasesStay

\* Somebody else's weight is never overwritten by a restore or a recovery, only by an
\* ease, unless it was set after Atlas had looked at the unit: as long as the service
\* manager tells what the weight is.
THEOREM OthersWeightsStand == "unread" \notin Permitted /\ Spec => OthersWeightStands
<1> SUFFICES ASSUME "unread" \notin Permitted PROVE Spec => OthersWeightStands
  OBVIOUS
<1>1. ASSUME TypeOK, CallsInv, [Next]_vars, ~Environment, NEW u \in Units,
             weight[u] # EasedWeight, weight'[u] # weight[u]
      PROVE  weight'[u] = EasedWeight \/ u \in since
  <2>1. CASE TickFold
    BY <1>1, <2>1, TickFoldUnit
  <2>2. u \in looked /\ Looked => u \in since \/ u \notin live
    BY <1>1 DEF CallsInv
  <2>3. CASE CarryOut
    <3>1. Looked
      BY <2>3 DEF CarryOut, Looked
    <3> QED BY <1>1, <2>2, <2>3, <3>1, CarryOutUnit
  <2>4. CASE TickSample \/ TickListen \/ Persist \/ UNCHANGED vars
    BY <1>1, <2>4 DEF TickSample, TickListen, Persist, machine, vars
  <2>5. CASE UserAction
    <3>1. ASSUME NEW a \in Apps, Ease(a) PROVE weight'[u] = EasedWeight
      BY <1>1, <3>1, EaseUnit
    <3>2. (\E a \in Apps : Ease(a)) \/ UNCHANGED machine
      BY <2>5 DEF UserAction, Restore, SetAutomatic, SetNever
    <3> QED BY <1>1, <3>1, <3>2 DEF machine
  <2>6. CASE Process
    <3>1. CASE Recover
      <4>1. PICK bus \in BusReplies :
              weight' = [v \in Units |-> IF v \in looked \ bus.refused THEN file[v] ELSE weight[v]]
        BY <3>1 DEF Recover
      <4>2. u \in looked /\ u \in live
        BY <1>1, <4>1, BusFacts
      <4> QED BY <2>2, <3>1, <4>2 DEF Recover, Looked
    <3> QED BY <1>1, <2>6, <3>1 DEF Process, Restart, Start, Shutdown, Exit, Crash, machine
  <2> QED BY <1>1, <2>1, <2>3, <2>4, <2>5, <2>6 DEF Next, Ticker
<1>2. TypeOK /\ CallsInv /\ [Next]_vars =>
        [~Environment => \A u \in Units : weight[u] # EasedWeight /\ weight'[u] # weight[u]
                                            => weight'[u] = EasedWeight \/ u \in since]_vars
  BY <1>1
<1> QED BY <1>2, TypeCorrect, CallsInvariant, PTL DEF Spec, OthersWeightStands

----------------------------------------------------------------------------
(* Applications of one window. A second one that joins an eased application  *)
(* is lost by the very Tick that eases it, as the run energy_newwindow shows; *)
(* the results below are for those that have just one.                       *)

OneWindowEach == \A u, v \in Units : AppOf[u] = AppOf[v] => u = v

\* Nothing joins.
LEMMA NoneJoins ==
    ASSUME OneWindowEach, EasedIsWhatUnitsSay
    PROVE  Joining = {}
<1> SUFFICES ASSUME NEW u \in Joining PROVE FALSE
  OBVIOUS
<1>1. u \in Units /\ u \notin known /\ AnyEased(AppOf[u], prev)
  BY UnitsAssumption DEF Joining, Seen, EasedIsWhatUnitsSay
<1>2. prev[u] # Absent
  BY <1>1 DEF AnyEased, OneWindowEach
<1> QED BY <1>1, <1>2 DEF EasedIsWhatUnitsSay, Held

\* An application is eased when its unit is.
LEMMA EasedUnit ==
    ASSUME OneWindowEach, EasedIsWhatUnitsSay, NEW u \in Units
    PROVE  /\ eased[AppOf[u]] <=> prev[u] # Absent
           /\ prev[u] # Absent => u \in known
BY UnitsAssumption DEF OneWindowEach, EasedIsWhatUnitsSay, AnyEased, Held

----------------------------------------------------------------------------
(* Who holds the lock in which phase.                                       *)

ControlInv ==
    /\ lock = "decide" => phase \in {"run", "closing"} /\ ticked /\ ~sampling
    /\ phase \in {"down", "restarting", "recovering"} =>
            /\ lock = "free" /\ ~sampling
            /\ \A u \in Units : prev[u] = Absent
    /\ phase = "shutdown" => lock \in {"put", "save"} /\ due = {}
    /\ lock \in {"put", "undo"} /\ due # {} => ticked /\ ~sampling

LEMMA ControlInvariant == Spec => []ControlInv
<1>1. Init => ControlInv
  BY DEF Init, ControlInv
<1>2. ControlInv /\ [Next]_vars => ControlInv'
  <2> SUFFICES ASSUME ControlInv, [Next]_vars PROVE ControlInv'
    OBVIOUS
  <2> USE DEF ControlInv
  <2>1. CASE TickSample
    BY <2>1 DEF TickSample, process, sound, calls, units
  <2>2. CASE TickFold
    BY <2>2 DEF TickFold
  <2>3. CASE TickListen
    <3>1. lock' \in {"put", "save", "free"}
      BY <2>3 DEF TickListen
    <3> QED BY <2>3, <3>1 DEF TickListen, snapshot
  <2>4. CASE CarryOut
    BY <2>4 DEF CarryOut, AfterCalls
  <2>5. CASE Persist
    BY <2>5 DEF Persist, snapshot, calls, units, sound
  <2>6. CASE UserAction
    <3>1. /\ phase = "run" /\ phase' = "run" /\ lock' # "decide"
          /\ lock' \in {"put", "undo"} => due' = {}
      BY <2>6 DEF UserAction, Ease, Restore, SetAutomatic, SetNever, Asked, LookFirst,
                  PutThenSave
    <3> QED BY <3>1
  <2>7. CASE Restart \/ Recover \/ Start
    BY <2>7 DEF Restart, Recover, Start, snapshot, units
  <2>8. CASE Shutdown
    BY <2>8 DEF Shutdown, LookFirst, PutThenSave
  <2>9. CASE Exit \/ Crash
    BY <2>9 DEF Exit, Crash, FreshController, NoEntry
  <2>10. CASE Environment \/ UNCHANGED vars
    BY <2>10 DEF Environment, OpenUnit, CloseUnit, OthersSet, StartPlaying, StopPlaying,
                 atlas, process, snapshot, sound, calls, units, vars
  <2> QED BY <2>1, <2>2, <2>3, <2>4, <2>5, <2>6, <2>7, <2>8, <2>9, <2>10
          DEF Next, Ticker, Process
<1> QED BY <1>1, <1>2, PTL DEF Spec

----------------------------------------------------------------------------
(* What is held is listed. HeldIsListed speaks of a free lock and is, like   *)
(* ListedIsHeld, carried through the fold that notes no change.             *)

SettledIsListed ==
    phase \in {"run", "closing"} /\ Settled =>
        \A u \in Units : IsAuto(AppOf[u]) => file[u] = prev[u]

LEMMA TickFoldListed ==
    ASSUME OneWindowEach, TypeOK, EasedIsWhatUnitsSay, SettledIsListed, TickFold
    PROVE  SettledIsListed'
<1> SUFFICES ASSUME ~changed', NEW u \in Units, IsAuto(AppOf[u])'
             PROVE  file[u] = prev'[u]
  BY DEF SettledIsListed, Settled, TickFold
<1>1. PICK bus \in BusReplies :
        /\ prev' = LetGo(Folded(bus))
        /\ changed' = \/ TakenOver(Folded(bus)) # {}
                      \/ \E v \in Held \ Seen : UnitsOf(AppOf[v], Seen) # {}
                      \/ \E a \in Apps : eased[a] /\ UnitsOf(a, Seen) = {}
        /\ eased' = [a \in Apps |-> eased[a] /\ AnyEased(a, prev')]
        /\ manual' = [a \in Apps |-> /\ manual[a]
                                     /\ UnitsOf(a, Seen) # {}
                                     /\ eased[a] => AnyEased(a, prev')]
  BY DEF TickFold
<1>2. AppOf[u] \in Apps
  BY UnitsAssumption
<1>3. eased[AppOf[u]] /\ AnyEased(AppOf[u], prev')
  BY <1>1, <1>2 DEF IsAuto
<1>4. UnitsOf(AppOf[u], Seen) # {}
  BY <1>1, <1>2, <1>3
<1>5. ~manual[AppOf[u]]
  BY <1>1, <1>2, <1>3, <1>4 DEF IsAuto
<1>6. u \in Seen
  BY <1>1, <1>4 DEF UnitsOf, OneWindowEach, Seen
<1>7. Folded(bus)[u] = prev[u]
  BY <1>6, NoneJoins DEF Folded, Easable
<1>8. prev'[u] = prev[u]
  BY <1>1, <1>7 DEF LetGo
<1>9. file[u] = prev[u]
  BY <1>3, <1>5 DEF SettledIsListed, Settled, IsAuto, TickFold
<1> QED BY <1>8, <1>9

LEMMA TickListenListed ==
    ASSUME TypeOK, SettledIsListed, TickListen
    PROVE  SettledIsListed'
<1> SUFFICES ASSUME phase \in {"run", "closing"}, lock' = "free", NEW u \in Units,
                    IsAuto(AppOf[u])
             PROVE  file[u] = prev[u]
  BY DEF SettledIsListed, Settled, TickListen, IsAuto, apps, units
<1>1. ~changed
  BY DEF TickListen
<1> QED BY <1>1 DEF SettledIsListed, Settled, TickListen

LEMMA UserActionListed ==
    ASSUME TypeOK, SettledIsListed, UserAction
    PROVE  SettledIsListed'
<1>1. CASE lock' \in {"put", "undo", "save"}
  BY <1>1 DEF SettledIsListed, Settled
<1>2. CASE lock' \notin {"put", "undo", "save"}
  <2>1. SetAutomatic(TRUE)
    BY <1>2 DEF UserAction, Ease, Restore, SetNever, SetAutomatic, PutThenSave
  <2> QED BY <2>1 DEF SettledIsListed, Settled, SetAutomatic, Asked, IsAuto, apps, units
<1> QED BY <1>1, <1>2

\* Where an application has one window, every unit Atlas has eased by itself is in
\* the crash-recovery file with the weight to put back, whatever fails, is refused,
\* hidden, reused, overtaken or killed.
THEOREM HeldListed == OneWindowEach /\ Spec => []HeldIsListed
<1> SUFFICES ASSUME OneWindowEach PROVE Spec => []HeldIsListed
  OBVIOUS
<1>1. Init => SettledIsListed
  BY UnitsAssumption DEF Init, SettledIsListed, NoEntry, EveryApp, IsAuto
<1>2. TypeOK /\ EasedIsWhatUnitsSay /\ ControlInv /\ SettledIsListed /\ [Next]_vars
        => SettledIsListed'
  <2> SUFFICES ASSUME TypeOK, EasedIsWhatUnitsSay, ControlInv, SettledIsListed, [Next]_vars
               PROVE  SettledIsListed'
    OBVIOUS
  <2>1. CASE Persist
    BY <2>1 DEF Persist, SettledIsListed, AutomaticEases, IsAuto, apps, units
  <2>2. CASE Start
    BY <2>2 DEF Start, SettledIsListed, ControlInv, NoEntry, units
  <2>3. CASE Restart \/ Recover \/ Shutdown \/ Exit \/ Crash
    BY <2>3 DEF Restart, Recover, Shutdown, Exit, Crash, SettledIsListed
  <2>4. CASE TickSample \/ Environment \/ UNCHANGED vars
    <3>1. UNCHANGED <<phase, lock, changed, file, eased, manual, prev>>
      BY <2>4 DEF TickSample, Environment, OpenUnit, CloseUnit, OthersSet, StartPlaying,
                  StopPlaying, atlas, process, apps, units, vars
    <3> QED BY <3>1 DEF SettledIsListed, Settled, IsAuto
  <2>5. CASE CarryOut
    BY <2>5 DEF CarryOut, AfterCalls, SettledIsListed, Settled
  <2> QED BY <2>1, <2>2, <2>3, <2>4, <2>5, TickFoldListed, TickListenListed, UserActionListed
          DEF Next, Ticker, Process
<1>3. SettledIsListed => HeldIsListed
  BY DEF SettledIsListed, Settled, HeldIsListed
<1> QED BY <1>1, <1>2, <1>3, TypeCorrect, EasedCoherent, ControlInvariant, PTL DEF Spec

----------------------------------------------------------------------------
(* What Atlas has eased by itself is put back.                              *)

\* The happenings under which the promise is made good: the service manager
\* answers and obeys, no unit's name is used twice, and Atlas is neither closed
\* under a Tick nor killed inside a save.
Orderly == Permitted \cap {"refuse", "unread", "reuse", "late", "tear"} = {}

NoAuto == \A u \in Units : setBy[u] # "auto"

\* A sample taken since shows Atlas's weight on the unit, if any.
SampleShowsAuto ==
    sampling => \A u \in Units :
        setBy[u] = "auto" => sample[u] \in {EasedWeight, Unreadable}

\* The controller holds it, for itself; a shutdown has it among what it puts back.
PuttingAllBack == phase = "shutdown" /\ lock = "put"

AutoIsHeld ==
    phase = "run" \/ PuttingAllBack => \A u \in Units :
        setBy[u] = "auto" => /\ prev[u] # Absent
                             /\ ~manual[AppOf[u]]
                             /\ PuttingAllBack => AppOf[u] \in backing

\* An application counts as eased by hand only while its unit is, or is gone: an
\* ease that failed does not outlast the unit.
ManualIsHeld ==
    \A u \in Units : manual[AppOf[u]] =>
        u \in known /\ (prev[u] # Absent \/ u \notin live)

\* A recovery would find it, and one that is under way has found it.
AutoIsInFile ==
    /\ lock # "save" => \A u \in Units : setBy[u] = "auto" => file[u] # Absent
    /\ phase = "restarting" => \A u \in Units : setBy[u] = "auto" => u \in looked

\* There is nothing before the first Tick or after the shutdown.
QuietOutside ==
    /\ phase \in {"recovering", "shutdown", "closing"} => NoAuto \/ PuttingAllBack
    /\ phase = "run" /\ ~ticked => NoAuto
    /\ phase \in {"shutdown", "closing"} => ~sampling
    /\ phase = "closing" => lock = "free"

BackInv ==
    /\ SampleShowsAuto
    /\ AutoIsHeld
    /\ ManualIsHeld
    /\ AutoIsInFile
    /\ QuietOutside

LEMMA TickFoldBack ==
    ASSUME Orderly, OneWindowEach, TypeOK, EasedIsWhatUnitsSay, BackInv, TickFold
    PROVE  BackInv'
<1>1. /\ setBy' = setBy /\ live' = live /\ phase' = phase /\ file' = file
      /\ ~sampling' /\ ticked' /\ lock' = "decide" /\ known' = Seen
      /\ phase = "run"
  <2>1. setBy' = setBy
    <3>1. \A bus \in BusReplies : Easable(Joining, prev, bus) = {}
      BY NoneJoins DEF Easable
    <3>2. \E bus \in BusReplies :
            setBy' = [u \in Units |->
                        IF u \notin Easable(Joining, prev, bus) THEN setBy[u]
                        ELSE IF manual[AppOf[u]] THEN "hand" ELSE "auto"]
      BY DEF TickFold
    <3> QED BY <3>1, <3>2 DEF TypeOK
  <2> QED BY <2>1 DEF TickFold, BackInv, QuietOutside
<1>2. ASSUME NEW u \in Units, setBy[u] = "auto"
      PROVE  /\ prev'[u] # Absent /\ ~manual'[AppOf[u]]
             /\ file[u] # Absent
  <2>1. prev[u] # Absent /\ ~manual[AppOf[u]]
    BY <1>1, <1>2 DEF BackInv, AutoIsHeld
  <2>2. sample[u] \in {EasedWeight, Unreadable}
    BY <1>2 DEF BackInv, SampleShowsAuto, TickFold
  <2>3. u \in Seen
    BY <2>2, WeightFacts DEF Seen, EasedWeight, Unreadable, Absent
  <2>4. file[u] # Absent
    BY <1>2 DEF BackInv, AutoIsInFile, TickFold
  <2> QED BY <2>1, <2>2, <2>3, <2>4, TickFoldUnit
<1>3. ASSUME NEW u \in Units, manual'[AppOf[u]]
      PROVE  u \in known' /\ (prev'[u] # Absent \/ u \notin live')
  <2>1. AppOf[u] \in Apps
    BY UnitsAssumption
  <2>2. /\ manual[AppOf[u]]
        /\ UnitsOf(AppOf[u], Seen) # {}
        /\ eased[AppOf[u]] => AnyEased(AppOf[u], prev')
    BY <1>3, <2>1 DEF TickFold
  <2>3. u \in Seen
    BY <2>2 DEF UnitsOf, OneWindowEach, Seen
  <2>4. prev[u] # Absent \/ u \notin live
    BY <2>2 DEF BackInv, ManualIsHeld
  <2>5. prev[u] # Absent => prev'[u] # Absent
    BY <2>2, EasedUnit DEF AnyEased, OneWindowEach
  <2> QED BY <1>1, <2>3, <2>4, <2>5
<1> QED BY <1>1, <1>2, <1>3
        DEF BackInv, SampleShowsAuto, AutoIsHeld, ManualIsHeld, AutoIsInFile, QuietOutside,
            NoAuto, PuttingAllBack

LEMMA TickListenBack ==
    ASSUME TypeOK, ControlInv, BackInv, TickListen
    PROVE  BackInv'
<1>1. /\ phase = "run" /\ phase' = "run" /\ ticked /\ ticked'
      /\ UNCHANGED <<file, setBy, live, prev, manual, known, sampling, sample>>
      /\ lock # "save"
  BY DEF TickListen, ControlInv, BackInv, QuietOutside, machine, snapshot, apps, units
<1> QED BY <1>1
        DEF BackInv, SampleShowsAuto, AutoIsHeld, ManualIsHeld, AutoIsInFile, QuietOutside,
            NoAuto, PuttingAllBack

LEMMA CarryOutBack ==
    ASSUME Orderly, OneWindowEach, TypeOK, MachineInv, ControlInv, CallsInv, BackInv, CarryOut
    PROVE  BackInv'
<1>1. /\ phase' = phase /\ lock' = "save" /\ lock \in {"put", "undo"} /\ phase # "closing"
      /\ phase \notin {"down", "restarting", "recovering"}
      /\ UNCHANGED <<sampling, sample, ticked, known, live>>
  BY DEF CarryOut, AfterCalls, ControlInv, BackInv, QuietOutside, snapshot, sound
<1>2. ASSUME NEW u \in Units, setBy[u] = "auto", setBy'[u] = "auto"
      PROVE  /\ phase = "run" => prev'[u] # Absent /\ ~manual'[AppOf[u]]
             /\ phase # "shutdown"
  <2>1. u \in live
    BY <1>2, EasedIsLive
  <2>2. u \in EasedUnitsOf(backing) => u \in looked
    BY <1>1, <1>2 DEF CallsInv
  <2>3. phase = "shutdown" => u \in EasedUnitsOf(backing)
    <3>1. phase = "shutdown" => PuttingAllBack
      BY <1>1 DEF ControlInv, PuttingAllBack
    <3> QED BY <1>2, <3>1 DEF BackInv, AutoIsHeld, EasedUnitsOf, Held
  <2>4. phase \in {"run", "shutdown"} => prev[u] # Absent /\ ~manual[AppOf[u]]
    <3>1. phase = "shutdown" => PuttingAllBack
      BY <1>1 DEF ControlInv, PuttingAllBack
    <3> QED BY <1>2, <3>1 DEF BackInv, AutoIsHeld
  <2>5. "refuse" \notin Permitted
    BY DEF Orderly
  <2> QED BY <1>2, <2>1, <2>2, <2>3, <2>4, <2>5, CarryOutUnit
<1>3. ASSUME NEW u \in Units, setBy[u] # "auto", setBy'[u] = "auto"
      PROVE  /\ prev'[u] # Absent /\ ~manual'[AppOf[u]]
             /\ phase # "shutdown" /\ ticked /\ ~sampling
  <2>1. /\ u \in live /\ prev[u] = Absent /\ AppOf[u] \in due /\ prev'[u] # Absent
        /\ manual'[AppOf[u]] => manual[AppOf[u]]
    BY <1>3, CarryOutUnit
  <2>2. ~manual[AppOf[u]]
    BY <2>1 DEF BackInv, ManualIsHeld
  <2>3. phase # "shutdown" /\ ticked /\ ~sampling
    BY <1>1, <2>1 DEF ControlInv
  <2> QED BY <2>1, <2>2, <2>3
<1>4. ASSUME NEW u \in Units, manual'[AppOf[u]]
      PROVE  u \in known' /\ (prev'[u] # Absent \/ u \notin live')
  <2>1. AppOf[u] \in Apps
    BY UnitsAssumption
  <2>2. manual[AppOf[u]] /\ (AppOf[u] \in backing => AnyEased(AppOf[u], prev'))
    BY <1>4, <2>1 DEF CarryOut
  <2>3. AppOf[u] \in backing => prev'[u] # Absent
    BY <2>2 DEF AnyEased, OneWindowEach
  <2>4. AppOf[u] \notin backing => prev'[u] # Absent \/ prev'[u] = prev[u]
    BY CarryOutUnit DEF EasedUnitsOf
  <2> QED BY <1>1, <2>2, <2>3, <2>4 DEF BackInv, ManualIsHeld
<1>5. phase \in {"run", "shutdown"}
  BY <1>1 DEF TypeOK
<1>6. phase = "run" /\ ~ticked => NoAuto
  BY DEF BackInv, QuietOutside
<1>7. SampleShowsAuto'
  BY <1>1, <1>3 DEF BackInv, SampleShowsAuto
<1>8. QuietOutside'
  BY <1>1, <1>2, <1>3, <1>5, <1>6 DEF QuietOutside, NoAuto, BackInv
<1> QED BY <1>1, <1>2, <1>3, <1>4, <1>5, <1>7, <1>8
        DEF BackInv, AutoIsHeld, ManualIsHeld, AutoIsInFile, PuttingAllBack

LEMMA PersistBack ==
    ASSUME OneWindowEach, TypeOK, EasedIsWhatUnitsSay, ControlInv, BackInv, Persist
    PROVE  BackInv'
<1>1. ASSUME NEW u \in Units, setBy[u] = "auto" PROVE file'[u] # Absent
  <2>1. phase = "run"
    BY <1>1 DEF Persist, BackInv, QuietOutside, NoAuto, PuttingAllBack, ControlInv, TypeOK
  <2>2. prev[u] # Absent /\ ~manual[AppOf[u]]
    BY <1>1, <2>1 DEF BackInv, AutoIsHeld
  <2>3. IsAuto(AppOf[u])
    BY <2>2, EasedUnit DEF IsAuto
  <2> QED BY <2>2, <2>3 DEF Persist, AutomaticEases
<1>2. UNCHANGED <<setBy, live, prev, manual, known, sampling, sample, ticked>>
  BY DEF Persist, machine, snapshot, sound, apps, units
<1> QED BY <1>1, <1>2
        DEF BackInv, SampleShowsAuto, AutoIsHeld, ManualIsHeld, AutoIsInFile, QuietOutside,
            NoAuto, PuttingAllBack, Persist, ControlInv

LEMMA UserActionBack ==
    ASSUME Orderly, OneWindowEach, TypeOK, MachineInv, EasedIsWhatUnitsSay, BackInv,
           UserAction
    PROVE  BackInv'
<1>1. /\ phase = "run" /\ phase' = "run" /\ lock = "free" /\ file' = file
      /\ UNCHANGED <<sampling, sample, ticked>>
  BY DEF UserAction, Ease, Restore, SetAutomatic, SetNever, Asked, snapshot, sound
<1> DEFINE Kept(u) ==
        /\ setBy'[u] = "auto" => /\ setBy[u] = "auto"
                                 /\ prev'[u] # Absent
                                 /\ ~manual'[AppOf[u]]
        /\ manual'[AppOf[u]] => u \in known' /\ (prev'[u] # Absent \/ u \notin live')
<1>2. ASSUME NEW a \in Apps, Ease(a), NEW u \in Units PROVE Kept(u)
  <2>1. ASSUME setBy'[u] = "auto"
        PROVE  setBy[u] = "auto" /\ prev'[u] # Absent /\ ~manual'[AppOf[u]]
    <3>1. setBy[u] = "auto"
      BY <1>2, <2>1, EaseUnit
    <3>2. weight[u] = EasedWeight /\ prev[u] # Absent /\ ~manual[AppOf[u]]
      BY <1>1, <3>1 DEF MachineInv, BackInv, AutoIsHeld
    <3> QED BY <1>2, <2>1, <3>1, <3>2, EaseUnit
  <2>2. ASSUME manual'[AppOf[u]]
        PROVE  u \in known' /\ (prev'[u] # Absent \/ u \notin live')
    <3>1. manual[AppOf[u]] => u \in known /\ (prev[u] # Absent \/ u \notin live)
      BY DEF BackInv, ManualIsHeld
    <3>2. AppOf[u] = a => u \in known
      BY <1>2 DEF Ease, Present, UnitsOf, OneWindowEach, TypeOK
    <3>3. "refuse" \notin Permitted /\ "unread" \notin Permitted
      BY DEF Orderly
    <3> QED BY <1>2, <2>2, <3>1, <3>2, <3>3, EaseUnit
  <2> QED BY <2>1, <2>2
<1>3. ASSUME NEW u \in Units, UNCHANGED <<live, setBy, prev, manual, known>> PROVE Kept(u)
  BY <1>1, <1>3 DEF BackInv, AutoIsHeld, ManualIsHeld
<1>4. (\E a \in Apps : Ease(a)) \/ UNCHANGED <<live, setBy, prev, manual, known>>
  BY DEF UserAction, Restore, SetAutomatic, SetNever, machine, apps, units
<1>5. ASSUME NEW u \in Units PROVE Kept(u)
  <2> HIDE DEF Kept
  <2> QED BY <1>2, <1>3, <1>4
<1> QED BY <1>1, <1>5
        DEF BackInv, SampleShowsAuto, AutoIsHeld, ManualIsHeld, AutoIsInFile, QuietOutside,
            NoAuto, PuttingAllBack

LEMMA ProcessBack ==
    ASSUME Orderly, OneWindowEach, TypeOK, MachineInv, RestartInv, EasedIsWhatUnitsSay,
           ControlInv, BackInv, Process
    PROVE  BackInv'
<1> USE DEF BackInv, SampleShowsAuto, AutoIsHeld, ManualIsHeld, AutoIsInFile, QuietOutside,
            NoAuto, PuttingAllBack
<1>1. CASE Restart
  <2>1. PICK bus \in BusReplies : looked' = Recovered(bus)
    BY <1>1 DEF Restart
  <2>2. ASSUME NEW u \in Units, setBy[u] = "auto" PROVE file[u] # Absent /\ u \in looked'
    <3>1. u \in live /\ weight[u] = EasedWeight
      BY <2>2, EasedIsLive
    <3>2. file[u] # Absent
      BY <1>1, <2>2 DEF Restart, ControlInv
    <3> QED BY <2>1, <3>1, <3>2, BusFacts DEF Recovered, Orderly
  <2> QED BY <1>1, <2>2 DEF Restart, ControlInv, machine, snapshot, apps, units
<1>2. CASE Recover
  <2>1. PICK bus \in BusReplies :
            setBy' = [u \in Units |-> IF u \in looked \ bus.refused THEN "none" ELSE setBy[u]]
    BY <1>2 DEF Recover
  <2>2. ASSUME NEW u \in Units, setBy'[u] = "auto" PROVE FALSE
    <3>1. setBy[u] = "auto" /\ u \notin looked \ bus.refused
      BY <2>1, <2>2
    <3>2. u \in live /\ u \in looked
      BY <1>2, <3>1, EasedIsLive DEF Recover
    <3> QED BY <3>1, <3>2, BusFacts DEF Orderly
  <2> QED BY <1>2, <2>2 DEF Recover, ControlInv, snapshot, apps, units
<1>3. CASE Start
  BY <1>3 DEF Start, ControlInv, machine, snapshot, sound, apps, units
<1>4. CASE Shutdown
  <2>1. /\ phase = "run" /\ lock = "free" /\ ~sampling /\ phase' = "shutdown" /\ ~sampling'
        /\ lock' = PutThenSave(AutoApps) /\ backing' = AutoApps
        /\ UNCHANGED <<live, setBy, prev, manual, known, file>>
    BY <1>4 DEF Shutdown, Orderly, LookFirst, machine, snapshot, apps, units
  <2>2. ASSUME NEW u \in Units, setBy[u] = "auto"
        PROVE  prev[u] # Absent /\ ~manual[AppOf[u]] /\ AppOf[u] \in AutoApps /\ file[u] # Absent
    <3>1. prev[u] # Absent /\ ~manual[AppOf[u]] /\ file[u] # Absent
      BY <2>1, <2>2
    <3>2. AppOf[u] \in AutoApps
      BY <3>1, EasedUnit, UnitsAssumption DEF AutoApps, IsAuto
    <3> QED BY <3>1, <3>2
  <2>3. CASE AutoApps = {}
    BY <2>1, <2>2, <2>3 DEF PutThenSave
  <2>4. CASE AutoApps # {}
    <3>1. lock' = "put"
      BY <2>1, <2>4 DEF PutThenSave
    <3> QED BY <2>1, <2>2, <3>1
  <2> QED BY <2>3, <2>4
<1>5. CASE Exit \/ Crash
  <2>1. lock # "save"
    BY <1>5 DEF Exit, Crash, Orderly
  <2>2. /\ phase' = "down" /\ file' = file /\ setBy' = setBy /\ ~sampling'
        /\ \A a \in Apps : ~manual'[a]
    BY <1>5, <2>1 DEF Exit, Crash, machine, FreshController, EveryApp
  <2> QED BY <2>1, <2>2, UnitsAssumption
<1> QED BY <1>1, <1>2, <1>3, <1>4, <1>5 DEF Process

LEMMA EnvironmentBack ==
    ASSUME Orderly, TypeOK, BackInv, Environment
    PROVE  BackInv'
<1>1. \A u \in Units : setBy'[u] = "auto" => setBy[u] = "auto"
  BY DEF Environment, OpenUnit, CloseUnit, OthersSet, StartPlaying, StopPlaying, TypeOK
<1>2. \A u \in Units : u \in known /\ u \in live' => u \in live
  BY DEF Environment, OpenUnit, CloseUnit, OthersSet, StartPlaying, StopPlaying, Orderly
<1>3. UNCHANGED <<phase, lock, file, sampling, sample, ticked, known, prev, manual,
                backing, looked>>
  BY DEF Environment, OpenUnit, CloseUnit, OthersSet, StartPlaying, StopPlaying, atlas,
         process, snapshot, sound, calls, apps, units
<1> QED BY <1>1, <1>2, <1>3
        DEF BackInv, SampleShowsAuto, AutoIsHeld, ManualIsHeld, AutoIsInFile, QuietOutside,
            NoAuto, PuttingAllBack

LEMMA TickSampleBack ==
    ASSUME Orderly, TypeOK, MachineInv, BackInv, TickSample
    PROVE  BackInv'
<1>1. ASSUME NEW u \in Units, setBy[u] = "auto"
      PROVE  sample'[u] \in {EasedWeight, Unreadable}
  <2>1. u \in live /\ weight[u] = EasedWeight
    BY <1>1, EasedIsLive
  <2>2. KernelWeight(u) = EasedWeight
    BY <2>1 DEF KernelWeight, Unset, EasedWeight
  <2> QED BY <2>1, <2>2 DEF TickSample
<1>2. UNCHANGED <<phase, lock, file, ticked, known, prev, manual, setBy, live,
                backing, looked>>
      /\ phase = "run"
  BY DEF TickSample, machine, process, sound, calls, apps, units, Orderly
<1> QED BY <1>1, <1>2
        DEF BackInv, SampleShowsAuto, AutoIsHeld, ManualIsHeld, AutoIsInFile, QuietOutside,
            NoAuto, PuttingAllBack

\* "Everything eased automatically is put back when Atlas closes, and after a crash,
\* the next time it starts" (README.md:130): so it is for applications of one window,
\* whatever the user asks under a Tick and whenever Atlas is killed outside a save,
\* as long as the service manager answers and obeys.
THEOREM PutBackAfterAll == Orderly /\ OneWindowEach /\ Spec => []PutsBack
<1> SUFFICES ASSUME Orderly, OneWindowEach PROVE Spec => []PutsBack
  OBVIOUS
<1>1. Init => BackInv
  BY UnitsAssumption
     DEF Init, EveryApp, BackInv, SampleShowsAuto, AutoIsHeld, ManualIsHeld, AutoIsInFile,
         QuietOutside, NoAuto, PuttingAllBack
<1>2. TypeOK /\ MachineInv /\ RestartInv /\ EasedIsWhatUnitsSay /\ ControlInv /\ CallsInv
        /\ BackInv /\ [Next]_vars => BackInv'
  <2> SUFFICES ASSUME TypeOK, MachineInv, RestartInv, EasedIsWhatUnitsSay, ControlInv,
                      CallsInv, BackInv, [Next]_vars
               PROVE  BackInv'
    OBVIOUS
  <2>1. CASE UNCHANGED vars
    BY <2>1 DEF vars, machine, process, snapshot, sound, calls, apps, units, BackInv,
                SampleShowsAuto, AutoIsHeld, ManualIsHeld, AutoIsInFile, QuietOutside, NoAuto,
                PuttingAllBack
  <2> QED BY <2>1, TickSampleBack, TickFoldBack, TickListenBack, CarryOutBack, PersistBack,
             UserActionBack, ProcessBack, EnvironmentBack DEF Next, Ticker
<1>3. BackInv => PutsBack
  BY DEF BackInv, QuietOutside, PuttingAllBack, NoAuto, PutsBack
<1> QED BY <1>1, <1>2, <1>3, TypeCorrect, MachineInvariant, RestartInvariant, EasedCoherent,
           ControlInvariant, CallsInvariant, PTL DEF Spec

----------------------------------------------------------------------------
(* Nothing is stranded, in the first process of a session.                  *)

\* Whatever Atlas has eased, the running process holds; and a sample taken shows it.
StrandedInv ==
    /\ phase \notin {"restarting", "recovering"}
    /\ phase = "run" => \A u \in Units : setBy[u] # "none" =>
            /\ prev[u] # Absent
            /\ sampling => sample[u] \in {EasedWeight, Unreadable}
\* As long as Atlas is not restarted and nobody's request falls inside a Tick, a unit
\* that has Atlas's weight is one the controller still holds: refused, unreadable,
\* hidden, reused or eased by hand.
THEOREM NoneStranded ==
    OneWindowEach /\ Permitted \cap {"overtake", "restart"} = {} /\ Spec
        => []NothingIsStranded
<1> SUFFICES ASSUME OneWindowEach, Permitted \cap {"overtake", "restart"} = {}
             PROVE  Spec => []NothingIsStranded
  OBVIOUS
<1>1. Init => StrandedInv
  BY DEF Init, StrandedInv
<1>2. TypeOK /\ MachineInv /\ EasedIsWhatUnitsSay /\ ControlInv /\ CallsInv
        /\ StrandedInv /\ [Next]_vars => StrandedInv'
  <2> SUFFICES ASSUME TypeOK, MachineInv, EasedIsWhatUnitsSay, ControlInv, CallsInv,
                      StrandedInv, [Next]_vars
               PROVE  StrandedInv'
    OBVIOUS
  <2>1. /\ phase \notin {"restarting", "recovering"}
        /\ \A u \in Units : phase = "run" /\ setBy[u] # "none" => prev[u] # Absent
        /\ \A u \in Units : phase = "run" /\ setBy[u] # "none" /\ sampling
                                => sample[u] \in {EasedWeight, Unreadable}
    BY DEF StrandedInv
  <2>2. CASE TickSample
    <3>1. ASSUME NEW u \in Units, setBy[u] # "none"
          PROVE  sample'[u] \in {EasedWeight, Unreadable}
      <4>1. u \in live /\ weight[u] = EasedWeight
        BY <3>1, EasedIsLive
      <4>2. KernelWeight(u) = EasedWeight
        BY <4>1 DEF KernelWeight, Unset, EasedWeight
      <4> QED BY <2>2, <4>1, <4>2 DEF TickSample
    <3> QED BY <2>1, <2>2, <3>1 DEF TickSample, StrandedInv, machine, process, units
  <2>3. CASE TickFold
    <3>1. phase' = phase /\ ~sampling'
      BY <2>3 DEF TickFold
    <3>2. ASSUME NEW u \in Units, phase = "run", setBy'[u] # "none"
          PROVE  prev'[u] # Absent
      <4>1. setBy[u] # "none"
        BY <2>3, <3>2, TickFoldUnit, NoneJoins
      <4>2. prev[u] # Absent /\ sample[u] \in {EasedWeight, Unreadable}
        BY <2>1, <2>3, <3>2, <4>1 DEF TickFold
      <4>3. u \in Seen
        BY <4>2 DEF Seen, EasedWeight, Unreadable, Absent
      <4> QED BY <2>3, <4>2, <4>3, TickFoldUnit
    <3> QED BY <2>1, <3>1, <3>2 DEF StrandedInv
  <2>4. CASE TickListen \/ Persist
    BY <2>1, <2>4
       DEF TickListen, Persist, ControlInv, StrandedInv, machine, snapshot, apps, units
  <2>5. CASE CarryOut
    <3>1. phase' = phase /\ sampling' = sampling /\ sample' = sample /\ lock \in {"put", "undo"}
      BY <2>5 DEF CarryOut, snapshot
    <3>2. ASSUME NEW u \in Units, phase = "run", setBy'[u] # "none"
          PROVE  prev'[u] # Absent /\ (setBy[u] # "none" \/ ~sampling)
      <4>1. setBy[u] # "none" => prev[u] # Absent /\ u \notin EasedUnitsOf(backing) \ looked
        BY <2>1, <3>1, <3>2 DEF CallsInv
      <4>2. AppOf[u] \in due => ~sampling
        BY <3>1 DEF ControlInv
      <4> QED BY <2>5, <3>2, <4>1, <4>2, CarryOutUnit
    <3> QED BY <2>1, <3>1, <3>2 DEF StrandedInv
  <2>6. CASE UserAction
    <3>1. phase = "run" /\ phase' = "run" /\ sampling' = sampling /\ ~sampling
      <4>1. "overtake" \notin Permitted
        OBVIOUS
      <4>2. Asked /\ phase' = phase /\ sampling' = sampling
        BY <2>6 DEF UserAction, Ease, Restore, SetAutomatic, SetNever, snapshot
      <4> QED BY <4>1, <4>2 DEF Asked
    <3>2. ASSUME NEW a \in Apps, Ease(a) PROVE StrandedInv'
      <4>1. ASSUME NEW u \in Units, setBy'[u] # "none" PROVE prev'[u] # Absent
        BY <2>1, <3>1, <3>2, <4>1, EaseUnit
      <4> QED BY <3>1, <4>1 DEF StrandedInv
    <3>3. (\E a \in Apps : Ease(a)) \/ UNCHANGED <<setBy, prev>>
      BY <2>6 DEF UserAction, Restore, SetAutomatic, SetNever, machine, units
    <3> QED BY <2>1, <3>1, <3>2, <3>3 DEF StrandedInv
  <2>7. CASE Process
    BY <2>1, <2>7 DEF Process, Restart, Recover, Start, Shutdown, Exit, Crash, StrandedInv
  <2>8. CASE Environment
    <3>1. \A u \in Units : setBy'[u] # "none" => setBy[u] # "none"
      BY <2>8 DEF Environment, OpenUnit, CloseUnit, OthersSet, StartPlaying, StopPlaying,
                  TypeOK
    <3>2. UNCHANGED <<phase, sampling, sample, prev>>
      BY <2>8 DEF Environment, OpenUnit, CloseUnit, OthersSet, StartPlaying, StopPlaying,
                  atlas, process, snapshot, units
    <3> QED BY <2>1, <3>1, <3>2 DEF StrandedInv
  <2>9. CASE UNCHANGED vars
    BY <2>1, <2>9 DEF vars, StrandedInv, machine, process, snapshot, units
  <2> QED BY <2>2, <2>3, <2>4, <2>5, <2>6, <2>7, <2>8, <2>9 DEF Next, Ticker
<1>3. StrandedInv => NothingIsStranded
  BY DEF StrandedInv, NothingIsStranded
<1> QED BY <1>1, <1>2, <1>3, TypeCorrect, MachineInvariant, EasedCoherent,
           ControlInvariant, CallsInvariant, PTL DEF Spec
=============================================================================
