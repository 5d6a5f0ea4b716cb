---------------------------- MODULE EnergySaver ----------------------------
(***************************************************************************)
(* Energy Saver's automatic half: src/internal/ease/ease.go, the parts of  *)
(* ease_linux.go it acts through, and the goroutine app.go runs it on.     *)
(*                                                                         *)
(* Three parties share the weights of the units of systemd --user:         *)
(*   - the ticker goroutine, which samples the cgroup tree WITHOUT the     *)
(*     controller's lock (TickSample) and then acts on what it read with   *)
(*     the lock held (TickFold, TickListen, CarryOut, Persist);            *)
(*   - the main thread, which carries out what the user asks (Ease,        *)
(*     Restore, SetAutomatic, SetNever) and closes Atlas (Shutdown), with  *)
(*     CarryOut and Persist where it restores;                             *)
(*   - everybody else: windows that open and close, uresourced or the user *)
(*     setting a weight, applications that start and stop playing.         *)
(* The lock keeps none of the last away. So the lock-held part of a call   *)
(* that decides and then acts is several steps, with room for everybody    *)
(* else, and for Atlas to die, between them: what PipeWire and the service *)
(* manager are asked first, what is then set (CarryOut), and the save.     *)
(*                                                                         *)
(* A definition marked "mutant" is a mistake the next one might have held. *)
(***************************************************************************)
EXTENDS Integers, FiniteSets

CONSTANTS
    Apps,           \* application IDs
    Units,          \* systemd unit names, open or not
    AppOf,          \* Identity: the application of each unit
    Terminals,      \* applications whose desktop file says terminal
    Self,           \* Atlas's own application: a set, empty when unknown
    EaseAfter,      \* easeAfter, restoreAfter and audioEvery, in intervals of
    RestoreAfter,   \*   the ticker (30 s, 60 s and 10 s of 5 s each in the
    AudioEvery,     \*   code)
    Intervals,      \* how long may pass between two ticks, in such intervals
    OthersWeights,  \* what somebody else may set a weight to
    Permitted       \* what may happen around Atlas in this instance

EasedWeight == 10
DefaultWeight == 100
Unset == 10001      \* ^uint64(0) in the code: above the largest weight
Unreadable == 0     \* Sample.Weight when cpu.weight cannot be read
Absent == -1        \* no entry in a map

Weights == 1 .. Unset
\* sound: applications play. settings: the user changes the settings. reuse: a
\* unit comes back under a name the controller knows (a service; a scope's name
\* has a random suffix). refuse, unread: the service manager refuses to set, or
\* to tell, a weight. hidden: cpu.weight cannot be read. mute: AudibleApps
\* fails. overtake: the user's request falls between a Tick's Sample and its
\* lock. late: Atlas closes while a Tick is under way. crash: Atlas is killed,
\* and with tear also between the service manager's calls and the save.
\* restart: Atlas is started again.
Happenings == {"sound", "settings", "reuse", "refuse", "unread", "hidden",
               "mute", "overtake", "late", "crash", "tear", "restart"}

ASSUME UnitsAssumption ==
    /\ AppOf \in [Units -> Apps]
    /\ Terminals \subseteq Apps
    /\ Self \subseteq Apps

ASSUME PolicyAssumption ==
    /\ EaseAfter \in Nat \ {0}
    /\ RestoreAfter \in Nat \ {0}
    /\ AudioEvery \in Nat \ {0}
    /\ Intervals \subseteq Nat \ {0}

ASSUME OthersAssumption ==
    /\ OthersWeights \subseteq Weights \ {EasedWeight}
    /\ Permitted \subseteq Happenings

VARIABLES
    \* The machine.
    live,       \* units that exist
    weight,     \* CPUWeight of each unit, as systemd has it configured
    playing,    \* applications with a running stream
    file,       \* eased.json: unit -> weight to restore, or Absent
    \* The process.
    phase,      \* "down", "restarting", "recovering", "run", "shutdown" or
                \*   "closing"
    lock,       \* "free"; "decide": Tick has folded; "put", or "undo" when the
                \*   user asked to restore: the calls that set weights are due;
                \*   "save": persist is due
    sampling,   \* the ticker goroutine holds a sample it has not applied
    sample,     \* that sample's weights; Absent for a unit it does not have
    \* Controller.
    automatic, never,
    ticked,     \* last is not the zero time
    soundAge,   \* time since lastAudio, up to AudioEvery
    audible,
    changed,    \* Tick's local of that name
    \* Locals of the call that holds the lock, once it has asked what it asks.
    due,        \* applications it will ease
    backing,    \* applications it will restore
    looked,     \* their units, or those the file lists, that did not read as
                \*   somebody else's: it will set them back
    \* appState, the zero value for an application that is not in apps.
    eased, manual, heavyFor, calmFor, cpu, foreign,
    \* unitState. u.eased is prev[u] # Absent: the two are always set together.
    known, prev,
    \* History, not in the code: who put EasedWeight on a unit ("auto" and
    \* "hand" are Atlas by itself and at the user's request); and, while weights
    \* are due to be set, the units that somebody else set, or that came back,
    \* since they were looked at, and the applications that began to play since
    \* PipeWire was asked.
    setBy, since, began

machine == <<live, weight, playing, setBy>>
process == <<phase, lock>>
snapshot == <<sampling, sample>>
settings == <<automatic, never>>
sound == <<ticked, soundAge, audible>>
calls == <<due, backing, looked>>
meanwhile == <<since, began>>
clocks == <<heavyFor, calmFor, cpu, foreign>>
apps == <<eased, manual>>
units == <<known, prev>>
vars == <<machine, file, process, snapshot, settings, sound, changed, calls,
          meanwhile, clocks, apps, units>>

----------------------------------------------------------------------------
(* Clocks. heavyFor and calmFor are only ever compared with a threshold, so *)
(* both stop counting there. The first Tick measures its interval from the  *)
(* zero time: Sub saturates at the largest Duration (Forever), and the next *)
(* addition to it wraps around to a negative one (Wrapped).                 *)

Wrapped == -1
Forever == RestoreAfter + 1
CalmClock == 0 .. RestoreAfter \union {Wrapped, Forever}
Load == {"calm", "middling", "heavy"}

AtMost(n, limit) == IF n > limit THEN limit ELSE n

\* calmFor += dt; first is "c.last was the zero time".
CalmAfter(clock, dt, first) ==
    IF first THEN Forever
    ELSE IF clock \in {Forever, Wrapped} THEN Wrapped
    ELSE AtMost(clock + dt, RestoreAfter)

----------------------------------------------------------------------------
(* The controller's view of applications and units.                         *)

Held == {u \in Units : prev[u] # Absent}
UnitsOf(a, U) == {u \in U : AppOf[u] = a}
Present(a) == UnitsOf(a, known) # {}             \* c.apps[a] != nil
AnyEased(a, p) == \E u \in Units : AppOf[u] = a /\ p[u] # Absent
IsAuto(a) == eased[a] /\ ~manual[a]
EasedApps == {a \in Apps : eased[a]}                \* mutant of AutoApps
AutoApps == {a \in Apps : IsAuto(a)}

KernelWeight(u) == IF weight[u] = Unset THEN DefaultWeight ELSE weight[u]

\* What the calls of one operation meet at the service manager: the units whose
\* weight cannot be read, and those it refuses to set. A unit that has ended is
\* always among both.
BusReplies ==
    LET Fail(kind) == IF kind \in Permitted THEN SUBSET live ELSE {{}}
        gone == Units \ live
    IN  {[unread |-> gone \union x, refused |-> gone \union y] :
            x \in Fail("unread"), y \in Fail("refuse")}

\* easeUnit over the units of S that are not eased yet: the ones it succeeds on.
Easable(S, p, bus) ==
    {u \in S : p[u] = Absent} \ (bus.unread \union bus.refused)

\* restore first looks at the units of R: those whose weight something else
\* changed are given up. An answer that does not come counts as Atlas's weight.
NeverReadsAsOthers(R, bus) == {}                   \* mutant: no look first
ReadsAsOthers(R, bus) == {u \in R \ bus.unread : weight[u] # EasedWeight}

\* Then it sets back the others, unless refused: those stay eased.
PutBack(R, bus) == (R \cap looked) \ bus.refused

HeldAfter(R, bus) ==
    [u \in Units |-> IF u \in R /\ (u \in looked => u \in PutBack(R, bus))
                     THEN Absent ELSE prev[u]]

EveryUnitOf(A) == {u \in Units : AppOf[u] \in A}    \* mutant: eased or not
EasedUnitsOf(A) == {u \in Held : AppOf[u] \in A}

\* What a call that restores the applications of R looks at before it sets
\* anything, and what it will do then.
LookFirst(E, R) ==
    /\ due' = E
    /\ backing' = R
    /\ \E bus \in BusReplies :
        looked' = EasedUnitsOf(R) \ ReadsAsOthers(EasedUnitsOf(R), bus)

\* With nobody to restore, a request of the user's is saved at once.
PutThenSave(R) == IF R = {} THEN "save" ELSE "put"

EveryEase == [u \in Units |-> prev[u]]              \* mutant: manual ones too

\* What persist hands to the saver.
AutomaticEases ==
    [u \in Units |-> IF IsAuto(AppOf[u]) THEN prev[u] ELSE Absent]

----------------------------------------------------------------------------
NoEntry == [u \in Units |-> Absent]
EveryApp(x) == [a \in Apps |-> x]

\* A controller that has just been made: New, with the given settings.
FreshController ==
    /\ sampling' = FALSE
    /\ sample' = NoEntry
    /\ ticked' = FALSE
    /\ soundAge' = AudioEvery
    /\ audible' = {}
    /\ changed' = FALSE
    /\ due' = {}
    /\ backing' = {}
    /\ looked' = {}
    /\ since' = {}
    /\ began' = {}
    /\ eased' = EveryApp(FALSE)
    /\ manual' = EveryApp(FALSE)
    /\ heavyFor' = EveryApp(0)
    /\ calmFor' = EveryApp(0)
    /\ cpu' = EveryApp("calm")
    /\ foreign' = {}
    /\ known' = {}
    /\ prev' = NoEntry

\* Atlas has just started in a session it has not touched.
Init ==
    /\ live \in SUBSET Units
    /\ weight = [u \in Units |-> Unset]
    /\ playing = {}
    /\ setBy = [u \in Units |-> "none"]
    /\ file = NoEntry
    /\ phase = "run"
    /\ lock = "free"
    /\ automatic \in BOOLEAN
    /\ never = {}
    /\ sampling = FALSE
    /\ sample = NoEntry
    /\ ticked = FALSE
    /\ soundAge = AudioEvery
    /\ audible = {}
    /\ changed = FALSE
    /\ due = {}
    /\ backing = {}
    /\ looked = {}
    /\ since = {}
    /\ began = {}
    /\ eased = EveryApp(FALSE)
    /\ manual = EveryApp(FALSE)
    /\ heavyFor = EveryApp(0)
    /\ calmFor = EveryApp(0)
    /\ cpu = EveryApp("calm")
    /\ foreign = {}
    /\ known = {}
    /\ prev = NoEntry

----------------------------------------------------------------------------
(* Starting and ending.                                                     *)

RecoveredIfChanged(bus) ==                         \* mutant: == for !=
    {u \in Units : file[u] # Absent /\ weight[u] # EasedWeight} \ bus.unread

\* The units recoverFromCrash finds with Atlas's weight still on them.
Recovered(bus) ==
    {u \in Units : file[u] # Absent /\ weight[u] = EasedWeight} \ bus.unread

\* recoverFromCrash: the file and the weights are read, ...
Restart ==
    /\ phase = "down"
    /\ "restart" \in Permitted
    /\ \E bus \in BusReplies : looked' = Recovered(bus)
    /\ phase' = "restarting"
    /\ UNCHANGED <<machine, file, lock, snapshot, settings, sound, changed, due,
                   backing, meanwhile, clocks, apps, units>>

\* ... and the weights set, up to the removal of the file.
Recover ==
    /\ phase = "restarting"
    /\ \E bus \in BusReplies :
        /\ weight' = [u \in Units |-> IF u \in looked \ bus.refused THEN file[u]
                                      ELSE weight[u]]
        /\ setBy' = [u \in Units |-> IF u \in looked \ bus.refused THEN "none"
                                     ELSE setBy[u]]
    /\ looked' = {}
    /\ since' = {}
    /\ phase' = "recovering"
    /\ UNCHANGED <<live, playing, file, lock, snapshot, settings, sound,
                   changed, due, backing, began, clocks, apps, units>>

\* The rest of System and of startEaser: SetNever and SetAutomatic find no
\* application yet, so what they persist is that nothing is eased.
Start ==
    /\ phase = "recovering"
    /\ phase' = "run"
    /\ file' = NoEntry
    /\ UNCHANGED <<machine, lock, snapshot, settings, sound, changed, calls,
                   meanwhile, clocks, apps, units>>

ShutdownPutsNothingBack ==                         \* mutant: save only
    /\ phase = "run"
    /\ lock = "free"
    /\ sampling => "late" \in Permitted
    /\ phase' = "shutdown"
    /\ lock' = "save"
    /\ UNCHANGED <<machine, file, snapshot, settings, sound, changed, calls,
                   meanwhile, clocks, apps, units>>

\* stopEaser: the goroutine is told to stop but not waited for.
Shutdown ==
    /\ phase = "run"
    /\ lock = "free"
    /\ sampling => "late" \in Permitted
    /\ LookFirst({}, AutoApps)
    /\ phase' = "shutdown"
    /\ lock' = PutThenSave(AutoApps)
    /\ UNCHANGED <<machine, file, snapshot, settings, sound, changed, meanwhile,
                   clocks, apps, units>>

\* The process ends once Shutdown has returned, wherever the goroutine is.
Exit ==
    /\ phase = "closing"
    /\ phase' = "down"
    /\ lock' = "free"
    /\ FreshController
    /\ UNCHANGED <<machine, file, settings>>

\* Killed. os.WriteFile truncates before it writes, so a save cut short can
\* also leave a file that does not parse, which is no file.
Crash ==
    /\ "crash" \in Permitted
    /\ phase # "down"
    /\ lock = "save" => "tear" \in Permitted
    /\ file' \in {file} \union (IF lock = "save" THEN {NoEntry} ELSE {})
    /\ phase' = "down"
    /\ lock' = "free"
    /\ FreshController
    /\ UNCHANGED <<machine, settings>>

----------------------------------------------------------------------------
(* Tick.                                                                    *)

\* units.Sample, before the lock is taken.
TickSample ==
    /\ phase = "run" \/ (phase = "closing" /\ "late" \in Permitted)
    /\ ~sampling
    /\ lock = "free"
    /\ \E hidden \in (IF "hidden" \in Permitted THEN SUBSET live ELSE {{}}) :
        sample' = [u \in Units |-> IF u \notin live THEN Absent
                                   ELSE IF u \in hidden THEN Unreadable
                                   ELSE KernelWeight(u)]
    /\ sampling' = TRUE
    /\ UNCHANGED <<machine, file, process, settings, sound, changed, calls,
                   meanwhile, clocks, apps, units>>

Seen == {u \in Units : sample[u] # Absent}

\* A new window of an eased application joins it.
Joining == {u \in Seen \ known : eased[AppOf[u]]}

\* The units eased once the fold has joined the new ones and forgotten the
\* closed ones, and what is left of them when those that somebody else has
\* taken over are let go.
FoldedKeepsClosed(bus) ==                          \* mutant: no delete
    [u \in Units |-> IF u \in Easable(Joining, prev, bus) THEN weight[u]
                     ELSE prev[u]]
Folded(bus) ==
    [u \in Units |-> IF u \notin Seen THEN Absent
                     ELSE IF u \in Easable(Joining, prev, bus) THEN weight[u]
                     ELSE prev[u]]
TakenOverAlways(p) ==                              \* mutant: own weight too
    {u \in Seen : p[u] # Absent /\ sample[u] # Unreadable}
TakenOver(p) ==
    {u \in Seen : p[u] # Absent /\ sample[u] \notin {Unreadable, EasedWeight}}
LetGo(p) == [u \in Units |-> IF u \in TakenOver(p) THEN Absent ELSE p[u]]

ForeignApps(p) ==
    {AppOf[u] : u \in {v \in Seen : /\ p[v] = Absent
                                    /\ sample[v] \notin {Unreadable, DefaultWeight}}}

\* What an interval of length dt at load l makes of the clocks.
HeavyClocks(dt, l, stillEased) ==
    [a \in Apps |->
        IF UnitsOf(a, Seen) = {} \/ l[a] # "heavy" THEN 0
        ELSE IF eased[a] /\ ~stillEased[a] THEN AtMost(dt, EaseAfter)
        ELSE AtMost(heavyFor[a] + dt, EaseAfter)]

CalmClocksNeverReset(dt, l) ==                     \* mutant: no calmFor = 0
    [a \in Apps |->
        IF UnitsOf(a, Seen) = {} THEN 0
        ELSE IF l[a] # "calm" THEN calmFor[a]
        ELSE CalmAfter(calmFor[a], dt, ~ticked)]
CalmClocks(dt, l) ==
    [a \in Apps |->
        IF UnitsOf(a, Seen) = {} \/ l[a] # "calm" THEN 0
        ELSE CalmAfter(calmFor[a], dt, ~ticked)]

\* An application none of whose units was there last time has no delta yet.
Loads ==
    {l \in [Apps -> Load] :
        \A a \in Apps : ~ticked \/ UnitsOf(a, Seen \cap known) = {} => l[a] = "calm"}

\* Tick up to the early return of a controller that is not automatic.
TickFold ==
    /\ sampling
    /\ lock = "free"
    /\ phase \in {"run", "closing"}
    /\ \E bus \in BusReplies, dt \in Intervals, l \in Loads :
        LET joined == Easable(Joining, prev, bus)
        IN  /\ prev' = LetGo(Folded(bus))
            /\ weight' = [u \in Units |->
                            IF u \in joined THEN EasedWeight ELSE weight[u]]
            /\ setBy' = [u \in Units |->
                            IF u \notin joined THEN setBy[u]
                            ELSE IF manual[AppOf[u]] THEN "hand" ELSE "auto"]
            /\ changed' = \/ TakenOver(Folded(bus)) # {}
                          \/ \E u \in Held \ Seen : UnitsOf(AppOf[u], Seen) # {}
                          \/ \E a \in Apps : eased[a] /\ UnitsOf(a, Seen) = {}
            /\ eased' = [a \in Apps |-> eased[a] /\ AnyEased(a, prev')]
            /\ manual' = [a \in Apps |-> /\ manual[a]
                                         /\ UnitsOf(a, Seen) # {}
                                         /\ eased[a] => AnyEased(a, prev')]
            /\ heavyFor' = HeavyClocks(dt, l, eased')
            /\ calmFor' = CalmClocks(dt, l)
            /\ cpu' = l
            /\ soundAge' = AtMost(soundAge + dt, AudioEvery)
    /\ foreign' = ForeignApps(prev')
    /\ known' = Seen
    /\ ticked' = TRUE
    /\ lock' = "decide"
    /\ sampling' = FALSE
    /\ sample' = NoEntry
    /\ UNCHANGED <<live, playing, file, phase, settings, audible, calls, meanwhile>>

Due ==
    {a \in Apps : /\ ~eased[a]
                  /\ heavyFor[a] >= EaseAfter
                  /\ a \notin never \union Terminals \union Self \union foreign}

WatchedBusy == {a \in Apps : ~eased[a] /\ cpu[a] = "heavy"}   \* mutant
Watched ==
    {a \in Apps : IF eased[a] THEN ~manual[a] ELSE cpu[a] = "heavy"}

\* AudibleApps is asked when an application is due, or there is something to
\* watch and the last answer is old.
AsksForSound == Due # {} \/ (Watched # {} /\ soundAge >= AudioEvery)

AudioAnswers == IF "mute" \in Permitted THEN BOOLEAN ELSE {TRUE}

Asks == automatic /\ AsksForSound

\* c.audible after the question, were it asked.
Heard(answers) == IF Asks /\ answers THEN playing ELSE audible

\* Without an answer nobody is due any more.
ToEaseUnheard(answers) ==                          \* mutant: no due = nil
    IF automatic THEN Due \ Heard(answers) ELSE {}
ToEase(answers) ==
    IF automatic /\ answers THEN Due \ Heard(answers) ELSE {}

ToRestore(answers) ==
    {a \in Apps : /\ automatic
                  /\ IsAuto(a)
                  /\ calmFor[a] >= RestoreAfter \/ a \in Heard(answers) \union never}

\* PipeWire is asked who plays, which takes up to three seconds, and the units to
\* put back are looked at. Nothing is done about those who begin to play, or the
\* weights that are set, after that.
TickListen ==
    /\ lock = "decide"
    /\ \E answers \in AudioAnswers :
        LET E == ToEase(answers)
            R == ToRestore(answers)
        IN  /\ audible' = Heard(answers)
            /\ soundAge' = IF Asks /\ answers THEN 0 ELSE soundAge
            /\ LookFirst(E, R)
            /\ lock' = IF E \union R # {} THEN "put"
                       ELSE IF changed THEN "save" ELSE "free"
    /\ changed' = FALSE
    /\ UNCHANGED <<machine, file, phase, snapshot, settings, ticked, meanwhile,
                   clocks, apps, units>>

\* What is eased or restored is saved, whoever asked for it.
SavesRestores == IF backing # {} THEN "save" ELSE "free" \* mutant: eases unsaved
AfterCalls == "save"

\* c.ease for the applications due, then what c.restore sets for those to be put
\* back. No application is in both, and no unit to ease is held.
CarryOut ==
    /\ lock \in {"put", "undo"}
    /\ \E bus \in BusReplies :
        LET lowered == Easable({u \in known : AppOf[u] \in due}, prev, bus)
            held == EasedUnitsOf(backing)
            back == PutBack(held, bus)
        IN  /\ prev' = [u \in Units |-> IF u \in lowered THEN weight[u]
                                        ELSE HeldAfter(held, bus)[u]]
            /\ weight' = [u \in Units |-> IF u \in lowered THEN EasedWeight
                                          ELSE IF u \in back THEN prev[u]
                                          ELSE weight[u]]
            /\ setBy' = [u \in Units |-> IF u \in lowered THEN "auto"
                                         ELSE IF u \in back THEN "none"
                                         ELSE setBy[u]]
    /\ eased' = [a \in Apps |-> IF a \in due \union backing THEN AnyEased(a, prev')
                                ELSE eased[a]]
    /\ manual' = [a \in Apps |-> manual[a] /\ (a \in backing => AnyEased(a, prev'))]
    /\ heavyFor' = [a \in Apps |-> IF a \in backing THEN 0 ELSE heavyFor[a]]
    /\ calmFor' = [a \in Apps |-> IF a \in backing THEN 0 ELSE calmFor[a]]
    /\ lock' = AfterCalls
    /\ due' = {}
    /\ backing' = {}
    /\ looked' = {}
    /\ since' = {}
    /\ began' = {}
    /\ UNCHANGED <<live, playing, file, phase, snapshot, settings, sound, changed,
                   cpu, foreign, known>>

\* persist and saveState, which remove or write the file, and the unlock.
Persist ==
    /\ lock = "save"
    /\ file' = AutomaticEases
    /\ lock' = "free"
    /\ phase' = IF phase = "shutdown" THEN "closing" ELSE phase
    /\ UNCHANGED <<machine, snapshot, settings, sound, changed, calls, meanwhile,
                   clocks, apps, units>>

----------------------------------------------------------------------------
(* The main thread, for the user.                                           *)

\* An operation that falls between a Tick's Sample and its lock overtakes it.
Asked == phase = "run" /\ lock = "free" /\ (sampling => "overtake" \in Permitted)

Ease(a) ==
    /\ Asked
    /\ Present(a)
    /\ \E bus \in BusReplies :
        LET lowered == Easable(UnitsOf(a, known), prev, bus)
        IN  /\ prev' = [u \in Units |->
                            IF u \in lowered THEN weight[u] ELSE prev[u]]
            /\ weight' = [u \in Units |->
                            IF u \in lowered THEN EasedWeight ELSE weight[u]]
    /\ setBy' = [u \in Units |->
                    IF AppOf[u] = a /\ prev'[u] # Absent /\ weight'[u] = EasedWeight
                    THEN "hand" ELSE setBy[u]]
    /\ eased' = [eased EXCEPT ![a] = AnyEased(a, prev')]
    /\ manual' = [manual EXCEPT ![a] = TRUE]
    /\ lock' = "save"
    /\ UNCHANGED <<live, playing, file, phase, snapshot, settings, sound,
                   changed, calls, meanwhile, clocks, known>>

Restore(a) ==
    /\ Asked
    /\ Present(a)
    /\ LookFirst({}, {a})
    /\ lock' = "undo"
    /\ UNCHANGED <<machine, file, phase, snapshot, settings, sound, changed,
                   meanwhile, clocks, apps, units>>

SetAutomatic(on) ==
    /\ Asked
    /\ automatic' = on
    /\ LookFirst({}, IF on THEN {} ELSE AutoApps)
    /\ lock' = IF on THEN "free" ELSE PutThenSave(AutoApps)
    /\ UNCHANGED <<machine, file, phase, snapshot, never, sound, changed, meanwhile,
                   clocks, apps, units>>

SetNever(ids) ==
    /\ Asked
    /\ never' = ids
    /\ LookFirst({}, AutoApps \cap ids)
    /\ lock' = PutThenSave(AutoApps \cap ids)
    /\ UNCHANGED <<machine, file, phase, snapshot, automatic, sound, changed,
                   meanwhile, clocks, apps, units>>

\* The page adds one application to the list or takes one off it.
UserAction ==
    \/ \E a \in Apps : Ease(a) \/ Restore(a)
    \/ /\ "settings" \in Permitted
       /\ \/ \E on \in BOOLEAN : SetAutomatic(on)
          \/ \E a \in Apps : SetNever(never \union {a}) \/ SetNever(never \ {a})

----------------------------------------------------------------------------
(* Everybody else.                                                          *)

atlas == <<file, process, snapshot, settings, sound, changed, calls, clocks, apps,
           units>>

\* Weights have been looked at and are due to be set.
Looked == lock \in {"put", "undo"} \/ phase = "restarting"
SinceWith(u) == IF Looked THEN since \union {u} ELSE since

\* A runtime property lasts until the unit ends.
OpenUnit(u) ==
    /\ u \notin live
    /\ u \in known => "reuse" \in Permitted
    /\ live' = live \union {u}
    /\ since' = SinceWith(u)
    /\ UNCHANGED <<weight, playing, setBy, began, atlas>>

CloseUnit(u) ==
    /\ u \in live
    /\ live' = live \ {u}
    /\ weight' = [weight EXCEPT ![u] = Unset]
    /\ setBy' = [setBy EXCEPT ![u] = "none"]
    /\ playing' = {a \in playing : UnitsOf(a, live') # {}}
    /\ UNCHANGED <<meanwhile, atlas>>

OthersSet(u, w) ==
    /\ u \in live
    /\ weight[u] # w
    /\ weight' = [weight EXCEPT ![u] = w]
    /\ setBy' = [setBy EXCEPT ![u] = "none"]
    /\ since' = SinceWith(u)
    /\ UNCHANGED <<live, playing, began, atlas>>

StartPlaying(a) ==
    /\ "sound" \in Permitted
    /\ a \notin playing
    /\ UnitsOf(a, live) # {}
    /\ playing' = playing \union {a}
    /\ began' = IF lock = "put" THEN began \union {a} ELSE began
    /\ UNCHANGED <<live, weight, setBy, since, atlas>>

StopPlaying(a) ==
    /\ a \in playing
    /\ playing' = playing \ {a}
    /\ UNCHANGED <<live, weight, setBy, meanwhile, atlas>>

Environment ==
    \/ \E u \in Units : OpenUnit(u) \/ CloseUnit(u)
    \/ \E u \in Units, w \in OthersWeights : OthersSet(u, w)
    \/ \E a \in Apps : StartPlaying(a) \/ StopPlaying(a)

Ticker == TickSample \/ TickFold \/ TickListen

Process == Restart \/ Recover \/ Start \/ Shutdown \/ Exit \/ Crash

Next == Ticker \/ CarryOut \/ Persist \/ UserAction \/ Process \/ Environment

Spec == Init /\ [][Next]_vars

\* Whoever holds the lock goes on, and the ticker goroutine gets its turn with
\* it however often the user asks for something: sync.Mutex hands itself to a
\* waiter that has waited for a millisecond.
Fairness == SF_vars(Ticker) /\ WF_vars(CarryOut) /\ WF_vars(Persist)

FairSpec == Spec /\ Fairness

----------------------------------------------------------------------------
(* Properties.                                                              *)

TypeOK ==
    /\ live \in SUBSET Units
    /\ weight \in [Units -> Weights]
    /\ playing \in SUBSET Apps
    /\ file \in [Units -> Weights \union {Absent}]
    /\ phase \in {"down", "restarting", "recovering", "run", "shutdown", "closing"}
    /\ lock \in {"free", "decide", "put", "undo", "save"}
    /\ sampling \in BOOLEAN
    /\ sample \in [Units -> Weights \union {Unreadable, Absent}]
    /\ automatic \in BOOLEAN
    /\ never \in SUBSET Apps
    /\ ticked \in BOOLEAN
    /\ soundAge \in 0 .. AudioEvery
    /\ audible \in SUBSET Apps
    /\ changed \in BOOLEAN
    /\ due \in SUBSET Apps
    /\ backing \in SUBSET Apps
    /\ looked \in SUBSET Units
    /\ since \in SUBSET Units
    /\ began \in SUBSET Apps
    /\ eased \in [Apps -> BOOLEAN]
    /\ manual \in [Apps -> BOOLEAN]
    /\ heavyFor \in [Apps -> 0 .. EaseAfter]
    /\ calmFor \in [Apps -> CalmClock]
    /\ cpu \in [Apps -> Load]
    /\ foreign \in SUBSET Apps
    /\ known \in SUBSET Units
    /\ prev \in [Units -> Weights \union {Absent}]
    /\ setBy \in [Units -> {"none", "auto", "hand"}]

\* "Eased is whatever the units say" (ease.go:455): an application counts as
\* eased exactly when one of its units is, and only a unit of the last sample
\* is, whichever of ease, restore, Tick's fold and its forgetting came last.
EasedIsWhatUnitsSay ==
    /\ \A a \in Apps : eased[a] <=> AnyEased(a, prev)
    /\ Held \subseteq known

\* The crash-recovery file never lists a unit that the running Atlas has given
\* up, has put back or holds for the user, nor a weight other than the one it
\* would itself put back: restoring from it after a crash undoes nothing that
\* is not Atlas's to undo.
ListedIsHeld ==
    phase \in {"run", "closing"} /\ lock = "free" =>
        \A u \in Units : file[u] # Absent => /\ IsAuto(AppOf[u])
                                             /\ prev[u] = file[u]

\* Conversely every unit eased automatically is in the file (ease.go:122: "save
\* is told the automatic eases after every change, for crash recovery").
HeldIsListed ==
    phase \in {"run", "closing"} /\ lock = "free" =>
        \A u \in Units : IsAuto(AppOf[u]) => file[u] = prev[u]

\* A unit that has Atlas's weight is one the controller still holds, so that
\* something will put it back: "It is reversible" (ease.go:7), and a weight
\* nobody holds would not be.
NothingIsStranded ==
    phase = "run" /\ lock = "free" =>
        \A u \in Units : setBy[u] # "none" => prev[u] # Absent

\* "Everything eased automatically is put back when Atlas closes" (README.md:130).
ClosingPutsBack ==
    phase = "closing" /\ lock = "free" => \A u \in Units : setBy[u] # "auto"

\* "... and after a crash, the next time it starts": at both moments no unit has a
\* weight that Atlas gave it by itself.
PutsBack ==
    \/ phase = "closing" /\ lock = "free"
    \/ phase = "run" /\ ~ticked
    => \A u \in Units : setBy[u] # "auto"

\* "the one thing this must never do" (ease.go:420): an application that is not
\* eased yet and plays is never eased by Atlas itself, unless it began after
\* PipeWire was last asked: that question is the last moment Atlas looks.
NeverEasesSound ==
    [][\A u \in Units :
        setBy[u] # "auto" /\ setBy'[u] = "auto" /\ ~eased[AppOf[u]]
            => AppOf[u] \notin playing \ began]_vars

\* What the user eased by hand changes back only because the user restores it
\* or somebody else acts on the unit: no policy, no setting, no shutdown and no
\* recovery does it ("It stays eased until Restore, whatever it does in the
\* meantime", ease.go:201). "undo" is what Restore asked for and nothing else.
HandEasesStay ==
    [][~Environment /\ lock # "undo" =>
        \A u \in Units : setBy[u] = "hand" => weight'[u] = weight[u]]_vars

\* A weight is put back "only over Atlas's own weight. If something changed it
\* since, that change stands" (ease.go:496): Atlas takes a unit off a weight
\* other than its own only to ease it, or because the other weight was set after
\* Atlas had looked.
OthersWeightStands ==
    [][~Environment =>
        \A u \in Units : weight[u] # EasedWeight /\ weight'[u] # weight[u]
                            => weight'[u] = EasedWeight \/ u \in since]_vars

\* An application eased automatically is put back in the end: once it plays, unless
\* it stops playing first, and once it has gone calm, unless it becomes busier first.
PutBackInTheEnd ==
    \A a \in Apps :
        /\ (IsAuto(a) /\ a \in playing) ~> (~IsAuto(a) \/ a \notin playing)
        /\ (IsAuto(a) /\ calmFor[a] > 0) ~> (~IsAuto(a) \/ calmFor[a] = 0)
=============================================================================
