---------------------------- MODULE UpdateProofs ----------------------------
(***************************************************************************)
(* Proofs about Update, for any branches and any number of jobs, in this   *)
(* process and in those before it. Each of the three theorems names what   *)
(* may not happen in it, for the code breaks the property when it does.    *)
(***************************************************************************)
EXTENDS Update, TLAPS

USE DEF Buildable

----------------------------------------------------------------------------
(* The operators the actions are built from.                                *)

\* How this copy was installed, once it is asked.
LEMMA InstallFacts ==
    ASSUME TypeOK
    PROVE  /\ Install \in InstallSet
           /\ Install # Unasked
           /\ installed # Unasked => Install = installed
           /\ installed = Unasked => Install = DetectInstall
           /\ Install.source \in Trees \cup {"none"}
           /\ DetectInstall.source # "none" =>
                    /\ DetectInstall.source = recorded /\ LooksLikeCheckout(recorded)
           /\ DetectInstall.source = "none" =>
                    recorded = "none" \/ ~LooksLikeCheckout(recorded)
<1>1. DetectInstall \in InstallSet /\ DetectInstall # Unasked
  BY DEF DetectInstall, InstallSet, TypeOK, Unasked
<1>2. installed \in InstallSet
  BY DEF TypeOK, InstallSet
<1>3. /\ DetectInstall.source # "none" =>
            DetectInstall.source = recorded /\ LooksLikeCheckout(recorded)
      /\ DetectInstall.source = "none" => recorded = "none" \/ ~LooksLikeCheckout(recorded)
  BY DEF DetectInstall
<1>4. Install \in InstallSet /\ Install # Unasked
  BY <1>1, <1>2 DEF Install
<1> QED BY <1>3, <1>4 DEF Install, InstallSet

\* A job is begun, or is not.
Begun(j, channel) ==
    /\ ~Working(j)
    /\ job'[j].stage = "begin" /\ job'[j].source = Install.source
    /\ job'[j].channel = channel
    /\ \A i \in Jobs \ {j} : job'[i] = job[i]

LEMMA StartUpdateFacts ==
    ASSUME TypeOK, NEW channel \in Channels, NEW done \in BOOLEAN, StartUpdate(channel, done)
    PROVE  /\ job' \in [Jobs -> JobSet] /\ button' \in BOOLEAN /\ updating' \in BOOLEAN
           /\ installed' \in InstallSet /\ installed' \in {installed, Install}
           /\ ~updating => installed' = Install
           /\ \/ job' = job /\ updating' = updating
              \/ /\ ~updating /\ updating'
                 /\ \E j \in Jobs : Begun(j, channel)
<1>1. installed \in InstallSet /\ job \in [Jobs -> JobSet]
  BY DEF TypeOK, InstallSet, JobSet, Stages
<1>2. Install \in InstallSet /\ Install.source \in Trees \cup {"none"}
  BY InstallFacts
<1>3. CASE updating
  BY <1>1, <1>3 DEF StartUpdate, TypeOK
<1>4. CASE ~updating /\ ~SelfUpdatable
  BY <1>1, <1>2, <1>4 DEF StartUpdate, Asked, ShowManagedUpdate, TypeOK
<1>5. CASE ~updating /\ SelfUpdatable
  <2>1. PICK j \in Jobs :
            /\ ~Working(j)
            /\ job' = [job EXCEPT ![j] = [Idle EXCEPT !.stage = "begin", !.channel = channel,
                                            !.source = Install.source, !.done = done]]
    BY <1>5 DEF StartUpdate
  <2> DEFINE begun == [Idle EXCEPT !.stage = "begin", !.channel = channel,
                                   !.source = Install.source, !.done = done]
  <2>2. Idle \in JobSet /\ "begin" \in Stages
    BY MinimalAssumption DEF Idle, JobSet, Stages
  <2>3. /\ begun \in JobSet /\ begun.stage = "begin"
        /\ begun.channel = channel /\ begun.source = Install.source
    BY <1>2, <2>2 DEF JobSet
  <2>4. job' \in [Jobs -> JobSet] /\ Begun(j, channel)
    <3> HIDE DEF begun
    <3>1. job' \in [Jobs -> JobSet] /\ job'[j] = begun /\ \A i \in Jobs \ {j} : job'[i] = job[i]
      BY <1>1, <2>1, <2>3 DEF begun
    <3> QED BY <2>1, <2>3, <3>1 DEF Begun
  <2> QED BY <1>1, <1>2, <1>5, <2>4 DEF StartUpdate, Asked, TypeOK
<1> QED BY <1>3, <1>4, <1>5

\* A job moves on to another stage.
Moves(j, stage) ==
    /\ job'[j].stage = stage /\ job'[j].channel = job[j].channel
    /\ \A i \in Jobs \ {j} : job'[i] = job[i]

LEMMA StageSet ==
    ASSUME TypeOK, NEW j \in Jobs, NEW stage \in Stages, job' = [job EXCEPT ![j].stage = stage]
    PROVE  /\ job' \in [Jobs -> JobSet] /\ Moves(j, stage)
           /\ job'[j].source = job[j].source
<1>1. job[j] \in JobSet /\ job \in [Jobs -> JobSet]
  BY DEF TypeOK, JobSet, Stages
<1>2. job' = [job EXCEPT ![j] = [job[j] EXCEPT !.stage = stage]]
  OBVIOUS
<1>3. [job[j] EXCEPT !.stage = stage]
        = [stage |-> stage, source |-> job[j].source, channel |-> job[j].channel,
           done |-> job[j].done]
  BY <1>1 DEF JobSet
<1>4. [job[j] EXCEPT !.stage = stage] \in JobSet
  BY <1>1, <1>3 DEF JobSet
<1> QED BY <1>1, <1>2, <1>3, <1>4 DEF Moves

LEMMA StageAndSourceSet ==
    ASSUME TypeOK, NEW j \in Jobs, NEW stage \in Stages, NEW t \in Trees,
           job' = [job EXCEPT ![j].stage = stage, ![j].source = t]
    PROVE  job' \in [Jobs -> JobSet] /\ Moves(j, stage) /\ job'[j].source = t
<1>1. job \in [Jobs -> JobSet]
  BY DEF TypeOK, JobSet, Stages
<1>2. job' \in [Jobs -> JobSet]
  BY <1>1 DEF JobSet
<1>3. job'[j].stage = stage /\ job'[j].source = t /\ job'[j].channel = job[j].channel
  BY <1>1 DEF JobSet
<1> QED BY <1>1, <1>2, <1>3 DEF Moves

LEMMA IdleSet ==
    ASSUME TypeOK, NEW j \in Jobs, job' = [job EXCEPT ![j] = Idle]
    PROVE  /\ job' \in [Jobs -> JobSet]
           /\ job'[j].stage = "idle" /\ \A i \in Jobs \ {j} : job'[i] = job[i]
<1>1. Idle \in JobSet /\ job \in [Jobs -> JobSet] /\ Idle.stage = "idle"
  BY MinimalAssumption DEF TypeOK, JobSet, Stages, Idle
<1> QED BY <1>1

\* A job stops at its last stage, or goes when its process has.
LEMMA EndSet ==
    ASSUME TypeOK, NEW j \in Jobs, NEW stage \in Stages,
           job' = [job EXCEPT ![j] = IF j \in orphan THEN Idle ELSE [@ EXCEPT !.stage = stage]]
    PROVE  /\ job' \in [Jobs -> JobSet]
           /\ \A i \in Jobs \ {j} : job'[i] = job[i]
           /\ j \in orphan => job'[j].stage = "idle"
           /\ j \notin orphan => Moves(j, stage) /\ job'[j].source = job[j].source
<1>1. CASE j \in orphan
  <2>1. job' = [job EXCEPT ![j] = Idle]
    BY <1>1
  <2> QED BY <1>1, <2>1, IdleSet
<1>2. CASE j \notin orphan
  <2>1. job' = [job EXCEPT ![j].stage = stage]
    BY <1>2
  <2> QED BY <1>2, <2>1, StageSet DEF Moves
<1> QED BY <1>1, <1>2

----------------------------------------------------------------------------
(* Types.                                                                   *)

\* What is being checked for is set and answered.
LEMMA LaunchSets ==
    ASSUME launch \in LaunchSet, NEW state \in LaunchStates, NEW version \in Versions
    PROVE  /\ [launch EXCEPT !.state = state] \in LaunchSet
           /\ [launch EXCEPT !.state = state, !.version = version] \in LaunchSet
BY DEF LaunchSet

LEMMA CheckSets ==
    ASSUME check \in CheckSet, NEW state \in CheckStates, NEW version \in Versions
    PROVE  /\ [check EXCEPT !.state = state] \in CheckSet
           /\ [check EXCEPT !.state = state, !.version = version] \in CheckSet
BY DEF CheckSet

LEMMA AskType ==
    ASSUME TypeOK
    PROVE  /\ launch.channel \in Channels /\ launch.version \in Versions
           /\ check.channel \in Channels /\ check.version \in Versions
           /\ \A j \in Jobs : /\ job[j].channel \in Channels /\ job[j].stage \in Stages
                              /\ job[j].source \in Trees \cup {"none"}
           /\ Install \in InstallSet
BY InstallFacts DEF TypeOK, LaunchSet, CheckSet, JobSet

\* What runs the script, or has, knows where.
SourceKnown ==
    \A j \in Jobs : job[j].stage \in {"script", "making", "ok"} => job[j].source \in Trees

LEMMA InitType == Init => TypeOK
<1> SUFFICES ASSUME Init PROVE TypeOK
  OBVIOUS
<1>1. PICK c \in Channels :
          /\ remote = [d \in Channels |-> 0]
          /\ binary = [branch |-> c, commit |-> 0]
          /\ head = [t \in Trees |-> binary]
          /\ settings = c /\ running = binary /\ taken = binary
  BY DEF Init
<1>2. 0 \in Versions
  BY MaxVersionAssumption DEF Versions
<1>3. binary \in Build /\ running \in Build /\ taken \in Build /\ head \in [Trees -> Build]
  BY <1>1, <1>2 DEF Build
<1>4. launch \in LaunchSet /\ check \in CheckSet
  <2>1. [state |-> "none", channel |-> settings, version |-> 0] \in LaunchSet
    BY <1>1, <1>2 DEF LaunchSet, LaunchStates
  <2>2. [state |-> "none yet", channel |-> settings, version |-> 0] \in CheckSet
    BY <1>1, <1>2 DEF CheckSet, CheckStates
  <2> QED BY <2>1, <2>2 DEF Init
<1>5. job \in [Jobs -> JobSet] /\ installed \in InstallSet
  BY MinimalAssumption DEF Init, JobSet, Stages, Idle, InstallSet, Unasked
<1>6. /\ tree \in [Trees -> {"absent", "half"} \cup Buildable]
      /\ recorded \in Trees \cup {"none"} /\ owned \in BOOLEAN /\ writable \in BOOLEAN
  <2>1. CASE /\ recorded = "own" /\ owned = FALSE /\ writable = TRUE
             /\ tree \in [own : Buildable, clone : {"absent"}]
    <3>1. PICK a \in Buildable : tree = [own |-> a, clone |-> "absent"]
      BY <2>1
    <3>2. tree \in [Trees -> {"absent", "half"} \cup Buildable]
      BY <3>1 DEF Trees
    <3> QED BY <2>1, <3>2 DEF Trees
  <2>2. CASE /\ recorded = "none" /\ owned \in BOOLEAN /\ writable \in BOOLEAN
             /\ tree = [own |-> "absent", clone |-> "absent"]
    BY <2>2 DEF Trees
  <2> QED BY <2>1, <2>2 DEF Init
<1>7. remote \in [Channels -> Versions] /\ settings \in Channels
  BY <1>1, <1>2
<1> QED BY <1>3, <1>4, <1>5, <1>6, <1>7 DEF Init, TypeOK

LEMMA AskingType ==
    ASSUME TypeOK,
           LaunchStep \/ CheckStep \/ Later \/ UpdateNow \/ PressUpdate
    PROVE  TypeOK'
<1> USE DEF TypeOK, outside
<1>1. /\ launch \in LaunchSet /\ check \in CheckSet /\ settings \in Channels
      /\ launch.channel \in Channels /\ launch.version \in Versions
      /\ check.channel \in Channels /\ check.version \in Versions
      /\ remote[launch.channel] \in Versions /\ remote[check.channel] \in Versions
  BY AskType
<1>2. Install \in InstallSet
  BY InstallFacts
<1>3. {"none", "asking", "found", "offered"} \subseteq LaunchStates
  BY DEF LaunchStates
<1>4. {"none yet", "asking", "error", "none", "switch", "available"} \subseteq CheckStates
  BY DEF CheckStates
<1>5. CASE LaunchTimer
  BY <1>1, <1>3, <1>5, LaunchSets DEF LaunchTimer
<1>6. CASE LaunchAnswer
  <2>1. PICK answer \in CheckUpdate(launch.channel) :
            launch' = [launch EXCEPT !.state = IF answer = "available" THEN "found" ELSE "none",
                                     !.version = remote[launch.channel]]
    BY <1>6 DEF LaunchAnswer
  <2>2. launch' \in LaunchSet
    BY <1>1, <1>3, <2>1, LaunchSets
  <2> QED BY <1>2, <1>6, <2>2 DEF LaunchAnswer, Asked
<1>7. CASE OfferUpdate
  BY <1>1, <1>2, <1>3, <1>7, LaunchSets DEF OfferUpdate, Asked
<1>8. CASE Later
  BY <1>1, <1>3, <1>8, LaunchSets DEF Later
<1>9. CASE UpdateNow
  <2>1. launch' \in LaunchSet
    BY <1>1, <1>3, <1>9, LaunchSets DEF UpdateNow
  <2>2. taken' \in Build
    BY <1>1, <1>9 DEF UpdateNow, Build
  <2>3. job' \in [Jobs -> JobSet] /\ button' \in BOOLEAN /\ updating' \in BOOLEAN
        /\ installed' \in InstallSet
    BY <1>1, <1>9, StartUpdateFacts DEF UpdateNow
  <2> QED BY <1>9, <2>1, <2>2, <2>3 DEF UpdateNow
<1>10. CASE PressUpdate
  <2>1. check' \in CheckSet
    <3>1. 0 \in Versions
      BY MaxVersionAssumption DEF Versions
    <3> QED BY <1>1, <1>4, <1>10, <3>1 DEF PressUpdate, CheckSet
  <2> QED BY <1>10, <2>1 DEF PressUpdate
<1>11. CASE AnswerCheck
  <2>1. PICK answer \in CheckUpdate(check.channel) :
            check' = [check EXCEPT !.state = answer, !.version = remote[check.channel]]
    BY <1>11 DEF AnswerCheck
  <2>2. answer \in {"error", "none", "switch", "available"}
    BY DEF CheckUpdate, FromCheckout, FromVersion
  <2>3. check' \in CheckSet
    BY <1>1, <1>4, <2>1, <2>2, CheckSets
  <2> QED BY <1>2, <1>11, <2>3 DEF AnswerCheck, Asked
<1>12. CASE OnAnswer
  <2>1. check' \in CheckSet
    BY <1>1, <1>4, <1>12, CheckSets DEF OnAnswer
  <2>2. CASE check.state \in {"available", "switch"}
    <3>1. taken' \in Build
      <4>1. [branch |-> check.channel, commit |-> check.version] \in Build
        BY <1>1 DEF Build
      <4> QED BY <1>12, <2>2, <4>1 DEF OnAnswer
    <3>2. job' \in [Jobs -> JobSet] /\ button' \in BOOLEAN /\ updating' \in BOOLEAN
          /\ installed' \in InstallSet
      BY <1>1, <1>12, <2>2, StartUpdateFacts DEF OnAnswer
    <3> QED BY <1>12, <2>1, <3>1, <3>2 DEF OnAnswer
  <2>3. CASE check.state \notin {"available", "switch"}
    BY <1>12, <2>1, <2>3 DEF OnAnswer
  <2> QED BY <2>2, <2>3
<1> QED BY <1>5, <1>6, <1>7, <1>8, <1>9, <1>10, <1>11, <1>12 DEF LaunchStep, CheckStep

LEMMA JobStepType ==
    ASSUME TypeOK, SourceKnown, NEW j \in Jobs, JobStep(j)
    PROVE  TypeOK'
<1> USE DEF TypeOK, outside, page
<1>1. {"begin", "cloning", "script", "making", "ok", "failed", "idle"} \subseteq Stages
  BY DEF Stages
<1>2. job[j].channel \in Channels /\ job[j].stage \in Stages
      /\ job[j].source \in Trees \cup {"none"}
      /\ remote[job[j].channel] \in Versions /\ "clone" \in Trees
  BY AskType DEF Trees
<1>3. CASE Bootstrap(j)
  <2>1. job' \in [Jobs -> JobSet]
    BY <1>1, <1>2, <1>3, StageSet, StageAndSourceSet
       DEF Bootstrap, ToolsMissing, UseClone, BeginClone
  <2>2. tree' \in [Trees -> {"absent", "half"} \cup Buildable]
        /\ recorded' \in Trees \cup {"none"} /\ head' = head
    BY <1>2, <1>3 DEF Bootstrap, ToolsMissing, UseClone, BeginClone
  <2> QED BY <1>3, <2>1, <2>2 DEF Bootstrap
<1>4. CASE Cloned(j)
  <2>1. CASE /\ tree' = [tree EXCEPT !["clone"] = "whole"]
             /\ head' = [head EXCEPT !["clone"] = [branch |-> job[j].channel,
                                                   commit |-> remote[job[j].channel]]]
             /\ IF j \in orphan
                THEN job' = [job EXCEPT ![j] = Idle] /\ UNCHANGED recorded
                ELSE /\ recorded' = "clone"
                     /\ job' = [job EXCEPT ![j].stage = "script", ![j].source = "clone"]
    <3>1. job' \in [Jobs -> JobSet]
      BY <1>1, <1>2, <2>1, IdleSet, StageAndSourceSet
    <3>2. [branch |-> job[j].channel, commit |-> remote[job[j].channel]] \in Build
      BY <1>2 DEF Build
    <3>3. head' \in [Trees -> Build] /\ tree' \in [Trees -> {"absent", "half"} \cup Buildable]
      BY <1>2, <2>1, <3>2
    <3> QED BY <1>2, <1>4, <2>1, <3>1, <3>3 DEF Cloned
  <2>2. CASE /\ RemoveHalf(j)
             /\ job' = [job EXCEPT ![j] = IF j \in orphan THEN Idle
                                          ELSE [@ EXCEPT !.stage = "failed"]]
             /\ UNCHANGED <<recorded, head>>
    <3>1. job' \in [Jobs -> JobSet]
      BY <1>1, <2>2, EndSet
    <3> QED BY <1>2, <1>4, <2>2, <3>1 DEF Cloned, RemoveHalf
  <2> QED BY <1>4, <2>1, <2>2 DEF Cloned
<1>5. CASE HasSource(j)
  BY <1>1, <1>5, StageSet DEF HasSource
<1>6. CASE RunScript(j)
  <2>1. job' \in [Jobs -> JobSet]
    BY <1>1, <1>6, StageSet DEF RunScript
  <2>2. [branch |-> job[j].channel, commit |-> remote[job[j].channel]] \in Build
    BY <1>2 DEF Build
  <2>3. head' \in [Trees -> Build]
    <3>1. ASSUME NEW t \in Trees PROVE Pulled(t, job[j].channel) \subseteq Build
      <4>1. head[t].commit \in Versions /\ 0 .. remote[job[j].channel] \subseteq Versions
        BY <1>2, MaxVersionAssumption DEF Build, Versions
      <4> QED BY <1>2, <2>2, <4>1 DEF Pulled, Refused, Build
    <3> QED BY <1>2, <1>6, <3>1 DEF RunScript
  <2> QED BY <1>6, <2>1, <2>3 DEF RunScript
<1>7. CASE Make(j)
  <2>1. job' \in [Jobs -> JobSet]
    BY <1>1, <1>7, EndSet DEF Make
  <2>2. job[j].source \in Trees
    BY <1>7 DEF Make, SourceKnown
  <2> QED BY <1>7, <2>1, <2>2 DEF Make
<1>8. CASE Finished(j)
  <2>1. job' \in [Jobs -> JobSet]
    BY <1>8, IdleSet DEF Finished
  <2>2. job[j].done \in BOOLEAN
    BY DEF JobSet
  <2> QED BY <1>8, <2>1, <2>2 DEF Finished
<1> QED BY <1>3, <1>4, <1>5, <1>6, <1>7, <1>8 DEF JobStep

LEMMA ProcessType ==
    ASSUME TypeOK, Relaunch \/ Close \/ Exit \/ Kill \/ Start \/ HelperLaunch
    PROVE  TypeOK'
<1> USE DEF TypeOK, outside, page
<1>1. launch \in LaunchSet /\ check \in CheckSet
  BY DEF TypeOK
<1>2. [launch EXCEPT !.state = "none"] \in LaunchSet /\ [check EXCEPT !.state = "none yet"] \in CheckSet
  BY <1>1, MaxVersionAssumption DEF LaunchSet, CheckSet, LaunchStates, CheckStates
<1>3. Idle \in JobSet /\ Unasked \in InstallSet
  BY MinimalAssumption DEF Idle, JobSet, Stages, InstallSet, Unasked
<1>4. CASE Relaunch \/ Close
  BY <1>4 DEF Relaunch, Close
<1>5. CASE Exit
  BY <1>2, <1>3, <1>5 DEF Exit, Gone
<1>6. CASE Kill
  BY <1>2, <1>3, <1>6 DEF Kill, Gone
<1>7. ASSUME Open PROVE launch' \in LaunchSet /\ running' \in Build /\ proc' = "open"
  <2>1. 0 \in Versions
    BY MaxVersionAssumption DEF Versions
  <2> QED BY <1>7, <2>1 DEF Open, LaunchSet, LaunchStates
<1>8. CASE Start
  BY <1>7, <1>8 DEF Start, Open
<1>9. CASE HelperLaunch
  BY <1>7, <1>9 DEF HelperLaunch, Open
<1> QED BY <1>4, <1>5, <1>6, <1>8, <1>9

LEMMA NextType == TypeOK /\ SourceKnown /\ [Next]_vars => TypeOK'
<1> SUFFICES ASSUME TypeOK, SourceKnown, [Next]_vars PROVE TypeOK'
  OBVIOUS
<1> USE DEF TypeOK, outside, page
<1>1. ASSUME NEW c \in Channels, PickChannel(c) \/ Release(c) PROVE TypeOK'
  <2>1. CASE PickChannel(c)
    BY <1>1, <2>1 DEF PickChannel
  <2>2. CASE Release(c)
    <3>1. remote[c] + 1 \in Versions
      BY <1>1, <2>2, MaxVersionAssumption DEF Release, Versions
    <3> QED BY <2>2, <3>1 DEF Release
  <2> QED BY <1>1, <2>1, <2>2
<1>2. CASE OwnGoes \/ OwnChanges
  BY <1>2 DEF OwnGoes, OwnChanges
<1>3. CASE UNCHANGED vars
  BY <1>3 DEF vars
<1> QED BY <1>1, <1>2, <1>3, AskingType, JobStepType, ProcessType DEF Next

\* Every action keeps SourceKnown: only a job of this process moves on to the script,
\* and it knows its source by then.
LEMMA SourceNext == TypeOK /\ SourceKnown /\ [Next]_vars => SourceKnown'
<1> SUFFICES ASSUME TypeOK, SourceKnown, [Next]_vars PROVE SourceKnown'
  OBVIOUS
<1> USE DEF SourceKnown
<1>1. ASSUME NEW channel \in Channels, NEW done \in BOOLEAN, StartUpdate(channel, done)
      PROVE  SourceKnown'
  BY <1>1, StartUpdateFacts DEF Begun
<1>2. ASSUME NEW j \in Jobs, JobStep(j)
      PROVE  SourceKnown'
  <2>0. {"begin", "cloning", "script", "making", "ok", "failed", "idle"} \subseteq Stages
        /\ job[j].source \in Trees \cup {"none"} /\ "clone" \in Trees
    BY AskType DEF Stages, Trees
  <2>1. CASE Bootstrap(j)
    BY <2>0, <2>1, StageSet, StageAndSourceSet
       DEF Bootstrap, ToolsMissing, UseClone, BeginClone, Moves
  <2>2. CASE Cloned(j)
    BY <2>0, <2>2, IdleSet, EndSet, StageAndSourceSet DEF Cloned, Moves
  <2>3. CASE HasSource(j)
    BY <2>0, <2>3, StageSet DEF HasSource, Moves
  <2>4. CASE RunScript(j)
    BY <2>0, <2>4, StageSet DEF RunScript, Moves
  <2>5. CASE Make(j)
    BY <2>0, <2>5, EndSet DEF Make, Moves
  <2>6. CASE Finished(j)
    BY <2>0, <2>6, IdleSet DEF Finished
  <2> QED BY <1>2, <2>1, <2>2, <2>3, <2>4, <2>5, <2>6 DEF JobStep
<1>3. CASE job' = job \/ Exit \/ Kill
  BY <1>3 DEF Exit, Kill, Idle
<1>4. CASE UpdateNow \/ OnAnswer
  <2>1. settings \in Channels
    BY DEF TypeOK
  <2> QED BY <1>1, <1>3, <1>4, <2>1 DEF UpdateNow, OnAnswer
<1> QED BY <1>2, <1>3, <1>4
        DEF Next, LaunchStep, CheckStep, LaunchTimer, LaunchAnswer, OfferUpdate, AnswerCheck,
            Later, PressUpdate, Relaunch, Close, Start, HelperLaunch, Open, PickChannel, Release,
            OwnGoes, OwnChanges, vars

TypeInv == TypeOK /\ SourceKnown

LEMMA TypeInvariant == Spec => []TypeInv
<1>1. Init => SourceKnown
  <2> SUFFICES ASSUME Init, NEW j \in Jobs PROVE job[j].stage = "idle"
    BY DEF SourceKnown
  <2>1. job[j] = Idle
    BY DEF Init
  <2> QED BY <2>1 DEF Idle
<1> QED BY <1>1, InitType, NextType, SourceNext, PTL DEF Spec, TypeInv

\* Every variable keeps to its kind.
THEOREM TypeCorrect == Spec => []TypeOK
BY TypeInvariant, PTL DEF TypeInv

----------------------------------------------------------------------------
(* One build at a time.                                                     *)

\* What a job's step leaves alone.
LEMMA JobLocal ==
    ASSUME TypeOK, NEW j \in Jobs, JobStep(j)
    PROVE  /\ Working(j) /\ \A i \in Jobs \ {j} : job'[i] = job[i]
           /\ UNCHANGED <<launch, check, settings, installed, proc, running, taken, remote>>
           /\ orphan' \in {orphan, orphan \ {j}}
           /\ Finished(j) \/ (updating' = updating /\ restart' = restart)
<1> USE DEF outside, page, Working
<1>1. {"begin", "cloning", "script", "making", "ok", "failed", "idle"} \subseteq Stages
      /\ "clone" \in Trees
  BY DEF Stages, Trees
<1>2. CASE Bootstrap(j)
  BY <1>1, <1>2, StageSet, StageAndSourceSet
     DEF Bootstrap, ToolsMissing, UseClone, BeginClone, Moves
<1>3. CASE Cloned(j)
  BY <1>1, <1>3, IdleSet, EndSet, StageAndSourceSet DEF Cloned, Moves
<1>4. CASE HasSource(j)
  BY <1>1, <1>4, StageSet DEF HasSource, Moves
<1>5. CASE RunScript(j)
  BY <1>1, <1>5, StageSet DEF RunScript, Moves
<1>6. CASE Make(j)
  BY <1>1, <1>6, EndSet DEF Make, Moves
<1>7. CASE Finished(j)
  BY <1>1, <1>7, IdleSet DEF Finished
<1> QED BY <1>2, <1>3, <1>4, <1>5, <1>6, <1>7 DEF JobStep

NoneWorks == \A j \in Jobs : ~Working(j)

\* The flag speaks for the one job there is, and neither a restart nor the end of
\* a process finds it at work.
BuildInv ==
    /\ ~updating => NoneWorks
    /\ restart # "none" => NoneWorks
    /\ proc # "open" => NoneWorks
    /\ \A i, j \in Jobs : Working(i) /\ Working(j) => i = j
    /\ orphan = {}

LEMMA BuildNext ==
    ASSUME Permitted \cap {"close", "again"} = {}, TypeInv, BuildInv, [Next]_vars
    PROVE  BuildInv'
<1> USE DEF BuildInv, NoneWorks, Working
<1>1. "close" \notin Permitted /\ "again" \notin Permitted /\ TypeOK
  BY DEF TypeInv
<1>2. ASSUME NEW j \in Jobs, JobStep(j)
      PROVE  BuildInv'
  <2>1. CASE Finished(j)
    <3>1. job'[j].stage = "idle"
      BY <1>1, <2>1, IdleSet DEF Finished
    <3> QED BY <1>1, <1>2, <2>1, <3>1, JobLocal
  <2>2. CASE ~Finished(j)
    BY <1>1, <1>2, <2>2, JobLocal
  <2> QED BY <2>1, <2>2
<1>3. CASE UpdateNow \/ OnAnswer
  <2>1. proc = "open" /\ restart = "none" /\ UNCHANGED <<proc, restart, orphan>>
    BY <1>1, <1>3 DEF UpdateNow, OnAnswer, MayAsk
  <2>2. settings \in Channels
    BY <1>1 DEF TypeOK
  <2>3. \/ job' = job /\ updating' = updating
        \/ /\ ~updating /\ updating' /\ \E j \in Jobs : Begun(j, settings)
    BY <1>1, <1>3, <2>2, StartUpdateFacts DEF UpdateNow, OnAnswer
  <2> QED BY <2>1, <2>3 DEF Begun
<1>4. CASE Exit \/ Kill
  <2>1. \A j \in Jobs : job'[j].stage = "idle"
    BY <1>4 DEF Exit, Kill, Outlives, Idle
  <2>2. orphan' = {}
    BY <1>4 DEF Exit, Kill, Outlives
  <2> QED BY <2>1, <2>2
<1>5. CASE Close \/ Relaunch
  BY <1>1, <1>5 DEF Close, Relaunch, page
<1>6. CASE Start \/ HelperLaunch
  BY <1>6 DEF Start, HelperLaunch, Open, page
<1>7. CASE UNCHANGED <<updating, restart, proc, job, orphan>>
  BY <1>7
<1> QED BY <1>2, <1>3, <1>4, <1>5, <1>6, <1>7
        DEF Next, LaunchStep, CheckStep, LaunchTimer, LaunchAnswer, OfferUpdate, AnswerCheck,
            Later, PressUpdate, PickChannel, Release, OwnGoes, OwnChanges, vars, page

\* As long as the window stays open while a job runs, and nothing is asked for while a
\* restart is pending, there is one build at a time: through failures, releases,
\* changes of channel, restarts that come too early, and Atlas being killed.
THEOREM OneBuild == Permitted \cap {"close", "again"} = {} /\ Spec => []OneBuildAtATime
<1> SUFFICES ASSUME Permitted \cap {"close", "again"} = {} PROVE Spec => []OneBuildAtATime
  OBVIOUS
<1>1. Init => BuildInv
  <2> SUFFICES ASSUME Init PROVE BuildInv
    OBVIOUS
  <2>1. \A j \in Jobs : job[j] = Idle
    BY DEF Init
  <2> QED BY <2>1 DEF Init, BuildInv, NoneWorks, Working, Idle
<1>2. TypeInv /\ BuildInv /\ [Next]_vars => BuildInv'
  BY BuildNext
<1>3. BuildInv => OneBuildAtATime
  BY DEF BuildInv, OneBuildAtATime, Working
<1> QED BY <1>1, <1>2, <1>3, TypeInvariant, PTL DEF Spec

----------------------------------------------------------------------------
(* The flag and the jobs of this process, whatever may happen.              *)

\* The flag says whether a job of this process is under way, and there is one at
\* most; what outlives a process is a clone or a build. How this copy was installed is
\* known while a job is under way, which was begun with it.
JobsInv ==
    /\ ~updating => \A j \in Jobs : ~Mine(j)
    /\ \A i, j \in Jobs : Mine(i) /\ Mine(j) => i = j
    /\ \A j \in orphan : job[j].stage \in {"cloning", "making"}
    /\ proc = "off" => \A j \in Jobs : ~Mine(j)
    /\ restart = "pause" => proc = "open"
    /\ \A j \in Jobs : Mine(j) => installed # Unasked
    /\ \A j \in Jobs : job[j].stage = "begin" => job[j].source = installed.source
    /\ \A j \in Jobs : job[j].stage = "cloning" /\ Mine(j) => installed.source = "none"
    /\ tree["clone"] \notin {"edited", "diverged", "plain"}

\* A job is begun only when there is none.
LEMMA StartUpdateJobs ==
    ASSUME TypeOK, JobsInv, NEW channel \in Channels, NEW done \in BOOLEAN,
           StartUpdate(channel, done), orphan' = orphan
    PROVE  /\ \/ job' = job /\ updating' = updating
              \/ /\ ~updating /\ updating' /\ installed' = Install
                 /\ \E j \in Jobs : Begun(j, channel) /\ j \notin orphan
           /\ installed # Unasked => installed' = installed
           /\ installed' \in {installed, Install}
<1>1. \A j \in orphan : Working(j)
  BY DEF JobsInv, Working
<1> QED BY <1>1, StartUpdateFacts, InstallFacts DEF Begun

\* What a job's step does to the job.
LEMMA JobStages ==
    ASSUME TypeOK, JobsInv, NEW j \in Jobs, JobStep(j)
    PROVE  /\ Mine(j)' => Mine(j)
           /\ j \in orphan' => UNCHANGED <<orphan, job>>
           /\ job'[j].stage # "begin"
           /\ job'[j].stage = "cloning" => job[j].stage = "begin" /\ job[j].source = "none"
<1> USE DEF Mine, Working
<1>1. {"begin", "cloning", "script", "making", "ok", "failed", "idle"} \subseteq Stages
      /\ "clone" \in Trees
  BY DEF Stages, Trees
<1>2. CASE Bootstrap(j)
  BY <1>1, <1>2, StageSet, StageAndSourceSet
     DEF Bootstrap, ToolsMissing, UseClone, BeginClone, Moves
<1>3. CASE Cloned(j)
  BY <1>1, <1>3, IdleSet, EndSet, StageAndSourceSet DEF Cloned, Moves
<1>4. CASE HasSource(j)
  BY <1>1, <1>4, StageSet DEF HasSource, Moves
<1>5. CASE RunScript(j)
  BY <1>1, <1>5, StageSet DEF RunScript, Moves
<1>6. CASE Make(j)
  BY <1>1, <1>6, EndSet DEF Make, Moves
<1>7. CASE Finished(j)
  BY <1>1, <1>7, IdleSet DEF Finished
<1> QED BY <1>2, <1>3, <1>4, <1>5, <1>6, <1>7 DEF JobStep

\* What it does to the trees.
LEMMA JobTrees ==
    ASSUME TypeOK, NEW j \in Jobs, JobStep(j)
    PROVE  \/ UNCHANGED <<tree, recorded>>
           \/ j \notin orphan /\ job[j].stage = "begin" /\ UseClone(j)
           \/ j \notin orphan /\ job[j].stage = "begin" /\ BeginClone(j)
           \/ Cloned(j)
BY DEF JobStep, Bootstrap, ToolsMissing, HasSource, RunScript, Make, Finished, outside

\* How this copy was installed stays as it was found.
LEMMA AskedKeeps ==
    ASSUME TypeOK, [Next]_vars, ~Exit, ~Kill, installed # Unasked
    PROVE  installed' = installed
<1>1. installed' = installed \/ Asked \/ \E c \in Channels, d \in BOOLEAN : StartUpdate(c, d)
  <2>1. settings \in Channels
    BY DEF TypeOK
  <2>2. ASSUME NEW j \in Jobs, JobStep(j) PROVE installed' = installed
    BY <2>2, JobLocal
  <2> QED BY <2>1, <2>2
          DEF Next, LaunchStep, CheckStep, LaunchTimer, LaunchAnswer, OfferUpdate, AnswerCheck,
              Later, UpdateNow, OnAnswer, PressUpdate, Relaunch, Close, Start, HelperLaunch,
              Open, PickChannel, Release, OwnGoes, OwnChanges, vars
<1> QED BY <1>1, StartUpdateFacts, InstallFacts DEF Asked

LEMMA JobsNext == TypeInv /\ JobsInv /\ [Next]_vars => JobsInv'
<1> SUFFICES ASSUME TypeInv, JobsInv, [Next]_vars PROVE JobsInv'
  OBVIOUS
<1>0. TypeOK
  BY DEF TypeInv
<1> USE DEF Mine, Working
<1>1. ASSUME NEW j \in Jobs, JobStep(j)
      PROVE  JobsInv'
  <2>1. /\ \A i \in Jobs \ {j} : job'[i] = job[i]
        /\ UNCHANGED <<proc, installed>>
        /\ orphan' \in {orphan, orphan \ {j}}
        /\ Finished(j) \/ (updating' = updating /\ restart' = restart)
    BY <1>0, <1>1, JobLocal
  <2>2. /\ Mine(j)' => Mine(j)
        /\ j \in orphan' => UNCHANGED <<orphan, job>>
        /\ job'[j].stage # "begin"
        /\ job'[j].stage = "cloning" => job[j].stage = "begin" /\ job[j].source = "none"
    BY <1>0, <1>1, JobStages
  <2>3. tree'["clone"] \notin {"edited", "diverged", "plain"}
    <3>1. tree["clone"] \notin {"edited", "diverged", "plain"} /\ tree \in [Trees -> {"absent", "half"} \cup Buildable]
          /\ "clone" \in Trees
      BY <1>0 DEF JobsInv, TypeOK, Trees
    <3> QED BY <1>0, <1>1, <3>1, JobTrees DEF UseClone, BeginClone, Cloned, RemoveHalf
  <2>4. Finished(j) => /\ job'[j].stage = "idle" /\ proc = "open"
                       /\ j \notin orphan /\ job[j].stage # "idle"
    BY <1>0, IdleSet DEF Finished
  <2>5. ~updating' => \A i \in Jobs : ~Mine(i)'
    BY <2>1, <2>2, <2>4 DEF JobsInv
  <2>6. restart' = "pause" => proc' = "open"
    BY <2>1, <2>4 DEF JobsInv
  <2>7. \A i \in orphan' : job'[i].stage \in {"cloning", "making"}
    BY <1>0, <2>1, <2>2 DEF JobsInv, TypeOK
  <2>8. \A i \in Jobs : Mine(i)' => Mine(i)
    BY <2>1, <2>2
  <2>9. \A i \in Jobs : job'[i].stage = "cloning" /\ Mine(i)' => installed'.source = "none"
    <3> SUFFICES ASSUME NEW i \in Jobs, job'[i].stage = "cloning", Mine(i)'
                 PROVE  installed.source = "none"
      BY <2>1
    <3>1. CASE i = j
      BY <2>2, <3>1 DEF JobsInv
    <3>2. CASE i # j
      BY <2>1, <2>8, <3>2 DEF JobsInv
    <3> QED BY <3>1, <3>2
  <2>10. \A i \in Jobs : job'[i].stage = "begin" => job'[i].source = installed'.source
    BY <2>1, <2>2 DEF JobsInv
  <2> QED BY <2>1, <2>3, <2>5, <2>6, <2>7, <2>8, <2>9, <2>10 DEF JobsInv
<1>2. CASE UpdateNow \/ OnAnswer
  <2>1. proc = "open" /\ UNCHANGED <<proc, restart, orphan, tree>> /\ settings \in Channels
    BY <1>0, <1>2 DEF UpdateNow, OnAnswer, outside, TypeOK
  <2>2. CASE StartUpdate(settings, TRUE) \/ StartUpdate(settings, FALSE)
    <3>1. /\ \/ job' = job /\ updating' = updating
             \/ /\ ~updating /\ updating' /\ installed' = Install
                /\ \E j \in Jobs : Begun(j, settings) /\ j \notin orphan
          /\ installed # Unasked => installed' = installed
      BY <1>0, <2>1, <2>2, StartUpdateJobs
    <3>2. CASE job' = job /\ updating' = updating
      <4>1. \A j \in Jobs : job[j].stage = "begin" => Mine(j)
        BY DEF JobsInv
      <4> QED BY <2>1, <3>1, <3>2, <4>1 DEF JobsInv
    <3>3. CASE job' # job \/ updating' # updating
      <4>1. PICK j \in Jobs : Begun(j, settings) /\ j \notin orphan
        BY <3>1, <3>3
      <4>2. ~updating /\ updating' /\ installed' = Install /\ Install # Unasked
        BY <1>0, <3>1, <3>3, InstallFacts
      <4>3. \A i \in Jobs : Mine(i)' => i = j
        BY <2>1, <4>1, <4>2 DEF Begun, JobsInv
      <4>4. \A i \in Jobs : job'[i].stage = "begin" => job'[i].source = installed'.source
        BY <4>1, <4>2 DEF Begun, JobsInv
      <4>5. \A i \in orphan' : job'[i].stage \in {"cloning", "making"}
        BY <1>0, <2>1, <4>1 DEF Begun, JobsInv, TypeOK
      <4> QED BY <2>1, <4>1, <4>2, <4>3, <4>4, <4>5 DEF Begun, JobsInv
    <3> QED BY <3>2, <3>3
  <2>3. CASE UNCHANGED <<installed, updating, job>>
    BY <2>1, <2>3 DEF JobsInv
  <2> QED BY <1>2, <2>2, <2>3 DEF UpdateNow, OnAnswer
<1>3. CASE Exit \/ Kill
  <2>1. /\ \A j \in Jobs : job'[j].stage # "idle" => j \in orphan'
        /\ \A j \in orphan' : job'[j].stage \in {"cloning", "making"}
    BY <1>3 DEF Exit, Kill, Outlives, Idle
  <2>2. UNCHANGED tree /\ proc' = "off" /\ (restart' = "pause" => restart = "pause" /\ Exit)
    BY <1>3 DEF Exit, Kill, Gone, outside
  <2>3. restart' # "pause"
    BY <2>2 DEF Exit, JobsInv
  <2> QED BY <2>1, <2>2, <2>3 DEF JobsInv
<1>4. CASE /\ UNCHANGED <<job, orphan, updating, restart, proc>> /\ ~Exit /\ ~Kill
           /\ tree'["clone"] = tree["clone"]
  <2>1. installed # Unasked => installed' = installed
    BY <1>0, <1>4, AskedKeeps
  <2>2. \A j \in Jobs : job[j].stage = "begin" => Mine(j)
    BY DEF JobsInv
  <2> QED BY <1>4, <2>1, <2>2 DEF JobsInv
<1>5. CASE Close \/ Relaunch
  BY <1>5 DEF Close, Relaunch, page, outside, JobsInv
<1>6. CASE Start \/ HelperLaunch
  BY <1>6 DEF Start, HelperLaunch, Open, page, outside, JobsInv
<1>7. CASE OwnGoes \/ OwnChanges
  <2>1. tree'["clone"] = tree["clone"]
    BY <1>0, <1>7 DEF OwnGoes, OwnChanges, TypeOK, Trees
  <2> QED BY <1>7, <2>1 DEF OwnGoes, OwnChanges, page, JobsInv
<1> QED BY <1>1, <1>2, <1>3, <1>4, <1>5, <1>6, <1>7
        DEF Next, LaunchStep, CheckStep, LaunchTimer, LaunchAnswer, OfferUpdate, AnswerCheck,
            Later, PressUpdate, PickChannel, Release, vars, page, outside

LEMMA InitTrees ==
    ASSUME Init
    PROVE  tree["clone"] = "absent" /\ recorded # "clone"
<1>1. CASE recorded = "own" /\ tree \in [own : Buildable, clone : {"absent"}]
  <2>1. tree.clone \in {"absent"}
    BY <1>1
  <2> QED BY <1>1, <2>1
<1>2. CASE recorded = "none" /\ tree = [own |-> "absent", clone |-> "absent"]
  BY <1>2
<1> QED BY <1>1, <1>2 DEF Init

LEMMA JobsInvariant == Spec => []JobsInv
<1>1. Init => JobsInv
  <2> SUFFICES ASSUME Init PROVE JobsInv
    OBVIOUS
  <2>1. \A j \in Jobs : job[j] = Idle
    BY DEF Init
  <2>2. tree["clone"] = "absent"
    BY InitTrees
  <2> QED BY <2>1, <2>2 DEF Init, JobsInv, Mine, Working, Idle
<1> QED BY <1>1, JobsNext, TypeInvariant, PTL DEF Spec

----------------------------------------------------------------------------
(* The clone.                                                               *)

\* A clone is half there only while this process makes it; what it makes in a clone
\* it makes in a whole one, and neither a restart nor the end of the process comes
\* upon one half there.
CloneInv ==
    /\ recorded = "clone" => tree["clone"] = "whole"
    /\ \A j \in Jobs : job[j].stage = "cloning" => Mine(j) /\ tree["clone"] = "half"
    /\ tree["clone"] = "half" => \E j \in Jobs : job[j].stage = "cloning"
    /\ \A j \in Jobs : Mine(j) /\ installed.source = "none"
                            /\ job[j].stage \in {"script", "making", "ok"}
                        => tree["clone"] = "whole"
    /\ restart = "pause" => /\ installed # Unasked
                            /\ installed.source = "none" => tree["clone"] = "whole"
    /\ proc = "leaving" => \A j \in Jobs : Mine(j) /\ installed.source = "none"
                                            => tree["clone"] = "whole"

LEMMA CloneJobStep ==
    ASSUME TypeInv, JobsInv, CloneInv, NEW j \in Jobs, JobStep(j)
    PROVE  CloneInv'
<1>0. TypeOK
  BY DEF TypeInv
<1> USE DEF Mine, Working
<1>1. /\ \A i \in Jobs \ {j} : job'[i] = job[i]
      /\ UNCHANGED <<proc, installed>>
      /\ orphan' \in {orphan, orphan \ {j}}
      /\ Finished(j) \/ (updating' = updating /\ restart' = restart)
  BY <1>0, JobLocal
<1>2. /\ Mine(j)' => Mine(j)
      /\ job'[j].stage = "cloning" => job[j].stage = "begin" /\ job[j].source = "none"
  BY <1>0, JobStages
<1>3. /\ \A i \in Jobs : Mine(i)' => Mine(i)
      /\ \A i \in Jobs : Mine(i) /\ Mine(j) => i = j
      /\ tree["clone"] \notin {"edited", "diverged", "plain"} /\ "clone" \in Trees
      /\ tree \in [Trees -> {"absent", "half"} \cup Buildable]
      /\ {"begin", "cloning", "script", "making", "ok", "failed", "idle"} \subseteq Stages
  BY <1>0, <1>1, <1>2 DEF JobsInv, TypeOK, Trees, Stages
<1>4. CASE j \notin orphan /\ job[j].stage = "begin" /\ UseClone(j)
  <2>1. tree["clone"] = "whole"
    <3>1. tree["clone"] # "absent" /\ tree["clone"] # "half"
      BY <1>3, <1>4 DEF UseClone, IsCheckout, CloneInv
    <3> QED BY <1>3, <3>1
  <2>2. UNCHANGED tree /\ job'[j].stage = "script"
    BY <1>0, <1>3, <1>4, StageAndSourceSet DEF UseClone, Moves
  <2>3. ~Finished(j)
    BY <1>4 DEF Finished
  <2> QED BY <1>1, <1>3, <1>4, <2>1, <2>2, <2>3 DEF CloneInv
<1>5. CASE j \notin orphan /\ job[j].stage = "begin" /\ BeginClone(j)
  <2>1. tree["clone"] = "absent" /\ tree'["clone"] = "half" /\ UNCHANGED recorded
        /\ job'[j].stage = "cloning" /\ ~Finished(j)
    BY <1>0, <1>3, <1>5, StageSet DEF BeginClone, IsCheckout, Moves, Finished
  <2>2. Mine(j) /\ installed.source = "none" /\ installed # Unasked
    BY <1>2, <1>5, <2>1 DEF JobsInv
  <2>3. orphan' = orphan
    BY <1>5 DEF JobStep, Bootstrap, Cloned, HasSource, RunScript, Make, Finished
  <2> QED BY <1>1, <1>3, <1>5, <2>1, <2>2, <2>3 DEF CloneInv
<1>6. CASE Cloned(j)
  <2>1. job[j].stage = "cloning" /\ Mine(j) /\ tree["clone"] = "half" /\ recorded # "clone"
        /\ ~Finished(j) /\ installed.source = "none" /\ proc # "leaving" /\ restart # "pause"
    BY <1>6 DEF Cloned, CloneInv, JobsInv, Finished
  <2>2. \/ tree'["clone"] = "whole" /\ recorded' = "clone" /\ job'[j].stage = "script"
        \/ tree'["clone"] = "absent" /\ recorded' = recorded /\ job'[j].stage = "failed"
    BY <1>0, <1>3, <1>6, <2>1, StageAndSourceSet, EndSet DEF Cloned, RemoveHalf, Moves
  <2>3. \A i \in Jobs : job'[i].stage # "cloning"
    BY <1>1, <1>3, <2>1, <2>2 DEF CloneInv
  <2> QED BY <1>1, <1>3, <2>1, <2>2, <2>3 DEF CloneInv
<1>7. CASE UNCHANGED <<tree, recorded>>
  <2>1. \/ job[j].stage # "cloning" /\ job'[j].stage # "cloning"
        \/ Cloned(j)
        \/ BeginClone(j)
    BY <1>0, <1>3, StageSet, StageAndSourceSet, IdleSet, EndSet
       DEF JobStep, Bootstrap, ToolsMissing, UseClone, HasSource, RunScript, Make, Finished, Moves
  <2>2. CASE Cloned(j) \/ BeginClone(j)
    <3>1. CASE Cloned(j)
      BY <1>6, <3>1
    <3>2. CASE BeginClone(j)
      BY <1>3, <1>7, <3>2 DEF BeginClone, IsCheckout
    <3> QED BY <2>2, <3>1, <3>2
  <2>3. CASE job[j].stage # "cloning" /\ job'[j].stage # "cloning"
    <3>1. \A i \in Jobs : job'[i].stage = "cloning" <=> job[i].stage = "cloning"
      BY <1>1, <2>3
    <3>2. \A i \in Jobs : job'[i].stage = "cloning" => Mine(i)'
      BY <1>1, <2>3 DEF CloneInv
    <3>3. Mine(j)' /\ installed.source = "none" /\ job'[j].stage \in {"script", "making", "ok"}
              => tree["clone"] = "whole"
      <4> SUFFICES ASSUME Mine(j)', installed.source = "none",
                          job'[j].stage \in {"script", "making", "ok"}
                   PROVE  tree["clone"] = "whole"
        OBVIOUS
      <4>1. CASE job[j].stage = "begin"
        <5>1. job[j].source = "none"
          BY <4>1 DEF JobsInv
        <5>2. UseClone(j)
          BY <1>0, <1>3, <4>1, <5>1, StageSet, <2>3
             DEF JobStep, Bootstrap, ToolsMissing, BeginClone, HasSource, Cloned, RunScript, Make,
                 Finished, Moves
        <5> QED BY <1>7, <2>3, <4>1, <5>2, <1>3, <1>2 DEF UseClone, IsCheckout, CloneInv
      <4>2. CASE job[j].stage # "begin"
        <5>1. job[j].stage \in {"script", "making", "ok"}
          BY <1>0, <1>3, <4>2, <2>3, StageSet, IdleSet, EndSet
             DEF JobStep, Bootstrap, HasSource, Cloned, RunScript, Make, Finished, Moves
        <5> QED BY <1>3, <5>1 DEF CloneInv
      <4> QED BY <4>1, <4>2
    <3>4. restart' = "pause" => /\ installed # Unasked
                                /\ installed.source = "none" => tree["clone"] = "whole"
      <4>1. CASE Finished(j)
        BY <4>1 DEF Finished, CloneInv, JobsInv
      <4>2. CASE restart' = restart
        BY <4>2 DEF CloneInv
      <4> QED BY <1>1, <4>1, <4>2
    <3>5. proc' = "leaving" => \A i \in Jobs : Mine(i)' /\ installed'.source = "none"
                                              => tree'["clone"] = "whole"
      BY <1>1, <1>3, <1>7 DEF CloneInv
    <3>6. tree'["clone"] = "half" => \E i \in Jobs : job'[i].stage = "cloning"
      BY <1>7, <3>1 DEF CloneInv
    <3>7. \A i \in Jobs : job'[i].stage = "cloning" => tree'["clone"] = "half"
      BY <1>7, <3>1 DEF CloneInv
    <3>8. \A i \in Jobs : Mine(i)' /\ installed'.source = "none"
                            /\ job'[i].stage \in {"script", "making", "ok"}
                        => tree'["clone"] = "whole"
      BY <1>1, <1>3, <1>7, <3>3 DEF CloneInv
    <3>9. recorded' = "clone" => tree'["clone"] = "whole"
      BY <1>7 DEF CloneInv
    <3> QED BY <1>1, <1>7, <3>2, <3>4, <3>5, <3>6, <3>7, <3>8, <3>9 DEF CloneInv
  <2> QED BY <2>1, <2>2, <2>3
<1> QED BY <1>0, <1>4, <1>5, <1>6, <1>7, JobTrees

LEMMA CloneNext ==
    ASSUME Permitted \cap {"close", "kill"} = {}, TypeInv, JobsInv, CloneInv, [Next]_vars
    PROVE  CloneInv'
<1>0. "close" \notin Permitted /\ "kill" \notin Permitted /\ TypeOK
  BY DEF TypeInv
<1> USE DEF Mine, Working
<1>1. ASSUME NEW j \in Jobs, JobStep(j) PROVE CloneInv'
  BY <1>1, CloneJobStep
<1>2. CASE UpdateNow \/ OnAnswer
  <2>1. proc = "open" /\ UNCHANGED <<proc, restart, orphan, tree, recorded>>
        /\ settings \in Channels
    BY <1>0, <1>2 DEF UpdateNow, OnAnswer, outside, TypeOK
  <2>2. ASSUME NEW j \in Jobs
        PROVE  job'[j] = job[j] \/ (job'[j].stage = "begin" /\ ~Working(j) /\ ~updating)
    BY <1>0, <1>2, <2>1, StartUpdateFacts DEF UpdateNow, OnAnswer, Begun
  <2>3. installed # Unasked => installed' = installed
    <3>1. ~Exit /\ ~Kill
      BY <2>1 DEF Exit, Kill, Gone
    <3> QED BY <1>0, <3>1, AskedKeeps
  <2>4. \A j \in Jobs : Mine(j) => installed # Unasked
    BY DEF JobsInv
  <2>5. \A j \in Jobs : job'[j].stage = "cloning" => Mine(j)' /\ tree'["clone"] = "half"
    BY <2>1, <2>2 DEF CloneInv
  <2>6. tree'["clone"] = "half" => \E j \in Jobs : job'[j].stage = "cloning"
    BY <2>1, <2>2 DEF CloneInv
  <2>7. \A j \in Jobs : Mine(j)' /\ installed'.source = "none"
                            /\ job'[j].stage \in {"script", "making", "ok"}
                        => tree'["clone"] = "whole"
    BY <2>1, <2>2, <2>3, <2>4 DEF CloneInv
  <2>8. restart' = "pause" => /\ installed' # Unasked
                              /\ installed'.source = "none" => tree'["clone"] = "whole"
    BY <2>1, <2>3 DEF CloneInv
  <2>9. recorded' = "clone" => tree'["clone"] = "whole"
    BY <2>1 DEF CloneInv
  <2> QED BY <2>1, <2>5, <2>6, <2>7, <2>8, <2>9 DEF CloneInv
<1>3. CASE Kill
  <2>1. \A j \in Jobs : ~Working(j) /\ job'[j].stage = "idle"
    BY <1>0, <1>3 DEF Kill, Idle
  <2>2. UNCHANGED <<tree, recorded>> /\ restart' # "pause" /\ proc' = "off"
    BY <1>3 DEF Kill, Gone, outside
  <2> QED BY <2>1, <2>2 DEF CloneInv
<1>4. CASE Exit
  <2>1. proc = "leaving" /\ UNCHANGED <<tree, recorded, restart>> /\ proc' = "off"
    BY <1>4 DEF Exit, Gone, outside
  <2>2. \A j \in Jobs : job[j].stage # "cloning"
    BY <2>1 DEF CloneInv, JobsInv
  <2>3. \A j \in Jobs : job'[j].stage # "cloning" /\ ~Mine(j)'
    BY <1>4, <2>2 DEF Exit, Outlives, Idle
  <2>4. restart # "pause" /\ tree["clone"] # "half"
    BY <2>1, <2>2 DEF CloneInv, JobsInv
  <2> QED BY <2>1, <2>3, <2>4 DEF CloneInv
<1>5. CASE Close \/ Relaunch
  <2>1. UNCHANGED <<tree, recorded, installed, job, orphan>> /\ restart' # "pause"
    BY <1>5 DEF Close, Relaunch, outside
  <2>2. \A j \in Jobs : Mine(j) /\ installed.source = "none" => tree["clone"] = "whole"
    BY <1>0, <1>5 DEF Close, Relaunch, CloneInv
  <2> QED BY <2>1, <2>2 DEF CloneInv
<1>6. CASE Start \/ HelperLaunch
  BY <1>6 DEF Start, HelperLaunch, Open, page, outside, CloneInv
<1>7. CASE /\ UNCHANGED <<job, orphan, restart, proc, recorded>> /\ ~Exit /\ ~Kill
           /\ tree'["clone"] = tree["clone"]
  <2>1. installed # Unasked => installed' = installed
    BY <1>0, <1>7, AskedKeeps
  <2>2. \A j \in Jobs : Mine(j) => installed # Unasked
    BY DEF JobsInv
  <2> QED BY <1>7, <2>1, <2>2 DEF CloneInv
<1>8. CASE OwnGoes \/ OwnChanges
  <2>1. tree'["clone"] = tree["clone"]
    BY <1>0, <1>8 DEF OwnGoes, OwnChanges, TypeOK, Trees
  <2> QED BY <1>8, <2>1 DEF OwnGoes, OwnChanges, CloneInv
<1> QED BY <1>1, <1>2, <1>3, <1>4, <1>5, <1>6, <1>7, <1>8
        DEF Next, LaunchStep, CheckStep, LaunchTimer, LaunchAnswer, OfferUpdate, AnswerCheck,
            Later, PressUpdate, PickChannel, Release, vars, page, outside

\* As long as Atlas is neither closed nor killed while a job runs, a recorded clone is
\* whole: an update asked for again while a restart is pending, a build that outlives
\* the restart, failed clones and changes of channel leave no half of one recorded.
THEOREM WholeIsRecorded == Permitted \cap {"close", "kill"} = {} /\ Spec => []RecordedIsWhole
<1> SUFFICES ASSUME Permitted \cap {"close", "kill"} = {} PROVE Spec => []RecordedIsWhole
  OBVIOUS
<1>1. Init => CloneInv
  <2> SUFFICES ASSUME Init PROVE CloneInv
    OBVIOUS
  <2>1. \A j \in Jobs : job[j] = Idle
    BY DEF Init
  <2> QED BY <2>1, InitTrees DEF Init, CloneInv, Mine, Working, Idle
<1>2. TypeInv /\ JobsInv /\ CloneInv /\ [Next]_vars => CloneInv'
  BY CloneNext
<1>3. CloneInv => RecordedIsWhole
  BY DEF CloneInv, RecordedIsWhole
<1> QED BY <1>1, <1>2, <1>3, TypeInvariant, JobsInvariant, PTL DEF Spec

----------------------------------------------------------------------------
(* What the user said yes to.                                               *)

\* What is being asked and offered is of the channel that is set, and is there.
AsksInv ==
    /\ launch.version <= remote[launch.channel]
    /\ check.version <= remote[check.channel]
    /\ launch.state # "none" => launch.channel = settings
    /\ check.state # "none yet" => check.channel = settings

\* The source this copy was found to have, if any, is the one recorded.
FoundInv ==
    installed # Unasked =>
        IF installed.source = "none" THEN recorded = "own" => tree["own"] = "absent"
                                     ELSE installed.source = recorded

\* One clone is made at a time, and while it is, it is half there.
ClonesInv ==
    /\ \A j \in Jobs : job[j].stage = "cloning" => tree["clone"] = "half"
    /\ \A i, j \in Jobs : job[i].stage = "cloning" /\ job[j].stage = "cloning" => i = j

\* Whatever is built, by this process or one before, is built in the recorded source.
SourceInv ==
    /\ \A j \in Jobs : job[j].stage \in {"script", "making", "ok"} => job[j].source = recorded
    /\ \A j \in Jobs : job[j].stage \in {"making", "ok"} => tree[recorded] \in Buildable

NewEnough(build) == build.branch = taken.branch /\ build.commit >= taken.commit

\* The job of this process is for what was taken, and has pulled it before it builds.
PulledInv ==
    /\ \A j \in Jobs : Mine(j) => /\ job[j].channel = taken.branch
                                  /\ taken.commit <= remote[taken.branch]
    /\ \A j \in Jobs : Mine(j) /\ job[j].stage \in {"making", "ok"} /\ tree[recorded] = "whole"
                            => NewEnough(head[recorded])
    /\ \A j \in Jobs : Mine(j) /\ job[j].stage = "ok" => binary = head[recorded]

\* While Atlas says it is restarting, what is installed is what is checked out.
PausedInv ==
    restart = "pause" =>
        /\ \A j \in Jobs : ~Mine(j)
        /\ recorded \in Trees /\ tree[recorded] \in Buildable
        /\ binary = head[recorded]
        /\ tree[recorded] = "whole" => NewEnough(head[recorded])

TakenInv ==
    AsksInv /\ FoundInv /\ ClonesInv /\ SourceInv /\ PulledInv /\ PausedInv

\* Asking how this copy was installed finds the recorded source, or none.
LEMMA AskFinds ==
    ASSUME TypeOK, FoundInv, installed' \in {installed, Install}, UNCHANGED <<tree, recorded>>
    PROVE  FoundInv'
<1>1. CASE installed' = installed
  BY <1>1 DEF FoundInv
<1>2. CASE installed' # installed
  <2>1. installed' = DetectInstall
    BY <1>2, InstallFacts
  <2>2. DetectInstall.source # "none" => DetectInstall.source = recorded
    BY InstallFacts
  <2>3. DetectInstall.source = "none" => recorded = "none" \/ tree[recorded] = "absent"
    BY InstallFacts DEF LooksLikeCheckout
  <2> QED BY <2>1, <2>2, <2>3 DEF FoundInv
<1> QED BY <1>1, <1>2

\* A step of a job that touches neither the trees nor what is checked out or installed.
LEMMA TakenQuietJob ==
    ASSUME TypeInv, JobsInv, TakenInv, NEW j \in Jobs, JobStep(j),
           UNCHANGED <<tree, head, recorded, binary>>,
           \/ job'[j].stage = "idle"
           \/ job'[j].stage = "failed" /\ job'[j].channel = job[j].channel
           \/ /\ job'[j].stage = "script" /\ job'[j].source = recorded
              /\ job'[j].channel = job[j].channel,
           restart' = restart
    PROVE  TakenInv'
<1>0. TypeOK
  BY DEF TypeInv
<1>1. /\ \A i \in Jobs \ {j} : job'[i] = job[i]
      /\ UNCHANGED <<launch, check, settings, installed, taken, remote>>
      /\ \A i \in Jobs : Mine(i)' => Mine(i)
  <2>1. orphan' \in {orphan, orphan \ {j}} /\ \A i \in Jobs \ {j} : job'[i] = job[i]
    BY <1>0, JobLocal
  <2>2. Mine(j)' => Mine(j)
    BY <1>0, JobStages
  <2>3. \A i \in Jobs \ {j} : Mine(i)' <=> Mine(i)
    BY <2>1 DEF Mine, Working
  <2> QED BY <1>0, <2>1, <2>2, <2>3, JobLocal
<1>2. AsksInv' /\ FoundInv'
  BY <1>1 DEF TakenInv, AsksInv, FoundInv
<1>3. ClonesInv' /\ SourceInv'
  BY <1>1 DEF TakenInv, ClonesInv, SourceInv
<1>4. PulledInv'
  <2>1. Mine(j)' => job'[j].channel = job[j].channel
    BY DEF Mine, Working
  <2>2. \A i \in Jobs : Mine(i)' => Mine(i) /\ job'[i].channel = job[i].channel
    BY <1>1, <2>1
  <2>3. \A i \in Jobs : job'[i].stage \in {"making", "ok"} => job'[i].stage = job[i].stage
    BY <1>1
  <2> QED BY <1>1, <2>2, <2>3 DEF TakenInv, PulledInv, NewEnough
<1>5. PausedInv'
  BY <1>1 DEF TakenInv, PausedInv, NewEnough
<1> QED BY <1>2, <1>3, <1>4, <1>5 DEF TakenInv

\* A job at work on something excludes any other of this process.
LEMMA MineAlone ==
    ASSUME TypeOK, JobsInv, NEW j \in Jobs, Mine(j), JobStep(j), ~Finished(j)
    PROVE  /\ \A i \in Jobs : Mine(i)' => i = j
           /\ \A i \in Jobs \ {j} : job'[i] = job[i] /\ (Working(i) => i \in orphan)
           /\ installed # Unasked
<1>1. orphan' \in {orphan, orphan \ {j}} /\ \A i \in Jobs \ {j} : job'[i] = job[i]
  BY JobLocal
<1> QED BY <1>1 DEF Mine, Working, JobsInv

LEMMA TakenJobStep ==
    ASSUME "offline" \notin Permitted, "stuck" \notin Permitted,
           TypeInv, JobsInv, TakenInv, NEW j \in Jobs, JobStep(j)
    PROVE  TakenInv'
<1>0. /\ TypeOK /\ SourceKnown
      /\ {"begin", "cloning", "script", "making", "ok", "failed", "idle"} \subseteq Stages
      /\ Trees = {"own", "clone"} /\ recorded \in Trees \cup {"none"}
      /\ tree \in [Trees -> {"absent", "half"} \cup Buildable] /\ head \in [Trees -> Build]
  BY DEF TypeInv, Stages, Trees, TypeOK
<1>1. /\ \A i \in Jobs \ {j} : job'[i] = job[i]
      /\ UNCHANGED <<launch, check, settings, installed, taken, remote>>
      /\ AsksInv'
  BY <1>0, JobLocal DEF TakenInv, AsksInv
<1>2. CASE j \notin orphan /\ job[j].stage = "begin" /\ job[j].source = "none"
           /\ (UseClone(j) \/ BeginClone(j)) /\ UNCHANGED <<binary, orphan, restart>>
  <2>1. Mine(j) /\ ~Finished(j) /\ installed.source = "none" /\ installed # Unasked
        /\ restart # "pause"
    BY <1>2 DEF Mine, Working, Finished, JobsInv, TakenInv, PausedInv
  <2>2. /\ \A i \in Jobs : Mine(i)' => i = j
        /\ \A i \in Jobs \ {j} : job'[i] = job[i] /\ (Working(i) => i \in orphan)
    BY <1>0, <2>1, MineAlone
  <2>3. recorded = "own" => tree["own"] = "absent"
    BY <2>1 DEF TakenInv, FoundInv
  \* What still builds, of a process before, builds in the clone.
  <2>4. ASSUME NEW i \in Jobs \ {j}, job[i].stage \in {"script", "making", "ok"}
        PROVE  job[i].stage = "making" /\ recorded = "clone" /\ tree["clone"] \in Buildable
    <3>1. i \in orphan
      BY <2>2, <2>4 DEF Working
    <3>2. job[i].stage = "making"
      BY <2>4, <3>1 DEF JobsInv
    <3>3. job[i].source = recorded /\ job[i].source \in Trees
          /\ tree[recorded] \in Buildable
      BY <1>0, <3>2 DEF TakenInv, SourceInv, SourceKnown
    <3> QED BY <1>0, <2>3, <3>2, <3>3
  <2>5. CASE UseClone(j)
    <3>1. recorded' = "clone" /\ UNCHANGED <<tree, head>> /\ job'[j].stage = "script"
          /\ job'[j].source = "clone" /\ job'[j].channel = job[j].channel
      BY <1>0, <2>5, StageAndSourceSet DEF UseClone, Moves
    <3>2. FoundInv' /\ ClonesInv'
      BY <1>1, <2>1, <3>1 DEF TakenInv, FoundInv, ClonesInv
    <3>3. SourceInv'
      BY <1>1, <2>4, <3>1 DEF TakenInv, SourceInv
    <3>4. PulledInv'
      BY <1>1, <2>1, <2>2, <3>1 DEF TakenInv, PulledInv
    <3> QED BY <1>1, <1>2, <2>1, <3>2, <3>3, <3>4 DEF TakenInv, PausedInv
  <2>6. CASE BeginClone(j)
    <3>1. recorded' = recorded /\ head' = head /\ tree["clone"] = "absent"
          /\ tree'["clone"] = "half" /\ tree'["own"] = tree["own"]
          /\ job'[j].stage = "cloning" /\ job'[j].channel = job[j].channel
      <4>1. tree["clone"] # "plain"
        BY DEF JobsInv
      <4> QED BY <1>0, <2>6, <4>1, StageSet DEF BeginClone, IsCheckout, Moves
    <3>2. FoundInv' /\ ClonesInv'
      BY <1>1, <3>1 DEF TakenInv, FoundInv, ClonesInv
    <3>3. SourceInv'
      BY <1>1, <2>4, <3>1 DEF TakenInv, SourceInv
    <3>4. PulledInv'
      BY <1>1, <2>1, <2>2, <3>1 DEF TakenInv, PulledInv
    <3> QED BY <1>1, <1>2, <2>1, <3>2, <3>3, <3>4 DEF TakenInv, PausedInv
  <2> QED BY <1>2, <2>5, <2>6
<1>3. CASE Cloned(j)
  <2>1. job[j].stage = "cloning" /\ tree["clone"] = "half" /\ ~Finished(j)
        /\ UNCHANGED <<binary, restart>>
    BY <1>3 DEF Cloned, TakenInv, ClonesInv, Finished
  <2>2. \A i \in Jobs \ {j} : job'[i] = job[i] /\ job[i].stage # "cloning"
    BY <1>1, <2>1 DEF TakenInv, ClonesInv
  \* What builds builds elsewhere.
  <2>3. ASSUME NEW i \in Jobs, job[i].stage \in {"making", "ok"}
        PROVE  recorded = "own" /\ tree["own"] \in Buildable
    BY <1>0, <2>1, <2>3 DEF TakenInv, SourceInv, SourceKnown
  <2>4. restart = "pause" => recorded = "own" /\ \A i \in Jobs : ~Mine(i)
    BY <1>0, <2>1 DEF TakenInv, PausedInv
  <2>5. tree'["own"] = tree["own"] /\ head'["own"] = head["own"]
        /\ job'[j].stage \in {"script", "failed", "idle"}
        /\ (job'[j].stage = "script" =>
                j \notin orphan /\ job'[j].source = recorded' /\ job'[j].channel = job[j].channel)
        /\ recorded' \in {recorded, "clone"} /\ (recorded' # recorded => j \notin orphan)
    BY <1>0, <1>3, IdleSet, EndSet, StageAndSourceSet DEF Cloned, RemoveHalf, Moves
  <2>6. j \notin orphan => installed.source = "none" /\ installed # Unasked /\ Mine(j)
    BY <2>1 DEF JobsInv, Mine, Working
  <2>7. FoundInv'
    BY <1>0, <1>1, <2>5, <2>6 DEF TakenInv, FoundInv
  <2>8. ClonesInv'
    BY <2>2, <2>5 DEF ClonesInv
  <2>9. recorded' # recorded =>
            \A i \in Jobs \ {j} : job[i].stage \notin {"script", "making", "ok"}
    <3> SUFFICES ASSUME recorded' # recorded, NEW i \in Jobs \ {j},
                        job[i].stage \in {"script", "making", "ok"}
                 PROVE  FALSE
      OBVIOUS
    <3>1. j \notin orphan /\ Mine(j) /\ installed.source = "none" /\ installed # Unasked
      BY <2>5, <2>6
    <3>2. i \in orphan /\ job[i].stage = "making"
      BY <3>1 DEF JobsInv, Mine, Working
    <3>3. recorded = "own" /\ tree["own"] \in Buildable
      BY <2>3, <3>2
    <3> QED BY <3>1, <3>3 DEF TakenInv, FoundInv
  <2>10. SourceInv'
    BY <2>2, <2>3, <2>5, <2>9 DEF TakenInv, SourceInv
  <2>11. \A i \in Jobs : Mine(i)' => Mine(i)
    BY <1>0, <2>2, JobLocal, JobStages DEF Mine, Working
  <2>12. PulledInv'
    <3>1. \A i \in Jobs : Mine(i)' => /\ job'[i].channel = taken.branch
                                     /\ taken.commit <= remote[taken.branch]
      <4>1. job'[j].channel = job[j].channel \/ ~Mine(j)'
        BY <1>0, <1>3, IdleSet, EndSet, StageAndSourceSet DEF Cloned, Moves, Mine, Working
      <4> QED BY <2>2, <2>11, <4>1 DEF TakenInv, PulledInv
    <3>2. ASSUME NEW i \in Jobs, Mine(i)', job'[i].stage \in {"making", "ok"}
          PROVE  /\ i # j /\ job[i].stage \in {"making", "ok"} /\ Mine(i)
                 /\ recorded = "own" /\ recorded' = "own"
      <4>1. i # j
        BY <2>5, <3>2
      <4>2. job[i].stage \in {"making", "ok"} /\ Mine(i)
        BY <2>2, <2>11, <3>2, <4>1
      <4> QED BY <2>3, <2>5, <2>9, <4>1, <4>2
    <3>3. ASSUME NEW i \in Jobs, Mine(i)', job'[i].stage \in {"making", "ok"},
                 tree'[recorded'] = "whole"
          PROVE  NewEnough(head[recorded])'
      <4>1. NewEnough(head[recorded])
        BY <2>5, <3>2, <3>3 DEF TakenInv, PulledInv
      <4> QED BY <1>1, <2>5, <3>2, <3>3, <4>1 DEF NewEnough
    <3>4. ASSUME NEW i \in Jobs, Mine(i)', job'[i].stage = "ok"
          PROVE  binary' = head'[recorded']
      <4>1. job[i].stage = "ok"
        BY <2>2, <3>2, <3>4
      <4> QED BY <2>1, <2>5, <3>2, <3>4, <4>1 DEF TakenInv, PulledInv
    <3> QED BY <1>1, <3>1, <3>3, <3>4 DEF PulledInv
  <2>13. PausedInv'
    BY <1>0, <1>1, <2>1, <2>4, <2>5, <2>6, <2>11 DEF TakenInv, PausedInv, NewEnough
  <2> QED BY <1>1, <2>7, <2>8, <2>10, <2>12, <2>13 DEF TakenInv
<1>4. CASE RunScript(j) /\ tree[job[j].source] \in Buildable
  <2>1. Mine(j) /\ ~Finished(j) /\ job[j].source = recorded /\ recorded \in Trees
        /\ UNCHANGED <<tree, recorded, binary, orphan, restart>> /\ restart # "pause"
    BY <1>0, <1>4 DEF RunScript, Mine, Working, Finished, TakenInv, SourceInv, SourceKnown,
                      PausedInv
  <2>2. /\ \A i \in Jobs : Mine(i)' => i = j
        /\ \A i \in Jobs \ {j} : job'[i] = job[i] /\ (Working(i) => i \in orphan)
    BY <1>0, <2>1, MineAlone
  <2>3. job'[j].stage = "making" /\ job'[j].source = recorded /\ job'[j].channel = job[j].channel
    BY <1>0, <1>4, <2>1, StageSet DEF RunScript, Moves
  <2>4. FoundInv' /\ ClonesInv' /\ SourceInv'
    BY <1>1, <1>4, <2>1, <2>3 DEF TakenInv, FoundInv, ClonesInv, SourceInv
  <2>5. tree[recorded] = "whole" => NewEnough(head[recorded])'
    <3> SUFFICES ASSUME tree[recorded] = "whole" PROVE NewEnough(head[recorded])'
      OBVIOUS
    <3>1. Pulled(recorded, job[j].channel)
            = {[branch |-> job[j].channel, commit |-> remote[job[j].channel]]}
      BY DEF Pulled
    <3>2. head'[recorded] = [branch |-> job[j].channel, commit |-> remote[job[j].channel]]
      BY <1>0, <1>4, <2>1, <3>1 DEF RunScript, LeftAlone
    <3>3. job[j].channel = taken.branch /\ taken.commit <= remote[taken.branch]
      BY <2>1 DEF TakenInv, PulledInv
    <3>4. taken.commit \in Nat /\ remote[taken.branch] \in Nat
      BY <1>0 DEF TypeOK, Build, Versions
    <3> QED BY <1>1, <2>1, <3>2, <3>3, <3>4 DEF NewEnough
  <2>6. PulledInv'
    BY <1>1, <2>1, <2>2, <2>3, <2>5 DEF TakenInv, PulledInv
  <2> QED BY <1>1, <2>1, <2>4, <2>6 DEF TakenInv, PausedInv
<1>5. CASE Make(j) /\ binary' = head[job[j].source] /\ job'[j].stage \in {"idle", "ok"}
           /\ (job'[j].stage = "ok" => job'[j].source = job[j].source
                                         /\ job'[j].channel = job[j].channel)
  <2>1. job[j].source = recorded /\ job[j].stage = "making"
        /\ tree[recorded] \in Buildable /\ ~Finished(j)
        /\ UNCHANGED <<tree, head, recorded, restart>>
    BY <1>0, <1>5 DEF Make, Finished, TakenInv, SourceInv
  <2>2. \A i \in Jobs : Mine(i)' => Mine(i)
    BY <1>0, <1>1, JobLocal, JobStages DEF Mine, Working
  <2>3. FoundInv' /\ ClonesInv' /\ SourceInv'
    BY <1>1, <1>5, <2>1 DEF TakenInv, FoundInv, ClonesInv, SourceInv
  <2>4. PulledInv'
    <3>1. \A i \in Jobs : Mine(i)' => /\ job'[i].channel = taken.branch
                                     /\ taken.commit <= remote[taken.branch]
      BY <1>1, <1>5, <2>2 DEF TakenInv, PulledInv, Mine, Working
    <3>2. \A i \in Jobs : Mine(i)' /\ job'[i].stage \in {"making", "ok"}
                            /\ tree[recorded] = "whole" => NewEnough(head[recorded])
      BY <1>1, <1>5, <2>1, <2>2 DEF TakenInv, PulledInv
    <3>3. \A i \in Jobs : Mine(i)' /\ job'[i].stage = "ok" => binary' = head[recorded]
      BY <1>5, <2>1
    <3> QED BY <1>1, <2>1, <3>1, <3>2, <3>3 DEF PulledInv, NewEnough
  <2>5. PausedInv'
    BY <1>1, <1>5, <2>1, <2>2 DEF TakenInv, PausedInv, NewEnough
  <2> QED BY <1>1, <2>3, <2>4, <2>5 DEF TakenInv
<1>6. CASE Finished(j)
  <2>1. /\ job'[j].stage = "idle" /\ Mine(j) /\ job[j].stage \in {"ok", "failed"}
        /\ UNCHANGED <<tree, head, recorded, binary, orphan>>
        /\ restart' = IF job[j].stage = "ok" THEN "pause" ELSE restart
    BY <1>0, <1>6, IdleSet DEF Finished, Mine, Working, outside
  <2>2. CASE job[j].stage = "failed"
    BY <1>1, <2>1, <2>2, TakenQuietJob
  <2>3. CASE job[j].stage = "ok"
    <3>1. FoundInv' /\ ClonesInv' /\ SourceInv'
      BY <1>1, <2>1 DEF TakenInv, FoundInv, ClonesInv, SourceInv
    <3>2. \A i \in Jobs : ~Mine(i)'
      BY <1>1, <2>1 DEF JobsInv, Mine, Working
    <3>3. PulledInv'
      BY <3>2 DEF PulledInv
    <3>4. recorded \in Trees
      BY <1>0, <2>3 DEF SourceKnown, TakenInv, SourceInv
    <3>5. PausedInv'
      BY <1>1, <2>1, <2>3, <3>2, <3>4 DEF TakenInv, SourceInv, PulledInv, PausedInv, NewEnough
    <3> QED BY <1>1, <3>1, <3>3, <3>5 DEF TakenInv
  <2> QED BY <2>1, <2>2, <2>3
<1>7. CASE /\ UNCHANGED <<tree, head, recorded, binary, restart>>
           /\ \/ job'[j].stage = "idle"
              \/ job'[j].stage = "failed" /\ job'[j].channel = job[j].channel
              \/ /\ job'[j].stage = "script" /\ job[j].stage = "begin"
                 /\ job[j].source # "none" /\ job'[j].source = job[j].source
                 /\ job'[j].channel = job[j].channel /\ j \notin orphan
  <2>1. job'[j].stage = "script" => job[j].source = recorded
    BY <1>7 DEF JobsInv, Mine, Working, TakenInv, FoundInv
  <2> QED BY <1>7, <2>1, TakenQuietJob
<1>8. \/ j \notin orphan /\ job[j].stage = "begin" /\ job[j].source = "none"
           /\ (UseClone(j) \/ BeginClone(j)) /\ UNCHANGED <<binary, orphan, restart>>
      \/ Cloned(j)
      \/ RunScript(j) /\ tree[job[j].source] \in Buildable
      \/ Make(j) /\ binary' = head[job[j].source] /\ job'[j].stage \in {"idle", "ok"}
           /\ (job'[j].stage = "ok" => job'[j].source = job[j].source
                                         /\ job'[j].channel = job[j].channel)
      \/ Finished(j)
      \/ /\ UNCHANGED <<tree, head, recorded, binary, restart>>
         /\ \/ job'[j].stage = "idle"
            \/ job'[j].stage = "failed" /\ job'[j].channel = job[j].channel
            \/ /\ job'[j].stage = "script" /\ job[j].stage = "begin"
               /\ job[j].source # "none" /\ job'[j].source = job[j].source
               /\ job'[j].channel = job[j].channel /\ j \notin orphan
  <2>1. CASE Bootstrap(j)
    BY <1>0, <2>1, StageSet DEF Bootstrap, ToolsMissing, Moves
  <2>2. CASE HasSource(j)
    BY <1>0, <2>2, StageSet DEF HasSource, Moves, outside
  <2>3. CASE RunScript(j)
    BY <1>0, <2>3, StageSet DEF RunScript, Moves
  <2>4. CASE Make(j)
    BY <1>0, <2>4, EndSet DEF Make, Moves
  <2> QED BY <2>1, <2>2, <2>3, <2>4 DEF JobStep
<1> QED BY <1>2, <1>3, <1>4, <1>5, <1>6, <1>7, <1>8

\* Nothing under way, and nothing said about a restart: what is taken is free to change.
LEMMA TakenBegin ==
    ASSUME "again" \notin Permitted, TypeInv, JobsInv, TakenInv, UpdateNow \/ OnAnswer
    PROVE  TakenInv'
<1>0. TypeOK
  BY DEF TypeInv
<1>1. /\ UNCHANGED <<tree, head, recorded, remote, binary, settings, orphan, restart>>
      /\ restart = "none" /\ settings \in Channels
  BY <1>0 DEF UpdateNow, OnAnswer, MayAsk, outside, TypeOK
<1>2. /\ launch'.channel = launch.channel /\ launch'.version = launch.version
      /\ check'.channel = check.channel /\ check'.version = check.version
      /\ launch'.state \in {launch.state, "none"} /\ check'.state \in {check.state, "none yet"}
  BY <1>0 DEF UpdateNow, OnAnswer, TypeOK, LaunchSet, CheckSet
<1>3. AsksInv'
  BY <1>1, <1>2 DEF TakenInv, AsksInv
<1>4. CASE UNCHANGED <<installed, job, taken>>
  <2>1. FoundInv' /\ ClonesInv' /\ SourceInv'
    BY <1>1, <1>4 DEF TakenInv, FoundInv, ClonesInv, SourceInv
  <2>2. PulledInv' /\ PausedInv'
    BY <1>1, <1>4 DEF TakenInv, PulledInv, PausedInv, NewEnough, Mine, Working
  <2> QED BY <1>3, <2>1, <2>2 DEF TakenInv
<1>5. CASE /\ \E done \in BOOLEAN : StartUpdate(settings, done)
           /\ ~updating /\ taken'.branch = settings /\ taken'.commit <= remote[settings]
  <2>1. /\ installed' \in {installed, Install}
        /\ job' = job \/ \E j \in Jobs : Begun(j, settings) /\ j \notin orphan
    BY <1>0, <1>1, <1>5, StartUpdateJobs
  <2>2. \A j \in Jobs : ~Mine(j)
    BY <1>5 DEF JobsInv
  <2>3. \A j \in Jobs : \/ job'[j] = job[j]
                       \/ /\ job'[j].stage = "begin"
                          /\ job'[j].channel = settings
    <3>1. CASE job' = job
      BY <3>1
    <3>2. CASE \E i \in Jobs : Begun(i, settings)
      <4>1. PICK i \in Jobs : Begun(i, settings)
        BY <3>2
      <4>2. /\ job'[i].stage = "begin" /\ job'[i].channel = settings
            /\ \A j \in Jobs \ {i} : job'[j] = job[j]
        BY <4>1 DEF Begun
      <4> QED BY <4>2
    <3> QED BY <2>1, <3>1, <3>2
  <2>4. \A j \in Jobs : Mine(j)' => job'[j].stage = "begin" /\ job'[j].channel = settings
    BY <1>1, <2>2, <2>3 DEF Mine, Working
  <2>5. FoundInv'
    BY <1>0, <1>1, <2>1, AskFinds DEF TakenInv
  <2>6. ClonesInv' /\ SourceInv'
    BY <1>1, <2>3 DEF TakenInv, ClonesInv, SourceInv
  <2>7. PulledInv'
    BY <1>1, <1>5, <2>4 DEF PulledInv
  <2> QED BY <1>1, <1>3, <2>5, <2>6, <2>7 DEF TakenInv, PausedInv
<1>6. CASE UpdateNow
  <2>1. launch.state = "offered" /\ launch.channel = settings
    BY <1>6 DEF UpdateNow, TakenInv, AsksInv
  <2>2. CASE updating
    BY <1>4, <1>6, <2>2 DEF UpdateNow, StartUpdate
  <2>3. CASE ~updating
    BY <1>5, <1>6, <2>1, <2>3 DEF UpdateNow, TakenInv, AsksInv
  <2> QED BY <2>2, <2>3
<1>7. CASE OnAnswer
  <2>1. check.channel = settings
    BY <1>7 DEF OnAnswer, TakenInv, AsksInv
  <2>2. CASE updating \/ check.state \notin {"available", "switch"}
    BY <1>4, <1>7, <2>2 DEF OnAnswer, StartUpdate
  <2>3. CASE ~updating /\ check.state \in {"available", "switch"}
    <3>1. StartUpdate(settings, TRUE)
      BY <1>7, <2>3 DEF OnAnswer
    <3>2. taken' = [branch |-> check.channel, commit |-> check.version]
      BY <1>7, <2>3 DEF OnAnswer
    <3>3. taken'.branch = settings /\ taken'.commit = check.version
      BY <2>1, <3>2
    <3>4. check.version <= remote[settings]
      BY <2>1 DEF TakenInv, AsksInv
    <3> QED BY <1>5, <2>3, <3>1, <3>3, <3>4
  <2> QED BY <2>2, <2>3
<1> QED BY <1>6, <1>7

\* Checks, their answers, releases and the channel row.
LEMMA TakenAsk ==
    ASSUME "pick" \notin Permitted, TypeInv, JobsInv, TakenInv,
           \/ LaunchStep \/ AnswerCheck \/ Later \/ PressUpdate
           \/ \E c \in Channels : PickChannel(c) \/ Release(c)
    PROVE  TakenInv'
<1>0. /\ TypeOK /\ launch.channel \in Channels /\ check.channel \in Channels
      /\ launch.version \in Nat /\ check.version \in Nat
      /\ remote \in [Channels -> Nat]
  BY DEF TypeInv, TypeOK, LaunchSet, CheckSet, Versions
<1>1. /\ UNCHANGED <<tree, head, recorded, binary, orphan, restart, job, taken>>
      /\ installed' \in {installed, Install}
  BY DEF LaunchStep, LaunchTimer, LaunchAnswer, OfferUpdate, AnswerCheck, Later, PressUpdate,
         PickChannel, Release, Asked, outside
<1>2. FoundInv'
  BY <1>0, <1>1, AskFinds DEF TakenInv
<1>3. ClonesInv' /\ SourceInv' /\ PausedInv'
  BY <1>1 DEF TakenInv, ClonesInv, SourceInv, PausedInv, NewEnough, Mine, Working
<1>4. \A c \in Channels : remote[c] <= remote'[c] /\ remote'[c] \in Nat
  <2>1. CASE UNCHANGED remote
    BY <1>0, <2>1
  <2>2. ASSUME NEW c \in Channels, Release(c)
        PROVE  \A d \in Channels : remote[d] <= remote'[d] /\ remote'[d] \in Nat
    BY <1>0, <2>2 DEF Release
  <2> QED BY <2>1, <2>2 DEF LaunchStep, LaunchTimer, LaunchAnswer, OfferUpdate, AnswerCheck,
                            Later, PressUpdate, PickChannel, outside
<1>5. AsksInv'
  <2>1. /\ launch'.channel \in Channels /\ check'.channel \in Channels
        /\ launch'.version <= remote[launch'.channel] /\ launch'.version \in Nat
        /\ check'.version <= remote[check'.channel] /\ check'.version \in Nat
        /\ launch'.state # "none" => launch'.channel = settings'
        /\ check'.state # "none yet" => check'.channel = settings'
    <3>1. CASE LaunchTimer \/ OfferUpdate \/ Later
      BY <1>0, <3>1 DEF LaunchTimer, OfferUpdate, Later, TakenInv, AsksInv, TypeOK, LaunchSet
    <3>2. CASE LaunchAnswer
      <4>1. /\ launch'.channel = launch.channel /\ launch'.version = remote[launch.channel]
            /\ check' = check /\ settings' = settings /\ launch.state # "none"
        BY <1>0, <3>2 DEF LaunchAnswer, TypeOK, LaunchSet
      <4>2. /\ remote[launch.channel] \in Nat /\ launch.channel = settings
            /\ check.version <= remote[check.channel]
            /\ check.state # "none yet" => check.channel = settings
        BY <1>0, <4>1 DEF TakenInv, AsksInv
      <4>3. launch'.version <= remote[launch'.channel]
        <5>1. \A n \in Nat : n <= n
          OBVIOUS
        <5>2. remote[launch.channel] <= remote[launch.channel]
          BY <4>2, <5>1
        <5> QED BY <4>1, <5>2
      <4> QED BY <1>0, <4>1, <4>2, <4>3
    <3>3. CASE AnswerCheck
      <4>1. /\ check'.channel = check.channel /\ check'.version = remote[check.channel]
            /\ launch' = launch /\ settings' = settings /\ check.state # "none yet"
        BY <1>0, <3>3 DEF AnswerCheck, TypeOK, CheckSet
      <4>2. /\ remote[check.channel] \in Nat /\ check.channel = settings
            /\ launch.version <= remote[launch.channel]
            /\ launch.state # "none" => launch.channel = settings
        BY <1>0, <4>1 DEF TakenInv, AsksInv
      <4>3. check'.version <= remote[check'.channel]
        <5>1. \A n \in Nat : n <= n
          OBVIOUS
        <5>2. remote[check.channel] <= remote[check.channel]
          BY <4>2, <5>1
        <5> QED BY <4>1, <5>2
      <4> QED BY <1>0, <4>1, <4>2, <4>3
    <3>4. CASE PressUpdate
      <4>1. settings \in Channels /\ 0 <= remote[settings]
        BY <1>0 DEF TypeOK
      <4> QED BY <1>0, <3>4, <4>1 DEF PressUpdate, TakenInv, AsksInv
    <3>5. ASSUME NEW c \in Channels, PickChannel(c)
          PROVE  /\ UNCHANGED <<launch, check>>
                 /\ launch.state = "none" /\ check.state = "none yet"
      BY <3>5 DEF PickChannel, page
    <3>6. ASSUME NEW c \in Channels, Release(c)
          PROVE  UNCHANGED <<launch, check, settings>>
      BY <3>6 DEF Release, page
    <3> QED BY <1>0, <3>1, <3>2, <3>3, <3>4, <3>5, <3>6 DEF LaunchStep, TakenInv, AsksInv
  <2>2. \A c \in Channels, n \in Nat : n <= remote[c] => n <= remote'[c]
    BY <1>0, <1>4
  <2>3. launch'.version <= remote'[launch'.channel] /\ check'.version <= remote'[check'.channel]
    BY <2>1, <2>2
  <2> QED BY <2>1, <2>3 DEF AsksInv
<1>6. PulledInv'
  <2>1. \A j \in Jobs : Mine(j)' <=> Mine(j)
    BY <1>1 DEF Mine, Working
  <2>2. taken.branch \in Channels /\ taken.commit \in Nat
    BY <1>0 DEF TypeOK, Build, Versions
  <2>3. taken.commit <= remote[taken.branch] => taken.commit <= remote'[taken.branch]
    BY <1>0, <1>4, <2>2
  <2> QED BY <1>1, <2>1, <2>3 DEF TakenInv, PulledInv, NewEnough
<1> QED BY <1>2, <1>3, <1>5, <1>6 DEF TakenInv

\* Processes come and go, and the checkout.
LEMMA TakenProcess ==
    ASSUME TypeInv, JobsInv, TakenInv,
           Relaunch \/ Close \/ Exit \/ Kill \/ Start \/ HelperLaunch \/ OwnGoes
           \/ OwnChanges
    PROVE  TakenInv'
<1>0. /\ TypeOK /\ settings \in Channels /\ remote[settings] \in Nat
      /\ tree \in [Trees -> {"absent", "half"} \cup Buildable] /\ "own" \in Trees
      /\ launch \in LaunchSet /\ check \in CheckSet
  BY DEF TypeInv, TypeOK, Versions, Trees
<1>1. CASE Exit \/ Kill
  <2>1. /\ UNCHANGED <<tree, head, recorded, remote, binary, settings, taken>>
        /\ installed' = Unasked
        /\ restart' # "pause"
    BY <1>1 DEF Exit, Kill, Gone, outside, JobsInv
  <2>2. \A j \in Jobs : /\ job'[j] = job[j] \/ job'[j].stage = "idle"
                        /\ ~Mine(j)'
    BY <1>1 DEF Exit, Kill, Outlives, Idle, Mine, Working
  <2>3. /\ launch'.channel = launch.channel /\ launch'.version = launch.version
        /\ check'.channel = check.channel /\ check'.version = check.version
        /\ launch'.state = "none" /\ check'.state = "none yet"
    BY <1>0, <1>1 DEF Exit, Kill, Gone, LaunchSet, CheckSet
  <2>4. AsksInv' /\ FoundInv'
    BY <2>1, <2>3 DEF TakenInv, AsksInv, FoundInv
  <2>5. ClonesInv' /\ SourceInv'
    BY <2>1, <2>2 DEF TakenInv, ClonesInv, SourceInv
  <2>6. PulledInv' /\ PausedInv'
    BY <2>1, <2>2 DEF PulledInv, PausedInv
  <2> QED BY <2>4, <2>5, <2>6 DEF TakenInv
<1>2. CASE OwnGoes \/ OwnChanges
  <2>1. /\ UNCHANGED <<head, recorded, remote, binary, settings, taken, installed, job, orphan,
                        restart, launch, check>>
        /\ tree'["own"] = "absent" \/ tree["own"] # "absent"
        /\ tree'["clone"] = tree["clone"]
        /\ \A j \in Jobs : ~Working(j)
        /\ restart = "none"
    BY <1>0, <1>2 DEF OwnGoes, OwnChanges, page, Trees
  <2>2. AsksInv' /\ FoundInv'
    BY <2>1 DEF TakenInv, AsksInv, FoundInv
  <2>3. ClonesInv' /\ SourceInv' /\ PulledInv' /\ PausedInv'
    BY <2>1 DEF ClonesInv, SourceInv, PulledInv, PausedInv, Mine, Working
  <2> QED BY <2>2, <2>3 DEF TakenInv
<1>3. CASE Relaunch \/ Close \/ Start \/ HelperLaunch
  <2>1. /\ UNCHANGED <<tree, head, recorded, remote, binary, settings, taken, installed, job,
                        orphan, check>>
        /\ restart' = "pause" => restart = "pause"
    BY <1>3 DEF Relaunch, Close, Start, HelperLaunch, Open, page, outside
  <2>2. \/ launch' = launch
        \/ launch'.channel = settings /\ launch'.version = 0
    BY <1>3 DEF Relaunch, Close, Start, HelperLaunch, Open, page
  <2>6. /\ launch'.version <= remote[launch'.channel]
        /\ launch'.state # "none" => launch'.channel = settings
    <3>1. 0 <= remote[settings]
      BY <1>0
    <3>2. CASE launch' = launch
      BY <3>2 DEF TakenInv, AsksInv
    <3>3. CASE launch'.channel = settings /\ launch'.version = 0
      BY <3>1, <3>3
    <3> QED BY <2>2, <3>2, <3>3
  <2>3. AsksInv'
    BY <2>1, <2>6 DEF TakenInv, AsksInv
  <2>4. FoundInv' /\ ClonesInv' /\ SourceInv'
    BY <2>1 DEF TakenInv, FoundInv, ClonesInv, SourceInv
  <2>5. PulledInv' /\ PausedInv'
    BY <2>1 DEF TakenInv, PulledInv, PausedInv, NewEnough, Mine, Working
  <2> QED BY <2>3, <2>4, <2>5 DEF TakenInv
<1> QED BY <1>1, <1>2, <1>3

LEMMA TakenNext ==
    ASSUME Permitted \cap {"pick", "again", "offline", "stuck"} = {},
           TypeInv, JobsInv, TakenInv, [Next]_vars
    PROVE  TakenInv'
<1>1. /\ "pick" \notin Permitted /\ "again" \notin Permitted
      /\ "offline" \notin Permitted /\ "stuck" \notin Permitted
  OBVIOUS
<1>2. CASE UNCHANGED vars
  <2>1. UNCHANGED <<tree, head, recorded, remote, binary, settings, taken, installed, job,
                    orphan, check, launch, restart>>
    BY <1>2 DEF vars, page, outside
  <2> QED BY <2>1 DEF TakenInv, AsksInv, FoundInv, ClonesInv, SourceInv, PulledInv, PausedInv,
                      NewEnough, Mine, Working
<1> QED BY <1>1, <1>2, TakenJobStep, TakenBegin, TakenAsk, TakenProcess DEF Next, CheckStep

\* Unless the channel is changed between a check and the build, an update is asked for
\* while a restart is pending, GitHub cannot be reached for the pull, or git cannot
\* check the branch out: when Atlas says it restarts into the new version and has built
\* it in a checkout without the user's own edits and commits, that version is
\* installed. Builds that outlive their process, a killed one, and other commits do not
\* get in between.
THEOREM TakenGetsInstalled ==
    Permitted \cap {"pick", "again", "offline", "stuck"} = {} /\ Spec => []TakenIsInstalled
<1> SUFFICES ASSUME Permitted \cap {"pick", "again", "offline", "stuck"} = {}
             PROVE  Spec => []TakenIsInstalled
  OBVIOUS
<1>1. Init => TakenInv
  <2> SUFFICES ASSUME Init PROVE TakenInv
    OBVIOUS
  <2>1. \A j \in Jobs : job[j] = Idle
    BY DEF Init
  <2>2. AsksInv
    <3>1. settings \in Channels /\ remote[settings] = 0
      BY DEF Init
    <3>2. /\ launch.channel = settings /\ launch.version = 0
          /\ check.channel = settings /\ check.version = 0
      BY DEF Init
    <3>3. launch.version <= remote[launch.channel] /\ check.version <= remote[check.channel]
      BY <3>1, <3>2
    <3> QED BY <3>2, <3>3 DEF AsksInv
  <2>3. FoundInv /\ PausedInv
    BY DEF Init, FoundInv, PausedInv
  <2>4. ClonesInv /\ SourceInv /\ PulledInv
    BY <2>1 DEF ClonesInv, SourceInv, PulledInv, Mine, Working, Idle
  <2> QED BY <2>2, <2>3, <2>4 DEF TakenInv
<1>2. TypeInv /\ JobsInv /\ TakenInv /\ [Next]_vars => TakenInv'
  BY TakenNext
<1>3. TakenInv => TakenIsInstalled
  BY DEF TakenInv, PausedInv, NewEnough, TakenIsInstalled
<1> QED BY <1>1, <1>2, <1>3, TypeInvariant, JobsInvariant, PTL DEF Spec

=============================================================================
