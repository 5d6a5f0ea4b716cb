---- MODULE SettingsProofs ----
(***************************************************************************)
(* Proofs about Settings: that between two callbacks what is in effect is  *)
(* what is chosen, however the desktop and the choices changed, and that   *)
(* what is chosen is found by the process that starts next.                *)
(***************************************************************************)

EXTENDS Settings, SequenceTheorems, TLAPS

----------------------------------------------------------------------------
(* The shapes. *)

Tasks == [do : {"apply", "commit", "view", "quit"}, key : Keys]

\* What is told to the window, the collectors and the client, and what the desktop says.
ShapeInv ==
    /\ DOMAIN live = {"scheme", "css", "glass", "every", "model", "ai"}
    /\ DOMAIN desktop = {"dark", "accent", "composited"}

\* Something is applied next, or it is not among what is still to do.
TasksInv ==
    /\ tasks \in Seq(Tasks)
    /\ \A i \in 2 .. Len(tasks) : tasks[i].do # "apply"

\* No process, nothing under way.
OffInv ==
    proc = "off" =>
        /\ tasks = <<>> /\ saving = NotSaving /\ DOMAIN fields = {}
        /\ live = Nothing /\ applied = Unthemed

ProcInv == /\ proc \in Builds \cup {"off"}
           /\ DOMAIN fields \in {{}, TextKeys}
           /\ proc # "off" => DOMAIN settings = Known(proc)

\* The first of a list, and the rest of it.
LEMMA Rest ==
    ASSUME NEW s \in Seq(Tasks), s # <<>>
    PROVE  /\ Head(s) = s[1] /\ Head(s) \in Tasks
           /\ Tail(s) \in Seq(Tasks) /\ Len(Tail(s)) = Len(s) - 1
           /\ \A i \in 1 .. Len(s) - 1 : Tail(s)[i] = s[i + 1]
           /\ Len(s) \in Nat /\ Len(s) >= 1
BY HeadTailProperties, EmptySeq, LenProperties

\* The tasks are tasks.
LEMMA TaskKinds ==
    /\ Apply \in Tasks
    /\ \A k \in Keys : Commit(k) \in Tasks
    /\ Task("view") \in Tasks /\ Task("quit") \in Tasks
BY DEF Apply, Commit, Task, Tasks, Keys, TextKeys, ChoiceKeys, ElseKeys

\* What a list of tasks is made of leaves nothing to apply later.
LEMMA CommitsAre ==
    /\ Commits \in {<<>>, <<Commit("model"), Commit("prompt")>>}
    /\ Commits \in Seq(Tasks)
    /\ \A i \in 1 .. Len(Commits) : Commits[i].do = "commit"
<1>1. Commit("model") \in Tasks /\ Commit("prompt") \in Tasks
  BY TaskKinds DEF Keys, TextKeys, ChoiceKeys, ElseKeys
<1>2. Commit("model").do = "commit" /\ Commit("prompt").do = "commit"
  BY DEF Commit
<1> QED  BY <1>1, <1>2 DEF Commits

LEMMA CloseTasks ==
    LET all == Commits \o <<Task("view"), Task("quit")>>
    IN  /\ all \in Seq(Tasks)
        /\ \A i \in 1 .. Len(all) : all[i].do # "apply"
<1>1. Task("view") \in Tasks /\ Task("quit") \in Tasks
  BY TaskKinds
<1>2. Task("view").do = "view" /\ Task("quit").do = "quit"
  BY DEF Task
<1>3. Commit("model") \in Tasks /\ Commit("prompt") \in Tasks
  BY TaskKinds DEF Keys, TextKeys, ChoiceKeys, ElseKeys
<1>4. Commit("model").do = "commit" /\ Commit("prompt").do = "commit"
  BY DEF Commit
<1>5. CASE Commits = <<>>
  BY <1>1, <1>2, <1>5
<1>6. CASE Commits = <<Commit("model"), Commit("prompt")>>
  BY <1>1, <1>2, <1>3, <1>4, <1>6
<1> QED  BY CommitsAre, <1>5, <1>6

\* What every process keeps to, whatever it does.
BaseInv == ShapeInv /\ TasksInv /\ OffInv /\ ProcInv

\* Taking a task off the list, or putting what applies in front of the rest.
LEMMA TasksLeft ==
    ASSUME TasksInv, tasks # <<>>
    PROVE  /\ (tasks' = Tail(tasks)) => TasksInv'
           /\ (tasks' = <<Apply>> \o Tail(tasks)) => TasksInv'
<1>1. /\ Tail(tasks) \in Seq(Tasks) /\ Len(Tail(tasks)) = Len(tasks) - 1
      /\ \A i \in 1 .. Len(tasks) - 1 : Tail(tasks)[i] = tasks[i + 1]
      /\ Len(tasks) \in Nat /\ Len(tasks) >= 1
  BY Rest DEF TasksInv
<1>2. \A i \in 1 .. Len(Tail(tasks)) : Tail(tasks)[i].do # "apply"
  BY <1>1 DEF TasksInv
<1>3. ASSUME tasks' = Tail(tasks)  PROVE TasksInv'
  BY <1>1, <1>2, <1>3 DEF TasksInv
<1>4. ASSUME tasks' = <<Apply>> \o Tail(tasks)  PROVE TasksInv'
  <2>1. tasks' \in Seq(Tasks) /\ Len(tasks') = 1 + Len(Tail(tasks))
    BY <1>1, <1>4, TaskKinds
  <2>2. \A i \in 2 .. Len(tasks') : tasks'[i] = Tail(tasks)[i - 1]
    BY <1>1, <1>4, <2>1
  <2>3. \A i \in 2 .. Len(tasks') : i - 1 \in 1 .. Len(Tail(tasks))
    BY <1>1, <2>1
  <2> QED  BY <1>2, <2>1, <2>2, <2>3 DEF TasksInv
<1> QED  BY <1>3, <1>4

\* A list of one, and one of nothing.
LEMMA ShortLists ==
    /\ (tasks' = <<Apply>>) => TasksInv'
    /\ (tasks' = <<>>) => TasksInv'
    /\ \A k \in Keys : (tasks' = <<Commit(k)>>) => TasksInv'
    /\ (tasks' = Commits) => TasksInv'
    /\ (tasks' = Commits \o <<Task("view"), Task("quit")>>) => TasksInv'
<1>1. \A i \in 2 .. 1 : FALSE
  OBVIOUS
<1>2. \A t \in Tasks : (tasks' = <<t>>) => TasksInv'
  BY <1>1 DEF TasksInv
<1>3. (tasks' = <<>>) => TasksInv'
  BY DEF TasksInv
<1>4. (tasks' = Commits) => TasksInv'
  <2>1. \A t \in Tasks : t.do = "commit" => t.do # "apply"
    OBVIOUS
  <2>2. Len(Commits) \in Nat
    BY CommitsAre, LenProperties
  <2> QED  BY CommitsAre, <2>2 DEF TasksInv
<1>5. (tasks' = Commits \o <<Task("view"), Task("quit")>>) => TasksInv'
  <2> DEFINE all == Commits \o <<Task("view"), Task("quit")>>
  <2>1. all \in Seq(Tasks) /\ \A i \in 1 .. Len(all) : all[i].do # "apply"
    BY CloseTasks
  <2> HIDE DEF all
  <2>2. (tasks' = all) => TasksInv'
    BY <2>1, LenProperties DEF TasksInv
  <2> QED  BY <2>2 DEF all
<1> QED  BY <1>2, <1>3, <1>4, <1>5, TaskKinds

\* The process goes.
LEMMA GoneOff ==
    ASSUME Gone, DOMAIN desktop = {"dark", "accent", "composited"},
           desktop' = desktop
    PROVE  BaseInv'
<1>1. DOMAIN live' = {"scheme", "css", "glass", "every", "model", "ai"}
  BY DEF Gone, Nothing
<1>2. TasksInv'
  BY ShortLists DEF Gone
<1>3. OffInv' /\ ProcInv'
  BY DEF Gone, OffInv, ProcInv, Nothing, Unthemed
<1> QED  BY <1>1, <1>2, <1>3 DEF BaseInv, ShapeInv

LEMMA BaseInit == ASSUME Init PROVE BaseInv
<1>1. TasksInv
  <2>1. tasks = <<>>
    BY DEF Init
  <2> QED  BY <2>1 DEF TasksInv
<1>2. OffInv /\ ProcInv
  BY DEF Init, OffInv, ProcInv
<1>3. ShapeInv
  BY DEF Init, ShapeInv, Nothing
<1> QED  BY <1>1, <1>2, <1>3 DEF BaseInv

\* Settings are changed, not added.
LEMMA KeysStand ==
    ASSUME ProcInv, proc' = proc, fields' = fields,
           NEW k, NEW v, settings' = [settings EXCEPT ![k] = v]
    PROVE  ProcInv'
BY DEF ProcInv, Known

LEMMA BaseNext == ASSUME BaseInv, [Next]_vars PROVE BaseInv'
<1> USE DEF BaseInv
<1>1. CASE SyncTmp
  BY <1>1 DEF SyncTmp, lasting, effects, history, ShapeInv, TasksInv, OffInv, ProcInv, NotSaving
<1>2. CASE RenameTmp
  BY <1>2 DEF RenameTmp, effects, ShapeInv, TasksInv, OffInv, ProcInv
<1>3. CASE SaveFails
  BY <1>3 DEF SaveFails, lasting, effects, ShapeInv, TasksInv, OffInv, ProcInv
<1>4. CASE ApplyTask
  <2>1. TasksInv'
    BY <1>4, TasksLeft DEF ApplyTask
  <2>2. ShapeInv'
    BY <1>4 DEF ApplyTask, Applied, ShapeInv
  <2>3. proc # "off" /\ proc' = proc
    BY <1>4 DEF ApplyTask, OffInv
  <2>4. ProcInv'
    BY <1>4 DEF ApplyTask, ProcInv
  <2> QED  BY <2>1, <2>2, <2>3, <2>4 DEF OffInv
<1>5. CASE CommitTask
  <2>1. TasksInv'
    BY <1>5, TasksLeft DEF CommitTask
  <2>2. ShapeInv'
    BY <1>5 DEF CommitTask, ShapeInv, effects
  <2>3. proc # "off" /\ proc' = proc
    BY <1>5 DEF CommitTask, OffInv
  <2>4. DOMAIN fields' = DOMAIN fields /\ DOMAIN settings' = DOMAIN settings
    BY <1>5 DEF CommitTask
  <2>5. ProcInv'
    BY <2>3, <2>4 DEF ProcInv, Known
  <2> QED  BY <2>1, <2>2, <2>3, <2>5 DEF OffInv
<1>6. CASE ViewTask
  <2>1. TasksInv'
    BY <1>6, TasksLeft DEF ViewTask
  <2>2. ShapeInv'
    BY <1>6 DEF ViewTask, ShapeInv, effects
  <2>3. proc # "off" /\ proc' = proc /\ fields' = fields
    BY <1>6 DEF ViewTask, OffInv
  <2>4. ProcInv'
    BY <1>6, <2>3, KeysStand DEF ViewTask
  <2> QED  BY <2>1, <2>2, <2>3, <2>4 DEF OffInv
<1>7. CASE QuitTask
  BY <1>7, GoneOff DEF QuitTask, ShapeInv
<1>8. CASE DesktopChanges
  <2>1. TasksInv' /\ ProcInv'
    BY <1>8 DEF DesktopChanges, running, TasksInv, ProcInv
  <2>2. DOMAIN live' = DOMAIN live /\ DOMAIN desktop' = DOMAIN desktop
    BY <1>8 DEF DesktopChanges, Reload
  <2>3. OffInv'
    BY <1>8 DEF DesktopChanges, running, OffInv
  <2> QED  BY <2>1, <2>2, <2>3 DEF ShapeInv
<1>9. CASE Compositor
  BY <1>9 DEF Compositor, running, effects, ShapeInv, TasksInv, OffInv, ProcInv
<1>10. ASSUME NEW k \in ChoiceKeys, NEW v \in Offered(k), Choose(k, v)  PROVE BaseInv'
  <2>1. TasksInv'
    BY <1>10, ShortLists DEF Choose
  <2>2. ShapeInv'
    BY <1>10 DEF Choose, ShapeInv, effects
  <2>3. proc # "off" /\ proc' = proc /\ fields' = fields
    BY <1>10 DEF Choose, Idle
  <2>4. ProcInv'
    BY <1>10, <2>3, KeysStand DEF Choose
  <2> QED  BY <2>1, <2>2, <2>3, <2>4 DEF OffInv
<1>11. ASSUME NEW k \in Keys, NEW v \in Offered(k), ChooseElsewhere(k, v)  PROVE BaseInv'
  <2>1. TasksInv'
    BY <1>11 DEF ChooseElsewhere, TasksInv
  <2>2. ShapeInv'
    BY <1>11 DEF ChooseElsewhere, ShapeInv, effects
  <2>3. proc # "off" /\ proc' = proc /\ fields' = fields
    BY <1>11 DEF ChooseElsewhere, Idle
  <2>4. ProcInv'
    BY <1>11, <2>3, KeysStand DEF ChooseElsewhere
  <2> QED  BY <2>1, <2>2, <2>3, <2>4 DEF OffInv
<1>12. CASE HideColumn \/ NeverEase
  BY <1>11, <1>12 DEF HideColumn, NeverEase, Keys, ElseKeys
<1>13. ASSUME NEW k \in TextKeys, Confirm(k)  PROVE BaseInv'
  <2>1. TasksInv'
    BY <1>13, ShortLists DEF Confirm, Keys
  <2> QED
    BY <1>13, <2>1 DEF Confirm, Idle, lasting, effects, ShapeInv, OffInv, ProcInv
<1>14. ASSUME NEW k \in TextKeys, NEW text \in Typed, Type(k, text)  PROVE BaseInv'
  <2>1. DOMAIN fields' = DOMAIN fields
    BY <1>14 DEF Type
  <2> QED
    BY <1>14, <2>1 DEF Type, Idle, lasting, effects, history, ShapeInv, TasksInv, OffInv, ProcInv
<1>15. ASSUME NEW p \in {"cpu", "apps", "settings"}, Go(p)  PROVE BaseInv'
  <2>1. TasksInv'
    <3>1. tasks' = Commits \/ tasks' = tasks
      BY <1>15 DEF Go
    <3> QED  BY <3>1, ShortLists DEF TasksInv
  <2>2. DOMAIN fields' \in {{}, TextKeys}
    BY <1>15 DEF Go, ProcInv
  <2>3. proc # "off" /\ proc' = proc /\ settings' = settings
    BY <1>15 DEF Go, Idle
  <2> QED
    BY <1>15, <2>1, <2>2, <2>3 DEF Go, effects, ShapeInv, OffInv, ProcInv
<1>16. CASE Close
  <2>1. TasksInv'
    BY <1>16, ShortLists DEF Close
  <2> QED
    BY <1>16, <2>1 DEF Close, Idle, effects, ShapeInv, OffInv, ProcInv
<1>17. CASE Kill
  BY <1>17, GoneOff DEF Kill, ShapeInv
<1>18. CASE PowerLoss
  BY <1>18, GoneOff DEF PowerLoss, ShapeInv
<1>19. ASSUME NEW b \in Builds, Start(b)  PROVE BaseInv'
  <2>1. TasksInv'
    BY <1>19, ShortLists DEF Start
  <2>2. proc' = b /\ b # "off"
    BY <1>19 DEF Start, Builds
  <2>3. DOMAIN settings' = Known(b)
    BY <1>19 DEF Start, Load
  <2> QED
    BY <1>19, <2>1, <2>2, <2>3 DEF Start, effects, ShapeInv, OffInv, ProcInv
<1>21. CASE WriteBack
  BY <1>21 DEF WriteBack, running, effects, ShapeInv, TasksInv, OffInv, ProcInv
<1>20. CASE UNCHANGED vars
  BY <1>20 DEF vars, lasting, running, effects, history, ShapeInv, TasksInv, OffInv, ProcInv
<1> QED
  BY <1>1, <1>2, <1>3, <1>4, <1>5, <1>6, <1>7, <1>8, <1>9, <1>10, <1>12, <1>13, <1>14,
     <1>15, <1>16, <1>17, <1>18, <1>19, <1>20, <1>21 DEF Next

----------------------------------------------------------------------------
(* What is in effect. *)

ApplyIsNext == tasks # <<>> /\ Head(tasks).do = "apply"

\* A choice of theme as it is remembered: those that follow the desktop are one.
Norm(t) == IF Following(t) THEN "follow" ELSE t

\* What the window, the collectors and the client were last told is what is set.
Told ==
    /\ applied.theme = Norm(settings["theme"]) /\ applied.glass = Glass(settings)
    /\ live.every = settings["refresh"]
    /\ proc = "full" => live.model = settings["model"]
                        /\ (live.ai <=> settings["ai"] = "on")

\* What was last applied is what is shown, and it is what is set unless that is
\* applied next. The colours are those of the desktop as it is now.
EffectInv ==
    proc # "off" =>
        /\ live.glass = applied.glass
        /\ applied.theme = "none" => ApplyIsNext
        /\ applied.theme # "none" =>
            /\ live.scheme = Scheme(applied.theme)
            /\ live.css = CSS(applied.theme, IsDark(live.scheme), desktop.accent)
        /\ ~ApplyIsNext => Told

\* A theme that follows the desktop is shown as any other that does.
LEMMA NormIsShown ==
    /\ \A t : Scheme(Norm(t)) = Scheme(t) /\ Norm(t) # "none"
    /\ \A t, dark, accent : CSS(Norm(t), dark, accent) = CSS(t, dark, accent)
BY DEF Norm, Scheme, CSS, Following

\* Nothing of it is touched, and of what is set nothing it depends on.
LEMMA EffectStands ==
    ASSUME EffectInv, proc # "off", proc' = proc, live' = live, applied' = applied,
           desktop' = desktop,
           \/ ApplyIsNext'
           \/ /\ ~ApplyIsNext /\ ~ApplyIsNext'
              /\ settings'["theme"] = settings["theme"]
              /\ settings'["glass"] = settings["glass"]
              /\ settings'["frame"] = settings["frame"]
              /\ settings'["refresh"] = settings["refresh"]
              /\ proc = "full" => settings'["model"] = settings["model"]
                                  /\ settings'["ai"] = settings["ai"]
    PROVE  EffectInv'
<1>1. CASE ApplyIsNext'
  BY <1>1 DEF EffectInv, IsDark
<1>2. CASE ~ApplyIsNext'
  <2>1. Glass(settings)' = Glass(settings)
    BY <1>2 DEF Glass
  <2>2. Told'
    BY <1>2, <2>1 DEF EffectInv, Told
  <2> QED  BY <1>2, <2>2 DEF EffectInv, IsDark
<1> QED  BY <1>1, <1>2

\* Nothing of what is set that shows, nor of what shows it.
LEMMA EffectSame ==
    ASSUME EffectInv, proc # "off", proc' = proc, live' = live, applied' = applied,
           desktop' = desktop, settings' = settings, tasks' = tasks
    PROVE  EffectInv'
BY EffectStands DEF ApplyIsNext

\* What is applied comes first or is not there.
LEMMA AppliesFirst ==
    ASSUME TasksInv
    PROVE  /\ tasks # <<>> /\ Head(tasks).do # "apply" /\ tasks' = Tail(tasks)
                  => ~ApplyIsNext /\ ~ApplyIsNext'
           /\ tasks # <<>> /\ tasks' = Tail(tasks) => ~ApplyIsNext'
           /\ tasks = <<>> => ~ApplyIsNext
           /\ \A rest : rest \in Seq(Tasks) /\ tasks' = <<Apply>> \o rest => ApplyIsNext'
<1>1. ASSUME tasks # <<>>, tasks' = Tail(tasks)  PROVE ~ApplyIsNext'
  <2>1. /\ Tail(tasks) \in Seq(Tasks) /\ Len(Tail(tasks)) = Len(tasks) - 1
        /\ \A i \in 1 .. Len(tasks) - 1 : Tail(tasks)[i] = tasks[i + 1]
        /\ Len(tasks) \in Nat
    BY <1>1, Rest DEF TasksInv
  <2>2. CASE Tail(tasks) = <<>>
    BY <1>1, <2>2 DEF ApplyIsNext
  <2>3. CASE Tail(tasks) # <<>>
    <3>1. Head(Tail(tasks)) = Tail(tasks)[1] /\ Len(Tail(tasks)) >= 1
      BY <2>1, <2>3, Rest
    <3>2. Tail(tasks)[1] = tasks[2] /\ 2 \in 2 .. Len(tasks)
      BY <2>1, <3>1
    <3> QED  BY <1>1, <3>1, <3>2 DEF ApplyIsNext, TasksInv
  <2> QED  BY <2>2, <2>3
<1>2. \A rest : rest \in Seq(Tasks) /\ tasks' = <<Apply>> \o rest => ApplyIsNext'
  <2> SUFFICES ASSUME NEW rest \in Seq(Tasks), tasks' = <<Apply>> \o rest
               PROVE  ApplyIsNext'
    OBVIOUS
  <2>1. Apply.do = "apply"
    BY DEF Apply
  <2>2. tasks' \in Seq(Tasks) /\ tasks' # <<>> /\ tasks'[1] = Apply
    BY TaskKinds
  <2>3. Head(tasks') = Apply
    BY <2>2, Rest
  <2> QED  BY <2>1, <2>2, <2>3 DEF ApplyIsNext
<1> QED  BY <1>1, <1>2 DEF ApplyIsNext

LEMMA AppliesAlone == (tasks' = <<Apply>>) => ApplyIsNext'
BY DEF ApplyIsNext, Apply

\* One of the user's choices of what does not show by itself.
LEMMA ChoiceAside ==
    ASSUME BaseInv, EffectInv, proc # "off", proc' = proc, live' = live, applied' = applied,
           desktop' = desktop, NEW k \in {"columns", "never", "view"}, NEW v,
           settings' = [settings EXCEPT ![k] = v],
           ApplyIsNext' \/ (~ApplyIsNext /\ ~ApplyIsNext')
    PROVE  EffectInv'
<1>1. DOMAIN settings = Known(proc) /\ proc \in Builds
  BY DEF BaseInv, ProcInv
<1>2. {"theme", "glass", "frame", "refresh"} \subseteq DOMAIN settings
  BY <1>1 DEF Known, Keys, TextKeys, ChoiceKeys
<1>3. proc = "full" => {"model", "ai"} \subseteq DOMAIN settings
  BY <1>1 DEF Known, Keys, TextKeys, ChoiceKeys
<1> QED  BY <1>2, <1>3, EffectStands

LEMMA EffectNext ==
    ASSUME "compositor" \notin Permitted, BaseInv, EffectInv, [Next]_vars
    PROVE  EffectInv'
<1>0. TasksInv /\ OffInv /\ ProcInv /\ ShapeInv
  BY DEF BaseInv
<1>1. CASE SyncTmp
  BY <1>0, <1>1, EffectSame DEF SyncTmp, effects, OffInv, NotSaving
<1>2. CASE RenameTmp
  BY <1>0, <1>2, EffectSame DEF RenameTmp, effects, OffInv, NotSaving
<1>3. CASE SaveFails
  BY <1>0, <1>3, EffectSame DEF SaveFails, effects, OffInv, NotSaving
<1>4. CASE ApplyTask
  <2>1. proc # "off" /\ proc' = proc /\ settings' = settings /\ desktop' = desktop
    BY <1>0, <1>4 DEF ApplyTask, OffInv
  <2>2. ~ApplyIsNext'
    BY <1>0, <1>4, AppliesFirst DEF ApplyTask
  <2> DEFINE t == Norm(settings["theme"])
  <2>3. applied'.theme = t /\ applied'.glass = Glass(settings)
    BY <1>4 DEF ApplyTask, Applied, ApplyTheme, Norm
  <2>4. t # "none" /\ Scheme(t) = Scheme(settings["theme"])
    BY NormIsShown
  <2>5. live'.glass = Glass(settings)
    BY <1>4, <2>1 DEF ApplyTask, Applied, EffectInv
  <2>6. live'.scheme = Scheme(t) /\ live'.css = CSS(t, IsDark(Scheme(t)), desktop.accent)
    <3>1. CASE t = applied.theme
      <4>1. live'.scheme = live.scheme /\ live'.css = live.css
        BY <1>4, <3>1 DEF ApplyTask, Applied, ApplyTheme, Norm
      <4> QED  BY <2>1, <2>4, <3>1, <4>1 DEF EffectInv
    <3>2. CASE t # applied.theme
      BY <1>4, <3>2 DEF ApplyTask, Applied, ApplyTheme, Norm
    <3> QED  BY <3>1, <3>2
  <2>7. /\ live'.every = settings["refresh"]
        /\ proc = "full" => live'.model = settings["model"]
                            /\ (live'.ai <=> settings["ai"] = "on")
    BY <1>4 DEF ApplyTask, Applied
  <2>8. Glass(settings)' = Glass(settings)
    BY <2>1 DEF Glass
  <2>9. Told'
    BY <2>1, <2>3, <2>7, <2>8 DEF Told
  <2>10. IsDark(live.scheme)' = IsDark(Scheme(t))
    BY <2>1, <2>6 DEF IsDark
  <2> HIDE DEF t
  <2> QED  BY <2>1, <2>3, <2>4, <2>5, <2>6, <2>8, <2>9, <2>10 DEF EffectInv
<1>5. CASE CommitTask
  <2>1. proc # "off" /\ proc' = proc /\ live' = live /\ applied' = applied
        /\ desktop' = desktop
    BY <1>0, <1>5 DEF CommitTask, OffInv, effects
  <2>2. tasks # <<>> /\ Head(tasks).do = "commit" /\ Tail(tasks) \in Seq(Tasks)
    BY <1>0, <1>5, Rest DEF CommitTask, TasksInv
  <2>3. CASE tasks' = Tail(tasks) /\ settings' = settings
    <3>1. ~ApplyIsNext /\ ~ApplyIsNext'
      BY <1>0, <2>2, <2>3, AppliesFirst
    <3> QED  BY <2>1, <2>3, <3>1, EffectStands
  <2>4. CASE tasks' = <<Apply>> \o Tail(tasks)
    <3>1. ApplyIsNext'
      BY <1>0, <2>2, <2>4, AppliesFirst
    <3> QED  BY <2>1, <3>1, EffectStands
  <2> QED  BY <1>5, <2>3, <2>4 DEF CommitTask
<1>6. CASE ViewTask
  <2>1. proc # "off" /\ proc' = proc /\ live' = live /\ applied' = applied
        /\ desktop' = desktop
    BY <1>0, <1>6 DEF ViewTask, OffInv, effects
  <2>2. ~ApplyIsNext /\ ~ApplyIsNext'
    BY <1>0, <1>6, AppliesFirst DEF ViewTask
  <2> QED  BY <1>6, <2>1, <2>2, ChoiceAside DEF ViewTask
<1>7. CASE Gone
  BY <1>7 DEF Gone, EffectInv
<1>8. CASE DesktopChanges
  <2>0. SUFFICES ASSUME proc # "off"  PROVE EffectInv'
    BY <1>8 DEF DesktopChanges, EffectInv
  <2>1. /\ proc' = proc /\ settings' = settings /\ tasks' = tasks /\ applied' = applied
        /\ tasks = <<>>
    BY <1>8 DEF DesktopChanges, running
  <2>2. PICK dark, accent \in BOOLEAN :
            /\ desktop' = [desktop EXCEPT !.dark = dark, !.accent = accent]
            /\ Reload(dark, accent)
    BY <1>8, <2>0 DEF DesktopChanges
  <2>3. desktop'.dark = dark /\ desktop'.accent = accent
        /\ desktop'.composited = desktop.composited
    BY <1>0, <2>2 DEF ShapeInv
  <2>4. ~ApplyIsNext /\ ~ApplyIsNext'
    BY <2>1 DEF ApplyIsNext
  <2>5. Told /\ applied.theme # "none" /\ live.scheme = Scheme(applied.theme)
        /\ live.glass = applied.glass
    BY <2>0, <2>4 DEF EffectInv
  <2>6. /\ live'.scheme = live.scheme /\ live'.glass = live.glass /\ live'.every = live.every
        /\ live'.model = live.model /\ live'.ai = live.ai
        /\ live'.css = CSS(settings["theme"], IF live.scheme = "default" THEN dark
                                              ELSE live.scheme = "force-dark", accent)
    BY <1>0, <2>2 DEF ShapeInv, Reload
  <2>7. Glass(settings)' = Glass(settings)
    BY <2>1, <2>3 DEF Glass
  <2>8. Told'
    BY <2>1, <2>5, <2>6, <2>7 DEF Told
  <2>9. IsDark(live.scheme)' = IF live.scheme = "default" THEN dark
                               ELSE live.scheme = "force-dark"
    BY <2>3, <2>6 DEF IsDark
  <2>10. live'.css = CSS(applied.theme, IsDark(live.scheme)', accent)
    BY <2>5, <2>6, <2>9, NormIsShown DEF Told
  <2> QED  BY <2>1, <2>3, <2>4, <2>5, <2>6, <2>8, <2>10 DEF EffectInv
<1>9. CASE Compositor
  BY <1>9 DEF Compositor, running, EffectInv
<1>10. ASSUME NEW k \in ChoiceKeys, NEW v \in Offered(k), Choose(k, v)  PROVE EffectInv'
  <2>1. proc # "off" /\ proc' = proc /\ live' = live /\ applied' = applied
        /\ desktop' = desktop
    BY <1>10 DEF Choose, Idle, effects
  <2> QED  BY <1>10, <2>1, AppliesAlone, EffectStands DEF Choose
<1>11. ASSUME NEW k \in {"columns", "never"}, NEW v \in Offered(k), ChooseElsewhere(k, v)
       PROVE EffectInv'
  <2>1. proc # "off" /\ proc' = proc /\ live' = live /\ applied' = applied
        /\ desktop' = desktop /\ tasks' = tasks /\ tasks = <<>>
    BY <1>11 DEF ChooseElsewhere, Idle, effects
  <2>2. ~ApplyIsNext /\ ~ApplyIsNext'
    BY <2>1 DEF ApplyIsNext
  <2>3. settings' = [settings EXCEPT ![k] = v]
    BY <1>11 DEF ChooseElsewhere
  <2> QED  BY <2>1, <2>2, <2>3, ChoiceAside
<1>12. CASE HideColumn \/ NeverEase
  BY <1>11, <1>12 DEF HideColumn, NeverEase
<1>13. ASSUME NEW k \in TextKeys, Confirm(k)  PROVE EffectInv'
  <2>1. ~ApplyIsNext /\ ~ApplyIsNext'
    BY <1>13 DEF Confirm, Idle, ApplyIsNext, Commit
  <2> QED  BY <1>13, <2>1, EffectStands DEF Confirm, Idle, effects
<1>14. ASSUME NEW k \in TextKeys, NEW text \in Typed, Type(k, text)  PROVE EffectInv'
  BY <1>14, EffectSame DEF Type, Idle, effects
<1>15. ASSUME NEW p \in {"cpu", "apps", "settings"}, Go(p)  PROVE EffectInv'
  <2>1. tasks = <<>> /\ (tasks' = Commits \/ tasks' = tasks)
    BY <1>15 DEF Go, Idle
  <2>2. ~ApplyIsNext /\ ~ApplyIsNext'
    BY <2>1 DEF ApplyIsNext, Commits, Commit
  <2> QED  BY <1>15, <2>2, EffectStands DEF Go, Idle, effects
<1>16. CASE Close
  <2>1. tasks = <<>> /\ tasks' = Commits \o <<Task("view"), Task("quit")>>
    BY <1>16 DEF Close, Idle
  <2>2. ~ApplyIsNext
    BY <2>1 DEF ApplyIsNext
  <2>3. ~ApplyIsNext'
    <3> DEFINE all == Commits \o <<Task("view"), Task("quit")>>
    <3>1. all \in Seq(Tasks) /\ \A i \in 1 .. Len(all) : all[i].do # "apply"
      BY CloseTasks
    <3> HIDE DEF all
    <3>2. CASE all = <<>>
      BY <2>1, <3>2 DEF all, ApplyIsNext
    <3>3. CASE all # <<>>
      <4>1. Head(all) = all[1] /\ 1 \in 1 .. Len(all)
        BY <3>1, <3>3, Rest
      <4>2. Head(all).do # "apply"
        BY <3>1, <4>1
      <4>3. tasks' = all
        BY <2>1 DEF all
      <4> QED  BY <4>2, <4>3 DEF ApplyIsNext
    <3> QED  BY <3>2, <3>3
  <2> QED  BY <1>16, <2>2, <2>3, EffectStands DEF Close, Idle, effects
<1>17. ASSUME NEW b \in Builds, Start(b)  PROVE EffectInv'
  <2>1. live = Nothing /\ applied = Unthemed
    BY <1>0, <1>17 DEF Start, OffInv
  <2>2. live' = live /\ applied' = applied /\ ApplyIsNext'
    BY <1>17, AppliesAlone DEF Start, effects
  <2> QED  BY <2>1, <2>2 DEF EffectInv, Nothing, Unthemed
<1>20. CASE WriteBack
  <2>1. proc = "off" => EffectInv'
    BY <1>20 DEF WriteBack, EffectInv
  <2> QED  BY <1>20, <2>1, EffectSame DEF WriteBack, running, effects
<1>18. CASE UNCHANGED vars
  <2>1. proc = "off" => EffectInv'
    BY <1>18 DEF vars, EffectInv
  <2> QED  BY <1>18, <2>1, EffectSame DEF vars, running, effects
<1>19. QuitTask \/ Kill \/ PowerLoss => Gone
  BY DEF QuitTask, Kill, PowerLoss
<1> QED
  BY <1>1, <1>2, <1>3, <1>4, <1>5, <1>6, <1>7, <1>8, <1>9, <1>10, <1>12, <1>13, <1>14,
     <1>15, <1>16, <1>17, <1>18, <1>19, <1>20 DEF Next

LEMMA EffectIsShown == ASSUME TasksInv, EffectInv PROVE EffectIsChoice
<1> SUFFICES ASSUME proc # "off", tasks = <<>>
             PROVE  /\ live.scheme = Scheme(settings["theme"])
                    /\ live.css = CSS(settings["theme"], IsDark(live.scheme), desktop.accent)
                    /\ live.glass = Glass(settings)
                    /\ live.every = settings["refresh"]
                    /\ proc = "full" => live.model = settings["model"]
                                        /\ (live.ai <=> settings["ai"] = "on")
  BY DEF EffectIsChoice
<1>1. ~ApplyIsNext
  BY DEF ApplyIsNext
<1> QED  BY <1>1, NormIsShown DEF EffectInv, Told

\* Between two callbacks what is in effect is what is chosen, for every order in which the
\* user, the desktop, the other build and the end of a process come. Without a desktop that
\* stops or starts compositing under Atlas, which nothing tells it of: transparency is put
\* in effect again with the next choice.
THEOREM EffectShown ==
    "compositor" \notin Permitted /\ Spec => []EffectIsChoice
<1> SUFFICES ASSUME "compositor" \notin Permitted  PROVE Spec => []EffectIsChoice
  OBVIOUS
<1>1. Init => BaseInv /\ EffectInv
  BY BaseInit DEF Init, EffectInv
<1>2. BaseInv /\ EffectInv /\ [Next]_vars => (BaseInv /\ EffectInv)'
  BY BaseNext, EffectNext
<1>3. BaseInv /\ EffectInv => EffectIsChoice
  BY EffectIsShown DEF BaseInv
<1> QED  BY <1>1, <1>2, <1>3, PTL DEF Spec

----------------------------------------------------------------------------
(* What is found of it later. *)

\* What a process that starts now makes of a setting.
FileSays(k) ==
    IF k = "columns" /\ file.legacy THEN "all shown"
    ELSE IF k \in DOMAIN file.keys THEN Normalize(k, file.keys[k])
    ELSE Defaults[k]

\* The setting, as it will be read again.
Reads(k) == Normalize(k, settings[k])

Todo(t) == \E i \in 1 .. Len(tasks) : tasks[i] = t

\* A choice that has been made and is not set yet.
Underway(k) == \/ k \in Pending /\ Todo(Commit(k))
               \/ k = "view" /\ Todo(Task("view"))

\* The process ends last, and what is to be committed is a field's.
TodoInv ==
    /\ \A i \in 1 .. Len(tasks) : tasks[i].do = "commit" => tasks[i].key \in DOMAIN fields
    /\ \A i \in 1 .. Len(tasks) : tasks[i].do # "commit" => tasks[i].key = "view"
    /\ \A i \in 1 .. Len(tasks) : tasks[i].do = "quit" => i = Len(tasks)

\* The file says of each setting what was chosen, or what may be found.
FileInv ==
    /\ DOMAIN chosen = Keys /\ DOMAIN before = Keys
    /\ flushed /\ ~file.legacy
    /\ \A k \in Keys : FileSays(k) \in before[k] \cup {chosen[k]}

\* What is being written is the settings, on top of what only the other build knows.
SaveInv ==
    /\ DOMAIN saving = {"stage", "new"}
    /\ saving.stage # "none" =>
           saving.new.keys = Over(settings, file.keys) /\ ~saving.new.legacy

\* A field has applied what is set.
FieldsInv ==
    /\ DOMAIN fields # {} => proc = "full"
    /\ \A k \in DOMAIN fields : DOMAIN fields[k] = {"shown", "applied"}
    /\ \A k \in DOMAIN fields : settings[k] = fields[k].applied

\* What is chosen is what is set, or will be once it is committed.
ChosenInv ==
    proc # "off" =>
        /\ page \in {"cpu", "apps", "settings"} /\ settings["view"] \in Offered("view")
        /\ \A k \in Known(proc) :
              \/ Reads(k) = chosen[k]
              \/ Underway(k) /\ Reads(k) \in before[k] \cup {chosen[k]}
        /\ \A k \in Pending : Todo(Commit(k)) => Normalize(k, fields[k].shown) = chosen[k]
        /\ Todo(Task("view")) => chosen["view"] = LastPage

\* Unless the last save failed, the file has what is set.
SavedInv ==
    (proc # "off" /\ saving.stage = "none" /\ ~failed) =>
        \A k \in Known(proc) : FileSays(k) = Reads(k)

SurviveInv == TodoInv /\ FileInv /\ SaveInv /\ FieldsInv /\ ChosenInv /\ SavedInv

\* What a process would make of a setting, if the power went now.
DiskSays(k) == IF k \in DOMAIN disk.keys THEN Normalize(k, disk.keys[k]) ELSE Defaults[k]

\* The file the disk has is one there was when its directory last reached it.
DiskInv ==
    /\ DOMAIN durable = Keys /\ ~disk.legacy
    /\ \A k \in Keys : DiskSays(k) \in durable[k]

\* A corrected value is one of those offered, and stays when it is corrected again. An
\* emptied field is corrected to what it is applied as.
LEMMA Corrected ==
    ASSUME NEW k \in Keys
    PROVE  /\ Defaults[k] \in Offered(k)
           /\ \A v : Normalize(k, v) \in Offered(k)
           /\ \A v \in Offered(k) : Normalize(k, v) = v
           /\ k \in TextKeys => \A v : Normalize(k, Kept(k, v)) = Normalize(k, v)
<1>1. Defaults[k] \in Offered(k)
  BY DEF Offered
<1>2. k \in TextKeys => Defaults[k] = "built-in" /\ Others[k] = {"own"}
  BY DEF Defaults, Others, TextKeys, Keys
<1>3. k \in TextKeys => \A v : Normalize(k, Kept(k, v)) = Normalize(k, v)
  BY <1>2 DEF Normalize, Kept, Offered
<1> QED  BY <1>1, <1>3 DEF Normalize

LEMMA FileOffers == ASSUME ~file.legacy, NEW k \in Keys PROVE FileSays(k) \in Offered(k)
BY Corrected DEF FileSays

LEMMA KnownKeys ==
    /\ \A b \in Builds : Known(b) \subseteq Keys /\ "view" \in Known(b)
                         /\ {"columns", "never"} \subseteq Known(b)
    /\ Known("full") = Keys
    /\ TextKeys \subseteq Keys /\ "view" \in Keys /\ "view" \notin TextKeys
    /\ {"columns", "never"} \subseteq Keys /\ "columns" \notin TextKeys /\ "never" \notin TextKeys
    /\ ChoiceKeys \cap TextKeys = {} /\ "view" \notin ChoiceKeys
BY DEF Known, Builds, Keys, TextKeys, ChoiceKeys, ElseKeys

\* A task is what it does, and to what.
LEMMA TaskIs ==
    /\ \A t \in Tasks : t.do = "commit" => t = Commit(t.key)
    /\ \A t \in Tasks : t.do # "commit" /\ t.key = "view" => t = Task(t.do)
    /\ \A k : Commit(k).do = "commit" /\ Commit(k).key = k /\ Commit(k) # Apply
              /\ Commit(k) # Task("view") /\ Commit(k) # Task("quit")
    /\ \A w : Task(w).do = w /\ Task(w).key = "view"
    /\ Task("view") # Apply /\ Apply.do = "apply" /\ Apply.key = "view"
BY DEF Tasks, Commit, Task, Apply

\* The rest of the list is what is still to do.
LEMMA TodoLess ==
    ASSUME TasksInv, tasks # <<>>, tasks' = Tail(tasks)
    PROVE  /\ \A t : Todo(t)' => Todo(t)
           /\ \A t : Todo(t) /\ t # Head(tasks) => Todo(t)'
           /\ Todo(Head(tasks))
           /\ TodoInv /\ DOMAIN fields' = DOMAIN fields => TodoInv'
<1>1. /\ Head(tasks) = tasks[1]
      /\ Tail(tasks) \in Seq(Tasks) /\ Len(Tail(tasks)) = Len(tasks) - 1
      /\ \A i \in 1 .. Len(tasks) - 1 : Tail(tasks)[i] = tasks[i + 1]
      /\ Len(tasks) \in Nat /\ Len(tasks) >= 1
  BY Rest DEF TasksInv
<1>2. \A i \in 1 .. Len(tasks') : i + 1 \in 1 .. Len(tasks) /\ tasks'[i] = tasks[i + 1]
  BY <1>1
<1>3. \A i \in 1 .. Len(tasks) : i # 1 => i - 1 \in 1 .. Len(tasks') /\ tasks'[i - 1] = tasks[i]
  BY <1>1
<1>4. ASSUME TodoInv, DOMAIN fields' = DOMAIN fields  PROVE TodoInv'
  <2>1. \A i \in 1 .. Len(tasks') : tasks'[i].do = "commit" => tasks'[i].key \in DOMAIN fields'
    BY <1>2, <1>4 DEF TodoInv
  <2>2. \A i \in 1 .. Len(tasks') : tasks'[i].do # "commit" => tasks'[i].key = "view"
    BY <1>2, <1>4 DEF TodoInv
  <2>3. \A i \in 1 .. Len(tasks') : tasks'[i].do = "quit" => i + 1 = Len(tasks)
    BY <1>2, <1>4 DEF TodoInv
  <2>4. \A i \in 1 .. Len(tasks') : tasks'[i].do = "quit" => i = Len(tasks')
    <3>1. Len(tasks') = Len(tasks) - 1 /\ Len(tasks) \in Nat
      BY <1>1
    <3>2. ASSUME NEW n \in Nat, NEW m, m = n - 1, NEW i \in 1 .. m, i + 1 = n  PROVE i = m
      BY <3>2
    <3>3. \A i \in 1 .. Len(tasks') : i + 1 = Len(tasks) => i = Len(tasks')
      BY <3>1, <3>2, Zenon
    <3> QED  BY <2>3, <3>3
  <2> QED  BY <2>1, <2>2, <2>4 DEF TodoInv
<1>5. \A t : Todo(t)' => Todo(t)
  BY <1>2 DEF Todo
<1>6. \A t : Todo(t) /\ t # Head(tasks) => Todo(t)'
  BY <1>1, <1>3 DEF Todo
<1>7. Todo(Head(tasks))
  BY <1>1 DEF Todo
<1> QED  BY <1>4, <1>5, <1>6, <1>7

\* What applies comes before the rest of the list.
LEMMA TodoMore ==
    ASSUME TasksInv, tasks # <<>>, tasks' = <<Apply>> \o Tail(tasks)
    PROVE  /\ \A t : Todo(t)' /\ t # Apply => Todo(t)
           /\ \A t : Todo(t) /\ t # Head(tasks) => Todo(t)'
           /\ TodoInv /\ DOMAIN fields' = DOMAIN fields => TodoInv'
<1>1. /\ Head(tasks) = tasks[1]
      /\ Tail(tasks) \in Seq(Tasks) /\ Len(Tail(tasks)) = Len(tasks) - 1
      /\ \A i \in 1 .. Len(tasks) - 1 : Tail(tasks)[i] = tasks[i + 1]
      /\ Len(tasks) \in Nat /\ Len(tasks) >= 1
  BY Rest DEF TasksInv
<1>2. Len(tasks') = Len(tasks) /\ tasks'[1] = Apply
  BY <1>1, TaskKinds
<1>3. \A i \in 2 .. Len(tasks) : tasks'[i] = Tail(tasks)[i - 1] /\ i - 1 \in 1 .. Len(tasks) - 1
  BY <1>1, TaskKinds
<1>4. \A i \in 2 .. Len(tasks) : tasks'[i] = tasks[i]
  BY <1>1, <1>3
<1>5. \A i \in 1 .. Len(tasks) : i = 1 \/ i \in 2 .. Len(tasks)
  BY <1>1
<1>6. ASSUME TodoInv, DOMAIN fields' = DOMAIN fields  PROVE TodoInv'
  <2> SUFFICES ASSUME NEW i \in 1 .. Len(tasks')
               PROVE  /\ tasks'[i].do = "commit" => tasks'[i].key \in DOMAIN fields'
                      /\ tasks'[i].do # "commit" => tasks'[i].key = "view"
                      /\ tasks'[i].do = "quit" => i = Len(tasks')
    BY DEF TodoInv
  <2>1. CASE i = 1
    BY <1>2, <2>1, TaskIs
  <2>2. CASE i \in 2 .. Len(tasks)
    BY <1>2, <1>4, <1>6, <2>2 DEF TodoInv
  <2>3. i = 1 \/ i \in 2 .. Len(tasks)
    BY ONLY <1>2, <1>5, i \in 1 .. Len(tasks')
  <2> QED  BY ONLY <2>1, <2>2, <2>3
<1>7. \A t : Todo(t)' /\ t # Apply => Todo(t)
  BY ONLY <1>2, <1>4, <1>5 DEF Todo
<1>8. \A t : Todo(t) /\ t # Head(tasks) => Todo(t)'
  BY ONLY <1>1, <1>2, <1>4, <1>5 DEF Todo
<1> QED  BY <1>6, <1>7, <1>8

\* The lists a callback begins with.
LEMMA TodoShort ==
    /\ (tasks' = <<>>) => TodoInv' /\ \A t : ~Todo(t)'
    /\ (tasks' = <<Apply>>) => TodoInv' /\ \A t : t # Apply => ~Todo(t)'
    /\ \A k : (tasks' = <<Commit(k)>>) =>
           /\ k \in DOMAIN fields' => TodoInv'
           /\ \A t : Todo(t)' <=> t = Commit(k)
<1>1. ASSUME NEW a, tasks' = <<a>>  PROVE Len(tasks') = 1 /\ tasks'[1] = a
  BY <1>1
<1>2. (tasks' = <<Apply>>) => TodoInv' /\ \A t : t # Apply => ~Todo(t)'
  BY <1>1, TaskIs DEF TodoInv, Todo
<1>3. \A k : (tasks' = <<Commit(k)>>) =>
           /\ k \in DOMAIN fields' => TodoInv'
           /\ \A t : Todo(t)' <=> t = Commit(k)
  BY <1>1, TaskIs DEF TodoInv, Todo
<1>4. (tasks' = <<>>) => TodoInv' /\ \A t : ~Todo(t)'
  BY DEF TodoInv, Todo
<1> QED  BY <1>2, <1>3, <1>4

\* Leaving the page commits its fields; closing the window then saves the view and quits.
LEMMA TodoCommits ==
    ASSUME DOMAIN fields \in {{}, TextKeys}, fields' = fields
    PROVE  /\ (tasks' = Commits) => /\ TodoInv'
                                    /\ \A k \in DOMAIN fields : Todo(Commit(k))'
                                    /\ ~Todo(Task("view"))'
           /\ (tasks' = Commits \o <<Task("view"), Task("quit")>>) =>
                  /\ TodoInv'
                  /\ \A k \in DOMAIN fields : Todo(Commit(k))'
                  /\ Todo(Task("view"))'
<1> DEFINE cm == Commit("model")
           cp == Commit("prompt")
           tv == Task("view")
           tq == Task("quit")
<1>1. /\ cm.do = "commit" /\ cp.do = "commit" /\ tv.do = "view" /\ tq.do = "quit"
      /\ cm.key = "model" /\ cp.key = "prompt" /\ tv.key = "view" /\ tq.key = "view"
      /\ cm # tv /\ cp # tv
  BY DEF Commit, Task
<1>2. CASE DOMAIN fields = {}
  <2>1. Commits = <<>>
    BY <1>2 DEF Commits, Built
  <2>2. (tasks' = Commits) => TodoInv' /\ ~Todo(tv)'
    BY <2>1, TodoShort
  <2> HIDE DEF tv, tq
  <2>3. ASSUME tasks' = <<>> \o <<tv, tq>>
        PROVE  TodoInv' /\ Todo(tv)'
    <3>1. Len(tasks') = 2 /\ tasks'[1] = tv /\ tasks'[2] = tq
      BY <2>3
    <3> QED  BY <1>1, <3>1 DEF TodoInv, Todo
  <2> QED  BY <1>2, <2>1, <2>2, <2>3 DEF tv, tq
<1>3. CASE DOMAIN fields = TextKeys
  <2>1. Commits = <<cm, cp>>
    BY <1>3 DEF Commits, Built, TextKeys
  <2>2. DOMAIN fields = {"model", "prompt"}
    BY <1>3 DEF TextKeys
  <2> HIDE DEF tv, tq, cm, cp
  <2>3. ASSUME tasks' = <<cm, cp>>
        PROVE  TodoInv' /\ Todo(cm)' /\ Todo(cp)' /\ ~Todo(tv)'
    <3>1. Len(tasks') = 2 /\ tasks'[1] = cm /\ tasks'[2] = cp
      BY <2>3
    <3> QED  BY <1>1, <2>2, <3>1 DEF TodoInv, Todo
  <2>4. ASSUME tasks' = <<cm, cp>> \o <<tv, tq>>
        PROVE  TodoInv' /\ Todo(cm)' /\ Todo(cp)' /\ Todo(tv)'
    <3>1. /\ Len(tasks') = 4 /\ tasks'[1] = cm /\ tasks'[2] = cp /\ tasks'[3] = tv
          /\ tasks'[4] = tq
      BY <2>4
    <3> QED  BY <1>1, <2>2, <3>1 DEF TodoInv, Todo
  <2>5. \A k \in DOMAIN fields : Commit(k) = cm \/ Commit(k) = cp
    BY <2>2 DEF cm, cp
  <2> QED  BY <2>1, <2>3, <2>4, <2>5 DEF tv, tq
<1> QED  BY <1>2, <1>3

\* Nothing under way: what is chosen is what is set.
LEMMA NothingUnderway ==
    ASSUME BaseInv, SurviveInv, proc # "off", saving.stage = "none",
           \A k : ~Todo(Commit(k)), ~Todo(Task("view"))
    PROVE  \A k \in Known(proc) : /\ Reads(k) = chosen[k]
                                  /\ FileSays(k) \in Settled[k] /\ chosen[k] \in Settled[k]
<1>1. \A k \in Known(proc) : Reads(k) = chosen[k]
  BY DEF SurviveInv, ChosenInv, Underway
<1>2. Known(proc) \subseteq Keys
  BY KnownKeys DEF BaseInv, ProcInv
<1>3. CASE failed
  BY <1>1, <1>2, <1>3 DEF Settled, SurviveInv, FileInv
<1>4. CASE ~failed
  BY <1>1, <1>2, <1>4 DEF Settled, SurviveInv, SavedInv
<1> QED  BY <1>1, <1>3, <1>4

LEMMA IdleUnderway ==
    ASSUME BaseInv, SurviveInv, Idle
    PROVE  /\ \A k : ~Todo(Commit(k))
           /\ ~Todo(Task("view"))
           /\ \A k \in Known(proc) : /\ Reads(k) = chosen[k]
                                     /\ FileSays(k) \in Settled[k] /\ chosen[k] \in Settled[k]
<1>1. \A k : ~Todo(Commit(k))
  BY DEF Todo, Idle
<1>2. ~Todo(Task("view"))
  BY DEF Todo, Idle
<1> QED  BY <1>1, <1>2, NothingUnderway DEF Idle

\* Something is begun: the file still says what may be found, whatever is chosen now.
LEMMA BegunFits ==
    ASSUME BaseInv, SurviveInv, before' = Settled, file' = file, flushed' = flushed,
           DOMAIN chosen' = Keys,
           \A k \in Keys \ Known(proc) : chosen'[k] = chosen[k],
           \A k \in Known(proc) : FileSays(k) \in Settled[k]
    PROVE  FileInv'
<1>1. DOMAIN before' = Keys
  BY DEF Settled
<1>2. \A k \in Keys : FileSays(k)' = FileSays(k)
  BY DEF FileSays
<1>3. \A k \in Keys \ Known(proc) : before'[k] = before[k]
  BY DEF Settled
<1>4. \A k \in Keys : FileSays(k)' \in before'[k] \cup {chosen'[k]}
  BY <1>2, <1>3 DEF SurviveInv, FileInv
<1> QED  BY <1>1, <1>4 DEF SurviveInv, FileInv

\* The file, what was chosen and what may be found stand.
LEMMA FileStands ==
    ASSUME FileInv, file' = file, flushed' = flushed, chosen' = chosen, before' = before
    PROVE  FileInv' /\ \A k : FileSays(k)' = FileSays(k)
BY DEF FileInv, FileSays

\* What nothing more happens to, that is chosen and set.
LEMMA ChosenStands ==
    ASSUME ChosenInv, FieldsInv, proc # "off", proc' = proc, page' = page,
           settings' = settings, fields' = fields,
           chosen' = chosen, before' = before,
           \A t : t # Apply => (Todo(t)' <=> Todo(t))
    PROVE  ChosenInv' /\ FieldsInv'
<1>1. \A k : Todo(Commit(k))' <=> Todo(Commit(k))
  BY TaskIs
<1>2. Todo(Task("view"))' <=> Todo(Task("view"))
  BY TaskIs
<1>3. \A k : Reads(k)' = Reads(k)
  BY DEF Reads
<1>4. Pending' = Pending /\ LastPage' = LastPage
  BY DEF Pending, LastPage
<1>5. \A k : Underway(k)' <=> Underway(k)
  BY <1>1, <1>2, <1>4 DEF Underway
<1>6. ChosenInv'
  BY <1>1, <1>2, <1>3, <1>4, <1>5 DEF ChosenInv
<1> QED  BY <1>6 DEF FieldsInv

LEMMA SavedStands ==
    ASSUME SavedInv, proc' = proc, settings' = settings, file' = file,
           saving' = saving, failed' = failed
    PROVE  SavedInv'
<1>1. \A k : FileSays(k)' = FileSays(k) /\ Reads(k)' = Reads(k)
  BY DEF FileSays, Reads
<1> QED  BY <1>1 DEF SavedInv

\* Nothing of it.
LEMMA SurviveSame ==
    ASSUME SurviveInv, file' = file, flushed' = flushed, proc' = proc, running' = running,
           chosen' = chosen, before' = before, failed' = failed
    PROVE  SurviveInv'
<1>1. /\ settings' = settings /\ page' = page /\ fields' = fields /\ tasks' = tasks
      /\ saving' = saving
  BY DEF running
<1>2. TodoInv' /\ SaveInv' /\ FieldsInv'
  BY <1>1 DEF SurviveInv, TodoInv, SaveInv, FieldsInv
<1>3. FileInv' /\ SavedInv'
  BY <1>1, FileStands, SavedStands DEF SurviveInv
<1>4. ChosenInv'
  <2>1. \A t : Todo(t)' <=> Todo(t)
    BY <1>1 DEF Todo
  <2>2. CASE proc # "off"
    BY <1>1, <2>1, <2>2, ChosenStands DEF SurviveInv
  <2>3. CASE proc = "off"
    BY <2>3 DEF ChosenInv
  <2> QED  BY <2>2, <2>3
<1> QED  BY <1>2, <1>3, <1>4 DEF SurviveInv

\* The process goes; what may be found then has been reckoned.
LEMMA GoneSurvives ==
    ASSUME BaseInv, SurviveInv, Gone, file' = file, flushed' = TRUE, chosen' = chosen,
           \/ before' = before
           \/ before' = Settled /\ \A k \in Known(proc) : FileSays(k) \in Settled[k]
    PROVE  SurviveInv'
<1>1. FileInv'
  <2>1. flushed' = flushed
    BY DEF SurviveInv, FileInv
  <2>2. CASE before' = before
    BY <2>1, <2>2, FileStands DEF SurviveInv
  <2>3. CASE before' = Settled /\ \A k \in Known(proc) : FileSays(k) \in Settled[k]
    <3>1. DOMAIN chosen' = Keys
      BY DEF SurviveInv, FileInv
    <3> QED  BY <2>1, <2>3, <3>1, BegunFits
  <2> QED  BY <2>2, <2>3
<1>2. TodoInv'
  BY TodoShort DEF Gone
<1>3. SaveInv' /\ FieldsInv' /\ ChosenInv' /\ SavedInv'
  BY DEF Gone, SaveInv, FieldsInv, ChosenInv, SavedInv, NotSaving
<1> QED  BY <1>1, <1>2, <1>3 DEF SurviveInv

\* A save that is done leaves what is set, and what the other build knows, as they were.
LEMMA Renamed ==
    ASSUME BaseInv, SurviveInv, RenameTmp
    PROVE  SurviveInv'
<1>1. /\ saving.stage # "none" /\ file' = saving.new /\ flushed' = TRUE
      /\ saving' = NotSaving /\ failed' = FALSE
      /\ proc' = proc /\ settings' = settings /\ page' = page /\ fields' = fields
      /\ tasks' = tasks /\ chosen' = chosen /\ before' = before
  BY DEF RenameTmp
<1>2. proc # "off" /\ proc \in Builds /\ DOMAIN settings = Known(proc)
  BY <1>1 DEF BaseInv, OffInv, ProcInv, NotSaving
<1>3. file'.keys = Over(settings, file.keys) /\ ~file'.legacy
  BY <1>1 DEF SurviveInv, SaveInv
<1>0. /\ DOMAIN file'.keys = DOMAIN settings \cup DOMAIN file.keys
      /\ \A x \in DOMAIN settings : file'.keys[x] = settings[x]
      /\ \A x \in DOMAIN file.keys \ DOMAIN settings : file'.keys[x] = file.keys[x]
  <2>1. file'.keys = Over(settings, file.keys)
    BY <1>3
  <2> QED  BY <2>1 DEF Over
<1>4. \A k \in Known(proc) : FileSays(k)' = Reads(k)
  <2>1. \A k \in Known(proc) : k \in DOMAIN file'.keys /\ file'.keys[k] = settings[k]
    BY <1>0, <1>2
  <2> QED  BY <1>3, <2>1 DEF FileSays, Reads
<1>5. \A k \in Keys \ Known(proc) : FileSays(k)' = FileSays(k)
  <2>1. ASSUME NEW k \in Keys \ Known(proc)
        PROVE  /\ k \in DOMAIN file'.keys <=> k \in DOMAIN file.keys
               /\ k \in DOMAIN file.keys => file'.keys[k] = file.keys[k]
    BY <1>0, <1>2
  <2>2. ~file.legacy
    BY DEF SurviveInv, FileInv
  <2> QED  BY <1>3, <2>1, <2>2 DEF FileSays
<1>6. \A k \in Known(proc) : Reads(k) \in before[k] \cup {chosen[k]}
  BY <1>2 DEF SurviveInv, ChosenInv
<1>7. FileInv'
  BY <1>1, <1>3, <1>4, <1>5, <1>6 DEF SurviveInv, FileInv
<1>8. \A k : Reads(k)' = Reads(k)
  BY <1>1 DEF Reads
<1>9. SavedInv'
  BY <1>1, <1>4, <1>8 DEF SavedInv
<1>10. ChosenInv' /\ FieldsInv'
  <2>1. \A t : Todo(t)' <=> Todo(t)
    BY <1>1 DEF Todo
  <2> QED  BY <1>1, <1>2, <2>1, ChosenStands DEF SurviveInv
<1>11. TodoInv' /\ SaveInv'
  BY <1>1 DEF SurviveInv, TodoInv, SaveInv, NotSaving
<1> QED  BY <1>7, <1>9, <1>10, <1>11 DEF SurviveInv

\* A setting that is being saved.
LEMMA SaveBegins ==
    ASSUME SurviveInv, Save(settings'), file' = file
    PROVE  SaveInv' /\ SavedInv'
BY DEF SurviveInv, FileInv, Save, Merged, SaveInv, SavedInv

\* One of the user's choices, on the page or elsewhere: it is set as it is chosen.
LEMMA ChoiceSurvives ==
    ASSUME BaseInv, SurviveInv, Idle, NEW k \in Known(proc) \ (TextKeys \cup {"view"}),
           NEW v \in Offered(k),
           settings' = [settings EXCEPT ![k] = v], chosen' = [chosen EXCEPT ![k] = v],
           Save(settings'), before' = Settled, file' = file, flushed' = flushed,
           proc' = proc, page' = page, fields' = fields,
           tasks' \in {<<>>, <<Apply>>}
    PROVE  SurviveInv'
<1>1. proc # "off" /\ proc \in Builds /\ DOMAIN settings = Known(proc)
  BY DEF BaseInv, ProcInv, Idle
<1>2. Known(proc) \subseteq Keys /\ "view" \in Known(proc)
  BY <1>1, KnownKeys
<1>3. \A j \in Known(proc) : Reads(j) = chosen[j] /\ FileSays(j) \in Settled[j]
  BY IdleUnderway
<1>4. DOMAIN chosen = Keys /\ DOMAIN chosen' = Keys
  BY DEF SurviveInv, FileInv
<1>5. FileInv'
  <2>1. \A j \in Keys \ Known(proc) : chosen'[j] = chosen[j]
    BY <1>2, <1>4
  <2> QED  BY <1>3, <1>4, <2>1, BegunFits
<1>6. TodoInv' /\ (\A t : t # Apply => ~Todo(t)')
  BY TodoShort
<1>7. SaveInv' /\ SavedInv'
  BY SaveBegins
<1>8. FieldsInv'
  <2>1. \A j \in DOMAIN fields : settings'[j] = settings[j]
    BY <1>1 DEF BaseInv, ProcInv
  <2> QED  BY <2>1 DEF SurviveInv, FieldsInv
<1>9. \A j \in Known(proc) : Reads(j)' = chosen'[j]
  <2>1. Reads(k)' = chosen'[k]
    BY <1>1, <1>2, <1>4, Corrected DEF Reads
  <2>2. \A j \in Known(proc) : j # k => Reads(j)' = Reads(j) /\ chosen'[j] = chosen[j]
    BY <1>1, <1>2, <1>4 DEF Reads
  <2> QED  BY <1>3, <2>1, <2>2
<1>10. (\A j : ~Todo(Commit(j))') /\ ~Todo(Task("view"))'
  BY <1>6, TaskIs
<1>11. page' \in {"cpu", "apps", "settings"} /\ settings'["view"] = settings["view"]
       /\ settings["view"] \in Offered("view")
  BY <1>1, <1>2 DEF SurviveInv, ChosenInv
<1>12. ChosenInv'
  BY <1>9, <1>10, <1>11 DEF ChosenInv
<1> QED  BY <1>5, <1>6, <1>7, <1>8, <1>12 DEF SurviveInv

\* A callback begins with a list: each of what it is to commit is chosen as it is meant,
\* and what was set so far may still be found.
LEMMA BegunSurvives ==
    ASSUME BaseInv, SurviveInv, Idle, before' = Settled, failed' = failed,
           lasting' = lasting, proc' = proc, settings' = settings, saving' = saving,
           DOMAIN chosen' = Keys, TodoInv', FieldsInv',
           \A k \in Keys \ Known(proc) : chosen'[k] = chosen[k],
           page' \in {"cpu", "apps", "settings"},
           \A k \in Known(proc) : chosen'[k] = chosen[k] \/ Underway(k)',
           \A k \in Pending' : Todo(Commit(k))' => Normalize(k, fields'[k].shown) = chosen'[k],
           Todo(Task("view"))' => chosen'["view"] = LastPage'
    PROVE  SurviveInv'
<1>1. proc # "off" /\ proc \in Builds /\ file' = file /\ flushed' = flushed
  BY DEF BaseInv, ProcInv, Idle, lasting
<1>2. \A k \in Known(proc) : Reads(k) = chosen[k] /\ FileSays(k) \in Settled[k]
                             /\ chosen[k] \in Settled[k]
  BY IdleUnderway
<1>3. FileInv'
  BY <1>1, <1>2, BegunFits
<1>4. \A k : Reads(k)' = Reads(k)
  BY DEF Reads
<1>5. ChosenInv'
  BY <1>1, <1>2, <1>4 DEF ChosenInv, SurviveInv
<1>6. SaveInv' /\ SavedInv'
  BY <1>1, SavedStands DEF SurviveInv, SaveInv
<1> QED  BY <1>3, <1>5, <1>6 DEF SurviveInv

\* A field is committed: it is set to what was meant.
LEMMA Committed ==
    ASSUME BaseInv, SurviveInv, CommitTask
    PROVE  SurviveInv'
<1>1. /\ proc # "off" /\ proc \in Builds /\ proc' = proc /\ page' = page
      /\ file' = file /\ flushed' = flushed
      /\ chosen' = chosen /\ before' = before /\ failed' = failed
      /\ saving.stage = "none" /\ tasks # <<>> /\ Head(tasks).do = "commit"
  BY DEF CommitTask, BaseInv, OffInv, ProcInv, lasting, history
<1>2. TasksInv /\ DOMAIN settings = Known(proc)
  BY <1>1 DEF BaseInv, ProcInv
<1>3. Head(tasks) = tasks[1] /\ Head(tasks) \in Tasks /\ Len(tasks) \in Nat /\ Len(tasks) >= 1
  BY <1>1, <1>2, Rest DEF TasksInv
<1>4. PICK k \in DOMAIN fields : Head(tasks).key = k /\ Head(tasks) = Commit(k)
  <2>1. 1 \in 1 .. Len(tasks)
    BY <1>3
  <2> QED  BY <1>1, <1>3, <2>1, TaskIs DEF SurviveInv, TodoInv
<1>5. k \in TextKeys /\ k \in Known(proc) /\ k \in Keys /\ k # "view"
  BY <1>4, KnownKeys DEF BaseInv, ProcInv, SurviveInv, FieldsInv
<1>6. Todo(Commit(k))
  BY <1>3, <1>4 DEF Todo
<1> DEFINE v == Kept(k, fields[k].shown)
\* What becomes of the field and the setting, in every case.
<1>7. SUFFICES ASSUME DOMAIN fields' = DOMAIN fields,
                      \A j \in DOMAIN fields : j # k => fields'[j] = fields[j],
                      \A j \in Known(proc) : j # k => settings'[j] = settings[j],
                      k \notin Pending', Reads(k)' = chosen[k],
                      settings'[k] = fields'[k].applied,
                      DOMAIN fields'[k] = {"shown", "applied"},
                      TodoInv', SaveInv', SavedInv',
                      \A j : j # k => (Todo(Commit(j))' <=> Todo(Commit(j))),
                      Todo(Task("view"))' <=> Todo(Task("view"))
               PROVE  SurviveInv'
  <2>1. Commit(k) # Apply /\ Commit(k) # Task("view") /\ Apply # Task("view")
        /\ \A j : Commit(j) # Apply /\ (j # k => Commit(j) # Commit(k))
    BY TaskIs
  <2>2. CASE fields[k].shown = fields[k].applied
    <3>1. tasks' = Tail(tasks) /\ settings' = settings /\ fields' = fields /\ saving' = saving
      BY <1>4, <2>2 DEF CommitTask
    <3>2. /\ \A t : Todo(t)' => Todo(t)
          /\ \A t : Todo(t) /\ t # Head(tasks) => Todo(t)'
          /\ TodoInv'
      BY <1>1, <1>2, <3>1, TodoLess DEF SurviveInv
    <3>3. k \notin Pending /\ k \notin Pending'
      BY <2>2, <3>1 DEF Pending
    <3>4. Reads(k) = chosen[k]
      BY <1>1, <1>5, <3>3 DEF SurviveInv, ChosenInv, Underway
    <3>5. Reads(k)' = chosen[k]
      BY <3>1, <3>4 DEF Reads
    <3>6. SaveInv' /\ SavedInv'
      BY <1>1, <3>1, SavedStands DEF SurviveInv, SaveInv
    <3>7. settings'[k] = fields'[k].applied /\ DOMAIN fields'[k] = {"shown", "applied"}
      BY <1>4, <3>1 DEF SurviveInv, FieldsInv
    <3>8. \A j : j # k => (Todo(Commit(j))' <=> Todo(Commit(j)))
      BY <1>4, <2>1, <3>2
    <3>9. Todo(Task("view"))' <=> Todo(Task("view"))
      BY <1>4, <2>1, <3>2
    <3> QED  BY <1>7, <3>1, <3>2, <3>3, <3>5, <3>6, <3>7, <3>8, <3>9
  <2>3. \/ /\ k \in Pending
           /\ Normalize(k, fields[k].shown) = chosen[k] /\ Normalize(k, v) = chosen[k]
        \/ fields[k].shown = fields[k].applied
    <3>1. fields[k].shown # fields[k].applied => k \in Pending
      BY <1>4 DEF Pending
    <3> QED  BY <1>1, <1>5, <1>6, <3>1, Corrected DEF SurviveInv, ChosenInv
  <2>4. CASE fields[k].shown # fields[k].applied /\ k = "prompt" /\ v = fields[k].applied
    <3>1. tasks' = Tail(tasks) /\ settings' = settings /\ saving' = saving
          /\ fields' = [fields EXCEPT ![k].shown = v]
      BY <1>4, <2>4 DEF CommitTask
    <3>2. /\ \A t : Todo(t)' => Todo(t)
          /\ \A t : Todo(t) /\ t # Head(tasks) => Todo(t)'
          /\ TodoInv'
      BY <1>1, <1>2, <3>1, TodoLess DEF SurviveInv
    <3>3. settings[k] = fields[k].applied
      BY <1>4 DEF SurviveInv, FieldsInv
    <3>4. Reads(k)' = chosen[k]
      BY <2>3, <2>4, <3>1, <3>3 DEF Reads
    <3>5. SaveInv' /\ SavedInv'
      BY <1>1, <3>1, SavedStands DEF SurviveInv, SaveInv
    <3>6. fields'[k].applied = fields[k].applied /\ k \notin Pending'
          /\ DOMAIN fields'[k] = {"shown", "applied"}
      <4>1. fields'[k] = [fields[k] EXCEPT !.shown = v]
        BY <1>4, <3>1
      <4>2. fields'[k].applied = fields[k].applied /\ fields'[k].shown = v
            /\ DOMAIN fields'[k] = {"shown", "applied"}
        BY <1>4, <4>1 DEF SurviveInv, FieldsInv
      <4> QED  BY <2>4, <4>2 DEF Pending
    <3>7. \A j : j # k => (Todo(Commit(j))' <=> Todo(Commit(j)))
      BY <1>4, <2>1, <3>2
    <3>8. Todo(Task("view"))' <=> Todo(Task("view"))
      BY <1>4, <2>1, <3>2
    <3> QED  BY <1>7, <3>1, <3>2, <3>3, <3>4, <3>5, <3>6, <3>7, <3>8
  <2>5. CASE fields[k].shown # fields[k].applied /\ ~(k = "prompt" /\ v = fields[k].applied)
    <3>1. /\ tasks' = <<Apply>> \o Tail(tasks) /\ settings' = [settings EXCEPT ![k] = v]
          /\ fields' = [fields EXCEPT ![k] = [shown |-> v, applied |-> v]]
          /\ Save(settings')
      BY <1>4, <2>5 DEF CommitTask
    <3>2. /\ \A t : Todo(t)' /\ t # Apply => Todo(t)
          /\ \A t : Todo(t) /\ t # Head(tasks) => Todo(t)'
          /\ TodoInv'
      BY <1>1, <1>2, <3>1, TodoMore DEF SurviveInv
    <3>3. settings'[k] = v /\ fields'[k].applied = v /\ k \notin Pending'
          /\ DOMAIN fields'[k] = {"shown", "applied"}
      BY <1>2, <1>4, <1>5, <3>1 DEF Pending
    <3>4. Reads(k)' = chosen[k]
      BY <2>3, <2>5, <3>3 DEF Reads
    <3>5. SaveInv' /\ SavedInv'
      BY <1>1, <3>1, SaveBegins
    <3>6. \A j : j # k => (Todo(Commit(j))' <=> Todo(Commit(j)))
      BY <1>4, <2>1, <3>2
    <3>7. Todo(Task("view"))' <=> Todo(Task("view"))
      BY <1>4, <2>1, <3>2
    <3> QED  BY <1>7, <3>1, <3>2, <3>3, <3>4, <3>5, <3>6, <3>7
  <2> QED  BY <2>2, <2>4, <2>5
<1>8. FileInv'
  BY <1>1, FileStands DEF SurviveInv
<1>9. FieldsInv'
  <2>1. \A j \in DOMAIN fields : j \in Known(proc)
    BY KnownKeys DEF BaseInv, ProcInv, SurviveInv, FieldsInv
  <2>2. \A j \in DOMAIN fields : j # k => settings'[j] = fields'[j].applied
    BY <1>7, <2>1 DEF SurviveInv, FieldsInv
  <2>3. \A j \in DOMAIN fields : DOMAIN fields'[j] = {"shown", "applied"}
    BY <1>7 DEF SurviveInv, FieldsInv
  <2> QED  BY <1>1, <1>7, <2>2, <2>3 DEF SurviveInv, FieldsInv
<1>10. \A j : j # k => (j \in Pending' <=> j \in Pending)
  BY <1>7 DEF Pending
<1>11. \A j \in Known(proc) : j # k => Reads(j)' = Reads(j)
  BY <1>7 DEF Reads
<1>12. \A j \in Known(proc) : j # k => (Underway(j) => Underway(j)')
  BY <1>7, <1>10 DEF Underway
<1>13. settings'["view"] = settings["view"] /\ LastPage' = LastPage
  BY <1>1, <1>5, <1>7, KnownKeys DEF LastPage
<1>14. \A j \in Pending' : Todo(Commit(j))' => Normalize(j, fields'[j].shown) = chosen'[j]
  <2>1. \A j \in Pending' : j # k /\ j \in Pending /\ fields'[j] = fields[j]
    BY <1>7, <1>10 DEF Pending
  <2> QED  BY <1>1, <1>7, <2>1 DEF SurviveInv, ChosenInv
<1>15. ChosenInv'
  BY <1>1, <1>7, <1>11, <1>12, <1>13, <1>14 DEF SurviveInv, ChosenInv
<1> QED  BY <1>7, <1>8, <1>9, <1>15 DEF SurviveInv

\* The page that is open goes in with everything else.
LEMMA ViewSurvives ==
    ASSUME BaseInv, SurviveInv, ViewTask
    PROVE  SurviveInv'
<1>1. /\ proc # "off" /\ proc \in Builds /\ proc' = proc /\ page' = page
      /\ file' = file /\ flushed' = flushed /\ fields' = fields
      /\ chosen' = chosen /\ before' = before /\ failed' = failed
      /\ tasks # <<>> /\ Head(tasks).do = "view" /\ tasks' = Tail(tasks)
      /\ settings' = [settings EXCEPT !["view"] = LastPage] /\ Save(settings')
  BY DEF ViewTask, BaseInv, OffInv, ProcInv, lasting, history
<1>2. TasksInv /\ DOMAIN settings = Known(proc) /\ "view" \in Known(proc)
  BY <1>1, KnownKeys DEF BaseInv, ProcInv
<1>3. /\ \A t : Todo(t)' => Todo(t)
      /\ \A t : Todo(t) /\ t # Head(tasks) => Todo(t)'
      /\ Todo(Head(tasks)) /\ TodoInv'
  BY <1>1, <1>2, TodoLess DEF SurviveInv
<1>4. Head(tasks) = Task("view")
  <2>1. Head(tasks) = tasks[1] /\ Head(tasks) \in Tasks /\ 1 \in 1 .. Len(tasks)
    BY <1>1, <1>2, Rest DEF TasksInv
  <2> QED  BY <1>1, <2>1, TaskIs DEF SurviveInv, TodoInv
<1>5. chosen["view"] = LastPage /\ LastPage \in Offered("view")
  <2>1. chosen["view"] = LastPage
    BY <1>1, <1>3, <1>4 DEF SurviveInv, ChosenInv
  <2>2. {"cpu", "apps"} \subseteq Offered("view")
    BY DEF Offered, Others, Defaults, Keys, TextKeys, ChoiceKeys, ElseKeys
  <2> QED  BY <1>1, <2>1, <2>2 DEF LastPage, SurviveInv, ChosenInv
<1>6. settings'["view"] = LastPage /\ \A k \in Known(proc) : k # "view" => settings'[k] = settings[k]
  BY <1>1, <1>2
<1>7. Reads("view")' = chosen["view"]
  BY <1>5, <1>6, KnownKeys, Corrected DEF Reads
<1>8. \A k \in Known(proc) : k # "view" => Reads(k)' = Reads(k) /\ (Underway(k) => Underway(k)')
  <2>1. \A k : Todo(Commit(k)) => Todo(Commit(k))'
    BY <1>3, <1>4, TaskIs
  <2> QED  BY <1>1, <1>6, <2>1 DEF Reads, Underway, Pending
<1>9. LastPage' = LastPage
  BY <1>1, <1>6 DEF LastPage
<1>10. \A k \in Pending' : Todo(Commit(k))' => Normalize(k, fields'[k].shown) = chosen'[k]
  BY <1>1, <1>3 DEF SurviveInv, ChosenInv, Pending
<1>11. ChosenInv'
  BY <1>1, <1>5, <1>6, <1>7, <1>8, <1>9, <1>10 DEF SurviveInv, ChosenInv
<1>12. FieldsInv'
  <2>1. \A k \in DOMAIN fields : k \in Known(proc) /\ k # "view"
    BY KnownKeys DEF BaseInv, ProcInv, SurviveInv, FieldsInv
  <2>2. \A k \in DOMAIN fields : settings'[k] = settings[k]
    BY <1>6, <2>1
  <2> QED  BY <1>1, <2>2 DEF SurviveInv, FieldsInv
<1>13. FileInv' /\ SaveInv' /\ SavedInv'
  BY <1>1, FileStands, SaveBegins DEF SurviveInv
<1> QED  BY <1>3, <1>11, <1>12, <1>13 DEF SurviveInv

\* What is meant is what is chosen, but for the fields that show something else.
LEMMA MeantIs ==
    /\ DOMAIN Meant = Keys
    /\ \A k \in Keys \ Pending : Meant[k] = chosen[k]
    /\ \A k \in Keys \cap Pending : Meant[k] = Normalize(k, fields[k].shown)
BY DEF Meant

LEMMA PendingKnown ==
    ASSUME BaseInv, SurviveInv
    PROVE  Pending \subseteq TextKeys /\ (Pending # {} => Known(proc) = Keys)
BY KnownKeys DEF BaseInv, ProcInv, SurviveInv, FieldsInv, Pending

LEMMA ConfirmSurvives ==
    ASSUME BaseInv, SurviveInv, NEW k \in TextKeys, Confirm(k)
    PROVE  SurviveInv'
<1>1. /\ Idle /\ k \in Pending /\ tasks' = <<Commit(k)>> /\ page = "settings"
      /\ chosen' = [chosen EXCEPT ![k] = Meant[k]] /\ before' = Settled /\ failed' = failed
      /\ lasting' = lasting /\ proc' = proc /\ settings' = settings /\ page' = page
      /\ fields' = fields /\ saving' = saving
  BY DEF Confirm, Begin, lasting
<1>2. DOMAIN chosen = Keys /\ DOMAIN chosen' = Keys /\ k \in Keys
  BY <1>1, KnownKeys DEF SurviveInv, FileInv
<1>3. Known(proc) = Keys /\ k \in DOMAIN fields
  BY <1>1, PendingKnown DEF Pending
<1>4. TodoInv' /\ \A t : Todo(t)' <=> t = Commit(k)
  BY <1>1, <1>3, TodoShort
<1>5. Pending' = Pending
  BY <1>1 DEF Pending
<1>6. Underway(k)' /\ ~Todo(Task("view"))'
  BY <1>1, <1>4, <1>5, TaskIs DEF Underway
<1>7. \A j \in Keys : j # k => chosen'[j] = chosen[j]
  BY <1>1, <1>2
<1>8. chosen'[k] = Normalize(k, fields'[k].shown)
  BY <1>1, <1>2, MeantIs
<1>9. FieldsInv'
  BY <1>1 DEF SurviveInv, FieldsInv
<1>10. \A j \in Pending' : Todo(Commit(j))' => Normalize(j, fields'[j].shown) = chosen'[j]
  BY <1>4, <1>8, TaskIs
<1>11. \A j \in Known(proc) : chosen'[j] = chosen[j] \/ Underway(j)'
  BY <1>3, <1>6, <1>7
<1> QED
  BY <1>1, <1>2, <1>3, <1>4, <1>6, <1>9, <1>10, <1>11, BegunSurvives

LEMMA CloseSurvives ==
    ASSUME BaseInv, SurviveInv, Close
    PROVE  SurviveInv'
<1>1. /\ Idle /\ tasks' = Commits \o <<Task("view"), Task("quit")>>
      /\ chosen' = [Meant EXCEPT !["view"] = LastPage] /\ before' = Settled
      /\ failed' = failed
      /\ lasting' = lasting /\ proc' = proc /\ settings' = settings /\ page' = page
      /\ fields' = fields /\ saving' = saving
  BY DEF Close, Begin
<1>2. proc # "off" /\ DOMAIN fields \in {{}, TextKeys}
  BY <1>1 DEF Idle, BaseInv, ProcInv
<1>3. TodoInv' /\ (\A k \in DOMAIN fields : Todo(Commit(k))') /\ Todo(Task("view"))'
  BY <1>1, <1>2, TodoCommits
<1>4. Pending' = Pending /\ LastPage' = LastPage
  BY <1>1 DEF Pending, LastPage
<1>5. DOMAIN chosen' = Keys /\ chosen'["view"] = LastPage
      /\ \A k \in Keys : k # "view" => chosen'[k] = Meant[k]
  BY <1>1, MeantIs, KnownKeys
<1>6. Pending \subseteq TextKeys /\ (Pending # {} => Known(proc) = Keys)
  BY PendingKnown
<1>7. "view" \in Known(proc) /\ Known(proc) \subseteq Keys
  BY <1>2, KnownKeys DEF BaseInv, ProcInv
<1>8. \A k \in Keys \ Known(proc) : chosen'[k] = chosen[k]
  BY <1>5, <1>6, <1>7, MeantIs
<1>9. \A k \in Known(proc) : chosen'[k] = chosen[k] \/ Underway(k)'
  <2>1. \A k \in Pending : Underway(k)'
    BY <1>3, <1>4 DEF Underway, Pending
  <2>2. Underway("view")'
    BY <1>3 DEF Underway
  <2> QED  BY <1>5, <1>7, <2>1, <2>2, MeantIs
<1>10. \A k \in Pending' : Todo(Commit(k))' => Normalize(k, fields'[k].shown) = chosen'[k]
  <2>1. \A k \in Pending : k \in Keys /\ k # "view"
    BY <1>6, KnownKeys
  <2> QED  BY <1>1, <1>4, <1>5, <2>1, MeantIs
<1>11. FieldsInv' /\ page' \in {"cpu", "apps", "settings"}
  BY <1>1, <1>2 DEF SurviveInv, FieldsInv, ChosenInv
<1> QED
  BY <1>1, <1>3, <1>4, <1>5, <1>8, <1>9, <1>10, <1>11, BegunSurvives

LEMMA GoSurvives ==
    ASSUME BaseInv, SurviveInv, NEW p \in {"cpu", "apps", "settings"}, Go(p)
    PROVE  SurviveInv'
<1>1. /\ Idle /\ page' = p /\ p # page
      /\ lasting' = lasting /\ proc' = proc /\ settings' = settings /\ saving' = saving
  BY DEF Go, lasting
<1>2. proc # "off" /\ DOMAIN fields \in {{}, TextKeys}
  BY <1>1 DEF Idle, BaseInv, ProcInv
<1>3. CASE page = "settings"
  <2>1. /\ tasks' = Commits /\ chosen' = Meant /\ before' = Settled /\ failed' = failed
        /\ fields' = fields
    BY <1>1, <1>3 DEF Go, Begin
  <2>2. TodoInv' /\ (\A k \in DOMAIN fields : Todo(Commit(k))') /\ ~Todo(Task("view"))'
    BY <1>2, <2>1, TodoCommits
  <2>3. Pending' = Pending
    BY <2>1 DEF Pending
  <2>4. Pending \subseteq TextKeys /\ (Pending # {} => Known(proc) = Keys)
    BY PendingKnown
  <2>5. Known(proc) \subseteq Keys
    BY <1>2, KnownKeys DEF BaseInv, ProcInv
  <2>6. \A k \in Keys \ Known(proc) : chosen'[k] = chosen[k]
    BY <2>1, <2>4, MeantIs
  <2>7. \A k \in Pending : Underway(k)'
    BY <2>2, <2>3 DEF Underway, Pending
  <2>8. \A k \in Known(proc) : chosen'[k] = chosen[k] \/ Underway(k)'
    BY <2>1, <2>5, <2>7, MeantIs
  <2>9. \A k \in Pending' : Todo(Commit(k))' => Normalize(k, fields'[k].shown) = chosen'[k]
    BY <2>1, <2>3, <2>4, KnownKeys, MeantIs
  <2>10. FieldsInv' /\ DOMAIN chosen' = Keys
    BY <1>1, <2>1, MeantIs DEF SurviveInv, FieldsInv
  <2> QED
    BY <1>1, <2>1, <2>2, <2>6, <2>8, <2>9, <2>10, BegunSurvives
<1>4. CASE page # "settings"
  <2>1. tasks' = tasks /\ chosen' = chosen /\ before' = before /\ failed' = failed
    BY <1>4 DEF Go, history
  <2>2. (\A k : ~Todo(Commit(k))) /\ ~Todo(Task("view"))
        /\ \A k \in Known(proc) : Reads(k) = chosen[k]
    BY <1>1, IdleUnderway
  <2>3. (\A k : ~Todo(Commit(k))') /\ ~Todo(Task("view"))'
    BY <2>1, <2>2 DEF Todo
  <2>4. \A k : Reads(k)' = Reads(k)
    BY <1>1 DEF Reads
  <2>5. ChosenInv'
    BY <1>1, <1>2, <2>1, <2>2, <2>3, <2>4 DEF SurviveInv, ChosenInv
  <2>6. FieldsInv'
    <3>1. CASE fields' = fields
      BY <1>1, <3>1 DEF SurviveInv, FieldsInv
    <3>2. CASE /\ fields' = [k \in TextKeys |-> [shown |-> settings[k],
                                                 applied |-> settings[k]]]
               /\ proc = "full"
      BY <1>1, <3>2 DEF FieldsInv
    <3> QED  BY <3>1, <3>2 DEF Go
  <2>7. TodoInv'
    BY <1>1, <2>1 DEF Idle, TodoInv
  <2>8. FileInv' /\ SaveInv' /\ SavedInv'
    BY <1>1, <2>1, FileStands, SavedStands DEF SurviveInv, SaveInv, lasting
  <2> QED  BY <2>5, <2>6, <2>7, <2>8 DEF SurviveInv
<1> QED  BY <1>3, <1>4

\* Something is typed: nothing is chosen yet.
LEMMA TypeSurvives ==
    ASSUME BaseInv, SurviveInv, NEW k \in TextKeys, NEW text \in Typed, Type(k, text)
    PROVE  SurviveInv'
<1>1. /\ Idle /\ k \in DOMAIN fields /\ fields' = [fields EXCEPT ![k].shown = text]
      /\ file' = file /\ flushed' = flushed /\ proc' = proc /\ settings' = settings
      /\ page' = page /\ tasks' = tasks /\ saving' = saving
      /\ chosen' = chosen /\ before' = before /\ failed' = failed
  BY DEF Type, lasting, history
<1>2. (\A j : ~Todo(Commit(j))) /\ ~Todo(Task("view"))
      /\ \A j \in Known(proc) : Reads(j) = chosen[j]
  BY <1>1, IdleUnderway
<1>3. (\A j : ~Todo(Commit(j))') /\ ~Todo(Task("view"))' /\ \A j : Reads(j)' = Reads(j)
  BY <1>1, <1>2 DEF Todo, Reads
<1>4. ChosenInv'
  BY <1>1, <1>2, <1>3 DEF SurviveInv, ChosenInv
<1>5. FieldsInv'
  <2>1. DOMAIN fields' = DOMAIN fields
    BY <1>1
  <2>2. \A j \in DOMAIN fields : /\ DOMAIN fields'[j] = {"shown", "applied"}
                                 /\ fields'[j].applied = fields[j].applied
    BY <1>1 DEF SurviveInv, FieldsInv
  <2> QED  BY <1>1, <2>1, <2>2 DEF SurviveInv, FieldsInv
<1>6. TodoInv'
  BY <1>1 DEF Idle, TodoInv
<1>7. FileInv' /\ SaveInv' /\ SavedInv'
  BY <1>1, FileStands, SavedStands DEF SurviveInv, SaveInv
<1> QED  BY <1>4, <1>5, <1>6, <1>7 DEF SurviveInv

\* A process starts with what the file says.
LEMMA StartReads ==
    ASSUME BaseInv, SurviveInv, NEW b \in Builds, Start(b)
    PROVE  /\ DOMAIN settings' = Known(b)
           /\ \A k \in Known(b) : settings'[k] = FileSays(k) /\ settings'[k] \in Offered(k)
BY KnownKeys, FileOffers DEF Start, Load, FileSays, SurviveInv, FileInv

LEMMA StartSurvives ==
    ASSUME BaseInv, SurviveInv, NEW b \in Builds, Start(b)
    PROVE  SurviveInv'
<1>1. /\ proc = "off" /\ proc' = b /\ b # "off" /\ page' = settings'["view"]
      /\ tasks' = <<Apply>> /\ settings' = Load(b)
      /\ chosen' = Over(settings', chosen)
      /\ before' = Over([k \in Known(b) |-> {settings'[k]}], before)
      /\ file' = file /\ flushed' = flushed /\ fields' = fields /\ saving' = saving
  BY DEF Start, Builds, lasting
<1>2. DOMAIN settings' = Known(b)
      /\ \A k \in Known(b) : settings'[k] = FileSays(k) /\ settings'[k] \in Offered(k)
  BY StartReads
<1>3. Known(b) \subseteq Keys /\ "view" \in Known(b) /\ "view" \in Keys
  BY KnownKeys
<1>4. DOMAIN chosen = Keys /\ DOMAIN before = Keys
  BY DEF SurviveInv, FileInv
<1>5. /\ DOMAIN chosen' = Keys /\ \A k \in Known(b) : chosen'[k] = settings'[k]
      /\ \A k \in Keys \ Known(b) : chosen'[k] = chosen[k]
  BY <1>1, <1>2, <1>3, <1>4 DEF Over
<1>6. /\ DOMAIN before' = Keys /\ \A k \in Known(b) : before'[k] = {settings'[k]}
      /\ \A k \in Keys \ Known(b) : before'[k] = before[k]
  BY <1>1, <1>3, <1>4 DEF Over
<1>7. \A k : FileSays(k)' = FileSays(k)
  BY <1>1 DEF FileSays
<1>8. FileInv'
  BY <1>1, <1>2, <1>5, <1>6, <1>7 DEF SurviveInv, FileInv
<1>9. \A k \in Known(b) : Reads(k)' = settings'[k]
  BY <1>2, <1>3, Corrected DEF Reads
<1>10. SavedInv'
  BY <1>1, <1>2, <1>7, <1>9 DEF SavedInv
<1>11. TodoInv' /\ (\A k : ~Todo(Commit(k))') /\ ~Todo(Task("view"))'
  BY <1>1, TodoShort, TaskIs
<1>12. settings'["view"] \in {"cpu", "apps"} /\ settings'["view"] \in Offered("view")
  <2>1. Offered("view") = {"cpu", "apps"}
    BY DEF Offered, Others, Defaults, Keys, TextKeys, ChoiceKeys, ElseKeys
  <2> QED  BY <1>2, <1>3, <2>1
<1>13. ChosenInv'
  BY <1>1, <1>5, <1>9, <1>11, <1>12 DEF ChosenInv
<1>14. DOMAIN fields' = {} /\ saving' = NotSaving
  BY <1>1 DEF BaseInv, OffInv
<1>15. FieldsInv' /\ SaveInv'
  BY <1>14 DEF FieldsInv, SaveInv, NotSaving
<1> QED  BY <1>8, <1>10, <1>11, <1>13, <1>15 DEF SurviveInv

LEMMA SurviveInit == ASSUME "legacy" \notin Permitted, Init PROVE SurviveInv
<1>1. /\ file = Absent /\ flushed = TRUE /\ proc = "off" /\ tasks = <<>> /\ saving = NotSaving
      /\ DOMAIN fields = {} /\ chosen = Defaults /\ before = [k \in Keys |-> {chosen[k]}]
  <2>1. DOMAIN Defaults = Keys /\ "columns" \in Keys
    BY DEF Defaults, Keys, ElseKeys
  <2>2. chosen = [Defaults EXCEPT !["columns"] = Defaults["columns"]]
    BY DEF Init
  <2>3. chosen = Defaults
    BY <2>1, <2>2 DEF Defaults
  <2> QED  BY <2>3 DEF Init
<1>2. \A k \in Keys : FileSays(k) = Defaults[k]
  BY <1>1 DEF FileSays, Absent
<1>3. FileInv
  BY <1>1, <1>2 DEF FileInv, Absent, Defaults
<1>4. TodoInv
  BY <1>1 DEF TodoInv
<1>5. SaveInv
  BY <1>1 DEF SaveInv, NotSaving
<1>6. FieldsInv /\ ChosenInv /\ SavedInv
  BY <1>1 DEF FieldsInv, ChosenInv, SavedInv
<1> QED  BY <1>3, <1>4, <1>5, <1>6 DEF SurviveInv

LEMMA DiskInit == ASSUME "legacy" \notin Permitted, Init PROVE DiskInv
<1>1. FileInv /\ disk = file /\ durable = before /\ \A k \in Keys : before[k] = {chosen[k]}
  BY SurviveInit DEF Init, SurviveInv
<1>2. \A k : DiskSays(k) = FileSays(k)
  BY <1>1 DEF FileInv, DiskSays, FileSays
<1> QED  BY <1>1, <1>2 DEF DiskInv, FileInv

\* What might be found now contains what the file says.
LEMMA LeftFits ==
    ASSUME BaseInv, SurviveInv
    PROVE  \A k \in Keys : FileSays(k) \in Left[k] \cup {chosen[k]}
<1>1. CASE Idle
  <2>1. \A k \in Known(proc) : FileSays(k) \in Settled[k]
    BY <1>1, IdleUnderway
  <2>2. \A k \in Keys \ Known(proc) : Settled[k] = before[k]
    BY DEF Settled
  <2> QED  BY <1>1, <2>1, <2>2 DEF Left, SurviveInv, FileInv
<1>2. CASE ~Idle
  BY <1>2 DEF Left, SurviveInv, FileInv
<1> QED  BY <1>1, <1>2

\* The disk's file changes only when the directory reaches it, and is then the one there is.
LEMMA DiskNext == ASSUME BaseInv, SurviveInv, DiskInv, [Next]_vars PROVE DiskInv'
<1>1. CASE WriteBack
  <2>1. disk' = file /\ durable' = [k \in Keys |-> Left[k] \cup {chosen[k]}]
    BY <1>1 DEF WriteBack, SurviveInv, FileInv
  <2>2. ~file.legacy
    BY DEF SurviveInv, FileInv
  <2>3. \A k : DiskSays(k)' = FileSays(k)
    BY <2>1, <2>2 DEF DiskSays, FileSays
  <2> QED  BY <2>1, <2>2, <2>3, LeftFits DEF DiskInv
<1>2. CASE disk' = disk /\ durable' = durable
  BY <1>2 DEF DiskInv, DiskSays
<1>3. ASSUME NEW k, NEW v, Choose(k, v) \/ ChooseElsewhere(k, v) \/ Type(k, v) \/ Confirm(k)
                           \/ Go(k) \/ Start(k)
      PROVE  disk' = disk /\ durable' = durable
  BY <1>3 DEF Choose, ChooseElsewhere, Type, Confirm, Go, Start, Begin, lasting, history
<1>4. SyncTmp \/ RenameTmp \/ SaveFails \/ ApplyTask \/ CommitTask \/ ViewTask
          => disk' = disk /\ durable' = durable
  BY DEF SyncTmp, RenameTmp, SaveFails, ApplyTask, CommitTask, ViewTask, lasting, history
<1>5. QuitTask \/ DesktopChanges \/ Compositor \/ Close \/ Kill \/ PowerLoss \/ UNCHANGED vars
          => disk' = disk /\ durable' = durable
  BY DEF QuitTask, DesktopChanges, Compositor, Close, Kill, PowerLoss, Begin, lasting, history,
         vars
<1> QED  BY <1>1, <1>2, <1>3, <1>4, <1>5 DEF Next, HideColumn, NeverEase

\* The power goes: the file is the disk's.
LEMMA PowerSurvives ==
    ASSUME BaseInv, SurviveInv, DiskInv, PowerLoss
    PROVE  SurviveInv'
<1>1. /\ Gone /\ file' = disk /\ flushed' = TRUE /\ before' = durable /\ chosen' = chosen
  BY DEF PowerLoss
<1>2. \A k : FileSays(k)' = DiskSays(k)
  BY <1>1 DEF FileSays, DiskSays, DiskInv
<1>3. FileInv'
  BY <1>1, <1>2 DEF DiskInv, SurviveInv, FileInv
<1>4. TodoInv'
  BY <1>1, TodoShort DEF Gone
<1>5. SaveInv' /\ FieldsInv' /\ ChosenInv' /\ SavedInv'
  BY <1>1 DEF Gone, SaveInv, FieldsInv, ChosenInv, SavedInv, NotSaving
<1> QED  BY <1>3, <1>4, <1>5 DEF SurviveInv

LEMMA SurviveNext == ASSUME BaseInv, SurviveInv, DiskInv, [Next]_vars PROVE SurviveInv'
<1>1. CASE SyncTmp
  <2>1. /\ saving.stage # "none" /\ saving' = [saving EXCEPT !.stage = "synced"]
        /\ file' = file /\ flushed' = flushed /\ proc' = proc /\ settings' = settings
        /\ page' = page /\ fields' = fields /\ tasks' = tasks /\ chosen' = chosen
        /\ before' = before /\ failed' = failed
    BY <1>1 DEF SyncTmp, lasting, history
  <2>2. /\ DOMAIN saving' = {"stage", "new"} /\ saving'.stage = "synced"
        /\ saving'.new = saving.new
    BY <2>1 DEF SurviveInv, SaveInv
  <2>3. SaveInv' /\ SavedInv'
    BY <2>1, <2>2 DEF SurviveInv, SaveInv, SavedInv
  <2>4. proc # "off"
    BY <2>1 DEF BaseInv, OffInv, NotSaving
  <2>5. \A t : Todo(t)' <=> Todo(t)
    BY <2>1 DEF Todo
  <2>6. ChosenInv' /\ FieldsInv'
    BY <2>1, <2>4, <2>5, ChosenStands DEF SurviveInv
  <2>7. TodoInv' /\ FileInv'
    BY <2>1, FileStands DEF SurviveInv, TodoInv
  <2> QED  BY <2>3, <2>6, <2>7 DEF SurviveInv
<1>2. CASE RenameTmp
  BY <1>2, Renamed
<1>3. CASE SaveFails
  <2>1. /\ saving.stage # "none" /\ saving' = NotSaving /\ failed' = TRUE
        /\ file' = file /\ flushed' = flushed /\ proc' = proc /\ settings' = settings
        /\ page' = page /\ fields' = fields /\ tasks' = tasks /\ chosen' = chosen
        /\ before' = before
    BY <1>3 DEF SaveFails, lasting
  <2>2. SaveInv' /\ SavedInv'
    BY <2>1 DEF SaveInv, SavedInv, NotSaving
  <2>3. proc # "off"
    BY <2>1 DEF BaseInv, OffInv, NotSaving
  <2>4. \A t : Todo(t)' <=> Todo(t)
    BY <2>1 DEF Todo
  <2>5. ChosenInv' /\ FieldsInv'
    BY <2>1, <2>3, <2>4, ChosenStands DEF SurviveInv
  <2>6. TodoInv' /\ FileInv'
    BY <2>1, FileStands DEF SurviveInv, TodoInv
  <2> QED  BY <2>2, <2>5, <2>6 DEF SurviveInv
<1>4. CASE ApplyTask
  <2>1. /\ tasks # <<>> /\ Head(tasks).do = "apply" /\ tasks' = Tail(tasks)
        /\ file' = file /\ flushed' = flushed /\ proc' = proc /\ settings' = settings
        /\ page' = page /\ fields' = fields /\ saving' = saving /\ chosen' = chosen
        /\ before' = before /\ failed' = failed
    BY <1>4 DEF ApplyTask, lasting, history
  <2>2. proc # "off" /\ TasksInv
    BY <2>1 DEF BaseInv, OffInv
  <2>3. /\ \A t : Todo(t)' => Todo(t)
        /\ \A t : Todo(t) /\ t # Head(tasks) => Todo(t)'
        /\ TodoInv'
    BY <2>1, <2>2, TodoLess DEF SurviveInv
  <2>4. Head(tasks) = Apply
    <3>1. Head(tasks) = tasks[1] /\ Head(tasks) \in Tasks /\ 1 \in 1 .. Len(tasks)
      BY <2>1, <2>2, Rest DEF TasksInv
    <3>2. Head(tasks) = Task("apply")
      BY <2>1, <3>1, TaskIs DEF SurviveInv, TodoInv
    <3> QED  BY <3>2 DEF Task, Apply
  <2>5. ChosenInv' /\ FieldsInv'
    BY <2>1, <2>2, <2>3, <2>4, ChosenStands DEF SurviveInv
  <2>6. FileInv' /\ SaveInv' /\ SavedInv'
    BY <2>1, FileStands, SavedStands DEF SurviveInv, SaveInv
  <2> QED  BY <2>3, <2>5, <2>6 DEF SurviveInv
<1>5. CASE CommitTask
  BY <1>5, Committed
<1>6. CASE ViewTask
  BY <1>6, ViewSurvives
<1>7. CASE QuitTask
  <2>1. /\ Gone /\ before' = Settled /\ file' = file /\ flushed' = flushed /\ chosen' = chosen
        /\ saving.stage = "none" /\ tasks # <<>> /\ Head(tasks).do = "quit"
    BY <1>7 DEF QuitTask, lasting
  <2>2. proc # "off" /\ TasksInv
    BY <2>1 DEF BaseInv, OffInv
  <2>3. Head(tasks) = tasks[1] /\ Len(tasks) \in Nat /\ Len(tasks) >= 1
    BY <2>1, <2>2, Rest DEF TasksInv
  <2>4. Len(tasks) = 1
    <3>1. 1 \in 1 .. Len(tasks)
      BY <2>3
    <3> QED  BY <2>1, <2>3, <3>1 DEF SurviveInv, TodoInv
  <2>5. (\A k : ~Todo(Commit(k))) /\ ~Todo(Task("view"))
    <3>1. \A t : Todo(t) => t = Head(tasks)
      BY <2>3, <2>4 DEF Todo
    <3> QED  BY <2>1, <3>1, TaskIs
  <2>6. \A k \in Known(proc) : FileSays(k) \in Settled[k]
    BY <2>1, <2>2, <2>5, NothingUnderway
  <2>7. flushed' = TRUE
    BY <2>1 DEF SurviveInv, FileInv
  <2> QED  BY <2>1, <2>6, <2>7, GoneSurvives
<1>8. CASE DesktopChanges
  BY <1>8, SurviveSame DEF DesktopChanges, lasting, history
<1>9. CASE Compositor
  BY <1>9, SurviveSame DEF Compositor, lasting, history
<1>10. ASSUME NEW k \in ChoiceKeys, NEW v \in Offered(k), Choose(k, v)  PROVE SurviveInv'
  <2>1. k \in Known(proc) \ (TextKeys \cup {"view"})
    BY <1>10, KnownKeys DEF Choose, Sensitive
  <2>2. /\ Idle /\ settings' = [settings EXCEPT ![k] = v] /\ Save(settings')
        /\ chosen' = [chosen EXCEPT ![k] = v] /\ before' = Settled
        /\ file' = file /\ flushed' = flushed /\ proc' = proc /\ page' = page
        /\ fields' = fields /\ tasks' = <<Apply>>
    BY <1>10 DEF Choose, Begin, lasting
  <2> QED  BY <2>1, <2>2, ChoiceSurvives
<1>11. ASSUME NEW k \in {"columns", "never"}, NEW v \in Offered(k), ChooseElsewhere(k, v)
       PROVE SurviveInv'
  <2>1. /\ Idle /\ settings' = [settings EXCEPT ![k] = v] /\ Save(settings')
        /\ chosen' = [chosen EXCEPT ![k] = v] /\ before' = Settled
        /\ file' = file /\ flushed' = flushed /\ proc' = proc /\ page' = page
        /\ fields' = fields /\ tasks' = <<>>
    BY <1>11 DEF ChooseElsewhere, Begin, lasting, Idle
  <2>2. k \in Known(proc) \ (TextKeys \cup {"view"})
    BY <2>1, KnownKeys DEF Idle, BaseInv, ProcInv
  <2> QED  BY <2>1, <2>2, ChoiceSurvives
<1>12. CASE HideColumn \/ NeverEase
  BY <1>11, <1>12 DEF HideColumn, NeverEase
<1>13. CASE \E k \in TextKeys : Confirm(k) \/ \E text \in Typed : Type(k, text)
  BY <1>13, ConfirmSurvives, TypeSurvives
<1>14. CASE \E p \in {"cpu", "apps", "settings"} : Go(p)
  BY <1>14, GoSurvives
<1>15. CASE Close
  BY <1>15, CloseSurvives
<1>16. CASE Kill
  <2>1. Gone /\ before' = Left /\ file' = file /\ flushed' = TRUE /\ chosen' = chosen
    BY <1>16 DEF Kill, lasting, SurviveInv, FileInv
  <2>2. CASE Idle
    <3>1. \A k \in Known(proc) : FileSays(k) \in Settled[k]
      BY <2>2, IdleUnderway
    <3> QED  BY <2>1, <2>2, <3>1, GoneSurvives DEF Left
  <2>3. CASE ~Idle
    BY <2>1, <2>3, GoneSurvives DEF Left
  <2> QED  BY <2>2, <2>3
<1>17. CASE PowerLoss
  BY <1>17, PowerSurvives
<1>18. CASE WriteBack
  BY <1>18, SurviveSame DEF WriteBack
<1>19. CASE \E b \in Builds : Start(b)
  BY <1>19, StartSurvives
<1>20. CASE UNCHANGED vars
  BY <1>20, SurviveSame DEF vars, lasting, history
<1> QED
  BY <1>1, <1>2, <1>3, <1>4, <1>5, <1>6, <1>7, <1>8, <1>9, <1>10, <1>12, <1>13, <1>14,
     <1>15, <1>16, <1>17, <1>18, <1>19, <1>20 DEF Next

\* A process begins with Start alone.
LEMMA OnlyStart ==
    ASSUME BaseInv, [Next]_vars, proc = "off", proc' # "off"
    PROVE  \E b \in Builds : Start(b)
<1>1. ~Idle /\ tasks = <<>> /\ saving.stage = "none"
  BY DEF Idle, BaseInv, OffInv, NotSaving
<1>2. Next
  BY DEF vars
<1>3. ~(SyncTmp \/ RenameTmp \/ SaveFails \/ ApplyTask \/ CommitTask \/ ViewTask \/ QuitTask)
  BY <1>1 DEF SyncTmp, RenameTmp, SaveFails, ApplyTask, CommitTask, ViewTask, QuitTask
<1>4. ~(DesktopChanges \/ Compositor \/ Kill \/ PowerLoss \/ WriteBack \/ Close)
  BY <1>1 DEF DesktopChanges, WriteBack, Compositor, Kill, PowerLoss, Gone, Close
<1>5. \A k, v : ~Choose(k, v) /\ ~ChooseElsewhere(k, v) /\ ~Type(k, v)
  BY <1>1 DEF Choose, ChooseElsewhere, Type
<1>6. \A k : ~Confirm(k) /\ ~Go(k)
  BY <1>1 DEF Confirm, Go
<1> QED  BY <1>2, <1>3, <1>4, <1>5, <1>6 DEF Next, HideColumn, NeverEase

\* A process of either build starts with what was last chosen; where a change was cut short
\* or could not be saved, with that or what was before; where the power went, with what might
\* have been found when the directory last reached the disk, never with less. For every
\* order of choosing, typing, leaving, saving, failing, being killed and losing power, in any
\* number of processes of both builds. Without the switch of 0.9.0, whose correction every
\* later start makes again.
THEOREM ChoicesKept ==
    "legacy" \notin Permitted /\ Spec => ChoicesSurvive
<1> SUFFICES ASSUME "legacy" \notin Permitted  PROVE Spec => ChoicesSurvive
  OBVIOUS
<1>1. Init => BaseInv /\ SurviveInv /\ DiskInv
  BY BaseInit, SurviveInit, DiskInit
<1>2. BaseInv /\ SurviveInv /\ DiskInv /\ [Next]_vars
          => (BaseInv /\ SurviveInv /\ DiskInv)'
  BY BaseNext, SurviveNext, DiskNext
<1>3. ASSUME BaseInv, SurviveInv, [Next]_vars
      PROVE  proc = "off" /\ proc' # "off" =>
                 \A k \in Known(proc') : settings'[k] \in before[k] \cup {chosen[k]}
  <2> SUFFICES ASSUME proc = "off", proc' # "off"
               PROVE  \A k \in Known(proc') : settings'[k] \in before[k] \cup {chosen[k]}
    OBVIOUS
  <2>1. PICK b \in Builds : Start(b)
    BY <1>3, OnlyStart
  <2>2. proc' = b /\ Known(b) \subseteq Keys
    BY <2>1, KnownKeys DEF Start
  <2>3. \A k \in Known(b) : settings'[k] = FileSays(k)
    BY <1>3, <2>1, StartReads
  <2> QED  BY <1>3, <2>2, <2>3 DEF SurviveInv, FileInv
<1>4. BaseInv /\ SurviveInv /\ [Next]_vars =>
          [proc = "off" /\ proc' # "off" =>
               \A k \in Known(proc') : settings'[k] \in before[k] \cup {chosen[k]}]_vars
  BY <1>3
<1> QED  BY <1>1, <1>2, <1>4, PTL DEF Spec, ChoicesSurvive

=============================================================================
