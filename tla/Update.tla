---- MODULE Update ----
(***************************************************************************)
(* Updating Atlas: looking for a newer version, building it in a checkout, *)
(* and restarting into it.                                                 *)
(*                                                                         *)
(*   main thread   shows the window and its dialogs, runs what is queued   *)
(*   checks        one goroutine shortly after launch, one for each press  *)
(*                 of the Settings page's button                           *)
(*   job           the goroutine of installUpdate: it fetches the source   *)
(*                 when this copy came without, and runs update.sh, a      *)
(*                 process of its own that outlives Atlas                  *)
(*   the helper    a detached shell that waits a second and launches Atlas *)
(*                                                                         *)
(* What lasts from one process to the next: the two trees (the user's own  *)
(* checkout, and the clone Atlas makes), which of them is recorded, the    *)
(* installed binary. A version is the number of a commit on its branch. A  *)
(* tree is absent, half (a clone under way or cut off), whole (as git left *)
(* it), edited (with changes not committed), diverged (clean, but with     *)
(* commits of the user's on its branches) or plain (not git's at all).     *)
(*                                                                         *)
(* A definition marked "mutant" is a mistake the next one might have held. *)
(*                                                                         *)
(* Left out: what the dialogs say, the changelog, the log of a build, the  *)
(* managed install's command, the Windows build.                           *)
(***************************************************************************)

EXTENDS Naturals, FiniteSets

CONSTANTS
    Channels,     \* the branches an update may follow
    Minimal,      \* the one whose build is a different program
    Jobs,         \* names for goroutines of installUpdate, past processes' included
    MaxVersion,   \* bound: commits on a branch
    Permitted     \* what may go wrong around Atlas: a subset of Happenings

Happenings ==
    {"close",     \* the window is closed while a job runs
     "pick",      \* the channel is changed between a check and the build
     "again",     \* an update is asked for while the restart is pending
     "offline",   \* the network goes between a check and the pull
     "stuck",     \* git cannot check out another branch, for reasons of its own
     "slow",      \* closing takes longer than the helper's second
     "kill"}      \* Atlas is killed, and git with it

ASSUME MinimalAssumption == Minimal \in Channels
ASSUME MaxVersionAssumption == MaxVersion \in Nat
ASSUME PermittedAssumption == Permitted \subseteq Happenings

Trees     == {"own", "clone"}
Buildable == {"whole", "edited", "diverged", "plain"}
Versions  == 0 .. MaxVersion
Build     == [branch : Channels, commit : Versions]

VARIABLES
    \* outside the process
    tree,         \* what lies in each tree
    head,         \* what is checked out there
    recorded,     \* the tree named in the data directory's "source"
    remote,       \* the newest commit of each branch on GitHub
    owned,        \* a package manager owns the installed binary
    writable,     \* this user may write where it is installed
    binary,       \* the build installed
    \* the process
    proc,         \* "off", "open", or "leaving": the main loop has ended
    running,      \* the build this process is
    settings,     \* settings.UpdateChannel
    installed,    \* App.installed, once it has been asked for
    launch,       \* the check at launch and its offer
    check,        \* the Settings page's check
    button,       \* its button can be pressed
    updating,     \* App.updating
    job,          \* what each job is doing
    orphan,       \* the jobs whose process is gone
    restart,      \* "pause": the line is being read; "helper": launched
    taken         \* history: the build the user last said yes to

outside == <<tree, head, recorded, remote, owned, writable, binary>>
page    == <<launch, check, button, updating>>
vars    == <<outside, page, proc, running, settings, installed, job, orphan, restart, taken>>

Unasked == [kind |-> "unasked", source |-> "none"]

----------------------------------------------------------------------------
(* How this copy was installed *)

\* looksLikeCheckout: any one of three files is there.
LooksLikeCheckout(t) == tree[t] # "absent"

\* isCheckout: .git is there and git reads it. A clone that has only begun has
\* both.
IsCheckout(t) == tree[t] \notin {"absent", "plain"}

\* detectInstall: a recorded checkout wins, then a package, then neither.
DetectInstall ==
    IF recorded # "none" /\ LooksLikeCheckout(recorded)
    THEN [kind |-> "source", source |-> recorded]
    ELSE [kind |-> IF owned THEN "package" ELSE "standalone", source |-> "none"]

\* install: asked once in the life of a process.
Install == IF installed = Unasked THEN DetectInstall ELSE installed
Asked   == installed' = Install

\* Install.SelfUpdatable
SelfUpdatable ==
    \/ Install.kind = "source"
    \/ Install.kind = "standalone" /\ writable

----------------------------------------------------------------------------
(* CheckUpdate: what a channel has to offer *)

\* In a checkout: by commit, or as a switch when another branch is checked out
\* and nothing there is uncommitted.
FromCheckout(t, c) ==
    IF head[t].branch # c /\ tree[t] # "edited" THEN "switch"
    ELSE IF head[t].branch = c /\ head[t].commit >= remote[c] THEN "none"
    ELSE "available"

\* checkRemote: by version, or as a switch between the full and minimal builds,
\* which a package manager has no command for.
FromVersion(c) ==
    IF (c = Minimal) # (running.branch = Minimal) /\ Install.kind # "package" THEN "switch"
    ELSE IF remote[c] <= running.commit THEN "none"
    ELSE "available"

\* GitHub may always be out of reach.
CheckUpdate(c) ==
    {"error", IF Install.kind = "source" /\ IsCheckout(Install.source)
              THEN FromCheckout(Install.source, c)
              ELSE FromVersion(c)}

----------------------------------------------------------------------------
(* Starting an update, on the main thread *)

Idle == [stage |-> "idle", source |-> "none", channel |-> Minimal, done |-> FALSE]

Working(j) == job[j].stage # "idle"
Mine(j)    == Working(j) /\ j \notin orphan

\* showManagedUpdate: the command that would update this copy, for the user to run.
\* Nothing was begun, so the button comes back.
ShowManagedUpdate(done) ==
    button' = (button \/ done) /\ UNCHANGED <<updating, job>>

BeginAnyway(channel, done) ==                    \* mutant: though one is under way
    /\ Asked
    /\ IF ~SelfUpdatable
       THEN ShowManagedUpdate(done)
       ELSE /\ updating' = TRUE
            /\ \E j \in Jobs : /\ ~Working(j)
                               /\ job' = [job EXCEPT ![j] = [Idle EXCEPT
                                            !.stage = "begin", !.channel = channel,
                                            !.source = Install.source, !.done = done]]
            /\ UNCHANGED button

\* startUpdate. done says whether there is a button to put back. It is not put
\* back when an update is already under way.
StartUpdate(channel, done) ==
    IF updating
    THEN UNCHANGED <<installed, button, updating, job>>
    ELSE /\ Asked
         /\ IF ~SelfUpdatable
            THEN ShowManagedUpdate(done)
            ELSE /\ updating' = TRUE
                 /\ \E j \in Jobs : /\ ~Working(j)
                                    /\ job' = [job EXCEPT ![j] = [Idle EXCEPT
                                                 !.stage = "begin", !.channel = channel,
                                                 !.source = Install.source, !.done = done]]
                 /\ UNCHANGED button

\* An update is asked for at any time, in one's own reading of the dialogs, but
\* not while one is told that Atlas is restarting.
MayAsk == restart = "none" \/ "again" \in Permitted

----------------------------------------------------------------------------
(* The check at launch *)

\* startUpdateCheck's timer fires and the goroutine begins.
LaunchTimer ==
    /\ proc = "open" /\ launch.state = "timer"
    /\ launch' = [launch EXCEPT !.state = "asking"]
    /\ UNCHANGED <<outside, check, button, updating, proc, running, settings, installed,
                   job, orphan, restart, taken>>

\* CheckUpdate has come back. A switch is left to the Settings page.
LaunchAnswer ==
    /\ proc = "open" /\ launch.state = "asking"
    /\ Asked
    /\ \E answer \in CheckUpdate(launch.channel) :
           launch' = [launch EXCEPT !.state = IF answer = "available" THEN "found" ELSE "none",
                                    !.version = remote[launch.channel]]
    /\ UNCHANGED <<outside, check, button, updating, proc, running, settings, job, orphan,
                   restart, taken>>

\* offerUpdate: the dialog, once in the life of a process.
OfferUpdate ==
    /\ proc = "open" /\ launch.state = "found"
    /\ launch' = [launch EXCEPT !.state = "offered"]
    /\ Asked
    /\ UNCHANGED <<outside, check, button, updating, proc, running, settings, job, orphan,
                   restart, taken>>

\* Its answers: later, or now.
Later ==
    /\ proc = "open" /\ launch.state = "offered"
    /\ launch' = [launch EXCEPT !.state = "none"]
    /\ UNCHANGED <<outside, check, button, updating, proc, running, settings, installed, job,
                   orphan, restart, taken>>

UpdateNow ==
    /\ proc = "open" /\ launch.state = "offered" /\ MayAsk
    /\ launch' = [launch EXCEPT !.state = "none"]
    /\ StartUpdate(settings, FALSE)
    /\ taken' = IF updating THEN taken
                ELSE [branch |-> launch.channel, commit |-> launch.version]
    /\ UNCHANGED <<outside, check, proc, running, settings, orphan, restart>>

----------------------------------------------------------------------------
(* The Settings page *)

\* The Update button: a check on a goroutine of its own.
PressUpdate ==
    /\ proc = "open" /\ button /\ MayAsk
    /\ button' = FALSE
    /\ check' = [state |-> "asking", channel |-> settings, version |-> 0]
    /\ UNCHANGED <<outside, launch, updating, proc, running, settings, installed, job, orphan,
                   restart, taken>>

AnswerCheck ==
    /\ proc = "open" /\ check.state = "asking"
    /\ Asked
    /\ \E answer \in CheckUpdate(check.channel) :
           check' = [check EXCEPT !.state = answer, !.version = remote[check.channel]]
    /\ UNCHANGED <<outside, launch, button, updating, proc, running, settings, job, orphan,
                   restart, taken>>

\* Its answer, on the main thread.
OnAnswer ==
    /\ proc = "open" /\ check.state \notin {"none yet", "asking"} /\ MayAsk
    /\ check' = [check EXCEPT !.state = "none yet"]
    /\ IF check.state \in {"available", "switch"}
       THEN /\ StartUpdate(settings, TRUE)
            /\ taken' = IF updating THEN taken
                        ELSE [branch |-> check.channel, commit |-> check.version]
       ELSE button' = TRUE /\ UNCHANGED <<installed, updating, job, taken>>
    /\ UNCHANGED <<outside, launch, proc, running, settings, orphan, restart>>

\* The channel row.
PickChannel(c) ==
    /\ proc = "open" /\ settings # c
    /\ \/ "pick" \in Permitted
       \/ ~updating /\ check.state = "none yet" /\ launch.state = "none"
    /\ settings' = c
    /\ UNCHANGED <<outside, page, proc, running, installed, job, orphan, restart, taken>>

----------------------------------------------------------------------------
(* installUpdate's goroutine, and the processes it runs *)

\* missingBuildTools: something a build needs is not installed, and the user is
\* told of it.
ToolsMissing(j) ==
    job' = [job EXCEPT ![j].stage = "failed"] /\ UNCHANGED <<tree, recorded, head>>

\* A clone that is there already is recorded and used.
UseClone(j) ==
    /\ IsCheckout("clone")
    /\ recorded' = "clone"
    /\ job' = [job EXCEPT ![j].stage = "script", ![j].source = "clone"]
    /\ UNCHANGED <<tree, head>>

\* Anything else in its place makes way for a new one.
BeginClone(j) ==
    /\ ~IsCheckout("clone")
    /\ tree' = [tree EXCEPT !["clone"] = "half"]
    /\ job' = [job EXCEPT ![j].stage = "cloning"]
    /\ UNCHANGED <<recorded, head>>

\* bootstrapSource, for a copy without source.
Bootstrap(j) ==
    /\ job[j].stage = "begin" /\ job[j].source = "none" /\ j \notin orphan
    /\ ToolsMissing(j) \/ UseClone(j) \/ BeginClone(j)
    /\ UNCHANGED <<remote, owned, writable, binary, page, proc, running, settings, installed,
                   orphan, restart, taken>>

LeaveHalf(j) ==                                     \* mutant: a failed clone stays
    tree' = [tree EXCEPT !["clone"] = "half"]

\* The clone failed: what there is of it goes.
RemoveHalf(j) == tree' = [tree EXCEPT !["clone"] = "absent"]

\* git clone comes to its end. When Atlas is gone nobody records it.
Cloned(j) ==
    /\ job[j].stage = "cloning"
    /\ \/ /\ tree' = [tree EXCEPT !["clone"] = "whole"]
          /\ head' = [head EXCEPT !["clone"] = [branch |-> job[j].channel,
                                                commit |-> remote[job[j].channel]]]
          /\ IF j \in orphan
             THEN job' = [job EXCEPT ![j] = Idle] /\ UNCHANGED recorded
             ELSE /\ recorded' = "clone"
                  /\ job' = [job EXCEPT ![j].stage = "script", ![j].source = "clone"]
       \/ /\ RemoveHalf(j)
          /\ job' = [job EXCEPT ![j] = IF j \in orphan THEN Idle ELSE [@ EXCEPT !.stage = "failed"]]
          /\ UNCHANGED <<recorded, head>>
    /\ orphan' = orphan \ {j}
    /\ UNCHANGED <<remote, owned, writable, binary, page, proc, running, settings, installed,
                   restart, taken>>

\* A copy that knows its source goes straight to the script.
HasSource(j) ==
    /\ job[j].stage = "begin" /\ job[j].source # "none" /\ j \notin orphan
    /\ job' = [job EXCEPT ![j].stage = "script"]
    /\ UNCHANGED <<outside, page, proc, running, settings, installed, orphan, restart, taken>>

\* What git merge --ff-only refuses: the branch is left where it was when it was
\* last checked out, which for another than this one is anywhere behind GitHub's.
Refused(t, c) ==
    {[branch |-> c, commit |-> n] :
        n \in IF head[t].branch = c THEN {head[t].commit} ELSE 0 .. remote[c]}

PulledInPlace(t, c) ==                              \* mutant: no checkout of the branch
    {[branch |-> head[t].branch, commit |-> remote[head[t].branch]]}

\* What may be checked out after update.sh: GitHub's newest of the branch or, where
\* the user has commits of their own, what there was.
Pulled(t, c) ==
    {[branch |-> c, commit |-> remote[c]]}
        \cup IF tree[t] = "diverged" THEN Refused(t, c) ELSE {}

\* Local changes stay as they are, and a tree that is not git's, and whatever there
\* is when GitHub cannot be reached or the branch cannot be checked out.
LeftAlone(t, c) ==
    \/ tree[t] \in {"edited", "plain"}
    \/ "offline" \in Permitted
    \/ "stuck" \in Permitted /\ head[t].branch # c

\* The script is there, and begins. What there is in the end gets built.
RunScript(j) ==
    /\ job[j].stage = "script" /\ j \notin orphan
    /\ LET t == job[j].source
           c == job[j].channel
       IN  IF tree[t] \in Buildable
           THEN /\ job' = [job EXCEPT ![j].stage = "making"]
                /\ \/ /\ tree[t] \in {"whole", "diverged"}
                      /\ \E b \in Pulled(t, c) : head' = [head EXCEPT ![t] = b]
                   \/ /\ LeftAlone(t, c)
                      /\ UNCHANGED head
           ELSE job' = [job EXCEPT ![j].stage = "failed"] /\ UNCHANGED head
    /\ UNCHANGED <<tree, recorded, remote, owned, writable, binary, page, proc, running,
                   settings, installed, orphan, restart, taken>>

\* make install, over the copy that was running: it needs leave to write there.
Make(j) ==
    /\ job[j].stage = "making"
    /\ \/ /\ writable
          /\ binary' = head[job[j].source]
          /\ job' = [job EXCEPT ![j] = IF j \in orphan THEN Idle ELSE [@ EXCEPT !.stage = "ok"]]
       \/ /\ job' = [job EXCEPT ![j] = IF j \in orphan THEN Idle ELSE [@ EXCEPT !.stage = "failed"]]
          /\ UNCHANGED binary
    /\ orphan' = orphan \ {j}
    /\ UNCHANGED <<tree, head, recorded, remote, owned, writable, page, proc, running,
                   settings, installed, restart, taken>>

\* finished, on the main thread: the flag goes first, then the button comes
\* back or the restart is set.
Finished(j) ==
    /\ proc = "open" /\ j \notin orphan /\ job[j].stage \in {"ok", "failed"}
    /\ updating' = FALSE
    /\ IF job[j].stage = "failed"
       THEN button' = (button \/ job[j].done) /\ UNCHANGED restart
       ELSE restart' = "pause" /\ UNCHANGED button
    /\ job' = [job EXCEPT ![j] = Idle]
    /\ UNCHANGED <<outside, launch, check, proc, running, settings, installed, orphan, taken>>

----------------------------------------------------------------------------
(* Restarting, closing, being killed *)

\* relaunch: the helper is on its way and the main loop ends.
Relaunch ==
    /\ proc = "open" /\ restart = "pause"
    /\ restart' = "helper" /\ proc' = "leaving"
    /\ UNCHANGED <<outside, page, running, settings, installed, job, orphan, taken>>

\* The window is closed; with the last window the main loop ends.
Close ==
    /\ proc = "open"
    /\ "close" \in Permitted \/ \A j \in Jobs : ~Working(j)
    /\ proc' = "leaving"
    /\ restart' = IF restart = "pause" THEN "none" ELSE restart     \* the timer goes too
    /\ UNCHANGED <<outside, page, running, settings, installed, job, orphan, taken>>

\* Goroutines go with the process. git and make stay behind when they run.
Outlives(j) == job[j].stage \in {"cloning", "making"}

Gone ==
    /\ proc' = "off"
    /\ launch' = [launch EXCEPT !.state = "none"]
    /\ check' = [check EXCEPT !.state = "none yet"]
    /\ button' = TRUE /\ updating' = FALSE
    /\ installed' = Unasked

\* The shutdown handler is through, and the process ends.
Exit ==
    /\ proc = "leaving"
    /\ Gone
    /\ orphan' = {j \in Jobs : Outlives(j)}
    /\ job' = [j \in Jobs |-> IF Outlives(j) THEN job[j] ELSE Idle]
    /\ UNCHANGED <<outside, running, settings, restart, taken>>

\* Killed, with git and make: a clone stays as it is, and nothing is installed. The
\* helper is in a session of its own.
Kill ==
    /\ proc # "off"
    /\ "kill" \in Permitted \/ \A j \in Jobs : ~Working(j)
    /\ Gone
    /\ orphan' = {} /\ job' = [j \in Jobs |-> Idle]
    /\ restart' = IF restart = "pause" THEN "none" ELSE restart
    /\ UNCHANGED <<outside, running, settings, taken>>

\* New and activate: a window, and the check when the settings ask for one.
Open ==
    /\ proc' = "open" /\ running' = binary
    /\ \E checks \in BOOLEAN :
           launch' = [state |-> IF checks THEN "timer" ELSE "none", channel |-> settings,
                      version |-> 0]
    /\ UNCHANGED <<outside, check, button, updating, settings, installed, job, orphan, taken>>

\* The user opens Atlas.
Start ==
    /\ proc = "off"
    /\ Open
    /\ UNCHANGED restart

LaunchAtOnce ==                                     \* mutant: the helper does not wait
    /\ restart = "helper" /\ restart' = "none"
    /\ IF proc = "off" THEN Open
       ELSE UNCHANGED <<outside, page, proc, running, settings, installed, job, orphan, taken>>

\* The helper launches Atlas. While one is there it is handed the activation: it
\* raises its window, or, leaving, does nothing.
HelperLaunch ==
    /\ restart = "helper" /\ restart' = "none"
    /\ proc # "leaving" \/ "slow" \in Permitted
    /\ IF proc = "off" THEN Open
       ELSE UNCHANGED <<outside, page, proc, running, settings, installed, job, orphan, taken>>

----------------------------------------------------------------------------
(* Elsewhere *)

\* A commit is pushed.
Release(c) ==
    /\ remote[c] < MaxVersion
    /\ remote' = [remote EXCEPT ![c] = @ + 1]
    /\ UNCHANGED <<tree, head, recorded, owned, writable, binary, page, proc, running, settings,
                   installed, job, orphan, restart, taken>>

\* The user moves or deletes the checkout the copy was built in.
OwnGoes ==
    /\ tree["own"] # "absent" /\ restart = "none" /\ \A j \in Jobs : ~Working(j)
    /\ tree' = [tree EXCEPT !["own"] = "absent"]
    /\ UNCHANGED <<head, recorded, remote, owned, writable, binary, page, proc, running,
                   settings, installed, job, orphan, restart, taken>>

\* The user edits in the checkout, commits there, or puts either away.
OwnChanges ==
    /\ tree["own"] \in Buildable \ {"plain"}
    /\ restart = "none" /\ \A j \in Jobs : ~Working(j)
    /\ \E t \in Buildable \ {"plain"} : tree' = [tree EXCEPT !["own"] = t]
    /\ UNCHANGED <<head, recorded, remote, owned, writable, binary, page, proc, running,
                   settings, installed, job, orphan, restart, taken>>

----------------------------------------------------------------------------

\* Four ways to have come by Atlas: built, packaged, unpacked, and unpacked
\* where one may not write.
Init ==
    /\ \E c \in Channels :
           /\ remote = [d \in Channels |-> 0]
           /\ binary = [branch |-> c, commit |-> 0]
           /\ head = [t \in Trees |-> binary]
           /\ settings = c /\ running = binary /\ taken = binary
    /\ \/ /\ recorded = "own" /\ owned = FALSE /\ writable = TRUE
          /\ tree \in [own : Buildable, clone : {"absent"}]
       \/ /\ recorded = "none" /\ owned = TRUE /\ writable = FALSE
          /\ tree = [own |-> "absent", clone |-> "absent"]
       \/ /\ recorded = "none" /\ owned = FALSE /\ writable \in BOOLEAN
          /\ tree = [own |-> "absent", clone |-> "absent"]
    /\ proc = "off" /\ installed = Unasked
    /\ launch = [state |-> "none", channel |-> settings, version |-> 0]
    /\ check = [state |-> "none yet", channel |-> settings, version |-> 0]
    /\ button = TRUE /\ updating = FALSE
    /\ job = [j \in Jobs |-> Idle] /\ orphan = {}
    /\ restart = "none"

JobStep(j) ==
    Bootstrap(j) \/ Cloned(j) \/ HasSource(j) \/ RunScript(j) \/ Make(j) \/ Finished(j)

LaunchStep == LaunchTimer \/ LaunchAnswer \/ OfferUpdate
CheckStep  == AnswerCheck \/ OnAnswer

Next ==
    \/ LaunchStep \/ CheckStep
    \/ Later \/ UpdateNow \/ PressUpdate
    \/ \E j \in Jobs : JobStep(j)
    \/ Relaunch \/ Close \/ Exit \/ Kill \/ Start \/ HelperLaunch
    \/ \E c \in Channels : PickChannel(c) \/ Release(c)
    \/ OwnGoes \/ OwnChanges

Spec == Init /\ [][Next]_vars

\* Goroutines, timers and the idle queue are served; git, make and GitHub
\* answer. The user owes nothing.
Fairness ==
    /\ WF_vars(LaunchStep) /\ WF_vars(CheckStep)
    /\ \A j \in Jobs : WF_vars(JobStep(j))
    /\ WF_vars(Relaunch) /\ WF_vars(Exit) /\ WF_vars(HelperLaunch)

FairSpec == Spec /\ Fairness

----------------------------------------------------------------------------

\* What the variables that are records may hold.
Stages       == {"idle", "begin", "cloning", "script", "making", "ok", "failed"}
LaunchStates == {"none", "timer", "asking", "found", "offered"}
CheckStates  == {"none yet", "asking", "error", "none", "switch", "available"}

InstallSet == [kind : {"unasked", "source", "package", "standalone"},
               source : Trees \cup {"none"}]
LaunchSet  == [state : LaunchStates, channel : Channels, version : Versions]
CheckSet   == [state : CheckStates, channel : Channels, version : Versions]
JobSet     == [stage : Stages, source : Trees \cup {"none"}, channel : Channels,
               done : BOOLEAN]

\* Every variable keeps to its kind.
TypeOK ==
    /\ tree \in [Trees -> {"absent", "half"} \cup Buildable]
    /\ head \in [Trees -> Build]
    /\ recorded \in Trees \cup {"none"}
    /\ remote \in [Channels -> Versions]
    /\ owned \in BOOLEAN /\ writable \in BOOLEAN
    /\ binary \in Build /\ running \in Build /\ taken \in Build
    /\ proc \in {"off", "open", "leaving"}
    /\ settings \in Channels
    /\ installed \in InstallSet
    /\ launch \in LaunchSet /\ check \in CheckSet
    /\ button \in BOOLEAN /\ updating \in BOOLEAN
    /\ job \in [Jobs -> JobSet]
    /\ orphan \subseteq Jobs
    /\ restart \in {"none", "pause", "helper"}

\* "One at a time: two builds in the same checkout would fight" (install.go:47):
\* never two of them in one tree, of this process or of one before.
OneBuildAtATime ==
    \A i, j \in Jobs :
        (job[i].stage = "making" /\ job[j].stage = "making" /\ job[i].source = job[j].source)
            => i = j

\* A clone is recorded only when it is whole, as what is recorded is built from
\* ever after and nothing clones anew.
RecordedIsWhole == recorded = "clone" => tree["clone"] = "whole"

\* Atlas says it is restarting into the new version only when what is installed is
\* of the branch that was offered, and no older than what was found on it. A
\* checkout the user has edited or committed to, and a source that is not git's,
\* are rebuilt as they are, and called updated (update.sh:45-56, 75-79).
TakenIsInstalled ==
    (restart = "pause" /\ tree[recorded] = "whole") =>
        /\ binary.branch = taken.branch
        /\ binary.commit >= taken.commit

\* Once the window goes for the new version, a window comes: the helper is not
\* swallowed by the process that is still leaving.
RestartComesBack == restart = "helper" ~> proc = "open"

====
