---- MODULE Alerts ----
(***************************************************************************)
(* The tick of the window, and the alert badge in its header: what is      *)
(* found wrong with the machine, partly from the snapshot that is there    *)
(* and partly from systemd and the drives, which are asked more rarely and *)
(* by goroutines of their own, whose answers need not come in order.       *)
(*                                                                         *)
(* The tick also keeps the network interfaces in order, the one in use     *)
(* first, and the icon over them.                                          *)
(*                                                                         *)
(* A definition marked "mutant" is a mistake the next one might have held. *)
(*                                                                         *)
(* Left out: thresholds and wording of the alerts; the readings beside the *)
(* sidebar's rows; a machine without systemd or udisks2, which just never  *)
(* reports those problems. What the page on screen does is in its module.  *)
(***************************************************************************)

EXTENDS Naturals, Sequences, SequencesExt, FiniteSets, FiniteSetsExt

CONSTANTS
    Problems,    \* what a snapshot may show: a subset of SnapshotProblems
    Disks,       \* those with a page
    Units,       \* the services that may fail
    Conditions,  \* what a drive may say of itself: a subset of Logs
    Drives,
    Nets,        \* the interfaces, in the collector's order
    Wireless,    \* those of them that are
    MaxPolls,    \* bound: goroutines under way, and answers not taken, at once
    Permitted    \* what may go wrong around it: a subset of Happenings

Happenings ==
    {"mute",     \* a call to systemd or udisks2 fails
     "hung",     \* one never returns: none has a timeout
     "offline"}  \* no interface is in use, at first or for a while

SnapshotProblems ==
    {"hot CPU", "hot GPU", "little memory", "much swap"} \cup {<<"full", d>> : d \in Disks}

\* What udisks2 has of a drive: an NVMe controller's log or an ATA drive's verdict.
Logs ==
    [nvme  : {"none", "quiet", "warns"},
     wear  : {"unsaid", "little", "much"},
     spare : {"unsaid", "enough", "little"},
     ata   : {"none", "passes", "fails"}]

ASSUME AlertsAssumption ==
    /\ Problems \subseteq SnapshotProblems
    /\ Conditions \subseteq Logs
    /\ MaxPolls \in Nat \ {0}
    /\ Permitted \subseteq Happenings

NoNet == "none"

\* The names are those of the machine's interfaces, and the disks are those it has.
ASSUME MachineAssumption ==
    /\ Nets \in Seq(ToSet(Nets)) /\ IsInjective(Nets) /\ NoNet \notin ToSet(Nets)
    /\ IsFiniteSet(Disks)

VARIABLES
    \* the machine
    problems,    \* what its snapshot shows
    failedUnits, \* its failed services
    logs,        \* what its drives say
    activeNet,   \* the interface of the default route
    \* the window
    visible,     \* Window.visible
    due,         \* alertPoll has gone by since lastSvc
    failedSvc,   \* Window.failedSvc
    driveHealth, \* Window.driveHealth
    alertShown,  \* Window.alertShown
    badge,       \* the button: whether it is there, its list, and its colour
    netCurrent,  \* Window.netCurrent
    netIcon,     \* the icon of the Network group
    \* the goroutines, and what they have left for the main loop
    polls,
    idle,
    \* history
    ticked       \* what the last tick found

machine == <<problems, failedUnits, logs, activeNet>>
alerts  == <<failedSvc, driveHealth, alertShown, badge>>
network == <<netCurrent, netIcon>>
vars    == <<machine, visible, due, alerts, network, polls, idle, ticked>>

----------------------------------------------------------------------------
(* health *)

Critical(title, about) == [level |-> "critical", title |-> title, about |-> about]
Warning(title, about)  == [level |-> "warning", title |-> title, about |-> about]

\* Read: there is something to report if there is either. A drive past its last
\* spare blocks says so only against its own threshold.
Reports(log) == log.nvme # "none" \/ log.ata # "none"

Verdict(log) ==
    IF log.nvme = "warns" \/ log.ata = "fails" THEN "failing"
    ELSE IF log.nvme = "none" THEN "fine"
    ELSE IF log.spare = "little" THEN "spare low"
    ELSE IF log.wear = "much" THEN "worn" ELSE "fine"

\* Check. Swap counts only while memory is short, which "much swap" includes; a
\* disk of which nothing is mounted is not among the full ones.
CriticalOfSnapshot(found) ==
    (IF "hot CPU" \in found THEN <<Critical("Processor is running hot", "CPU")>> ELSE <<>>)
    \o (IF "hot GPU" \in found THEN <<Critical("Graphics card is running hot", "GPU")>>
        ELSE <<>>)

WarningsOfSnapshot(found) ==
    LET full == SetToSeq({d \in Disks : <<"full", d>> \in found})
    IN  (IF "little memory" \in found THEN <<Warning("Running out of memory", "memory")>>
         ELSE <<>>)
        \o (IF "much swap" \in found THEN <<Warning("Swapping heavily", "swap")>> ELSE <<>>)
        \o [i \in DOMAIN full |-> Warning("Disk nearly full", full[i])]

\* One drive after another.
OfDrives(drives, verdicts, level) ==
    LET said[n \in 0 .. Len(drives)] ==
            IF n = 0 THEN <<>>
            ELSE IF drives[n].verdict \in verdicts
                 THEN Append(said[n - 1], [level |-> level, title |-> drives[n].verdict,
                                           about |-> drives[n].name])
                 ELSE said[n - 1]
    IN  said[Len(drives)]

OfServices(failed) ==
    IF failed = {} THEN <<>>
    ELSE <<Warning(IF Cardinality(failed) = 1 THEN "A background service has failed"
                   ELSE "Background services have failed", failed)>>

Check(found, failed, drives) ==
    CriticalOfSnapshot(found) \o OfDrives(drives, {"failing"}, "critical")
    \o WarningsOfSnapshot(found) \o OfDrives(drives, {"spare low", "worn"}, "warning")
    \o OfServices(failed)

Worst(found) ==
    IF \E i \in DOMAIN found : found[i].level = "critical" THEN "critical" ELSE "warning"

----------------------------------------------------------------------------
(* The interfaces *)

IsWireless(net) == net \in Wireless

\* orderNames, orderByActive: the active one is put first, and the others follow in
\* their order.
Order ==
    [active \in ToSet(Nets) \cup {NoNet} |->
        IF active = NoNet THEN Nets
        ELSE <<active>> \o RemoveAt(Nets, CHOOSE i \in DOMAIN Nets : Nets[i] = active)]

ReorderFromStable ==                \* mutant: compared with the collector's order
    IF Order[activeNet] = Nets THEN UNCHANGED network
    ELSE netCurrent' = Order[activeNet] /\ netIcon' = IsWireless(activeNet)

\* reorderNets: nothing while the order is the one that is there.
ReorderNets ==
    IF Order[activeNet] = netCurrent THEN UNCHANGED network
    ELSE netCurrent' = Order[activeNet] /\ netIcon' = IsWireless(activeNet)

----------------------------------------------------------------------------
(* The tick *)

NoPoll == [at |-> "none", failed |-> {}, drives |-> <<>>, left |-> {}]

\* The goroutine of refreshAlerts, when it is time to ask again.
Ask ==
    IF ~due THEN UNCHANGED <<polls, due>>
    ELSE LET free == {p \in 1..MaxPolls : polls[p].at = "none"}
         IN  /\ Cardinality(free) > Len(idle)
             /\ polls' = [polls EXCEPT ![Min(free)] =
                              [NoPoll EXCEPT !.at = "services", !.left = Drives]]
             /\ due' = FALSE

\* alertKey: what is being said.
Key(found) == [i \in DOMAIN found |-> <<found[i].title, found[i].about>>]

NoBadge == [visible |-> FALSE, says |-> <<>>, critical |-> FALSE]

ShowOnce(found) ==                  \* mutant: what was said is not forgotten
    IF found = <<>>
    THEN badge' = [badge EXCEPT !.visible = FALSE] /\ UNCHANGED alertShown
    ELSE IF Key(found) = alertShown THEN UNCHANGED <<badge, alertShown>>
    ELSE /\ alertShown' = Key(found)
         /\ badge' = [visible |-> TRUE, says |-> found, critical |-> Worst(found) = "critical"]

\* The rest of refreshAlerts: the list is made again only when what is being said
\* changes, and stays as it is in a button that is not there.
ShowAlerts(found) ==
    IF found = <<>>
    THEN badge' = [badge EXCEPT !.visible = FALSE] /\ alertShown' = <<>>
    ELSE IF Key(found) = alertShown THEN UNCHANGED <<badge, alertShown>>
    ELSE /\ alertShown' = Key(found)
         /\ badge' = [visible |-> TRUE, says |-> found, critical |-> Worst(found) = "critical"]

\* installTick's callback
Tick ==
    /\ visible
    /\ ReorderNets
    /\ Ask
    /\ LET found == Check(problems, failedSvc, driveHealth)
       IN  ShowAlerts(found) /\ ticked' = [alerts |-> found, net |-> activeNet]
    /\ UNCHANGED <<machine, visible, failedSvc, driveHealth, idle>>

\* alertPoll goes by.
Elapse ==
    /\ ~due
    /\ due' = TRUE
    /\ UNCHANGED <<machine, visible, alerts, network, polls, idle, ticked>>

----------------------------------------------------------------------------
(* A poll *)

\* A call that does not return leaves its goroutine where it is, for good.
Returns == {TRUE} \cup IF "hung" \in Permitted THEN {FALSE} ELSE {}

\* Failed. A call that fails leaves nothing failed.
AskServices(p) ==
    /\ polls[p].at = "services"
    /\ \E failed \in {failedUnits} \cup IF "mute" \in Permitted THEN {{}} ELSE {},
          returns \in Returns :
           polls' = [polls EXCEPT ![p].failed = failed,
                                  ![p].at = IF returns THEN "drives" ELSE "hung"]
    /\ UNCHANGED <<machine, visible, due, alerts, network, idle, ticked>>

\* Read, of one drive after another, in the order a map gives.
AskDrive(p) ==
    /\ polls[p].at = "drives"
    /\ \E d \in polls[p].left :
           \E answers \in {TRUE} \cup IF "mute" \in Permitted THEN {FALSE} ELSE {},
              returns \in Returns :
               polls' = [polls EXCEPT
                            ![p].at = IF returns THEN @ ELSE "hung",
                            ![p].left = @ \ {d},
                            ![p].drives = IF answers /\ Reports(logs[d])
                                          THEN Append(@, [name |-> d,
                                                          verdict |-> Verdict(logs[d])])
                                          ELSE @]
    /\ UNCHANGED <<machine, visible, due, alerts, network, idle, ticked>>

\* The answers are left for the main loop.
Post(p) ==
    /\ polls[p].at = "drives" /\ polls[p].left = {}
    /\ idle' = Append(idle, [failed |-> polls[p].failed, drives |-> polls[p].drives])
    /\ polls' = [polls EXCEPT ![p] = NoPoll]
    /\ UNCHANGED <<machine, visible, due, alerts, network, ticked>>

PollStep(p) == AskServices(p) \/ AskDrive(p) \/ Post(p)

KeepFailed ==                       \* mutant: a list that is empty is no news
    /\ idle # <<>>
    /\ failedSvc' = IF Head(idle).failed = {} THEN failedSvc ELSE Head(idle).failed
    /\ driveHealth' = Head(idle).drives
    /\ idle' = Tail(idle)
    /\ UNCHANGED <<machine, visible, due, alertShown, badge, network, polls, ticked>>

\* The main loop takes them. What it said before stays until the next tick.
Take ==
    /\ idle # <<>>
    /\ failedSvc' = Head(idle).failed /\ driveHealth' = Head(idle).drives
    /\ idle' = Tail(idle)
    /\ UNCHANGED <<machine, visible, due, alertShown, badge, network, polls, ticked>>

----------------------------------------------------------------------------
(* Around it *)

\* SetVisible: nothing ticks while the window is hidden.
SetVisible ==
    /\ visible' = ~visible
    /\ UNCHANGED <<machine, due, alerts, network, polls, idle, ticked>>

InUse == {n \in ToSet(Nets) \cup {NoNet} : n = NoNet => "offline" \in Permitted}

Machine ==
    /\ \/ \E p \in SUBSET Problems : problems' = p /\ UNCHANGED <<failedUnits, logs, activeNet>>
       \/ \E f \in SUBSET Units : failedUnits' = f /\ UNCHANGED <<problems, logs, activeNet>>
       \/ \E d \in Drives, log \in Conditions :
              logs' = [logs EXCEPT ![d] = log] /\ UNCHANGED <<problems, failedUnits, activeNet>>
       \/ \E n \in InUse : activeNet' = n /\ UNCHANGED <<problems, failedUnits, logs>>
    /\ machine' # machine
    /\ UNCHANGED <<visible, due, alerts, network, polls, idle, ticked>>

\* Build: nothing has been asked yet, and the first tick asks.
Init ==
    /\ problems \in SUBSET Problems
    /\ failedUnits = {}
    /\ logs \in [Drives -> Conditions]
    /\ activeNet \in InUse
    /\ visible = TRUE /\ due = TRUE
    /\ failedSvc = {} /\ driveHealth = <<>>
    /\ alertShown = <<>> /\ badge = NoBadge
    /\ netCurrent = Order[activeNet] /\ netIcon = IsWireless(activeNet)
    /\ polls = [p \in 1..MaxPolls |-> NoPoll] /\ idle = <<>>
    /\ ticked = [alerts |-> <<>>, net |-> activeNet]

Next ==
    \/ Tick \/ Elapse \/ Take \/ SetVisible \/ Machine
    \/ \E p \in 1..MaxPolls : PollStep(p)

Spec == Init /\ [][Next]_vars

\* The main loop runs, time goes by, and whoever is asked answers or fails: no call of a
\* poll has a timeout, so this is the condition that systemd and udisks2 return, which
\* "hung" takes away. Nothing is assumed of the machine, or of the window being shown.
Fairness ==
    /\ WF_vars(Tick) /\ WF_vars(Elapse) /\ WF_vars(Take)
    /\ \A p \in 1..MaxPolls : WF_vars(PollStep(p))

FairSpec == Spec /\ Fairness

----------------------------------------------------------------------------

\* Since a tick, the window shows what that tick found, though it leaves alone what
\* seems not to have changed: the badge is there when there is something to say and
\* says just that, in the colour of the worst of it, and the interface in use is
\* first, under its own icon, "depending on the active interface" (ui/window.go:586).
TickIsShown ==
    /\ badge.visible <=> ticked.alerts # <<>>
    /\ badge.visible => /\ badge.says = ticked.alerts
                        /\ badge.critical <=> Worst(ticked.alerts) = "critical"
    /\ netCurrent = Order[ticked.net] /\ netIcon = IsWireless(ticked.net)

\* What there is to say of the machine as it is, in whichever order the drives come.
Truth ==
    ToSet(Check(problems, failedUnits,
                SetToSeq({[name |-> d, verdict |-> Verdict(logs[d])] :
                              d \in {e \in Drives : Reports(logs[e])}})))

\* A machine that stays as it is comes to be shown as it is, whatever order the answers
\* about it and about what went before came in, as long as whoever is asked answers.
BadgeCatchesUp ==
    <>[][UNCHANGED machine]_vars /\ <>[]visible
        => <>[](IF badge.visible THEN ToSet(badge.says) = Truth ELSE Truth = {})

====
