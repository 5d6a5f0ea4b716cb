---- MODULE Identity ----
(***************************************************************************)
(* Which process is acted on: the Apps table's menu, which ends, stops or  *)
(* describes the process of a row (or every process of an application's),  *)
(* and the Energy page's list of busy programs, each with a button that    *)
(* lowers its priority. Both hold on to a process for as long as the user  *)
(* thinks it over, while processes end and numbers are used again.         *)
(*                                                                         *)
(* A process is its number and its start time. What the window knows of it *)
(* comes from the last scan, which takes the number and not the start time *)
(* (procIdent in common.go is taken later, of the process then there); a   *)
(* start time written into a row here is for the properties alone.         *)
(*                                                                         *)
(* A definition marked "mutant" is a mistake the next one might have held. *)
(*                                                                         *)
(* Left out: the figures, the Details panel, which signal is sent, and     *)
(* processes of other users, which refuse it.                              *)
(***************************************************************************)

EXTENDS Naturals

CONSTANTS
    PIDs,        \* process numbers
    Names,       \* programs, which are also what processes are grouped by
    MaxStart,    \* bound: processes there are in all
    Permitted    \* of Happenings, what may happen

Happenings ==
    {"quick",    \* a number is used again between a scan and what looks it up
     "race"}     \* a number is used again between the check and the signal

VARIABLES
    \* the machine
    world,       \* the process behind each number, or None
    starts,      \* the last start time given out
    \* the window
    page,        \* the page the user is on: neither has any bearing on the other
    scan,        \* the processes of the last scan
    lastSnap,    \* appsView.lastSnap: the scan the table's rows are made of
    grouped,
    menu,        \* "closed", "open", or "acting": the item chosen is carried out
    target,      \* target: a procIdent, and the row's number in targetRow
    targets,     \* targets: those of a grouped row that are still to be acted on
    checked,     \* the procIdent that is the same and will be acted on next, or NoIdent
    rows,        \* the Energy page's rows: of each its procIdent and its button
    shownKey,    \* shown: the key of what the rows say
    eased,       \* eased
    \* for the properties alone:
    meant,       \* the processes the menu's row stood for
    touched      \* the processes the item chosen has been carried out on

machine == <<world, starts>>
apps    == <<lastSnap, grouped, menu, target, targets, checked>>
energy  == <<rows, shownKey, eased>>
history == <<meant, touched>>
vars    == <<machine, page, scan, apps, energy, history>>

None    == [start |-> 0]
NoIdent == [pid |-> 0, start |-> 0]
NoRows  == [p \in {} |-> None]

Running == {p \in PIDs : world[p] # None}

\* Process.StartTime: what can be read of whatever has the number, or nothing.
StartTime(p) == world[p].start

----------------------------------------------------------------------------
(* procIdent *)

IdentOf(p) == [pid |-> p, start |-> StartTime(p)]

\* procIdent.same: a start time that could not be read is that of no process.
SameNumber(id) == id.start # 0 /\ id.pid \in Running     \* mutant: compares numbers
Same(id)       == id.start # 0 /\ StartTime(id.pid) = id.start

\* Whoever has the number now is the one the snapshot shows, unless that may be
\* otherwise.
NotTakenSince(snapshot, p) ==
    \/ p \notin Running
    \/ StartTime(p) = snapshot[p].start
    \/ "quick" \in Permitted

----------------------------------------------------------------------------
(* the machine *)

\* The main thread is carrying something out, between a check and what follows it.
Between == checked # NoIdent

Spawn(p) ==
    /\ p \notin Running
    /\ Between => "race" \in Permitted
    /\ starts < MaxStart
    /\ starts' = starts + 1
    /\ \E name \in Names, busy \in BOOLEAN :
          world' = [world EXCEPT ![p] =
                [start |-> starts + 1, name |-> name, busy |-> busy, nice |-> FALSE]]
    /\ UNCHANGED <<page, scan, apps, energy, history>>

Exit(p) ==
    /\ p \in Running
    /\ world' = [world EXCEPT ![p] = None]
    /\ UNCHANGED <<starts, page, scan, apps, energy, history>>

\* The collector, ProcessScan's business.
Scan ==
    /\ scan' = [p \in Running |-> world[p]]
    /\ UNCHANGED <<machine, page, apps, energy, history>>

----------------------------------------------------------------------------
(* the Apps table's menu *)

MainIsFree == menu # "acting"

\* appsView.Update, and the button that groups the rows.
UpdateApps ==
    /\ page = "apps" /\ MainIsFree
    /\ lastSnap' = scan
    /\ UNCHANGED <<machine, page, scan, grouped, menu, target, targets, checked, energy,
                   history>>

Group ==
    /\ page = "apps" /\ menu = "closed"
    /\ grouped' = ~grouped
    /\ UNCHANGED <<machine, page, scan, lastSnap, menu, target, targets, checked, energy,
                   history>>

\* membersOf: by the key of the row, in the snapshot the rows are made of.
MembersOf(p) ==
    IF grouped THEN {q \in DOMAIN lastSnap : lastSnap[q].name = lastSnap[p].name} ELSE {p}

\* attachContextMenu: the row under the pointer. The identities are those of the
\* processes that have the numbers now.
PressRow(p) ==
    /\ menu = "closed"
    /\ p \in DOMAIN lastSnap
    /\ \A q \in MembersOf(p) : NotTakenSince(lastSnap, q)
    /\ menu' = "open"
    /\ target' = IdentOf(p)
    /\ targets' = IF grouped THEN {IdentOf(q) : q \in MembersOf(p)} ELSE {}
    /\ meant' = {[pid |-> q, start |-> lastSnap[q].start] : q \in MembersOf(p)}
    /\ touched' = {}
    /\ UNCHANGED <<machine, page, scan, lastSnap, grouped, checked, energy>>

\* The popover is closed with nothing chosen.
CloseMenu ==
    /\ menu = "open"
    /\ menu' = "closed"
    /\ targets' = {}
    /\ meant' = {}
    /\ UNCHANGED <<machine, page, scan, lastSnap, grouped, target, checked, energy, touched>>

\* act: each process of a grouped row, or the one.
Act ==
    /\ menu = "open"
    /\ menu' = "acting"
    /\ targets' = IF targets = {} THEN {target} ELSE targets
    /\ UNCHANGED <<machine, page, scan, lastSnap, grouped, target, checked, energy, history>>

\* openLocation: the one the menu was opened on, of a grouped row too.
OpenLocation ==
    /\ menu = "open"
    /\ menu' = "acting"
    /\ targets' = {target}
    /\ meant' = {m \in meant : m.pid = target.pid}
    /\ UNCHANGED <<machine, page, scan, lastSnap, grouped, target, checked, energy, touched>>

Check(id) ==
    /\ menu = "acting" /\ ~Between
    /\ id \in targets
    /\ targets' = targets \ {id}
    /\ checked' = IF Same(id) THEN id ELSE NoIdent
    /\ UNCHANGED <<machine, page, scan, lastSnap, grouped, menu, target, energy, history>>

\* Signal, ExecutablePath: by number. Nothing happens to a number nobody has.
Carry ==
    /\ Between
    /\ checked' = NoIdent
    /\ touched' = IF checked.pid \in Running THEN touched \cup {IdentOf(checked.pid)}
                                             ELSE touched
    /\ UNCHANGED <<machine, page, scan, lastSnap, grouped, menu, target, targets, energy, meant>>

Done ==
    /\ menu = "acting" /\ targets = {} /\ ~Between
    /\ menu' = "closed"
    /\ meant' = {}
    /\ touched' = {}
    /\ UNCHANGED <<machine, page, scan, lastSnap, grouped, target, targets, checked, energy>>

----------------------------------------------------------------------------
(* the Energy page's list *)

\* updateOthers: the rows are made anew when what they would say has changed: whose
\* they are, or what is measured of one of them. A row is of the process that has the number by then, and
\* its button is dead if that one has been eased.
UpdateOthers(measured) ==
    LET candidates == {p \in DOMAIN scan : scan[p].busy}
        key == {<<p, scan[p].name>> : p \in candidates}
    IN  /\ page = "energy"
        /\ \A p \in candidates : NotTakenSince(scan, p)
        /\ measured => candidates # {}
        /\ IF key = shownKey /\ ~measured
           THEN UNCHANGED <<rows, shownKey>>
           ELSE /\ shownKey' = key
                /\ rows' = [p \in candidates |->
                        [id  |-> IdentOf(p),
                         of  |-> scan[p].start,
                         off |-> IdentOf(p) \in eased \/ (p \in Running /\ world[p].nice)]]
        /\ UNCHANGED <<machine, page, scan, apps, eased, history>>

\* row: the button. SetNice is by number, and an error changes nothing.
EaseOff(p) ==
    /\ p \in DOMAIN rows /\ ~rows[p].off
    /\ p \in Running
    /\ world' = [world EXCEPT ![p].nice = TRUE]
    /\ eased' = eased \cup {rows[p].id}
    /\ rows' = [rows EXCEPT ![p].off = TRUE]
    /\ UNCHANGED <<starts, page, scan, apps, shownKey, history>>

----------------------------------------------------------------------------

Init ==
    /\ world = [p \in PIDs |-> None]
    /\ starts = 0
    /\ page \in {"apps", "energy"}
    /\ scan = NoRows
    /\ lastSnap = NoRows
    /\ grouped = FALSE
    /\ menu = "closed"
    /\ target = NoIdent
    /\ targets = {}
    /\ checked = NoIdent
    /\ rows = NoRows
    /\ shownKey = {}
    /\ eased = {}
    /\ meant = {}
    /\ touched = {}

Menu ==
    \/ UpdateApps
    \/ Group
    \/ \E p \in PIDs : PressRow(p)
    \/ CloseMenu
    \/ Act
    \/ OpenLocation
    \/ \E id \in targets : Check(id)
    \/ Carry
    \/ Done

Energy ==
    \/ \E measured \in BOOLEAN : UpdateOthers(measured)
    \/ \E p \in PIDs : EaseOff(p)

Next ==
    \/ \E p \in PIDs : Spawn(p) \/ Exit(p)
    \/ Scan
    \/ Menu
    \/ Energy

Spec == Init /\ [][Next]_vars

----------------------------------------------------------------------------
(* properties *)

\* What is chosen from the menu is carried out on the processes the row stood for
\* when the menu was opened, whatever has become of their numbers meanwhile, and on
\* every one of them that is still there ("a process that exits in the seconds
\* between the two ... would put the signal on something innocent", apps.go:1327).
SignalsWhatWasMeant ==
    /\ touched \subseteq meant
    /\ menu = "acting" /\ targets = {} /\ ~Between =>
            \A m \in meant : StartTime(m.pid) = m.start => m \in touched

\* "a pid on its own is reused, and easing off the wrong program later because it
\* inherited a number would be a nasty surprise" (energy.go:53): a program whose
\* priority is lowered is the one the row with the button is about.
EasesWhatItShows ==
    [][\A p \in Running :
        world'[p] # None /\ world'[p].start = world[p].start
            /\ world'[p] # world[p] => rows[p].of = world[p].start]_vars

====
