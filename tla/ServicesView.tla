---- MODULE ServicesView ----
(***************************************************************************)
(* The Services page: src/internal/ui/services.go, over the systemd client *)
(* of src/internal/services/services_linux.go.                             *)
(*                                                                         *)
(* The main thread asks for lists and actions; each is a goroutine of its  *)
(* own (a job) that calls systemd and hands the answer back through the    *)
(* idle queue. Nothing orders two jobs, so their answers come in any order *)
(* (Answer) and so does what the main thread makes of them (OnList, OnAct).*)
(* A list is merged into the rows there are: a row is one object for as    *)
(* long as its unit is listed, which is what GTK's selection, a row and    *)
(* not a place, follows.                                                   *)
(*                                                                         *)
(* GTK's filter (`shown`) looks at a row when it is inserted and when it   *)
(* is told that the filter has changed, never because a row changes.       *)
(*                                                                         *)
(* A definition marked "mutant" is a mistake the next one might have held. *)
(*                                                                         *)
(* Left out: the cells, and of a unit all but its name and whether it has  *)
(* failed. A unit is its place in alphabetical order.                      *)
(***************************************************************************)

EXTENDS Naturals, SequencesExt, Sequencing

CONSTANTS
    Units,      \* systemd units
    Services,   \* those whose name ends in .service
    Changing,   \* the units that come, go and fail in this instance
    Searches,   \* for each text looked for, the units it is found in
    Jobs        \* bound: names for the goroutines under way at once

\* What an instance may choose.
UnitsFit ==
    /\ Units \subseteq Nat \ {0} /\ IsFiniteSet(Units)
    /\ Services \subseteq Units
    /\ Changing \subseteq Units
    /\ Searches \subseteq SUBSET Units

VARIABLES
    state,          \* systemd's: each unit is "unloaded", "fine" or "failed"
    client,         \* the system bus could be reached
    loaded,         \* the page has been shown
    order,          \* the rows, by name: of each its unit and status
    shown,          \* the units whose rows GTK shows
    selected,       \* the unit whose row is selected, or NoUnit
    search,         \* the units the text looked for is found in
    problemsOnly,   \* the toggle
    sensitive,      \* it can be clicked
    servicesOnly,
    banner,         \* the kind of thing it says, or ""
    job,            \* what each goroutine is at
    applied         \* history: the last list applied, or NeverApplied

view == <<order, shown, selected>>
controls == <<search, problemsOnly, servicesOnly>>
vars == <<state, client, loaded, view, controls, sensitive, banner, job, applied>>

NoUnit == 0
NeverApplied == <<[name |-> NoUnit, status |-> "fine"]>>

Row == [name: Units, status: {"fine", "failed"}]
ListedNames(rows) == {rows[i].name : i \in DOMAIN rows}
Failed(rows) == {rows[i].name : i \in {j \in DOMAIN rows : rows[j].status = "failed"}}

----------------------------------------------------------------------------
(* List: the units loaded, sorted by name.                                  *)

Listed(only) ==
    LET units == {u \in Units : state[u] # "unloaded" /\ (only => u \in Services)}
    IN  [i \in DOMAIN Ascending(units) |->
            [name |-> Ascending(units)[i], status |-> state[Ascending(units)[i]]]]

----------------------------------------------------------------------------
(* apply: a merge of the list, sorted by name, into the rows, sorted by     *)
(* name. `at` is how far it has come, `made` the units given a new row.     *)

\* The rows from `at` on are removed, up to the first whose unit does not sort
\* before n.
RemoveBefore(merge, n) ==
    LET rows == merge.rows
        end == CHOOSE k \in merge.at .. Len(rows) + 1 :
                  /\ k \in DOMAIN rows => rows[k].name >= n
                  /\ \A i \in merge.at .. k - 1 : rows[i].name < n
    IN  [merge EXCEPT !.rows =
            SubSeq(rows, 1, merge.at - 1) \o SubSeq(rows, end, Len(rows))]

MergeAnew(merge, s) ==                              \* mutant: a new row if it changed
    LET m == RemoveBefore(merge, s.name)
        same == m.at \in DOMAIN m.rows /\ m.rows[m.at].name = s.name
    IN  [rows |-> IF same THEN [m.rows EXCEPT ![m.at] = s]
                  ELSE InsertAt(m.rows, m.at, s),
         at |-> m.at + 1,
         made |-> IF same /\ m.rows[m.at] = s THEN m.made ELSE m.made \union {s.name}]
MergeOne(merge, s) ==
    LET m == RemoveBefore(merge, s.name)
        same == m.at \in DOMAIN m.rows /\ m.rows[m.at].name = s.name
    IN  [rows |-> IF same THEN [m.rows EXCEPT ![m.at] = s]
                  ELSE InsertAt(m.rows, m.at, s),
         at |-> m.at + 1,
         made |-> IF same THEN m.made ELSE m.made \union {s.name}]

\* The merge when it has come to the end of the list.
Merged(rows, list) ==
    LET merge[n \in 0 .. Len(list)] ==
            IF n = 0 THEN [rows |-> rows, at |-> 1, made |-> {}]
            ELSE MergeOne(merge[n - 1], list[n])
    IN  merge[Len(list)]

MergeKeepingTail(rows, list) ==                     \* mutant: no last removal
    LET m == Merged(rows, list)
    IN  [rows |-> m.rows, made |-> m.made]
\* What is left of the rows past the last of the list goes too.
Merge(rows, list) ==
    LET m == Merged(rows, list)
    IN  [rows |-> SubSeq(m.rows, 1, m.at - 1), made |-> m.made]

----------------------------------------------------------------------------
(* What GTK makes of the rows.                                              *)

\* matches, of the rows given.
Matching(rows, found, problems) ==
    {u \in ListedNames(rows) \cap found : problems => u \in Failed(rows)}

\* updateProblemCount: the toggle can be clicked.
Clickable(rows) == Failed(rows) # {}

\* GtkSingleSelection: a row that is still shown stays selected, and otherwise
\* another is, if there is one.
Selects(shows, kept) ==
    selected' \in IF selected \in shows \cap kept THEN {selected}
                  ELSE IF shows = {} THEN {NoUnit}
                  ELSE shows

\* filter.Changed: every row is looked at again.
Refilter(found, problems) ==
    /\ shown' = Matching(order, found, problems)
    /\ Selects(shown', ListedNames(order))
    /\ order' = order

----------------------------------------------------------------------------
(* Jobs.                                                                    *)

NoJob == [at |-> "none"]
Free == {j \in Jobs : job[j] = NoJob}
Replies ==
    {NoJob, [at |-> "list"], [at |-> "list failed"], [at |-> "act failed"],
     [at |-> "acted"]}
        \union [at: {"listed"}, list: {l \in Seq(Row) : Len(l) <= Cardinality(Units)}]
        \union [at: {"act"}, name: Units]

\* refresh, in job table b: nothing without a client.
Refresh(b) ==
    IF ~client THEN job' = b
    ELSE \E j \in Jobs : b[j] = NoJob /\ job' = [b EXCEPT ![j] = [at |-> "list"]]

\* The goroutine reads servicesOnly and calls systemd.
AnswerList(j) ==
    /\ job[j].at = "list"
    /\ job' \in {[job EXCEPT ![j] = [at |-> "list failed"]],
                 [job EXCEPT ![j] = [at |-> "listed", list |-> Listed(servicesOnly)]]}
    /\ UNCHANGED <<state, client, loaded, view, controls, sensitive, banner, applied>>

\* systemd takes the job on, or refuses: what becomes of the unit comes later.
AnswerAct(j) ==
    /\ job[j].at = "act"
    /\ \E outcome \in {"acted", "act failed"} :
          job' = [job EXCEPT ![j] = [at |-> outcome]]
    /\ UNCHANGED <<state, client, loaded, view, controls, sensitive, banner, applied>>

\* The idle callback of refresh.
OnList(j) ==
    /\ job[j].at \in {"listed", "list failed"}
    /\ job' = [job EXCEPT ![j] = NoJob]
    /\ IF job[j].at = "list failed"
       THEN /\ banner' = "list failed"
            /\ UNCHANGED <<view, sensitive, applied>>
       ELSE LET m == Merge(order, job[j].list)
                kept == ListedNames(m.rows) \ m.made
            IN  /\ banner' = ""
                /\ order' = m.rows
                /\ shown' = (shown \cap kept)
                              \union (Matching(m.rows, search, problemsOnly) \cap m.made)
                /\ Selects(shown', kept)
                /\ sensitive' = Clickable(m.rows)
                /\ applied' = job[j].list
    /\ UNCHANGED <<state, client, loaded, controls>>

\* The idle callback of doAction.
OnAct(j) ==
    /\ job[j].at \in {"acted", "act failed"}
    /\ IF job[j].at = "act failed"
       THEN /\ banner' = "act failed"
            /\ job' = [job EXCEPT ![j] = NoJob]
       ELSE /\ banner' = ""
            /\ Refresh([job EXCEPT ![j] = NoJob])
    /\ UNCHANGED <<state, client, loaded, view, controls, sensitive, applied>>

----------------------------------------------------------------------------
(* The main thread, for the user. The controls are there once the page has  *)
(* been shown.                                                              *)

\* Update: the list is asked for the first time the page is shown.
Update ==
    /\ ~loaded
    /\ loaded' = TRUE
    /\ Refresh(job)
    /\ UNCHANGED <<state, client, view, controls, sensitive, banner, applied>>

ClickRefresh ==
    /\ loaded
    /\ Free # {}
    /\ Refresh(job)
    /\ UNCHANGED <<state, client, loaded, view, controls, sensitive, banner, applied>>

\* problemsToggle
ToggleProblems ==
    /\ loaded
    /\ sensitive
    /\ problemsOnly' = ~problemsOnly
    /\ Refilter(search, ~problemsOnly)
    /\ sensitive' = Clickable(order)
    /\ UNCHANGED <<state, client, loaded, search, servicesOnly, banner, job, applied>>

\* allToggle
ToggleTypes ==
    /\ loaded
    /\ Free # {}
    /\ servicesOnly' = ~servicesOnly
    /\ Refresh(job)
    /\ UNCHANGED <<state, client, loaded, view, search, problemsOnly, sensitive, banner,
                   applied>>

SearchFor(found) ==
    /\ loaded
    /\ search' = found
    /\ Refilter(found, problemsOnly)
    /\ UNCHANGED <<state, client, loaded, problemsOnly, servicesOnly, sensitive, banner,
                   job, applied>>

SelectRow(u) ==
    /\ u \in shown
    /\ selected' = u
    /\ UNCHANGED <<state, client, loaded, order, shown, controls, sensitive, banner, job,
                   applied>>

\* doAction, whose buttons can be clicked when there is a client.
DoAction ==
    /\ loaded
    /\ client
    /\ IF selected = NoUnit
       THEN banner' = "select first" /\ UNCHANGED job
       ELSE /\ \E j \in Free : job' = [job EXCEPT ![j] = [at |-> "act", name |-> selected]]
            /\ UNCHANGED banner
    /\ UNCHANGED <<state, client, loaded, view, controls, sensitive, applied>>

\* systemd
UnitChanges(u) ==
    /\ state' \in {[state EXCEPT ![u] = s] : s \in {"unloaded", "fine", "failed"}}
    /\ UNCHANGED <<client, loaded, view, controls, sensitive, banner, job, applied>>

----------------------------------------------------------------------------

Init ==
    /\ state = [u \in Units |-> "fine"]
    /\ client \in BOOLEAN
    /\ loaded = FALSE
    /\ order = <<>>
    /\ shown = {}
    /\ selected = NoUnit
    /\ search = Units
    /\ problemsOnly = FALSE
    /\ sensitive = TRUE
    /\ servicesOnly = TRUE
    /\ banner = IF client THEN "" ELSE "unreachable"
    /\ job = [j \in Jobs |-> NoJob]
    /\ applied = NeverApplied

User ==
    \/ Update
    \/ ClickRefresh
    \/ ToggleProblems
    \/ ToggleTypes
    \/ \E found \in Searches : SearchFor(found)
    \/ \E u \in Units : SelectRow(u)
    \/ DoAction

Goroutine == \E j \in Jobs : AnswerList(j) \/ AnswerAct(j)

IdleCallback == \E j \in Jobs : OnList(j) \/ OnAct(j)

Next ==
    \/ User
    \/ Goroutine
    \/ IdleCallback
    \/ \E u \in Changing : UnitChanges(u)

Spec == Init /\ [][Next]_vars

----------------------------------------------------------------------------
(* Properties.                                                              *)

TypeOK ==
    /\ state \in [Units -> {"unloaded", "fine", "failed"}]
    /\ client \in BOOLEAN
    /\ loaded \in BOOLEAN
    /\ order \in Seq(Row)
    /\ shown \subseteq ListedNames(order)
    /\ selected \in shown \union {NoUnit}
    /\ search \in SUBSET Units
    /\ problemsOnly \in BOOLEAN
    /\ sensitive \in BOOLEAN
    /\ servicesOnly \in BOOLEAN
    /\ banner \in {"", "unreachable", "list failed", "act failed", "select first"}
    /\ job \in [Jobs -> Replies]

\* The rows are one list that systemd gave, as a whole and in its order,
\* whatever rows it was merged into: no unit twice, none left over from the list
\* before, and no status of another time than the rest (services.go:262, "This
\* is a linear merge").
RowsAreTheList ==
    applied # NeverApplied => order = applied

\* A row is kept for the lifetime of a unit (services.go:16): while a unit is
\* listed and shown a refresh does not move the selection, and with it the next
\* Stop or Disable, to another unit.
SelectionFollowsUnit ==
    [][(\E j \in Jobs : OnList(j)) /\ selected \in ListedNames(order')
          => selected' = selected]_vars
====
