----------------------------- MODULE AppsTable -----------------------------
(***************************************************************************)
(* The process table: src/internal/ui/apps.go and apps_rank.go.            *)
(*                                                                         *)
(* Every second Update merges a snapshot of the processes into a set of    *)
(* rows that only ever grows: the row of a process that has exited waits   *)
(* in the free list for the next one. GTK is told as little as possible.   *)
(* It holds its own view of the rows, a filtered and sorted list (`list`), *)
(* and learns of a change only through the ranks it sorts by, a nudge of   *)
(* the sorter, an appended item or a change of the filter. While the user  *)
(* points at the table, or has its menu open, the order is held: a row     *)
(* keeps the key it is sorted by (`key`) though its reading (`proc`) moves.*)
(*                                                                         *)
(* All of it runs on the main thread, so an action is one callback from    *)
(* beginning to end. The operators that make up Update take the table as a *)
(* record and give back the one they leave behind.                         *)
(*                                                                         *)
(* A definition marked "mutant" is a mistake the next one might have held. *)
(***************************************************************************)
EXTENDS Integers, FiniteSets, SequencesExt, Sequencing

CONSTANTS
    Pids,       \* process numbers
    Names,      \* program names, as their places in alphabetical order
    Programs,   \* what a process can be: pairs of a name and a CPU reading
    Searched,   \* the names looked for
    MaxProcs    \* how many processes there are at once

ASSUME TableAssumption ==
    /\ IsFiniteSet(Pids)
    /\ MaxProcs \in Nat
    /\ Names \subseteq Nat \ {0} /\ IsFiniteSet(Names)
    /\ Programs \subseteq Names \X Nat /\ IsFiniteSet(Programs)
    /\ Searched \subseteq Names

Columns == {"name", "cpu"}
NoSearch == 0
NoRow == 0

VARIABLES
    table,      \* the rows and what GTK makes of them, see TableType
    lastSnap,   \* the snapshot the rows were last merged with
    grouped,    \* Group by app
    search,     \* the name looked for, or NoSearch
    column,     \* the column sorted on (activeLess, activeSorter)
    clicked,    \* a header was clicked; its idle callback has yet to run
    pointing,   \* hover, and since lastMotion less than holdGrace has passed
    menuOpen

settings == <<grouped, search, column, clicked>>
hold == <<pointing, menuOpen>>
vars == <<table, lastSnap, settings, hold>>

----------------------------------------------------------------------------
(* Rows, keys and ranks.                                                    *)

Indices(t) == DOMAIN t.rows
LiveRows(t) == {i \in Indices(t) : t.rows[i].live}
Visible(t) == ToSet(t.list)

\* What a column compares of a process.
Value(c, p) == IF c = "name" THEN p.name ELSE p.cpu

\* rankRows: rows that read the same share a rank.
Ranked(rows, c) ==
    LET values == {Value(c, rows[i].key) : i \in DOMAIN rows}
    IN  [i \in DOMAIN rows |->
            Cardinality({x \in values : x < Value(c, rows[i].key)})]

WithRanks(t, c) == [t EXCEPT !.ranks = Ranked(t.rows, c)]

\* The row of a process, or of a group of them, in byPID or byKey.
Identity(p, byName) == IF byName THEN <<"name", p.name>> ELSE <<"pid", p.pid>>
Identities == ({"name"} \X Names) \union ({"pid"} \X Pids)

\* A retired row that GTK knows to be hidden. The code leaves the old contents
\* in it, but nothing uses them before the row is given new ones.
NoPid == "none"
NoProc == [pid |-> NoPid, name |-> 0, cpu |-> 0]
Hidden == [proc |-> NoProc, key |-> NoProc, live |-> FALSE, shown |-> FALSE]

Matches(row, s) == row.live /\ (s = NoSearch \/ row.proc.name = s)
Matching(t, s) == {i \in Indices(t) : Matches(t.rows[i], s)}

----------------------------------------------------------------------------
(* GTK's side: GtkFilterListModel and GtkSortListModel over the C sorter.   *)

InOrder(l, ranks) ==
    \A i, j \in DOMAIN l : i < j => ranks[l[i]] <= ranks[l[j]]

\* A stable sort of l by the ranks.
Sorted(l, ranks) ==
    LET Before(i, j) == \/ ranks[l[i]] < ranks[l[j]]
                        \/ ranks[l[i]] = ranks[l[j]] /\ i < j
        Place(j) == 1 + Cardinality({i \in DOMAIN l : Before(i, j)})
    IN  [k \in DOMAIN l |-> l[CHOOSE j \in DOMAIN l : Place(j) = k]]

\* The sorter changed: everything is sorted again.
Resorted(t) == [t EXCEPT !.list = Sorted(t.list, t.ranks)]

\* Items I appear in the filter's list. They are sorted in among the others,
\* which GTK takes to be in order: where they are not, it complains that the
\* "Comparison method violates its general contract".
Inserted(t, I) ==
    IF I \ Visible(t) = {} THEN t
    ELSE [t EXCEPT
            !.list = Sorted(t.list \o Ascending(I \ Visible(t)), t.ranks),
            !.complained = t.complained \/ ~InOrder(t.list, t.ranks)]

Removed(t, I) == [t EXCEPT !.list = Without(t.list, I)]

\* filter.Changed. GTK looks again at the items it shows when the filter has
\* become stricter, at the others when it has become less strict.
Filtered(t, change, s) ==
    LET stricter == Removed(t, Indices(t) \ Matching(t, s))
    IN  CASE change = "MoreStrict" -> stricter
          [] change = "LessStrict" -> Inserted(t, Matching(t, s))
          [] change = "Different"  -> Inserted(stricter, Matching(t, s))
          [] OTHER                 -> t

----------------------------------------------------------------------------
(* The parts of Update. A snapshot is a function from Identities to the     *)
(* process, or the sum of the group.                                        *)

Holding == menuOpen \/ pointing

\* clearModel
Cleared(t) ==
    LET none == [t EXCEPT
            !.rows = [i \in Indices(t) |-> Hidden],
            !.registry = [id \in Identities |-> NoRow],
            !.free = [i \in Indices(t) |-> i]]
    IN  Filtered(none, IF LiveRows(t) # {} THEN "MoreStrict" ELSE "none", NoSearch)

\* The processes that are still there take their new readings; the order is
\* held by their keys.
Known(t, snap) == {id \in DOMAIN snap : t.registry[id] # NoRow}
Stamped(t, snap, held) ==
    [t EXCEPT !.rows = [i \in Indices(t) |->
        LET ids == {id \in Known(t, snap) : t.registry[id] = i}
        IN  IF ids = {} THEN t.rows[i]
            ELSE LET p == snap[CHOOSE id \in ids : TRUE]
                 IN  [t.rows[i] EXCEPT !.proc = p,
                                       !.key = IF held THEN @ ELSE p]]]

\* The rows of the others are retired to the free list.
Gone(t, snap) == LiveRows(t) \ {t.registry[id] : id \in Known(t, snap)}
RetiredRegistered(t, snap, byName) ==               \* mutant: no unregister
    [t EXCEPT !.rows = [i \in Indices(t) |->
                [t.rows[i] EXCEPT !.live = @ /\ i \notin Gone(t, snap)]],
              !.free = @ \o Ascending(Gone(t, snap))]
Retired(t, snap, byName) ==
    LET ids == {Identity(t.rows[i].proc, byName) : i \in Gone(t, snap)}
    IN  [t EXCEPT !.rows = [i \in Indices(t) |->
                    [t.rows[i] EXCEPT !.live = @ /\ i \notin Gone(t, snap)]],
                  !.registry = [id \in Identities |->
                                  IF id \in ids THEN NoRow ELSE @[id]],
                  !.free = @ \o Ascending(Gone(t, snap))]

\* takeFree: while the order is held only a row that GTK knows to be hidden.
UsableAny(t, held) == t.free                        \* mutant: any row
Usable(t, held) == Without(t.free, {i \in Indices(t) : held /\ t.rows[i].shown})

\* The new processes, in the order of the snapshot, take the usable rows from
\* the end of the free list and then new ones.
Given(t, snap, new, held) ==
    LET usable == Usable(t, held)
        row == [n \in DOMAIN new |->
                    IF n <= Len(usable) THEN usable[Len(usable) + 1 - n]
                    ELSE Len(t.rows) + n - Len(usable)]
        taken == ToSet(row)
        Fresh(i) == LET p == snap[new[CHOOSE n \in DOMAIN new : row[n] = i]]
                    IN  [proc |-> p, key |-> p, live |-> TRUE,
                         shown |-> i \in Indices(t) /\ t.rows[i].shown]
        size == Cardinality(Indices(t) \union taken)
    IN  IF new = <<>> THEN t
        ELSE [t EXCEPT
            !.rows = [i \in 1 .. size |->
                        IF i \in taken THEN Fresh(i) ELSE t.rows[i]],
            !.registry = [id \in Identities |->
                            IF id \in ToSet(new)
                            THEN row[CHOOSE n \in DOMAIN new : new[n] = id]
                            ELSE @[id]],
            !.free = Without(@, taken)]

\* The sorter is told, unless the order is held, and the new items are added.
Told(t, first, held, new, c, s) ==
    LET ranked == IF ~held \/ new # <<>> THEN WithRanks(t, c) ELSE t
        added == {i \in Indices(t) : i > first} \intersect Matching(t, s)
    IN  Inserted(IF held THEN ranked ELSE Resorted(ranked), added)

ChangeByCount(t) ==                                 \* mutant: compares totals
    LET live == Cardinality(LiveRows(t))
        shown == Cardinality({i \in Indices(t) : t.rows[i].shown})
    IN  IF live < shown THEN "MoreStrict"
        ELSE IF live > shown THEN "LessStrict" ELSE "none"
\* The filter is told what has appeared and gone, but only then.
Change(t) ==
    LET hidden == {i \in Indices(t) : ~t.rows[i].live /\ t.rows[i].shown}
        revealed == {i \in Indices(t) : t.rows[i].live /\ ~t.rows[i].shown}
    IN  CASE hidden # {} /\ revealed # {} -> "Different"
          [] hidden # {} /\ revealed = {} -> "MoreStrict"
          [] hidden = {} /\ revealed # {} -> "LessStrict"
          [] OTHER                        -> "none"
Announced(t, s) ==
    Filtered([t EXCEPT !.rows = [i \in Indices(t) |->
                IF t.rows[i].live THEN [t.rows[i] EXCEPT !.shown = TRUE] ELSE Hidden]],
             Change(t), s)

\* applyRows
Applied(t, snap, new, byName, held) ==
    LET stamped == Stamped(t, snap, held)
        retired == Retired(stamped, snap, byName)
        given == Given(retired, snap, new, held)
    IN  Announced(Told(given, Len(t.rows), held, new, column, search), search)

----------------------------------------------------------------------------
(* Snapshots.                                                               *)

Procs == [pid : Pids \union {NoPid}, name : Names, cpu : Nat]

\* What a scan can find: some processes, each with a name (exec changes it) and
\* a reading.
Scans == UNION {[S -> Programs] :
                    S \in {P \in SUBSET Pids : Cardinality(P) <= MaxProcs}}

\* SnapshotInto, and groupByApp when the rows are grouped: a group has the sum
\* of its readings (the count of their units), and the number of one of its
\* processes, which nothing uses.
Snapshot(scan, byName) ==
    LET Sum(P) == Cardinality(UNION {{p} \X (1 .. scan[p][2]) : p \in P})
    IN  IF byName
        THEN [id \in {"name"} \X {scan[p][1] : p \in DOMAIN scan} |->
                [pid |-> NoPid, name |-> id[2],
                 cpu |-> Sum({p \in DOMAIN scan : scan[p][1] = id[2]})]]
        ELSE [id \in {"pid"} \X DOMAIN scan |->
                [pid |-> id[2], name |-> scan[id[2]][1], cpu |-> scan[id[2]][2]]]

PidSnapshots == {Snapshot(scan, FALSE) : scan \in Scans}
NameSnapshots == {Snapshot(scan, TRUE) : scan \in Scans}

\* The order of the snapshot: as the processes are listed, or by the groups'
\* readings, whose sort leaves equal ones in any order.
Orders(snap, S, byName) ==
    {s \in SetToSeqs(S) : byName =>
        \A i, j \in DOMAIN s : i < j => snap[s[i]].cpu >= snap[s[j]].cpu}

----------------------------------------------------------------------------
NewTable ==
    [rows |-> <<>>, registry |-> [id \in Identities |-> NoRow], free |-> <<>>,
     ranks |-> <<>>, list |-> <<>>, complained |-> FALSE]

\* newAppsView
Init ==
    /\ table = NewTable
    /\ lastSnap = {}
    /\ grouped = FALSE
    /\ search = NoSearch
    /\ column = "cpu"
    /\ clicked = FALSE
    /\ pointing = FALSE
    /\ menuOpen = FALSE

\* Update on the table t. The processes found are read from the collector,
\* which goes on scanning meanwhile.
Update(t, byName) ==
    \E snap \in IF byName THEN NameSnapshots ELSE PidSnapshots :
        \E new \in Orders(snap, DOMAIN snap \ Known(t, snap), byName) :
            /\ table' = Applied(t, snap, new, byName, Holding)
            /\ lastSnap' = {snap[id] : id \in DOMAIN snap}

\* The window's tick, while the page is the one shown.
Tick ==
    /\ Update(table, grouped)
    /\ UNCHANGED <<settings, hold>>

\* The rest is the user, whose input an open menu takes.

\* Group by app, and Kernel threads, which changes what a scan may find.
Rebuild(byName) ==
    /\ ~menuOpen
    /\ grouped' = byName
    /\ Update(Cleared(table), byName)
    /\ UNCHANGED <<search, column, clicked, hold>>

Search(s) ==
    /\ ~menuOpen
    /\ s # search
    /\ search' = s
    /\ table' = Filtered(table, "Different", s)
    /\ UNCHANGED <<lastSnap, grouped, column, clicked, hold>>

\* The first handler of the sorter's change ranks by the new column, then GTK
\* sorts, and the second handler leaves the rest for an idle moment.
ClickHeader(c) ==
    /\ ~menuOpen
    /\ c # column
    /\ column' = c
    /\ table' = Resorted(WithRanks(table, c))
    /\ clicked' = TRUE
    /\ UNCHANGED <<lastSnap, grouped, search, hold>>

Refreshed(t) ==
    [t EXCEPT !.rows = [i \in Indices(t) |->
        [t.rows[i] EXCEPT !.key = IF t.rows[i].live THEN t.rows[i].proc ELSE @]]]

\* refreshKeys and resortActiveColumn
CaughtUp(t, c) == Resorted(WithRanks(Refreshed(t), c))

AfterClick ==
    /\ clicked
    /\ clicked' = FALSE
    /\ table' = CaughtUp(table, column)
    /\ UNCHANGED <<lastSnap, grouped, search, column, hold>>

\* releaseHold, with the pointer as the callback has left it.
ReleaseNothing == table' = table                    \* mutant: order not updated
ReleaseHold ==
    table' = IF Holding' THEN table ELSE CaughtUp(table, column)

\* The pointer enters, moves over the table or scrolls it.
Move ==
    /\ ~menuOpen
    /\ pointing' = TRUE
    /\ UNCHANGED <<table, lastSnap, settings, menuOpen>>

\* holdGrace passes without a movement.
Rest ==
    /\ pointing
    /\ pointing' = FALSE
    /\ UNCHANGED <<table, lastSnap, settings, menuOpen>>

\* The pointer leaves, having moved until then or rested.
Leave ==
    /\ pointing' = FALSE
    /\ UNCHANGED <<lastSnap, settings, menuOpen>>
    /\ ReleaseHold

OpenMenu ==
    /\ ~menuOpen
    /\ table.list # <<>>
    /\ menuOpen' = TRUE
    /\ UNCHANGED <<table, lastSnap, settings, pointing>>

CloseMenu ==
    /\ menuOpen
    /\ menuOpen' = FALSE
    /\ UNCHANGED <<lastSnap, settings, pointing>>
    /\ ReleaseHold

\* Another page is shown.
Unmap ==
    /\ pointing' = FALSE
    /\ menuOpen' = FALSE
    /\ UNCHANGED <<lastSnap, settings>>
    /\ ReleaseHold

Next ==
    \/ Tick
    \/ \E byName \in BOOLEAN : Rebuild(byName)
    \/ \E s \in Searched \union {NoSearch} : Search(s)
    \/ \E c \in Columns : ClickHeader(c)
    \/ AfterClick
    \/ Move \/ Rest \/ Leave \/ OpenMenu \/ CloseMenu \/ Unmap

Spec == Init /\ [][Next]_vars

----------------------------------------------------------------------------
(* Properties.                                                              *)

RowType == [proc : Procs \union {NoProc}, key : Procs \union {NoProc}, 
            live : BOOLEAN, shown : BOOLEAN]

TypeOK ==
    /\ table.rows \in Seq(RowType)
    /\ table.registry \in [Identities -> {NoRow} \union Indices(table)]
    /\ table.free \in Seq(Indices(table))
    /\ table.ranks \in Seq(Nat) /\ Len(table.ranks) <= Len(table.rows)
    /\ table.list \in Seq(Indices(table))
    /\ table.complained \in BOOLEAN
    /\ lastSnap \subseteq Procs
    /\ grouped \in BOOLEAN
    /\ search \in Searched \union {NoSearch}
    /\ column \in Columns
    /\ clicked \in BOOLEAN
    /\ pointing \in BOOLEAN
    /\ menuOpen \in BOOLEAN

\* The rows in use are the snapshot, one row for each process or group of it, and
\* the rest are, exactly once, in the free list, and the registry finds exactly
\* those in use by what is in them: no two processes share a row and no row is
\* lost, however rows are retired, reused, cleared and regrouped. And although the
\* filter is told of a change only when the rows in use are other ones, what GTK
\* shows without a search is the rows in use, and with one it never shows a
\* retired row (apps.go:786, 854).
RowsAreTheSnapshot ==
    /\ {table.rows[i].proc : i \in LiveRows(table)} = lastSnap
    /\ Cardinality(LiveRows(table)) = Cardinality(lastSnap)
    /\ IsInjective(table.free)
    /\ ToSet(table.free) = Indices(table) \ LiveRows(table)
    /\ \A i \in LiveRows(table) :
            table.registry[Identity(table.rows[i].proc, grouped)] = i
    /\ Cardinality({id \in Identities : table.registry[id] # NoRow})
            = Cardinality(LiveRows(table))
    /\ Visible(table) \subseteq LiveRows(table)
    /\ search = NoSearch => Visible(table) = LiveRows(table)

\* GTK's list is in order by the keys of its rows, and GTK was never made to
\* add a row to a list that was not: "Comparison method violates its general
\* contract" (apps.go:820).
GtkOrderHolds ==
    /\ ~table.complained
    /\ \A i, j \in DOMAIN table.list : i < j =>
            Value(column, table.rows[table.list[i]].key)
                <= Value(column, table.rows[table.list[j]].key)

\* Once nothing holds the order, a tick, the pointer leaving or the menu closing
\* brings it up to date: the rows are in order by the readings they show.
CatchesUp ==
    [][/\ ~Holding'
       /\ (menuOpen /\ ~menuOpen') \/ table' # table
       /\ UNCHANGED <<search, column, clicked>>
       => \A i, j \in DOMAIN table'.list : i < j =>
            Value(column, table'.rows[table'.list[i]].proc)
                <= Value(column, table'.rows[table'.list[j]].proc)]_vars
=============================================================================
