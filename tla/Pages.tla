---- MODULE Pages ----
(***************************************************************************)
(* The window's pages: the sidebar that chooses one, what follows the page *)
(* that is open, and the sidebar as an overlay when the window is narrow.  *)
(*                                                                         *)
(* The sidebar is several lists that know nothing of each other, and GTK   *)
(* selects and focuses rows in them for reasons of its own. Whatever page  *)
(* is open is to be the one that is highlighted, that typing goes to and   *)
(* that Atlas reopens on.                                                  *)
(*                                                                         *)
(* Pages stand for their kinds: a disk's is inside an expander and has no  *)
(* row in the lists themselves. What is collected for a page is in         *)
(* Collection, and what a page does is in its own module.                  *)
(*                                                                         *)
(* A definition marked "mutant" is a mistake the next one might have held. *)
(*                                                                         *)
(* Left out: going through the rows with the arrow keys, which highlights  *)
(* one without opening its page, in each list by itself.                   *)
(***************************************************************************)

\* buildSidebar: the rows that are tracked, by the list they sit in.
Lists == {"hardware", "system", "footer"}
Rows  == [l \in Lists |-> CASE l = "hardware" -> {"cpu", "memory"}
                            [] l = "system"   -> {"assistant", "apps"}
                            [] l = "footer"   -> {"settings"}]
SubRows    == {"disk"}
AllPages   == UNION {Rows[l] : l \in Lists} \cup SubRows
Searchable == {"apps"}
Nobody     == "nobody"

VARIABLES
    \* what lasts
    lastView,    \* settings.LastView
    aiEnabled,   \* settings.AIEnabled
    \* the window
    open,        \* the window has been built
    views,       \* the pages there are
    built,       \* those that have been opened
    active,      \* Window.active
    lastPage,    \* Window.lastPage
    capturing,   \* Window.capturing: the page whose search takes what is typed
    selected,    \* in each list, the row GTK highlights
    focus,       \* the page whose row has the focus, or Nobody
    placed,      \* focus has been placed, once
    mapped,      \* the window is on screen
    mapping,     \* the idle callback that follows a map is yet to run
    assistantRow,\* the Assistant's row is there
    \* AdwOverlaySplitView
    collapsed,
    showSidebar,
    menuActive   \* the toggle in the header bar

lasting == <<lastView, aiEnabled>>
split   == <<collapsed, showSidebar, menuActive>>
placing == <<focus, placed, mapped, mapping>>
vars    == <<lasting, open, views, built, active, lastPage, capturing, selected, placing,
             assistantRow, split>>

----------------------------------------------------------------------------

Unselected == [l \in Lists |-> Nobody]

\* sidebar.selectView: all lists are cleared first.
Highlight(p) == [l \in Lists |-> IF p \in Rows[l] THEN p ELSE Nobody]

\* GTK: a list selects its row that is clicked or gets the focus; the others do not know.
Selecting(sel, p) == [l \in Lists |-> IF p \in Rows[l] THEN p ELSE sel[l]]

SelectOnlyThere(p) ==               \* mutant: the other lists are not cleared
    /\ active' = p
    /\ built' = built \cup {p}
    /\ lastPage' = IF p = "settings" THEN lastPage ELSE p
    /\ capturing' = IF p \in Searchable THEN p ELSE Nobody
    /\ selected' = Selecting(selected, p)
    /\ showSidebar' = (showSidebar /\ ~collapsed)
    /\ menuActive' = showSidebar'
    /\ UNCHANGED collapsed

\* selectView: the page is built the first time. An overlay is put away.
SelectView(p) ==
    /\ active' = p
    /\ built' = built \cup {p}
    /\ lastPage' = IF p = "settings" THEN lastPage ELSE p
    /\ capturing' = IF p \in Searchable THEN p ELSE Nobody
    /\ selected' = Highlight(p)
    /\ showSidebar' = (showSidebar /\ ~collapsed)
    /\ menuActive' = showSidebar'
    /\ UNCHANGED collapsed

\* A row is activated.
Activate(p) ==
    /\ open /\ mapped /\ showSidebar /\ p \in views
    /\ p = "assistant" => assistantRow
    /\ focus' = p
    /\ SelectView(p)
    /\ UNCHANGED <<lasting, open, views, placed, mapped, mapping, assistantRow>>

\* SetAIEnabled, from the Settings page.
SetAIEnabled ==
    /\ open /\ active = "settings"
    /\ aiEnabled' = ~aiEnabled /\ assistantRow' = aiEnabled'
    /\ IF ~aiEnabled' /\ active = "assistant" THEN SelectView("cpu")
       ELSE UNCHANGED <<built, active, lastPage, capturing, selected, split>>
    /\ UNCHANGED <<lastView, open, views, placing>>

\* The window comes on screen: GTK gives the focus to what comes first, which in the
\* sidebar is the first row.
Map ==
    /\ open /\ ~mapped
    /\ mapped' = TRUE /\ mapping' = TRUE
    /\ \E first \in (IF placed THEN {focus} ELSE IF showSidebar THEN {"cpu"} ELSE {Nobody}) :
           focus' = first /\ selected' = Selecting(selected, first)
    /\ UNCHANGED <<lasting, open, views, built, active, lastPage, capturing, placed,
                   assistantRow, split>>

\* The idle callback: focus is placed the first time, and the page's row
\* highlighted whatever GTK made of it.
AfterMap ==
    /\ mapping
    /\ mapping' = FALSE /\ placed' = TRUE
    /\ focus' = IF placed THEN focus
                ELSE IF active \notin SubRows /\ showSidebar THEN active ELSE Nobody
    /\ selected' = Highlight(active)
    /\ UNCHANGED <<lasting, open, views, built, active, lastPage, capturing, mapped,
                   assistantRow, split>>

Unmap ==
    /\ mapped
    /\ mapped' = FALSE
    /\ UNCHANGED <<lasting, open, views, built, active, lastPage, capturing, selected, focus,
                   placed, mapping, assistantRow, split>>

\* The breakpoint: the split view hides its sidebar as it collapses, and the button
\* follows it; undone, the sidebar is shown.
Narrow ==
    /\ open /\ ~collapsed
    /\ collapsed' = TRUE /\ showSidebar' = FALSE /\ menuActive' = FALSE
    /\ UNCHANGED <<lasting, open, views, built, active, lastPage, capturing, selected,
                   placing, assistantRow>>

Widen ==
    /\ open /\ collapsed
    /\ collapsed' = FALSE /\ showSidebar' = TRUE /\ menuActive' = TRUE
    /\ UNCHANGED <<lasting, open, views, built, active, lastPage, capturing, selected,
                   placing, assistantRow>>

\* The button, which is there while the sidebar is an overlay; or a swipe.
ToggleSidebar ==
    /\ open /\ collapsed
    /\ showSidebar' = ~showSidebar /\ menuActive' = showSidebar'
    /\ UNCHANGED <<lasting, open, views, built, active, lastPage, capturing, selected,
                   placing, assistantRow, collapsed>>

\* Build: on the page that was left, if it is still there and is not an assistant
\* that is off. A disk may have come or gone.
Initial(there) ==
    IF lastView \in there /\ (lastView = "assistant" => aiEnabled) THEN lastView ELSE "cpu"

Build ==
    /\ ~open
    /\ open' = TRUE
    /\ \E disks \in SUBSET SubRows :
           LET there == (AllPages \ SubRows) \cup disks
               first == Initial(there)
           IN  /\ views' = there /\ built' = {first} /\ active' = first
               /\ lastPage' = first
               /\ capturing' = IF first \in Searchable THEN first ELSE Nobody
               /\ selected' = Highlight(first)
    /\ focus' = Nobody /\ placed' = FALSE /\ mapped' = FALSE /\ mapping' = FALSE
    /\ assistantRow' = aiEnabled
    /\ collapsed' = FALSE /\ showSidebar' = TRUE /\ menuActive' = TRUE
    /\ UNCHANGED lasting

\* saveWindowState, with LastPage.
Close ==
    /\ open /\ ~mapping
    /\ open' = FALSE /\ lastView' = lastPage
    /\ views' = {} /\ built' = {} /\ active' = Nobody /\ lastPage' = Nobody
    /\ capturing' = Nobody /\ selected' = Unselected
    /\ focus' = Nobody /\ placed' = FALSE /\ mapped' = FALSE /\ mapping' = FALSE
    /\ assistantRow' = FALSE
    /\ collapsed' = FALSE /\ showSidebar' = TRUE /\ menuActive' = TRUE
    /\ UNCHANGED aiEnabled

Init ==
    /\ lastView = "cpu" /\ aiEnabled \in BOOLEAN
    /\ open = FALSE
    /\ views = {} /\ built = {} /\ active = Nobody /\ lastPage = Nobody
    /\ capturing = Nobody /\ selected = Unselected
    /\ focus = Nobody /\ placed = FALSE /\ mapped = FALSE /\ mapping = FALSE
    /\ assistantRow = FALSE
    /\ collapsed = FALSE /\ showSidebar = TRUE /\ menuActive = TRUE

Next ==
    \/ Build \/ Close \/ Map \/ AfterMap \/ Unmap \/ Narrow \/ Widen \/ ToggleSidebar
    \/ SetAIEnabled
    \/ \E p \in AllPages : Activate(p)

Spec == Init /\ [][Next]_vars

----------------------------------------------------------------------------

\* With the window up, one page is open: the only row highlighted, in whichever list,
\* is its own or, for a page in an expander, none ("selecting Apps in the system list
\* would otherwise leave CPU selected in the hardware list", ui/sidebar.go:167); what
\* is typed goes to its search or nowhere; it is never an assistant that is off, a page
\* that is gone or one that was never built; and Atlas reopens on it, or on the one
\* Settings was opened from.
OnePage ==
    open =>
        /\ mapped /\ ~mapping => selected = Highlight(active)
        /\ capturing = (IF active \in Searchable THEN active ELSE Nobody)
        /\ active \in views \cap built
        /\ active = "assistant" => aiEnabled
        /\ lastPage # "settings" /\ (active = lastPage \/ active = "settings")
        /\ menuActive = showSidebar /\ (showSidebar \/ collapsed)

====
