---- MODULE Window ----
(***************************************************************************)
(* The window, as one program: its tick with the alert badge (Alerts), the *)
(* sidebar and its pages (Pages) and the Startup page (Autostart).         *)
(*                                                                         *)
(* All of it runs on the main thread and none of it uses what another part *)
(* keeps: every step is one part's, and they come in any order.            *)
(***************************************************************************)

EXTENDS Alerts

CONSTANTS
    MaxKeys,          \* Autostart's bound
    StartupPermitted  \* and what may be so, or go wrong, around that page

ASSUME KeysAssumption == MaxKeys \in Nat

VARIABLES
    \* Pages
    lastView, aiEnabled, open, views, built, active, lastPage, capturing, selected, focus,
    placed, mapped, mapping, assistantRow, collapsed, showSidebar, menuActive,
    \* Autostart
    system, user, entry, opened, showSystem, banner

Sidebar == INSTANCE Pages
Startup == INSTANCE Autostart WITH Permitted <- StartupPermitted

ASSUME StartupAssumption == StartupPermitted \subseteq Startup!Happenings

pageVars == <<lastView, aiEnabled, open, views, built, active, lastPage, capturing, selected,
              focus, placed, mapped, mapping, assistantRow, collapsed, showSidebar, menuActive>>

startupVars == <<system, user, entry, opened, showSystem, banner>>

WindowInit == Init /\ Sidebar!Init /\ Startup!Init

AlertsMove  == Next /\ UNCHANGED <<pageVars, startupVars>>
SidebarMoves == Sidebar!Next /\ UNCHANGED <<vars, startupVars>>
StartupMoves == Startup!Next /\ UNCHANGED <<vars, pageVars>>

WindowNext == AlertsMove \/ SidebarMoves \/ StartupMoves

WindowSpec == WindowInit /\ [][WindowNext]_<<vars, pageVars, startupVars>>

----------------------------------------------------------------------------

\* Pages: one page is open, highlighted, typed to and reopened ("selecting Apps in the
\* system list would otherwise leave CPU selected", ui/sidebar.go:167).
OnePage == Sidebar!OnePage

\* Autostart: a row is on for what starts at login, and for nothing else ("Listing it as
\* "on" would be a lie", ui/startup.go:127).
ShownIsTrue == Startup!ShownIsTrue

====
