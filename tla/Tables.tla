------------------------------- MODULE Tables -------------------------------
(***************************************************************************)
(* Two of the window's tables, the processes (AppsTable) and the services  *)
(* (ServicesView). Both are merged with a list that something else has     *)
(* read, under what GTK makes of their rows, on the main thread; they      *)
(* share no state.                                                         *)
(***************************************************************************)
EXTENDS AppsTable

CONSTANTS Units, ServiceUnits, Changing, Searches, Jobs     \* ServicesView's

VARIABLES state, client, loaded, order, shown, selected, found, problemsOnly,
          sensitive, servicesOnly, banner, job, applied

Services == INSTANCE ServicesView WITH Services <- ServiceUnits, search <- found

ASSUME UnitsAssumption == Services!UnitsFit

servicesVars == <<state, client, loaded, order, shown, selected, found, problemsOnly,
                  sensitive, servicesOnly, banner, job, applied>>

TablesInit == Init /\ Services!Init

AppsMove     == Next /\ UNCHANGED servicesVars
ServicesMove == Services!Next /\ UNCHANGED vars

TablesSpec == TablesInit /\ [][AppsMove \/ ServicesMove]_<<vars, servicesVars>>

----------------------------------------------------------------------------
(* ServicesView's properties, of its part of the state.                     *)

\* The rows are one list as a whole (services.go:262).
RowsAreTheList == Services!RowsAreTheList

\* The selection stays on its unit (services.go:16).
SelectionFollowsUnit == Services!SelectionFollowsUnit
=============================================================================
