---- MODULE MCWindow ----
(***************************************************************************)
(* Window for TLC: its three parts share no state, so that one of them     *)
(* moves in a behaviour and the others stay as they begin.                 *)
(***************************************************************************)
EXTENDS Window

CONSTANTS u1, d1

OneProblem == {"hot CPU"}
QuietOrWorn ==
    [nvme : {"quiet"}, wear : {"little"}, spare : {"unsaid", "little"}, ata : {"none"}]
WiredAndWireless == <<"wired", "wireless">>

VARIABLE part

Parts == {"alerts", "pages", "startup"}

MCInit ==
    /\ part \in Parts
    /\ WindowInit
    /\ part # "alerts" => problems = {} /\ activeNet = "wired"
                         /\ \A d \in Drives : Verdict(logs[d]) = "fine"
    /\ part # "pages" => aiEnabled
    /\ part # "startup" => system = Startup!NoFile /\ user = Startup!NoFile

MCNext ==
    \/ part = "alerts" /\ AlertsMove /\ UNCHANGED part
    \/ part = "pages" /\ SidebarMoves /\ UNCHANGED part
    \/ part = "startup" /\ StartupMoves /\ UNCHANGED part

MCSpec == MCInit /\ [][MCNext]_<<part, vars, pageVars, startupVars>> /\ Fairness
====
