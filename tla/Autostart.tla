---- MODULE Autostart ----
(***************************************************************************)
(* The Startup page: what starts at login, and a switch for each.          *)
(*                                                                         *)
(* One entry, which is two files of one name: the one a package installed  *)
(* in a system directory, and the user's, which shadows it. Entries do not *)
(* touch each other. A file is the sequence of its lines, by what they say *)
(* and in the order they come, because that decides what a line counts for *)
(* and where a new one goes.                                               *)
(*                                                                         *)
(* The page reads the files when it is opened, refreshed or shows the      *)
(* system's entries too; a row keeps what was read then.                   *)
(*                                                                         *)
(* A definition marked "mutant" is a mistake the next one might have held. *)
(*                                                                         *)
(* Left out: names and descriptions, their order, more than one system     *)
(* directory, a file with more than one [Desktop Entry], one that cannot   *)
(* be read or replaced for other reasons than those below.                   *)
(***************************************************************************)

EXTENDS Naturals, Sequences, SequencesExt, FiniteSetsExt

CONSTANTS
    MaxKeys,     \* bound: the keys of a file's [Desktop Entry]
    Permitted    \* what may be so, or go wrong, around Atlas: a subset of Happenings

Happenings ==
    {"customised",   \* the user's file says more than that the packaged one is off
     "bare",         \* it says only that, of a packaged one for another desktop
     "switchedOff",  \* the packaged file is itself Hidden
     "updated",      \* under one, a package changes which desktops its entry is for
     "outside",      \* files change while the page is open
     "full"}         \* the disk is full: what is being written is left empty

----------------------------------------------------------------------------
(* Files *)

HiddenKeys == {"Hidden=true", "Hidden=false", "Hidden = true"}
Keys       == HiddenKeys \cup {"NoDisplay", "OnlyShowIn", "Exec"}

\* A [Desktop Entry], which says each thing once, and perhaps one of its actions
\* after it.
Once(keys) ==
    /\ IsInjective(keys)
    /\ \A i, j \in DOMAIN keys : {keys[i], keys[j]} \subseteq HiddenKeys => i = j

File(keys, rest) == <<"[Desktop Entry]">> \o keys \o rest

Entries == {keys \in BoundedSeq(Keys, MaxKeys) : Once(keys)}

Actions == {<<>>, <<"[Desktop Action]">>}

Bodies == {File(keys, rest) : keys \in Entries, rest \in Actions}

Groups == {"[Desktop Entry]", "[Desktop Action]"}
NoFile == <<"none">>
Emptied == <<>>

\* parse, inGroup: the lines of the [Desktop Entry], by their positions.
InGroup(body) ==
    {i \in DOMAIN body :
        /\ body[i] \notin Groups
        /\ \E j \in 1..i : /\ body[j] = "[Desktop Entry]"
                           /\ \A k \in j + 1..i : body[k] \notin Groups}

\* parse: of a key that is there twice the last stands.
Disabled(body) ==
    LET said == {i \in InGroup(body) : body[i] \in HiddenKeys}
    IN  said # {} /\ body[Max(said)] # "Hidden=false"

Says(body, key) == \E i \in InGroup(body) : body[i] = key

\* runsHere: OnlyShowIn stands for an entry whose rules exclude this desktop.
RunsHere(body) == ~Says(body, "OnlyShowIn")

Hidden(off) == IF off THEN "Hidden=true" ELSE "Hidden=false"

WithHiddenLast(body, off) ==        \* mutant: a new key at the end of the file
    LET said == {i \in InGroup(body) : body[i] \in {"Hidden=true", "Hidden=false"}}
    IN  IF said # {} THEN [i \in DOMAIN body |-> IF i \in said THEN Hidden(off) ELSE body[i]]
        ELSE Append(body, Hidden(off))

\* withHidden: the keys that are there are replaced, of those written without
\* spaces; without one, a key goes in at the end of the group.
WithHidden(body, off) ==
    LET said  == {i \in InGroup(body) : body[i] \in {"Hidden=true", "Hidden=false"}}
        ends  == {i \in DOMAIN body \ {1} : body[i] \in Groups}
    IN  IF said # {} THEN [i \in DOMAIN body |-> IF i \in said THEN Hidden(off) ELSE body[i]]
        ELSE IF ends # {} THEN InsertAt(body, Min(ends), Hidden(off))
        ELSE Append(body, Hidden(off))

----------------------------------------------------------------------------

VARIABLES
    system,      \* the file in the system's directory
    user,        \* the file in the user's
    entry,       \* the row's: autostart.Entry, and whether its switch is on
    opened,      \* the page has been built
    showSystem,  \* the page's toggle
    banner       \* what the page says about itself

vars == <<system, user, entry, opened, showSystem, banner>>

NoEntry == [listed |-> FALSE, system |-> FALSE, shadows |-> FALSE, disabled |-> FALSE,
            here |-> FALSE, active |-> FALSE]

\* List: the user's file shadows the system's; whether it is plumbing the system's says.
Listed == system # NoFile \/ user # NoFile

Shadowing == system # NoFile /\ user # NoFile

Plumbing == Says(IF system # NoFile THEN system ELSE user, "NoDisplay")

\* What counts at login: the user's file if there is one.
InForce == IF user # NoFile THEN user ELSE system

Entry ==
    [listed   |-> TRUE,
     system   |-> user = NoFile,
     shadows  |-> Shadowing,
     disabled |-> Disabled(InForce),
     here     |-> RunsHere(InForce),
     active   |-> ~Disabled(InForce)]

\* rebuild: plumbing is kept back unless it is asked for.
Rebuild(all) ==
    LET shown == Listed /\ (all \/ ~Plumbing)
    IN  /\ entry' = IF shown THEN Entry ELSE NoEntry
        /\ banner' = IF shown THEN "" ELSE IF Listed THEN "nothing of your own" ELSE "nothing"

\* newStartupView
OpenPage ==
    /\ ~opened
    /\ opened' = TRUE /\ showSystem' = FALSE
    /\ Rebuild(FALSE)
    /\ UNCHANGED <<system, user>>

Refresh ==
    /\ opened
    /\ Rebuild(showSystem)
    /\ UNCHANGED <<system, user, opened, showSystem>>

ToggleSystem ==
    /\ opened
    /\ showSystem' = ~showSystem
    /\ Rebuild(showSystem')
    /\ UNCHANGED <<system, user, opened>>

\* os.WriteFile, which empties the file first.
Write(body) ==
    \/ user' = body /\ UNCHANGED system
    \/ "full" \in Permitted /\ user' = Emptied /\ UNCHANGED system

\* rewriteHidden: the user's file, where the row was read from; it may be gone.
RewriteHidden(off) ==
    user # NoFile /\ Write(WithHidden(user, off))

\* setEnabledAt, on: an entry of the system's, or that shadows one, goes back to it.
TurnOn ==
    IF entry.system \/ entry.shadows THEN user' = NoFile /\ UNCHANGED system
    ELSE RewriteHidden(FALSE)

\* setEnabledAt, off: the user's file says so; without one it is a copy of the
\* system's that does.
TurnOff ==
    IF ~entry.system THEN RewriteHidden(TRUE)
    ELSE system # NoFile /\ Write(WithHidden(system, TRUE))

\* The file to be read is not there.
CannotTurn(on) ==
    IF on THEN ~entry.system /\ ~entry.shadows /\ user = NoFile
    ELSE IF entry.system THEN system = NoFile ELSE user = NoFile

\* The row's switch. The row takes note only of what worked.
Switch ==
    /\ opened /\ entry.listed /\ ~CannotTurn(~entry.active)
    /\ IF entry.active THEN TurnOff ELSE TurnOn
    /\ IF user' = Emptied
       THEN banner' = "could not change that" /\ UNCHANGED entry
       ELSE /\ entry' = [entry EXCEPT !.active = ~@, !.disabled = entry.active]
            /\ banner' = ""
    /\ UNCHANGED <<opened, showSystem>>

\* The switch is put back where it was.
SwitchFails ==
    /\ opened /\ entry.listed /\ CannotTurn(~entry.active)
    /\ banner' = "could not change that"
    /\ UNCHANGED <<system, user, entry, opened, showSystem>>

\* Atlas is closed.
CloseAtlas ==
    /\ opened
    /\ opened' = FALSE /\ entry' = NoEntry /\ banner' = "" /\ showSystem' = FALSE
    /\ UNCHANGED <<system, user>>

----------------------------------------------------------------------------
(* The files as others leave them *)

\* A package's.
PackagedBodies ==
    {body \in Bodies : Disabled(body) => "switchedOff" \in Permitted}

\* What the page has left of a packaged file it switched off: a copy of it as it was
\* then, by whether that was for this desktop. It may have been updated since.
Copies ==
    [here \in BOOLEAN |->
        {WithHidden(former, TRUE) : former \in {body \in PackagedBodies : RunsHere(body) = here}}]

\* The user's: of his own, or to switch a packaged one off, all of it or only that.
UserBodies(packaged) ==
    IF packaged = NoFile \/ "customised" \in Permitted THEN Bodies \cup {NoFile}
    ELSE {NoFile} \cup Copies[RunsHere(packaged)]
         \cup IF "updated" \in Permitted THEN Copies[~RunsHere(packaged)] ELSE {}
         \cup IF RunsHere(packaged) \/ "bare" \in Permitted
              THEN {<<"[Desktop Entry]", "Hidden=true">>} ELSE {}

\* A package comes, is updated or goes; the user, or another program of his, writes
\* his file.
Outside ==
    /\ ~opened \/ "outside" \in Permitted
    /\ \/ \E body \in PackagedBodies \cup {NoFile} :
              /\ system' = body
              /\ user \in UserBodies(body)
              /\ UNCHANGED user
       \/ \E body \in UserBodies(system) : user' = body /\ UNCHANGED system
    /\ UNCHANGED <<entry, opened, showSystem, banner>>

Init ==
    /\ system \in PackagedBodies \cup {NoFile}
    /\ user \in UserBodies(system)
    /\ entry = NoEntry /\ opened = FALSE /\ showSystem = FALSE /\ banner = ""

Next ==
    \/ OpenPage \/ Refresh \/ ToggleSystem \/ Switch \/ SwitchFails \/ CloseAtlas
    \/ Outside

Spec == Init /\ [][Next]_vars

----------------------------------------------------------------------------

\* What the session starts at login.
Starts == Listed /\ Disabled(InForce) = FALSE /\ InForce # Emptied /\ RunsHere(InForce)

\* A row that is on, and is not said to be for another desktop, is a program that
\* starts at login, and no other row is, however often it was switched and whatever
\* was read in between: "Listing it as "on" would be a lie" (ui/startup.go:127).
ShownIsTrue ==
    (opened /\ entry.listed) => (Starts <=> entry.active /\ entry.here)

====
