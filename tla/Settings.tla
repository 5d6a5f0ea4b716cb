---- MODULE Settings ----
(***************************************************************************)
(* The settings: the file they are kept in, across processes, crashes and  *)
(* the two builds that share it; the Settings page that changes them, and  *)
(* what of them the running application puts into effect.                  *)
(*                                                                         *)
(* Everything here runs on the main thread. What one callback leads to,    *)
(* the fields it commits, the saves and what follows each, is a list of    *)
(* tasks, so that the process can end between any two of them and in the   *)
(* middle of a save.                                                       *)
(*                                                                         *)
(* The settings stand for their kinds: one key for each way in which a     *)
(* setting is offered, corrected when it is read, saved and applied: the   *)
(* never-list for the folded sections, the interval for the fonts and the  *)
(* rendering, the model for the address, the prompt for the names.         *)
(*                                                                         *)
(* A definition marked "mutant" is a mistake the next one might have held. *)
(*                                                                         *)
(* Left out: the wording and layout of the page, the size of the window, a *)
(* file somebody edits while Atlas runs.                                   *)
(***************************************************************************)

EXTENDS Naturals, Sequences, SequencesExt, Functions

CONSTANT Permitted     \* what may go wrong around Atlas: a subset of Happenings

Happenings ==
    {"legacy",      \* the file was begun by 0.9.0
     "compositor"}  \* the desktop stops or starts compositing under Atlas

ASSUME PermittedAssumption == Permitted \subseteq Happenings

----------------------------------------------------------------------------
(* Keys and values *)

Builds == {"full", "minimal"}

TextKeys   == {"model", "prompt"}
ChoiceKeys == {"theme", "glass", "frame", "refresh", "ai"}
ElseKeys   == {"columns", "never", "view"}
Keys       == TextKeys \cup ChoiceKeys \cup ElseKeys

\* Settings: the minimal build has no assistant and none of its keys.
Known(b) == IF b = "full" THEN Keys ELSE Keys \ (TextKeys \cup {"ai"})

\* Defaults
Defaults ==
    [k \in Keys |-> CASE k \in TextKeys -> "built-in"
                      [] k = "theme"    -> "follow"
                      [] k = "glass"    -> "off"
                      [] k = "frame"    -> "see-through"
                      [] k = "refresh"  -> "1"
                      [] k = "ai"       -> "on"
                      [] k = "columns"  -> "disk hidden"
                      [] k = "never"    -> "none"
                      [] k = "view"     -> "cpu"]

\* What each is offered as besides, by its row or elsewhere in the window. "blank"
\* is a field that has been emptied.
Others ==
    [k \in Keys |-> CASE k \in TextKeys -> {"own"}
                      [] k = "theme"    -> {"night", "day"}
                      [] k = "glass"    -> {"strong"}
                      [] k = "frame"    -> {"solid"}
                      [] k = "refresh"  -> {"5"}
                      [] k = "ai"       -> {"off"}
                      [] k = "columns"  -> {"all shown"}
                      [] k = "never"    -> {"some"}
                      [] k = "view"     -> {"apps"}]

Offered(k) == Others[k] \cup {Defaults[k]}
Typed      == {"built-in", "own", "blank"}
Stored(k)  == IF k \in TextKeys THEN Typed ELSE Offered(k)

VARIABLES
    \* what lasts
    file,        \* settings.json: its keys; or that it is absent or damaged
    flushed,     \* its contents have reached the disk, not only the name
    disk,        \* the file that the directory names on the disk, which nobody flushes
    \* the process
    proc,        \* "off", or the build that is running
    settings,    \* App.settings
    page,        \* the page on screen; lastPage while that is Settings
    fields,      \* text on the Settings page: what each field shows and has applied
    tasks,       \* what the callback that is running has still to do
    saving,      \* config.Save: how far it is, and what it writes
    \* what is in effect
    live,        \* the window, the collectors, the client, as they have been told;
                 \* css is App.loadedThemeCSS, whose provider always has it
    applied,     \* App.appliedTheme, App.appliedGlass
    desktop,     \* the desktop: whether it is dark, its accent, and compositing
    \* history
    chosen,      \* what the user last made each setting
    before,      \* what may be found of each, when the process ends before its saves
    durable,     \* what may be found of each, when the power goes: what might have been
                 \* when the directory last reached the disk
    failed       \* the last save failed

running == <<settings, page, fields, tasks, saving>>
effects == <<live, applied>>
lasting == <<file, flushed, disk>>
history == <<chosen, before, durable, failed>>
vars    == <<lasting, proc, running, effects, desktop, history>>

----------------------------------------------------------------------------
(* Reading and writing the file *)

Absent == [state |-> "absent", keys |-> [k \in {} |-> "built-in"], legacy |-> FALSE]

\* A value that could not be used is not: an emptied text and an unknown choice
\* are the default.
Normalize(k, v) == IF v \in Offered(k) THEN v ELSE Defaults[k]

\* Load: the defaults, under what the file says, corrected. A file that cannot
\* be read says nothing. A file of 0.9.0 that says the disk columns are shown
\* takes them out of those hidden.
Load(b) ==
    [k \in Known(b) |->
        IF k = "columns" /\ file.legacy THEN "all shown"
        ELSE IF k \in DOMAIN file.keys THEN Normalize(k, file.keys[k])
        ELSE Defaults[k]]

\* One set of keys on top of another.
Over(top, under) ==
    [k \in DOMAIN top \cup DOMAIN under |-> IF k \in DOMAIN top THEN top[k] ELSE under[k]]

Fresh(s) == [state |-> "whole", keys |-> s, legacy |-> FALSE]
                                    \* mutant: only what this build knows

\* merged: on top of what the file holds that this build does not know about. A
\* damaged file has nothing to keep.
Merged(s) == [state |-> "whole", keys |-> Over(s, file.keys), legacy |-> file.legacy]

NotSaving == [stage |-> "none", new |-> Absent]

\* Save begins: what will be written is settled.
Save(s) == saving' = [stage |-> "written", new |-> Merged(s)]

\* The sibling is written, then flushed, then renamed over the file.
SyncTmp ==
    /\ saving.stage = "written"
    /\ saving' = [saving EXCEPT !.stage = "synced"]
    /\ UNCHANGED <<lasting, proc, settings, page, fields, tasks, effects, desktop, history>>

RenameEarly ==                      \* mutant: renamed without a flush
    /\ saving.stage \in {"written", "synced"}
    /\ file' = saving.new /\ flushed' = (saving.stage = "synced")
    /\ saving' = NotSaving
    /\ failed' = FALSE
    /\ UNCHANGED <<disk, proc, settings, page, fields, tasks, effects, desktop, chosen, before,
                   durable>>

RenameTmp ==
    /\ saving.stage = "synced"
    /\ file' = saving.new /\ flushed' = TRUE
    /\ saving' = NotSaving
    /\ failed' = FALSE
    /\ UNCHANGED <<disk, proc, settings, page, fields, tasks, effects, desktop, chosen, before,
                   durable>>

\* Any of it fails: the sibling is removed, and nobody asks.
SaveFails ==
    /\ saving.stage # "none"
    /\ saving' = NotSaving
    /\ failed' = TRUE
    /\ UNCHANGED <<lasting, proc, settings, page, fields, tasks, effects, desktop, chosen,
                   before, durable>>

----------------------------------------------------------------------------
(* What the application does about its settings *)

\* The themes of Themes that are dark. Anything else follows the desktop.
Following(t) == t \notin {"night", "day"}

\* AdwStyleManager:dark: what a forced scheme says, or the desktop.
IsDark(scheme) == IF scheme = "default" THEN desktop.dark ELSE scheme = "force-dark"

Scheme(t) == IF Following(t) THEN "default" ELSE IF t = "night" THEN "force-dark"
             ELSE "force-light"

\* reloadThemeCSS: the theme, or following the desktop its scheme, with the accent.
CSS(t, dark, accent) ==
    [palette |-> IF ~Following(t) THEN t ELSE IF dark THEN "dark" ELSE "light",
     accent  |-> accent]

\* glassClassesFor: no class of the frame's without one of transparency's.
Glass(s) ==
    IF s["glass"] = "off" \/ ~desktop.composited THEN <<>>
    ELSE <<s["glass"], s["frame"]>>

\* applyTheme: only when the choice has changed. reloadThemeCSS: only when the
\* colours have.
ApplyTheme ==
    LET t == IF Following(settings["theme"]) THEN "follow" ELSE settings["theme"]
        css == CSS(t, IsDark(Scheme(t)), desktop.accent)
    IN  IF t = applied.theme
        THEN [scheme |-> live.scheme, css |-> live.css, theme |-> t]
        ELSE [scheme |-> Scheme(t), css |-> css, theme |-> t]

\* onSettingsChanged, and what activate does of it.
Applied ==
    LET theme == ApplyTheme
    IN  /\ applied' = [theme |-> theme.theme, glass |-> Glass(settings)]
        /\ live' = [scheme  |-> theme.scheme,
                    css     |-> theme.css,
                    glass   |-> IF Glass(settings) = applied.glass THEN live.glass
                                ELSE Glass(settings),
                    every   |-> settings["refresh"],
                    model   |-> IF proc = "full" THEN settings["model"] ELSE "none",
                    ai      |-> proc = "full" /\ settings["ai"] = "on"]

ApplyTask ==
    /\ saving.stage = "none" /\ tasks # <<>> /\ Head(tasks).do = "apply"
    /\ Applied
    /\ tasks' = Tail(tasks)
    /\ UNCHANGED <<lasting, proc, settings, page, fields, saving, desktop, history>>

ReloadForTheme(dark, accent) ==     \* mutant: not while the theme is the same
    UNCHANGED live

\* The style manager says that its scheme or accent has changed.
Reload(dark, accent) ==
    LET css == CSS(settings["theme"], IF live.scheme = "default" THEN dark
                                      ELSE live.scheme = "force-dark", accent)
    IN  live' = [live EXCEPT !.css = css]

\* The desktop goes dark in the evening, or is given another accent. Between two
\* callbacks, as the main loop says so.
DesktopChanges ==
    /\ tasks = <<>> /\ saving.stage = "none"
    /\ \E dark, accent \in BOOLEAN :
           /\ dark # desktop.dark \/ accent # desktop.accent
           /\ desktop' = [desktop EXCEPT !.dark = dark, !.accent = accent]
           /\ IF proc = "off" THEN UNCHANGED live ELSE Reload(dark, accent)
    /\ UNCHANGED <<lasting, proc, running, applied, history>>

Compositor ==
    /\ "compositor" \in Permitted \/ proc = "off"
    /\ desktop' = [desktop EXCEPT !.composited = ~@]
    /\ UNCHANGED <<lasting, proc, running, effects, history>>

----------------------------------------------------------------------------
(* The user *)

Idle == proc # "off" /\ tasks = <<>> /\ saving.stage = "none"

Apply     == [do |-> "apply", key |-> "view"]
Commit(k) == [do |-> "commit", key |-> k]
Task(w)   == [do |-> w, key |-> "view"]

\* Something is begun: what was chosen so far is what it starts from; and what was
\* there before, if it could not be saved. The other build's settings stay as they are.
Settled == [k \in Keys |-> IF k \notin Known(proc) THEN before[k]
                           ELSE IF failed THEN before[k] \cup {chosen[k]}
                           ELSE {chosen[k]}]
Begin   == before' = Settled /\ UNCHANGED <<durable, failed>>

\* Transparency is offered where there is something to see, the frame's with it.
Sensitive(k) ==
    /\ k \in ChoiceKeys \cap Known(proc)
    /\ k \in {"glass", "frame"} => desktop.composited
    /\ k = "frame" => settings["glass"] # "off"

\* A row of the page: a theme's circle, a dropdown or a switch. It is saved, then
\* applied.
Choose(k, v) ==
    /\ Idle /\ page = "settings" /\ Sensitive(k)
    /\ v \in Offered(k) \ {settings[k]}
    /\ settings' = [settings EXCEPT ![k] = v]
    /\ Save(settings')
    /\ tasks' = <<Apply>>
    /\ chosen' = [chosen EXCEPT ![k] = v] /\ Begin
    /\ UNCHANGED <<lasting, proc, page, fields, effects, desktop>>

\* Elsewhere in the window a choice is saved and its own page told. The pages that
\* are neither Apps nor Settings are one, "cpu".
ChooseElsewhere(k, v) ==
    /\ Idle /\ v \in Offered(k) \ {settings[k]}
    /\ settings' = [settings EXCEPT ![k] = v]
    /\ Save(settings')
    /\ chosen' = [chosen EXCEPT ![k] = v] /\ Begin
    /\ UNCHANGED <<lasting, proc, page, fields, tasks, effects, desktop>>

HideColumn == page = "apps" /\ \E v \in Offered("columns") : ChooseElsewhere("columns", v)
NeverEase  == page = "cpu" /\ \E v \in Offered("never") : ChooseElsewhere("never", v)

\* What a field is applied as: an emptied name or prompt is the built-in one, an
\* emptied model stays so until it is read again.
Kept(k, text) == IF text = "blank" /\ k # "model" THEN "built-in" ELSE text

Built == DOMAIN fields # {}

\* The fields that show something else than they have applied.
Pending == {k \in DOMAIN fields : fields[k].shown # fields[k].applied}

\* What the user means by them: an empty one is the default.
Meant == [k \in Keys |-> IF k \in Pending THEN Normalize(k, fields[k].shown) ELSE chosen[k]]

\* Every field on the page, in its order.
Commits == IF Built THEN <<Commit("model"), Commit("prompt")>> ELSE <<>>

\* Something is typed.
Type(k, text) ==
    /\ Idle /\ page = "settings" /\ k \in DOMAIN fields
    /\ text # fields[k].shown
    /\ fields' = [fields EXCEPT ![k].shown = text]
    /\ UNCHANGED <<lasting, proc, settings, page, tasks, saving, effects, desktop, history>>

\* Enter, or the focus leaves the field.
Confirm(k) ==
    /\ Idle /\ page = "settings" /\ k \in Pending
    /\ tasks' = <<Commit(k)>>
    /\ chosen' = [chosen EXCEPT ![k] = Meant[k]] /\ Begin
    /\ UNCHANGED <<lasting, proc, settings, page, fields, saving, effects, desktop>>

\* commit: applied, saved, and the field shows what was applied.
CommitTask ==
    /\ saving.stage = "none" /\ tasks # <<>> /\ Head(tasks).do = "commit"
    /\ LET k == Head(tasks).key
           v == Kept(k, fields[k].shown)
       IN  IF fields[k].shown = fields[k].applied
           THEN /\ tasks' = Tail(tasks)
                /\ UNCHANGED <<settings, fields, saving>>
           ELSE IF k = "prompt" /\ v = fields[k].applied
           THEN /\ fields' = [fields EXCEPT ![k].shown = v]
                /\ tasks' = Tail(tasks)
                /\ UNCHANGED <<settings, saving>>
           ELSE /\ settings' = [settings EXCEPT ![k] = v]
                /\ fields' = [fields EXCEPT ![k] = [shown |-> v, applied |-> v]]
                /\ Save(settings')
                /\ tasks' = <<Apply>> \o Tail(tasks)
    /\ UNCHANGED <<lasting, proc, page, effects, desktop, history>>

\* Another page. The Settings page is built when it is first opened; when it is
\* left, which is when the crossfade has taken it away, it commits.
Go(p) ==
    /\ Idle /\ p # page
    /\ page' = p
    /\ fields' = IF p = "settings" /\ proc = "full" /\ ~Built
                 THEN [k \in TextKeys |-> [shown |-> settings[k], applied |-> settings[k]]]
                 ELSE fields
    /\ IF page = "settings"
       THEN tasks' = Commits /\ chosen' = Meant /\ Begin
       ELSE UNCHANGED <<tasks, history>>
    /\ UNCHANGED <<lasting, proc, settings, saving, effects, desktop>>

----------------------------------------------------------------------------
(* Starting, closing, being killed *)

\* LastPage: while Settings is showing, the one before it. The model's user comes
\* to Settings from the page that is saved.
LastPage == IF page = "settings" THEN settings["view"] ELSE page

\* The window is closed, or Atlas restarts itself: what is being typed goes in with
\* everything else, and the page that is open.
Close ==
    /\ Idle
    /\ tasks' = Commits \o <<Task("view"), Task("quit")>>
    /\ chosen' = [Meant EXCEPT !["view"] = LastPage] /\ Begin
    /\ UNCHANGED <<lasting, proc, settings, page, fields, saving, effects, desktop>>

\* saveWindowState
ViewTask ==
    /\ saving.stage = "none" /\ tasks # <<>> /\ Head(tasks).do = "view"
    /\ settings' = [settings EXCEPT !["view"] = LastPage]
    /\ Save(settings')
    /\ tasks' = Tail(tasks)
    /\ UNCHANGED <<lasting, proc, page, fields, effects, desktop, history>>

Nothing == [scheme |-> "default", css |-> CSS("follow", FALSE, FALSE), glass |-> <<>>,
            every |-> "1", model |-> "none", ai |-> FALSE]
Unthemed == [theme |-> "none", glass |-> <<>>]

Gone ==
    /\ proc' = "off" /\ page' = "cpu" /\ tasks' = <<>> /\ saving' = NotSaving
    /\ settings' = [k \in {} |-> "built-in"]
    /\ fields' = [k \in {} |-> [shown |-> "blank", applied |-> "blank"]]
    /\ live' = Nothing /\ applied' = Unthemed

QuitTask ==
    /\ saving.stage = "none" /\ tasks # <<>> /\ Head(tasks).do = "quit"
    /\ Gone /\ before' = Settled
    /\ UNCHANGED <<lasting, desktop, chosen, durable, failed>>

\* What a process that ends here may leave behind besides: while it is in the middle of
\* something what was chosen before that.
Left == IF Idle THEN Settled ELSE before

\* Killed: whatever it was in the middle of may have been done or not.
Kill ==
    /\ proc # "off"
    /\ Gone /\ before' = Left
    /\ UNCHANGED <<lasting, desktop, chosen, durable, failed>>

Damaged == [Absent EXCEPT !.state = "damaged"]

\* What the directory names reaches the disk, when the system sees fit: Save asks for no
\* more than the contents. A file whose contents had not reached it has none there.
WriteBack ==
    /\ disk' = (IF flushed THEN file ELSE Damaged) /\ disk' # disk
    /\ durable' = [k \in Keys |-> Left[k] \cup {chosen[k]}]
    /\ UNCHANGED <<file, flushed, proc, running, effects, desktop, chosen, before, failed>>

\* The power goes: the file is the one the directory last named on the disk. A save
\* that had ended may be undone by it.
PowerLoss ==
    /\ Gone
    /\ file' = disk /\ flushed' = TRUE
    /\ before' = durable
    /\ UNCHANGED <<disk, desktop, chosen, durable, failed>>

\* New and activate, of either build: the settings are read and put into effect, and the
\* window opens on the page that was saved.
Start(b) ==
    /\ proc = "off"
    /\ proc' = b
    /\ settings' = Load(b)
    /\ page' = settings'["view"]
    /\ tasks' = <<Apply>>
    /\ chosen' = Over(Load(b), chosen)
    /\ before' = Over([k \in Known(b) |-> {settings'[k]}], before) /\ failed' = FALSE
    /\ UNCHANGED <<lasting, fields, saving, effects, desktop, durable>>

----------------------------------------------------------------------------

\* No file yet, or the one 0.9.0 left, with its switch for the disk columns on.
Init ==
    /\ file = IF "legacy" \in Permitted
              THEN [state |-> "whole", keys |-> [k \in {} |-> "built-in"], legacy |-> TRUE]
              ELSE Absent
    /\ flushed = TRUE /\ disk = file
    /\ proc = "off" /\ page = "cpu" /\ tasks = <<>> /\ saving = NotSaving
    /\ settings = [k \in {} |-> "built-in"]
    /\ fields = [k \in {} |-> [shown |-> "blank", applied |-> "blank"]]
    /\ desktop \in [dark : BOOLEAN, accent : {FALSE}, composited : BOOLEAN]
    /\ live = Nothing /\ applied = Unthemed
    /\ chosen = [Defaults EXCEPT !["columns"] = IF "legacy" \in Permitted THEN "all shown"
                                                ELSE @]
    /\ before = [k \in Keys |-> {chosen[k]}] /\ durable = before /\ failed = FALSE

Next ==
    \/ SyncTmp \/ RenameTmp \/ SaveFails \/ WriteBack
    \/ ApplyTask \/ CommitTask \/ ViewTask \/ QuitTask
    \/ DesktopChanges \/ Compositor
    \/ \E k \in ChoiceKeys : \E v \in Offered(k) : Choose(k, v)
    \/ HideColumn \/ NeverEase
    \/ \E k \in TextKeys : Confirm(k) \/ \E text \in Typed : Type(k, text)
    \/ \E p \in {"cpu", "apps", "settings"} : Go(p)
    \/ Close \/ Kill \/ PowerLoss
    \/ \E b \in Builds : Start(b)

Spec == Init /\ [][Next]_vars

----------------------------------------------------------------------------

\* "Your settings come along, including the assistant's if you go to Minimal and
\* back" (README.md:415), and a file is never read half-written (config.go:346): a
\* process of either build starts with what the user last made each setting; if the one
\* before it ended in the middle of a change, or could not save the last one, with that or
\* with what was before; and if the power went, with what it was, by the same measure,
\* when the directory last reached the disk: later saves are lost, and no more than they.
ChoicesSurvive ==
    [][proc = "off" /\ proc' # "off" =>
           \A k \in Known(proc') : settings'[k] \in before[k] \cup {chosen[k]}]_vars

\* Between two callbacks what is in effect is what is chosen: the scheme and the colours,
\* which the desktop also changes, the transparency, the interval, the model and the
\* assistant, though each is put into effect only when it seems to have changed.
EffectIsChoice ==
    (proc # "off" /\ tasks = <<>> /\ saving.stage = "none") =>
        /\ live.scheme = Scheme(settings["theme"])
        /\ live.css = CSS(settings["theme"], IsDark(live.scheme), desktop.accent)
        /\ live.glass = Glass(settings)
        /\ live.every = settings["refresh"]
        /\ proc = "full" => live.model = settings["model"] /\ (live.ai <=> settings["ai"] = "on")

====
