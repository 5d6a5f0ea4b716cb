# Atlas, specified

Atlas is a system monitor for the desktop: a Go program with a GTK window that
samples the machine, shows its processes and services, lowers the CPU weight of
busy applications (Energy Saver), updates itself from its own checkout and talks
to a local language model. This directory holds TLA+ models of the parts of it
that keep state others rely on, the TLC configurations that check them, and
proofs of some of what is checked for every value of the parameters.

Source paths below are relative to `src/`; `PROJECT.json` names, for every
definition, the lines it stands for.

    tlc -workers 2 -config MCCollection_window.cfg MCCollection
    tlapm CollectionProofs.tla

## The system

One process. The **main thread** runs GTK: every callback, every timer and every
function handed to `glib.IdleAdd` runs there, one at a time. Around it are
goroutines: one per sampled subsystem, one that scans `/proc`, one that runs
Energy Saver's ticks, and a short-lived one for everything that may block (a list
of services, a probe of the model, a build). They share state with the main
thread under a mutex, or hand results to it through the idle queue. Outside the
process are the kernel, `systemd --user`, a sound server, an Ollama server, a
package manager, and the files Atlas keeps across runs.

| Component | State | Operations | Talks to | What is hard |
|---|---|---|---|---|
| Energy Saver controller (`internal/ease/ease.go`) | automatic, never, clocks and the flags eased/manual per application, the weight to restore per unit, the last answer about sound | Tick, Ease, Restore, SetAutomatic, SetNever, Shutdown, recovery at start | ticker goroutine and main thread under one mutex; service manager by D-Bus; `eased.json` | sampling outside the lock; partial refusals; being killed between a change and its record; others changing the same weights |
| Apps table (`ui/apps.go`, `apps_rank.go`) | rows, rows by process, free list, keys, ranks, the filter, GTK's own sorted list | Update each second; search, sort, group, hover, menu | process snapshot; GTK by notifications only | keeping a sorted list true that is told as little as possible; rows reused |
| Starting, pausing and stopping the collectors (`stats/stats.go`, `process/process.go`, `ui/window.go`) | gate, stop channels, one goroutine per subsystem, the scan, `/proc`'s descriptor | Pause, Resume, Stop, Start/Stop of the scan, show/hide/change page | all goroutines with the main thread | wake-ups lost, two scans at once, files closed under a reader |
| Process scan (`process/process_linux.go`) | counters of the last scan, GPU users, unit of each process, two buffers of rows | collect, View, what is wanted | kernel; the Apps and Energy pages | processes that go, come and reuse numbers between and during scans |
| System statistics (`stats/*`) | last counters, rates, slow figures, ring buffers | one sample per subsystem, read under a lock | kernel | counters that restart or go back; measuring that blocks; ring indices |
| Services page (`ui/services.go`, `services/`) | rows by unit, toggle, banner | refresh, action, apply | systemd by D-Bus through goroutines | answers out of order; failures of one call hidden by another |
| Window and alerts (`ui/window.go`, `sidebar.go`, `netorder.go`, `health/`, `smart/`) | page open, three lists' selections, badge, failed services, drives | choose a page, narrow, poll every 20 s, rules over a snapshot, tick | statistics, systemd, udisks2 | answers out of order; lists that know nothing of each other; what seems unchanged is not shown again |
| Assistant (`ui/assistant.go`, `ai/`) | ready/absent model, busy, history, stream | probe, ask, stop, change model | Ollama over HTTP | answers for a model no longer chosen; half a turn in the history |
| Update, install, relaunch (`app/`) | updating, offered, trees, recorded checkout, install kind | check, offer, clone, build, restart | git, `update.sh`, a detached helper, a new process | two builds at once, cut-off clones, what is built not being what was offered |
| Configuration (`config/`, `ui/settings.go`) | the file, the settings, rows and half-typed fields, what is in effect | load, correct, merge, save, apply | the other build of Atlas, the desktop | keys another build wrote; a save cut off; effects not renewed |
| Autostart (`autostart/`, `ui/startup.go`) | user's and system's entries, the row | list, switch, refresh | packages, the session | overrides the user made; stale rows |
| Process identity, priority, signals (`ui/common.go`, `ui/apps.go`, `ui/energy.go`, `process/signal*`, `nice*`) | number and start time of what a menu or a row is about | open the menu, choose, ease off | kernel | a number used again between the look and the click |
| Names, GPU, sensors, power, held files | none or a cache | reads | sysfs, D-Bus | little: pure reads |
| Other pages, graphs, themes, the Windows build, packaging | little | drawing | — | no protocol |

What makes each of them correct, in a sentence:

* *Energy Saver*: it eases nothing that plays when it asks, whatever it eased by itself is put back
  (when Atlas closes, at the next start after a crash, on sound, on calm), what
  the user eased stays until the user says otherwise, and a weight somebody else
  has set stands if it is there when Atlas looks.
* *Apps table*: rows are one for one with the snapshot, GTK's list is sorted by
  what it shows, a held order does not move and is caught up afterwards, and the
  model grows only when it must.
* *Collectors*: nothing is sampled while nobody looks, everything is when
  somebody does, stopping ends, and no file is closed under its reader.
* *Process scan*: what a process has done is shown once, as a rate over the time since it was
  last read, and what is looked for only now and then is found in time.
* *Statistics*: a figure is of what happened between two samples, however long measuring
  took, and of nothing when there is no telling; a graph is the last samples.
* *Services*: the rows are one list as a whole, and an action reaches the unit that was
  selected.
* *Window*: one page is open, highlighted, typed to and reopened; the badge says what a
  tick found, and comes to say what is so.
* *Assistant*: one turn at a time, shown whole; what is remembered pairs answers with
  their questions; what is missing is said, until it is there.
* *Update*: one build at a time in a tree, only a whole clone is remembered, a restart is
  into what was offered, and a window follows it.
* *Configuration*: a choice survives whatever the process meets, and what is in effect is
  what was chosen.
* *Autostart*: a row is on exactly for what starts at login.
* *Process identity*: what is chosen is carried out on the processes that were meant, or on none.

## The modules

| Module | What it is |
|---|---|
| `EnergySaver` | the controller, its bindings and the goroutine it runs on |
| `EnergySaverProofs` | theorems about it |
| `AppsTable` | the process table |
| `Sequencing` | what rows in order need of a sequence, as functions |
| `Collection` | samplers, the gate, the scan's life, the window |
| `SamplingGate` | abstract: what the gate promises; implemented by `Collection` |
| `CollectionProofs` | theorems about `Collection`, the refinement among them |
| `ProcessScan` | one scan after another of `/proc` |
| `Traffic` | rates and slow figures of disks and network interfaces |
| `Processor` | usage of the cores and of all of them |
| `Ring` | the buffer behind a graph |
| `Identity` | which process a menu item or a button acts on |
| `Samples` | `ProcessScan`, `Traffic`, `Processor`, `Ring` and `Identity` as one program |
| `SamplesProofs` | theorems about it and its parts |
| `ServicesView` | the Services page and the systemd client behind it |
| `Tables` | `AppsTable` and `ServicesView` as one program |
| `TablesProofs` | theorems about it and its parts |
| `Assistant` | the Assistant page and the Ollama client behind it |
| `AssistantProofs` | theorems about it |
| `Update` | looking for a version, cloning, building, restarting |
| `UpdateProofs` | theorems about it |
| `Settings` | the configuration file, the Settings page, what is in effect |
| `SettingsProofs` | theorems about it |
| `Alerts` | the tick, the health rules, the alert badge, the order of interfaces |
| `Pages` | the sidebar and what follows the page that is open |
| `Autostart` | the Startup page and the files behind it |
| `Window` | `Alerts`, `Pages` and `Autostart` as one program |
| `WindowProofs` | theorems about it and its parts |
| `MC*` | instances for TLC: model values, symmetry, and modules that are checked side by side |

Three modules compose others: `Samples` what is sampled about once a second and acted on,
`Tables` two of the window's tables, and `Window` what the main thread does for the window.
Each is the conjunction of its parts' initial states and the disjunction of their steps, as
the parts share no variable. Each is proved to implement the specification of every one of its parts
(`PartsAsSpecified`, `AppsAmongTables` and `ServicesAmongTables`, `WindowPartsAsSpecified`), so that what is
proved of a part alone holds in it; the other theorems are about the compositions, in
which every part moves at any time.

The runs of the three are `MCTables`, `MCProcessScan` and `MCWindow`. For TLC the interleavings
of parts that share nothing would show nothing: a variable `part` picks one at the
start, only that one moves, and the others stay at one of their initial states. Every
property is so checked on exactly the behaviours of its own module.

In every module an operator marked *mutant* is a mistake the definition after it
might have held: a dropped guard, a missing reset. It is used nowhere; each
property is checked to fail when the mutant takes the definition's place.

### EnergySaver

The ticker goroutine calls `Tick` every five seconds. `Tick` samples the cgroup
tree **before** it takes the controller's lock, so it is `TickSample`, then, with
the lock held, `TickFold` (the sample merged, windows joined, taken-over units let go),
`TickListen` (who is due, PipeWire asked who plays, the weights of what is to be put back read),
`CarryOut` (weights set) and `Persist` (the file). `Ease` is one action up to the save. `Restore`,
`SetAutomatic`, `SetNever` and `Shutdown` read the weights of what they put back and leave the rest to
`CarryOut` and `Persist` as well. `lock` is who holds the
mutex and how far they are; nothing else that takes it is enabled meanwhile,
but the environment and a crash are. `Restart` (the file read, weights read), `Recover` (weights set back) and
`Start` are the start of the process, `Exit` and `Crash` its end.

What is asked and what is then set are two steps because they are two calls to other processes:

* `pw-dump` takes up to three seconds and comes before the first `SetWeight` (ease.go:416, 430). An application
  that begins to play in between is eased while it plays, and is put back by a later Tick, which asks
  again. So `NeverEasesSound` is about what plays *when PipeWire is asked*; `began` holds those that began after.
  A further window of an eased application is eased without any question (ease.go:325).
* A weight is compared with `EasedWeight` in one D-Bus call and set in the next (ease.go:498-502, and
  ease_linux.go:471-472 in recovery). A weight that somebody sets in between is overwritten, so
  `OthersWeightStands` is about weights set *before Atlas looked*; `since` holds the units set after.

Take `began` or `since` out of the property, and `energy_lifecycle` finds the behaviour.

The state is the code's, by field: `eased`, `manual`, `heavyFor`, `calmFor`,
`cpu`, `foreign` of `appState`; `known` the keys of `c.units`; `prev` a unit's
weight to restore, `Absent` when the unit is not eased. `weight`, `live`,
`playing` and `file` are the machine. `setBy` is not in the code: it remembers
who put Atlas's weight on a unit, so that properties can speak of weights that
the controller itself has lost track of.

Durations are counted in ticker intervals and stop counting at the thresholds
they are compared with, except for one thing the code really does: the first
interval is measured from Go's zero time, saturates, and wraps at the next
addition (`Forever`, `Wrapped`). What may go wrong around Atlas (a refusal, an
unreadable weight, a request between a sample and the lock, a crash) is in
`Permitted`, so that an instance can say exactly which of it a property
withstands.

### AppsTable

An action is one callback of the main thread from beginning to end. The table is
one record, passed through the operators that make up `Update` (retire, fill,
rank, tell GTK), as the code passes its receiver. GTK is external: `list` is what
its filter and sort models make of the rows *as far as they have been told*;
a row whose contents change without a notification stays where it was. That is
what most properties are about.

### Collection and SamplingGate

Samplers are at the gate, asleep in `cond.Wait`, in the select, sampling, or
gone. The gate's critical section is one step; closing `stopCh` and the broadcast
are two. The scanner rereads the field `stopCh` every time round its loop, and
`Start` replaces the field, so the model keeps apart a scanner that waits on the
present channel from one that waits on a former one. The main thread shows,
hides and pages; hiding a page with processes waits for the scan.

`SamplingGate` says what callers of Pause, Resume and Stop may rely on without a
word about goroutines: after a pause or a stop each subsystem may owe at most
one sample, and files are closed only when none is reading. `Collection`
implements it (`GatePromise`), by TLC on the instance and by proof for all.

### ProcessScan

A scan is `Begin` (time and list), `Read` (every process still there), `Publish`
(the swap of buffers). `world` is the process behind each number. A process's CPU
time and I/O are one counter, and a rate is kept as the two numbers it is the
quotient of, so that nothing is rounded. Counters are `% Word`, as Go's `uint64`
subtraction wraps. Time passes between scans, not within one. What a rate should be is
kept beside it: `done`, what a process has done since it was last read, and `lapse`, how long
that is.

A list that cannot be read ends a scan when `lastTime` has been moved on already
(process_linux.go:36-41): the next scan divides the work of two intervals by one of them, and the CPU and
disk columns show for one tick several times what was so. `WorkIsShownOnce` checks there that no work is lost or
doubled, and leaves the interval out; the scan after that one is compared in full again.

### Traffic, Processor, Ring

A tick of `collectDisks` or `collectNets` is `Read` (the clock, the counters), every few
ticks `Measure` (free space, addresses: outside the lock, and as slow as the file system),
and `Publish` under the lock. Devices move data, and the clock goes on, between any two of these. What is
shown is compared with what really moved since the last reading (`moved`, `elapsed`).

`Processor` takes the counters of `/proc/stat` in `CollectCPU` and makes a usage of them in
`PublishCPU`, while cores go offline and return with a smaller idle time. The line of the whole
processor is the sum of every core's, written as the number of their ticks: sums as counts are what
the proofs can add to. `Ring` is the buffer's index arithmetic against the plain sequence of what
was pushed.

### Identity

A process is a number and a start time, as in `procIdent`; the rows of a scan carry
numbers only. `PressRow` takes identities of whoever has the numbers *then*, and each
process of the item chosen is `Check` and then `Carry`, since processes go on between the two. The Energy
page's rows are made in `UpdateOthers` and their button is `EaseOff`, which goes by
the number. Two gaps the code cannot close are named in `Happenings`: a number used again
between a scan and the click (`quick`), and between the check and the signal (`race`).

### ServicesView

A refresh or an action is a goroutine (`Refresh`, `DoAction`) that asks systemd
(`AnswerList`, `AnswerAct`) and leaves a callback in the idle queue (`OnList`, `OnAct`).
The queue is first in, first out; the goroutines are not, so lists of different moments are
merged in any order, and nothing in the code orders them: the last one merged
need not be the newest, and no property says it is. `Merge` is the code's two passes with
GTK's selection following each insertion and removal, which is what an
action acts on next. A row whose unit has changed is rewritten in place and
the filter is not told of it, so under *Problems only* what is shown may lag behind; and the
toggle that would end that is made insensitive when nothing has failed, also while it
is on. No property speaks of *Problems only*.

### Assistant

A probe (`StartProbe`, `AnswerProbe`, `OnProbe`) and a turn (`SendText`,
`BeginChat`, `StreamToken`, `EndChat`, `Finish`) are goroutines with callbacks
in the idle queue; `Update` is the tick, which probes when it is due. A
probe names the model it was started for, so its answer can be about a model
that is no longer the one set; until the next probe the page may claim either, and
`SetupClears` says that it comes right. A probe that runs into its four seconds is a server
that is not up. A connection that closes in the middle of a reply counts as
its end, as in `Chat`.

### Update

What lasts between processes is the two trees (the user's checkout and the clone Atlas
makes), the one recorded, and the binary. A tree is absent, half cloned, whole, edited by the user, diverged
by commits of the user's own, or plain sources without git; the user may change that between updates
(`OwnGoes`, `OwnChanges`). The check
after launch is `LaunchTimer`, `LaunchAnswer`, `OfferUpdate`, that of the Settings page `PressUpdate`,
`AnswerCheck`, `OnAnswer`. `StartUpdate` begins a job, the goroutine of `installUpdate`: clone if need
be, `RunScript`, `Make`, `Finished`, then the restart: `Relaunch`, `Exit`, and the helper's
`HelperLaunch` a second later. A job's script is a process of its own, so it
may outlive Atlas (`orphan`). `RunScript` is update.sh up to make: fetch, check out the branch, fast-forward
it. `Pulled` is what that leaves; where the script goes on without, because the tree is edited or not git's,
GitHub cannot be reached, the branch cannot be checked out (`LeftAlone`) or the fast-forward is `Refused`,
what is there gets built, and is announced like any other. How a copy was installed (`DetectInstall`) is asked once a process.

### Settings

Everything is on the main thread; a callback's fields, saves and effects are a list of
tasks, so that the process can end between any two and in the middle of a save
(`SyncTmp`, `RenameTmp`). `Save` flushes the contents of the file and not the directory, so `disk` keeps the file
the directory last named there: it is brought up to date at some time (`WriteBack`) and is what a
power cut leaves (`PowerLoss`). Keys stand for kinds of settings. `chosen` remembers what the user wanted,
`before` what may be found after an end in between, `durable` what may be found after a power cut, for the
properties. The minimal build shares the file and knows fewer keys.

### Alerts, Pages, Autostart

`Tick` is the window's refresh as far as alerts and interfaces go: it may start a poll, a
goroutine that asks systemd and then each drive (`AskServices`, `AskDrive`) and posts its answer,
taken by `Take`. Two may be under way, in any order. `Check` is health.go's list of rules.

`Pages` keeps the three lists' selections, GTK's focus, the overlay, and the page that
Atlas reopens on. `Activate`, `Map`, `AfterMap`, `Narrow` are the callbacks GTK makes.

`Autostart` has one entry: a packaged file and the user's of the same name, as sequences of the lines that decide;
`Switch` is SetEnabled with the file it writes, changes or removes, `ShownIsTrue` compares the
row with what the session would start. The user's file over a packaged one is a copy the page made of it (`Copies`),
or one that says only that it is off. `Window` takes it with `Permitted <- StartupPermitted`, which the run sets to {}.

## The runs

| Run | Question | Bounds, and why they are enough |
|---|---|---|
| `energy_windows` | do application, units and the file agree, whatever is refused or overtaken? | one application with two windows: the least with a part refused and a part not. Thresholds of one interval: the longer ones only delay. |
| `energy_lifecycle` | is everything put back, at the right time, by the right hand? | one window, sound, a sound check that fails, unreadable weights, crash and restart. Thresholds of two, so that a clock can be between zero and its limit. |
| `energy_live` | does everything get put back in the end? | as above without crashes, under fairness |
| `energy_newwindow` | a promise of the documentation, not kept | the least instance that breaks it: two windows, thresholds of one |
| `tables` | do the Apps table's rows and the Services page's stay true? | three numbers, two at once: one row retired and another reused in the same tick; two names and readings, so that either column can reorder; numbers are symmetric. Three units, of which one comes, goes and fails, so that rows are inserted and removed on either side of the one selected; two goroutines, so that one can overtake the other. |
| `collection` | who samples when, and does everything end? | two samplers, so that one may be past the gate and the other asleep; two names for scanners, so that two at once could be seen; a page with processes and one without. Deadlock is not checked because the process ends. |
| `samples` | is what is sampled shown once, in time, and acted on where it was meant? | scan: one number (the code's maps never relate two), two units, sweeps every three scans instead of thirty, so that one can be missed and made up; word 16, far above what a process does. Traffic: one device (devices do not meet), the slow figure every third tick. Processor: two cores, so that one can be off while the sum goes on. Ring: three places, so that it fills and wraps. Identity: two numbers which three processes take in turn, so that a grouped row can lose one member's number to another process. |
| `energy_page` | does the Energy page ease the program it shows? It does not. | the same two numbers |
| `assistant` | do turns and probes keep out of each other's way, and end? | two models, so that one can be asked for and another set; two questions, so that an answer can be about the wrong one; two messages kept instead of eight, so that the cut falls inside a turn; one piece to a reply, so that a piece and the end can swap. |
| `update` | one build at a time, whole, the one offered, and a window after it? | the full and the minimal channel with one new commit each; two jobs, so that one may outlive its process; every state of the user's tree |
| `settings` | do choices survive and take effect? | every kind of key, at most two away from their defaults, in question or half typed at once, one while the disk is behind (a constraint, `FewChanged`): no code relates three. Deadlock is not checked because a process may be off for good. |
| `window` | badge, sidebar and switches against their surroundings | one rule's problem, one service, one drive that may wear, a wired and a wireless interface, two polls at once so that one overtakes; every kind of page in its list; every file of up to two keys, with an action's group behind it |

Ten runs pass and show their properties on these instances. Two show the code at
odds with what it says:

* `energy_newwindow`: a new window of an eased application is eased and, in the same
  Tick, taken for one that somebody else changed, because the sample is older
  than the change. It keeps weight 10 when Atlas closes.
* `energy_page`: the Energy page's button goes by the number of the process its row was
  made for. If that program has ended and the number been used again, another one is
  eased. The identity is there and is asked for the menu, not here.

What the code does not withstand besides has no run of its own. Each is seen by adding
a word to `Permitted` of the run named, or of an instance of the module:

Energy Saver (`energy_lifecycle` or `energy_windows`, unless it says another):

* `overtake` in `energy_live` (`energy_lifecycle` permits it already): an
  `Ease` between a sample and the lock is taken for somebody else's change by the same
  stale sample as a new window; the controller forgets the unit, and
  `NothingIsStranded` fails.
* `restart` in `energy_live`: the next process does not know what an earlier one eased by hand.
  `NothingIsStranded`, which speaks of hand-made eases as well, fails.
* `refuse`: an `Ease` that fails altogether still marks the application manual (ease.go:211), so a
  later ease of Atlas's own is neither saved nor put back when Atlas closes.
* `tear`: killed between setting a weight and saving; `PutsBack` fails, as the file
  does not know. Saving first would turn it round.
* `late`: a Tick under way at closing may ease after `Shutdown`; `PutsBack` fails
  (the next start makes it good, as the file is written).
* `hidden` with two windows: a window joined while its weight cannot be read
  is eased and not saved; `HeldIsListed` fails.
* `unread`: the weight cannot be read back before restoring, and the code restores all the
  same; `OthersWeightStands` fails.
* `reuse`: a unit that returns under a known name, between two samples, is still
  held eased; `PutsBack` and the liveness properties fail.

The scan and the statistics (`samples`):

* `reuse`: a number used again between two scans gives an unsigned difference below zero
  as CPU; the guard `p.CPU < 0` behind it (process_linux.go:122) can never hold. `WorkIsShownOnce` fails.
* `wantsIO`: disk figures nobody wants are remembered as zero, so the first scan that
  wants them again shows a lifetime's I/O as one second's. `WorkIsShownOnce` fails.
* `gone`, `unread`: a device missing from a file keeps its last rate, which is pushed
  again every tick, and on its return the whole difference is divided by one
  interval. `GraphIsTraffic` fails, and `FiguresCatchUp` for a device that is `gone`.
* `recreated`: an interface made again under its name has another index, and its addresses stay blank.
  `FiguresCatchUp` fails.
* `quick`, `race`: see Identity above. `SignalsWhatWasMeant` fails.

Update, Settings and the window:

* `close`, `again`: a second build may begin while the script of a closed process is still
  at work, or while the restart is pending. `OneBuildAtATime` fails.
* `close`, `kill`: a clone cut off stays and is taken for a checkout. `RecordedIsWhole` fails.
* `offline`, `stuck`, `pick`: a fetch that fails, or a branch that cannot be checked out (update.sh:67-71),
  rebuilds what was there and says "Updated"; a channel picked meanwhile is what is built.
  `TakenIsInstalled` fails. It fails with `again` too: what is taken while the first job's
  restart is pending is not what that restart brings.
* A checkout with the user's edits or commits, and a source that is not git's, are rebuilt as they are
  and announced as updated (update.sh:45-56, 75-79). `TakenIsInstalled` says nothing of these: its
  condition names the tree whole.
* A power cut may undo a save that had ended, as the directory is never flushed (config.go:373).
  `ChoicesSurvive` asks for what might have been found when it last reached the disk.
* `slow`: closing that outlasts the helper's second leaves no window. `RestartComesBack` fails.
* `legacy`: a file of 0.9.0 keeps `show_io_columns` for ever, and every load then shows
  the disk columns again (config.go:280-288). `ChoicesSurvive` fails.
* `compositor`: whether transparency can be had is only asked again when a setting changes.
  `EffectIsChoice` fails.
* `offline` in `window`, if the interface that comes first is a wireless one: as it goes down the
  order stays the same, so nothing is redrawn and its icon stays. `TickIsShown` fails.
* `mute` in `window`: a call that fails clears what the last poll found. `hung`: one that never returns
  holds its poll for good, as it has no timeout, and when a service that hangs goes on hanging no poll answers
  any more. `BadgeCatchesUp` fails for each.
* `customised`, `bare`, `switchedOff`, `updated`, `outside`, `full` of `Autostart`: a user's own override is
  removed by off and on; one that says only Hidden loses the entry's rules; an entry
  whose packaged file is hidden is shown on and does not start; one whose package has changed
  its desktops since the page copied it keeps the copy's rules when it is switched on; a row is stale until
  the page is built again; a full disk empties the user's file. `ShownIsTrue` fails for each.

And some that no property speaks of: under a search, a row of the Apps table that is reused in the tick
it was retired in, or renamed by an exec, stays shown or hidden by its former name (apps.go:854, 948). The
arrow keys highlight a row of the sidebar without opening its page. A dirty or diverged checkout is
offered its update at every launch. A save of the settings that fails is not reported. On the
Startup page, an entry that shadows a packaged one is switched on by removing the user's file
(autostart_linux.go:226-236), and its row still points at that file (startup.go:127-140): switched off again it
says "Could not change that", until the page is refreshed (`SwitchFails`; the switch goes back, so
`ShownIsTrue` holds).

### Fairness

* `EnergySaver`: strong fairness of the ticker goroutine's steps, weak of `CarryOut` and `Persist`, which
  whoever holds the lock goes on to. A
  goroutine that waits for a `sync.Mutex` gets it: the mutex goes into starvation mode after
  a millisecond and hands itself over. The user may always ask for something
  in between, so weak fairness would say too little and strong is what the mutex gives. The user and the
  environment owe nothing.
* `Collection`: weak fairness of every goroutine's steps and of the main thread's
  waiting and stopping. Strong fairness for one step: leaving the select through a closed
  `stopCh`, which competes with a tick every time, and Go picks among ready cases at
  random. Showing, hiding and paging owe nothing.
* `Assistant`: weak fairness of the tick, which is a timer; of the idle queue, which the main loop
  serves whenever it has nothing else to do; of the goroutines' answers,
  which their own timeouts (4 s, 3 min) force; and of the passing of
  `probeInterval`. The user and the server owe nothing.
* `Update`: weak fairness of what is a timer or a goroutine (the checks, a job's steps, which
  end with the processes they wait for) and of restarting: leaving, the process's end, the helper. Nobody
  has to press anything.
* `Alerts`: weak fairness of the tick and of time, of polls' steps and of the queue their answers are
  in. No D-Bus call of a poll has a timeout (services_linux.go:72; smart.go:133, 173, 185), so the code does not
  force a poll to end: that systemd and udisks2 answer, or fail, is assumed, and `hung` takes it away:
  a poll stays where it asked, which no fairness moves, and `BadgeCatchesUp` fails. Otherwise the machine owes nothing; `BadgeCatchesUp` asks only of one that
  changes no more.

## The proofs

Eight modules of proofs are checked by TLAPS, from the named assumptions on the constants
alone: for any applications, units, processes, cores, devices, jobs, services, drives, interfaces
and questions, any thresholds and lengths, and files of any number of keys. What the assumptions ask
is what the program's own data satisfy: numbers of cores are natural numbers, and there are finitely many
(`CoreNumbersAssumption`); names are given as their places in alphabetical order (`TableAssumption`,
`UnitsAssumption`); a process does less than a word counts (`WordAssumption`); lengths are not 0.

Every safety and action property that a passing run checks is a theorem, under the hypothesis the table gives.

Where the code withstands a property only as long as something does not happen, the theorem
says so in its hypothesis, as a condition on `Permitted`, and everything else in `Happenings`
may happen. No hypothesis is there for the proof's convenience: add to the run's `Permitted`
any one of the words it excludes, and TLC finds the property violated, as the list under *The runs* tells.
The theorems go beyond the runs in what may happen, too: `update` permits nothing, while `TakenGetsInstalled`
holds with windows closed and processes killed in the middle of a build.

| Theorem | Property | As long as there is no |
|---|---|---|
| `EnergySaverProofs!EasedCoherent` | `EasedIsWhatUnitsSay` | |
| `ListedSound` | `ListedIsHeld` | |
| `SoundSafe` | `NeverEasesSound` (of what plays when PipeWire is asked) | |
| `HandEasesKept` | `HandEasesStay` | `tear` |
| `OthersWeightsStand` | `OthersWeightStands` (of weights set before Atlas looked) | `unread` |
| `HeldListed` | `HeldIsListed` | second window of an application |
| `PutBackAfterAll` | `PutsBack` | second window, `refuse`, `unread`, `reuse`, `late`, `tear` |
| `NoneStranded` | `NothingIsStranded` | second window, `overtake`, `restart` |
| `CollectionProofs!OneScanWhereUsed`, `ScansKeepTheirDescriptor`, `GateImplementsPromise` | as below | |
| `AssistantProofs!AnswersArePaired`, `WholeReply`, `DeafWhileBusy` | as below | |
| `SamplesProofs!SweepsFindEverything` | `SweepsFindAll` | |
| `WorkShownOnce` | `WorkIsShownOnce` | `reuse`, `wantsIO` |
| `GraphsShowTraffic` | `GraphIsTraffic` | `gone`, `unread` |
| `FiguresAreCaughtUp` | `FiguresCatchUp` | `gone`, `recreated` |
| `UsageIsOfTheTime` | `UsageIsTime` | |
| `GraphIsRecent` | `RingIsLastSamples` | |
| `MenuActsOnWhatWasMeant` | `SignalsWhatWasMeant` | `quick`, `race` |
| `TablesProofs!RowsMatchSnapshot` | `RowsAreTheSnapshot` | |
| `OrderHolds` | `GtkOrderHolds` | |
| `OrderCatchesUp` | `CatchesUp` | |
| `RowsAreOneList` | `RowsAreTheList` | |
| `SelectionStaysOnUnit` | `SelectionFollowsUnit` | |
| `UpdateProofs!OneBuild` | `OneBuildAtATime` | `close`, `again` |
| `WholeIsRecorded` | `RecordedIsWhole` | `close`, `kill` |
| `TakenGetsInstalled` | `TakenIsInstalled`, which is of a tree without the user's edits or commits | `pick`, `again`, `offline`, `stuck` |
| `SettingsProofs!EffectShown` | `EffectIsChoice` | `compositor` |
| `ChoicesKept` | `ChoicesSurvive` | `legacy` |
| `WindowProofs!OneIsOpen` | `OnePage` | |
| `SwitchesAreTrue` | `ShownIsTrue` | `customised`, `bare`, `switchedOff`, `updated`, `outside`, `full`: `StartupPermitted = {}` |
| `TicksAreShown` | `TickIsShown` | `offline` |

Type correctness is a theorem of `EnergySaver`, `Collection`, `Assistant` and `Update` (`TypeCorrect`), of
`ProcessScan` (`ScanTypeCorrect`) and of `AppsTable` (`AppsTypeCorrect`), and part of the invariants of the others.

Hardly any of these properties is inductive. What carries each of them:

**EnergySaver.** `EasedCoherent` is inductive with the types: each operation that sets a
unit recomputes the application's flag from all of its units, also when some
were refused. `ListedIsHeld` only speaks of moments when the lock is free;
`FileTellsTruth` says what of the file is true *while* it is held: after a fold that changed
nothing the file still tells the truth, and one that changed something has set `changed`, or has
something to carry out, on which the save rests. What is asked and what is set being two steps, `CallsInv` says what
waits in between (`due` are not eased, `backing` eased, `looked` their units that had Atlas's weight), and
`RestartInv` what recovery has read. `SoundSafe` proves an action property: the only step
that eases an application that was not eased is `CarryOut`, for those `due`, and `DueIsSilent` says that whoever of
them plays began after the question. `OthersWeightsStand` likewise: a unit looked at has Atlas's weight still, or is in
`since`.

`HandEasesKept` rests on `MachineInv` (a unit said to be eased has Atlas's weight) and `HandInv`:
what the user eased and the controller holds is `manual`, and the file has no weight of it, except
while the request's save is still to come. `HeldListed` proves the converse of
`ListedIsHeld`: `SettledIsListed` is over the same moments as `FileTellsTruth`, and `ControlInv` says
who holds the lock in which phase. `PutBackAfterAll` needs most: `BackInv` says that what Atlas has eased by itself
the controller holds, that a sample taken since shows Atlas's weight, that the file
has it whenever nobody is saving, and that there is none before the first Tick or after the
shutdown. So a crash at any moment outside a save leaves a file from which everything is put back.
`NoneStranded` has `StrandedInv`, the same of everything Atlas has eased, by hand as well,
in the first process of a session. The hypothesis of one window for each application stands for the finding
`energy_newwindow`: with two, the tick that eases the second lets go of it.

**Collection.** `OneScanWhereUsed` and `ScansKeepTheirDescriptor` rest on
`ScannerOrder`: a scan that is not finished is the one `current`, waits on the
channel that is in the field, and lives only while the window is on a page with processes or the main thread
waits for it. `GateImplementsPromise` is a refinement proof: `StopOrder` (files
are closed only after every sampler is gone, and `stopped` comes first) makes each
step of `Collection` a step of `SamplingGate` or a stutter.

**Assistant.** One inductive invariant carries all four theorems. Pairing and wholeness are not inductive:
`QueueOrder` says that what a turn has
queued, like the turn itself, holds the page, and that behind its end only a
probe's answer is queued; `Asked` that until that end has run the last message is
the question, which is why reading the history without a lock is safe. `KeptFollow` is the
lemma about the cut: dropping the oldest messages moves no answer away from its question.

**ProcessScan.** `SweepsInv` counts: what has gone unseen for n scans appeared since the sweep
before, by the counter the sweep is made at. `WorkInv` says, of every process, what
is remembered of its number: nothing, if it has not been read, or else what it had done when it was last read
(`ReadSince`); and that what is remembered belongs to a process in the present list
(so that a number the list leaves out cannot meet a former scan's counters, also after
scans that failed). The row's difference is then of two numbers below `Word`, the second no less than the
first, which is where the wrap of `uint64` does no harm.

**Tables.** Each callback passes the whole table through operators, so the lemmas are about those,
of any table, and the steps put them together. `AppsInv` says that for some snapshot (`snap`, a
function from identities to processes whose values are `lastSnap`) the table is that snapshot's:
`Sorting`, GTK's list is in order by the ranks it was told, these order the rows in use as their
keys do, and no comparison was ever made between ranks that had moved (`complained`); `Filled`, the
registry knows exactly the identities of `snap`, each in a live row that holds its process, every
live row is one of them, and the free list is the other rows, each once; a row is shown exactly when
it is live, and GTK has none that is not, and all of them unless a name is looked for.
`RowsMatchSnapshot` and `OrderHolds` need no more. `ToldIs` and `AnnouncedIs` say how little GTK may
be told without its order breaking: which rows are new, or that the sorter changed, but then of all
of them; while the pointer holds the table still the keys do not change, so that it need not be told
at all. `OrderCatchesUp` has in addition that outside a hold the keys are those of the processes in
the rows.

`ServicesView`: `ServicesInv` has the rows by name, every list on its way by name too, and what is
selected among what is shown. The merge is a recursive function over the list. `MergeAt` is what
holds of it when it has come to n: the first n rows are the list's first n, of the rows there were
before those named beyond the n-th are all still ahead, and no row was made for a unit that had one;
`RemoveBeforeIs` and `MergeOneIs` are about one element. The library's induction theorems cannot be
applied here, so `MergedAtEnd` goes by the least counterexample (`Least`), twice: once for the
existence of a function with those equations, once for what holds along it. `RowsAreOneList` follows
at the end of the list, and `SelectionStaysOnUnit` from no row being made anew for a unit that had
one.

**Samples.** `Processor`: `UsageInv` says of each CPU that what its counters would read now
accounts, against the reading before (`LastTimes`: the one not yet published, or else the published
one), for the time it was in use since, and for the time in all unless they went back: `Accounts`. A
core that returns with less has lost as much of its idle time as of the whole, so the difference of
the two stays. The sum over the cores is the number of their ticks: `OneMore` and `SomeLess` say by
a bijection and a union how a tick of some cores, and a loss of one, change it. `Traffic`:
`CounterInv` bounds the counter by the last reading and what has been moved since, with equality
while the counter has not started again; `ReadingInv` says the same of the tick under way. A
figure's lag (`LagInv`) is bounded by the ticks since it was last taken, with a case of its own
while it is being measured, as it can change after it was read. `Ring`: `RingInv` gives the place of
each of the last samples, modulo the length; pushing moves the places by one and overwrites just the
one that is dropped. `Identity`: start times are given out in order and never twice (`TableInv`), so
that an identity denotes one process for ever; `MenuInv` says that what is meant and still there is
among the targets, the checked one and those already acted on, and that these are meant.

**Update.** `BuildInv`: while a job works, the window is open, nothing else works, and no script has
survived a process. `WholeIsRecorded` and `TakenGetsInstalled` must allow for scripts that do
(`JobsInv`: such a job is at most cloning or making, and not this process's). `CloneInv` says that a clone is
half exactly while a job of this process makes it. `TakenInv` follows the version from the question to
the binary: asked of the channel that is set (`AsksInv`), built in the recorded source by whichever
process (`SourceInv`), pulled before this process's job builds (`PulledInv`), and, while Atlas
announces the restart, installed as it is checked out (`PausedInv`).

**Settings.** `EffectInv` says that the window, the collectors and the client were last told what is set,
or that telling them is the next task. `SurviveInv` accounts for a choice between the moment it is made and the
file: in a task not run yet (`TodoInv`, `ChosenInv`), in a field (`FieldsInv`), in the settings, in the temporary
file (`SaveInv`), in the file (`FileInv`); unless a save failed the file has what is set
(`SavedInv`). `DiskInv` says of the disk's file what `FileInv` says of the file, with `durable` for `before`:
each `WriteBack` hands the one to the other, and a power cut hands it back. The types are in it, as tasks are a sequence of any length.

**Window.** `PagesInv` is `OnePage` together with what the callbacks in between rely on: the overlay, the
assistant's row, the views built, the page reopened on. `StartupInv`: the files are `Good` (one
`[Desktop Entry]` at the head, the keys of one group, at most an action's group after it, and never a plain
`Hidden` before a spaced one), a user's file next to a packaged one says only that it is off, and the row knows
which of the two it is of. `HiddenDecides` is the lemma about `withHidden`: whatever file it is given,
the result is disabled just as asked. `TickInv`: the badge and the key
it was shown by are the last tick's; `KeyDecides` says that no two lists of alerts have one key unless they read the
same on the badge, and `ActiveIsFirst` that the interface in use is the one placed first.

Only model-checked:

* liveness (`PutBackInTheEnd`, `NobodyWaitsForEver`, `TurnsEnd`, `SetupClears`, `RestartComesBack`,
  `BadgeCatchesUp`): TLAPS has no `ENABLED`;
* the two findings, of which TLC shows a behaviour.

## Not modelled

* In `EnergySaver`: the moments between the calls for one unit and for the next (all that a Tick looks at it looks at
  in one step, and all it sets it sets in one); and within easing one unit, between reading the weight to remember and setting
  Atlas's own (ease.go:478-482), so that a weight set just there is lost when Atlas puts the former one back.
* In `EnergySaver` and `ServicesView`: D-Bus calls that never return (`Alerts` has them as `hung`). Energy Saver's are made under its lock without a
  timeout, so a service manager that hangs holds every request of the user up; a model
  would only restate the assumption.
* In `ProcessScan`: time within a scan, kernel threads, memory, the estimate of network
  traffic, parsing. In `Collection`: intervals. In `AppsTable`: cells, hidden columns.
  In `Traffic` and `Processor`: models, sizes, speeds, frequencies, temperatures.
* In `Identity`: the Details panel, which reads its process by number alone and acts on
  nothing; that a priority on Linux is one thread's.
* In `ServicesView`: of a unit all but its name and whether it has failed; the banner's words. In
  `Assistant`: the snapshot of the machine sent with a question, the figures of
  a turn, the address of the server, HTTP.
* In `Update`: the user's own git in the tree while a build is at work, the changelog, the comparison of versions (which is not transitive), the log of a build.
  In `Settings`: wording, the size of the window, a file somebody edits meanwhile. In `Alerts`: thresholds.
  In `Pages`: the header bar, shortcuts, the tray. In `Autostart`: more than one system directory.
* Memory, GPU, sensors and power: single readings of sysfs and D-Bus, with no state that a later one relies on.
* Drawing, formatting, themes, packaging, vendored bindings, and the Windows
  build, which has the same collectors with other bindings.

## Plan

Modules that could follow: the Ollama client's chunked reader against the whole reply, as a
function over pieces; the units of applications (`desktop`) against a reference definition;
an abstract specification for `ServicesView`, a page that shows one list at a time, each of
them one the bus gave.
