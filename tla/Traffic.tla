---- MODULE Traffic ----
(***************************************************************************)
(* The figures of the disks and of the network interfaces, as collectDisks *)
(* and collectNets of internal/stats take them: what is found at start,    *)
(* and once a tick the time, the kernel's counters, every few ticks a slow *)
(* figure besides (a disk's free space, an interface's addresses), and     *)
(* then, under the lock the window reads with, the rates.                  *)
(*                                                                         *)
(* Traffic and the clock go on between any two of these steps, but not     *)
(* between the reading of the clock and of the counters, which follow each *)
(* other at once. One of a device's two counters stands for both. A rate   *)
(* is kept as the two numbers it is the quotient of.                       *)
(*                                                                         *)
(* A definition marked "mutant" is a mistake the next one might have held. *)
(*                                                                         *)
(* Left out: models, sizes, labels, link speeds and the order of the list; *)
(* which route is the default one; how a file or a dump is parsed.         *)
(***************************************************************************)

EXTENDS Naturals

CONSTANTS
    Devices,      \* names of disks, or of interfaces
    SpaceEvery,   \* spaceEvery, and every how many ticks addresses are read: both 5
    MaxBytes,     \* bound: a counter
    MaxGap,       \* bound: the clock between two ticks
    Permitted     \* of "gone", "unread" and "recreated", what may happen

VARIABLES
    \* the kernel
    counter,    \* the bytes a device has moved, or Gone
    index,      \* an interface's number, which another of its name does not get
    figure,     \* a disk's free space, an interface's addresses: "one" or "two"
    \* the collector
    kind,       \* "disks" or "nets"
    since,      \* the time since diskLast or netLast
    step,       \* how far the collector has come
    first,      \* there has been no tick
    dt,         \* the interval of this tick
    reading,    \* diskStats, netCounters: what this tick has read
    tick,       \* diskTick, netTick, modulo SpaceEvery
    measured,   \* measureSpace, refreshAddrs
    own,        \* diskSpace, addrs
    \* Stats.Disks, Stats.Nets
    listed,     \* the devices found at start, and the number each had
    stat,       \* of each its previous counter, rate and figure
    newest,     \* of each the newest sample of its graph
    \* for the properties alone, of each device:
    moved,      \* what it has moved since the last tick's reading
    elapsed,    \* the time since that reading
    whole,      \* its counter has not started again since
    truth,      \* both, and the time, at this tick's reading
    lag         \* the ticks on end that have shown another figure than the present

kernel    == <<counter, index, figure>>
collector == <<since, step, first, dt, reading, tick, measured, own>>
shown     == <<listed, stat, newest>>
history   == <<moved, elapsed, whole, truth, lag>>
vars      == <<kernel, kind, collector, shown, history>>

Gone    == MaxBytes + 1
Figures == {"one", "two"}
NoPrev  == MaxBytes + 2

There == {d \in Devices : counter[d] # Gone}

----------------------------------------------------------------------------
(* the kernel *)

Move(d) ==
    /\ d \in There
    /\ counter[d] < MaxBytes
    /\ moved[d] < MaxBytes
    /\ counter' = [counter EXCEPT ![d] = @ + 1]
    /\ moved' = [moved EXCEPT ![d] = @ + 1]
    /\ UNCHANGED <<index, figure, kind, collector, shown, elapsed, whole, truth, lag>>

\* A driver is reset: its counters start again.
Reset(d) ==
    /\ d \in There
    /\ counter' = [counter EXCEPT ![d] = 0]
    /\ whole' = [whole EXCEPT ![d] = FALSE]
    /\ UNCHANGED <<index, figure, kind, collector, shown, moved, elapsed, truth, lag>>

\* A file is written, an address is assigned.
Change(d) ==
    /\ \E f \in Figures \ {figure[d]} : figure' = [figure EXCEPT ![d] = f]
    /\ lag' = [lag EXCEPT ![d] = 0]
    /\ UNCHANGED <<counter, index, kind, collector, shown, moved, elapsed, whole,
                   truth>>

\* A device is unplugged, or plugged in again with its counters at zero.
Plug(d) ==
    /\ "gone" \in Permitted
    /\ counter' = [counter EXCEPT ![d] = IF d \in There THEN Gone ELSE 0]
    /\ whole' = [whole EXCEPT ![d] = FALSE]
    /\ UNCHANGED <<index, figure, kind, collector, shown, moved, elapsed, truth, lag>>

\* An interface is taken away and another made under its name.
Recreate(d) ==
    /\ "recreated" \in Permitted
    /\ d \in There
    /\ index[d] = 1
    /\ index' = [index EXCEPT ![d] = 2]
    /\ counter' = [counter EXCEPT ![d] = 0]
    /\ whole' = [whole EXCEPT ![d] = FALSE]
    /\ UNCHANGED <<figure, kind, collector, shown, moved, elapsed, truth, lag>>

Clock ==
    /\ elapsed < MaxGap
    /\ since' = since + 1
    /\ elapsed' = elapsed + 1
    /\ UNCHANGED <<kernel, kind, step, first, dt, reading, tick, measured, own, shown,
                   moved, whole, truth, lag>>

----------------------------------------------------------------------------
(* the collector *)

\* discoverDisks, discoverNets: the list is made once. Addresses are looked up
\* at once, one interface at a time; free space is not.
Discover ==
    /\ step = "off"
    /\ step' = "idle"
    /\ listed' = [d \in There |-> index[d]]
    /\ stat' = [d \in There |->
            [prev |-> NoPrev, rate |-> [bytes |-> 0, dt |-> 1],
             figure |-> IF kind = "nets" THEN figure[d] ELSE "none"]]
    /\ own' = [d \in There |-> "none"]
    /\ UNCHANGED <<kernel, kind, since, first, dt, reading, tick, measured, newest,
                   history>>

\* The slow figure is taken every few ticks, on the first of them.
DueAtFirst == first                                    \* mutant: only on the first
Due        == tick = 0

\* diskLast, netLast: the clock as it was read for this tick.
LastAfterwards(now, started) ==                        \* mutant: read again at the end
    IF started THEN now ELSE 0
Last(now, started) == IF started THEN 0 ELSE now

\* The clock and the counters are read. A file that cannot be read gives none.
Read(ok) ==
    /\ step = "idle"
    /\ elapsed > 0 \/ first
    /\ ok \/ "unread" \in Permitted
    /\ dt' = IF first \/ since = 0 THEN 1 ELSE since
    /\ since' = Last(since, TRUE)
    /\ first' = FALSE
    /\ reading' = IF ok THEN [d \in There |-> counter[d]] ELSE [d \in {} |-> 0]
    /\ tick' = (tick + 1) % SpaceEvery
    /\ measured' = Due
    /\ step' = IF Due THEN "measuring" ELSE "publishing"
    /\ truth' = [d \in Devices |-> [moved |-> moved[d], took |-> elapsed, whole |-> whole[d]]]
    /\ moved' = [d \in Devices |-> 0]
    /\ elapsed' = 0
    /\ whole' = [d \in Devices |-> d \in There /\ (ok \/ whole[d])]
    /\ UNCHANGED <<kernel, kind, own, shown, lag>>

\* diskSpace, of the mounts found at start: nothing of a disk that is gone.
Spaces == [d \in DOMAIN listed |-> IF d \in There THEN figure[d] ELSE "none"]

\* readAddrs, parseAddrDump: by number, of the interfaces found at start.
Addresses ==
    [d \in DOMAIN listed |->
        IF d \in There /\ index[d] = listed[d] THEN figure[d] ELSE "none"]

\* Outside the lock, since it may take long: the clock goes on. A dump that fails
\* leaves the addresses shown as they were.
Measure(ok) ==
    /\ step = "measuring"
    /\ step' = "publishing"
    /\ ok \/ kind = "nets"
    /\ own' = IF ~ok THEN own ELSE IF kind = "disks" THEN Spaces ELSE Addresses
    /\ measured' = ok
    /\ lag' = IF ok THEN lag ELSE [d \in Devices |-> 0]
    /\ UNCHANGED <<kernel, kind, since, first, dt, reading, tick, shown, moved, elapsed, whole,
                   truth>>

\* rateOf: a counter that went backwards has no rate.
RateOf(cur, prev) == [bytes |-> IF cur < prev THEN 0 ELSE cur - prev, dt |-> dt]

\* What becomes of a device's figures: one that was not read keeps its rate.
Sampled(d) ==
    LET s == stat[d]
        read == d \in DOMAIN reading
    IN  [prev   |-> IF read THEN reading[d] ELSE s.prev,
         rate   |-> IF read /\ s.prev # NoPrev THEN RateOf(reading[d], s.prev) ELSE s.rate,
         figure |-> IF measured THEN own[d] ELSE s.figure]

\* Under the lock: rates, graphs, figures.
Publish ==
    /\ step = "publishing"
    /\ step' = "idle"
    /\ since' = Last(since, FALSE)
    /\ stat' = [d \in DOMAIN listed |-> Sampled(d)]
    /\ newest' = [d \in DOMAIN listed |->
            [rate |-> Sampled(d).rate, truth |-> truth[d], compared |-> stat[d].prev # NoPrev]]
    /\ reading' = [d \in {} |-> 0]
    /\ dt' = 1
    /\ measured' = FALSE
    /\ lag' = [d \in Devices |->
            IF d \in DOMAIN listed /\ Sampled(d).figure # figure[d] THEN lag[d] + 1 ELSE 0]
    /\ truth' = [d \in Devices |-> [moved |-> 0, took |-> 1, whole |-> FALSE]]
    /\ UNCHANGED <<kernel, kind, first, tick, own, listed, moved, elapsed, whole>>

----------------------------------------------------------------------------

\* Before Start, on a machine whose devices have been in use.
Init ==
    /\ counter \in [Devices -> 0 .. 1]
    /\ index = [d \in Devices |-> 1]
    /\ figure = [d \in Devices |-> "one"]
    /\ kind \in {"disks", "nets"}
    /\ since = 0
    /\ step = "off"
    /\ first = TRUE
    /\ dt = 1
    /\ reading = [d \in {} |-> 0]
    /\ tick = 0
    /\ measured = FALSE
    /\ own = [d \in {} |-> "none"]
    /\ listed = [d \in {} |-> 1]
    /\ stat = [d \in {} |-> "none"]
    /\ newest = [d \in {} |-> "none"]
    /\ moved = [d \in Devices |-> 0]
    /\ elapsed = 0
    /\ whole = [d \in Devices |-> FALSE]
    /\ truth = [d \in Devices |-> [moved |-> 0, took |-> 1, whole |-> FALSE]]
    /\ lag = [d \in Devices |-> 0]

Kernel ==
    \/ \E d \in Devices : Move(d) \/ Reset(d) \/ Change(d)
    \/ \E d \in IF "gone" \in Permitted THEN Devices ELSE {} : Plug(d)
    \/ \E d \in IF "recreated" \in Permitted THEN Devices ELSE {} : Recreate(d)
    \/ Clock

Collect ==
    \/ Discover
    \/ \E ok \in {TRUE} \cup IF "unread" \in Permitted THEN {FALSE} ELSE {} : Read(ok)
    \/ \E ok \in BOOLEAN : Measure(ok)
    \/ Publish

Next == Kernel \/ Collect

Spec == Init /\ [][Next]_vars

----------------------------------------------------------------------------
(* properties *)

\* A graph shows what has been moved: the newest sample, over the time it stands
\* for, is what the device has moved since the sample before, however long ticks
\* and measurements take; and never more, when the counter has started again
\* meanwhile (disk.go:38, 54, 83).
GraphIsTraffic ==
    \A d \in DOMAIN newest :
        LET rate == newest[d].rate
            true_ == newest[d].truth
        IN  newest[d].compared =>
                /\ rate.bytes * true_.took <= true_.moved * rate.dt
                /\ true_.whole => rate.bytes * true_.took = true_.moved * rate.dt

\* A figure that is measured only now and then is never wrong for more ticks than
\* it takes until the next time, except while dumps fail (disk.go:28, net.go:26).
FiguresCatchUp == \A d \in Devices : lag[d] <= SpaceEvery

====
