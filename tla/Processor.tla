---- MODULE Processor ----
(***************************************************************************)
(* The processor's figures: a percentage for every core and one for all of *)
(* them, made each tick of the kernel's counters of idle and total time    *)
(* (collectCPU and publishCPU of internal/stats).                          *)
(*                                                                         *)
(* A reading is taken without the lock and published under it; the cores   *)
(* go on meanwhile, or go. A usage is kept as the two numbers it is the    *)
(* quotient of, for which time is counted in the kernel's ticks.           *)
(*                                                                         *)
(* A definition marked "mutant" is a mistake the next one might have held. *)
(*                                                                         *)
(* Left out: frequencies, temperature, caches and what else is read once.  *)
(***************************************************************************)

EXTENDS Integers, FiniteSets

CONSTANTS
    Cores,      \* numbers of cores
    MaxTime     \* bound: the kernel's counters, and the time between two readings

All == -1
CPUs == Cores \cup {All}

VARIABLES
    idle, total,    \* /proc/stat: of each core, its time idle, and in all
    online,         \* the cores /proc/stat has a line for
    samples,        \* cpuSamples: what was read and is not published, or NotRead
    prev,           \* cpuPrevCore, cpuPrevAll
    usage,          \* Cores[i].Usage and Usage
    \* for the properties alone:
    busy,           \* of each CPU, the time in use and in all since it was last read,
    back,           \* whether its counters have gone back since,
    truth           \* and what of both each reading not yet published came with

procStat == <<idle, total, online>>
stats    == <<prev, usage>>
history  == <<busy, back, truth>>
vars     == <<procStat, samples, stats, history>>

NotRead == [c \in {} |-> <<>>]
Unused  == [used |-> 0, of |-> 1]

----------------------------------------------------------------------------
(* the kernel *)

\* The sum over the cores, online or not, as a count of ticks.
OfAll(time) == Cardinality(UNION {{c} \X (1 .. time[c]) : c \in Cores})

\* What the line of a CPU says; that of the whole sums up every core.
IdleOf(c)  == IF c = All THEN OfAll(idle) ELSE idle[c]
TotalOf(c) == IF c = All THEN OfAll(total) ELSE total[c]

Lines == online \cup {All}

\* A tick: some of the cores that are online are in use.
Tick ==
    /\ \A c \in Cores : total[c] < MaxTime
    /\ \A c \in CPUs : busy[c].of < MaxTime
    /\ \E inUse \in SUBSET online :
          LET used(c) == IF c = All THEN inUse ELSE inUse \cap {c}
              ticks(c) == IF c = All THEN online ELSE online \cap {c}
          IN  /\ idle' = [c \in Cores |-> idle[c] + IF c \in online \ inUse THEN 1 ELSE 0]
              /\ busy' = [c \in CPUs |->
                    [used |-> busy[c].used + Cardinality(used(c)),
                     of   |-> busy[c].of + Cardinality(ticks(c))]]
    /\ total' = [c \in Cores |-> total[c] + IF c \in online THEN 1 ELSE 0]
    /\ UNCHANGED <<online, samples, stats, back, truth>>

\* A core goes offline, or comes back, its idle time counted from less than before.
Switch(c) ==
    /\ online' = IF c \in online THEN online \ {c} ELSE online \cup {c}
    /\ \/ UNCHANGED <<idle, total, back>>
       \/ /\ c \notin online
          /\ \E lost \in 1 .. idle[c] :
                /\ idle' = [idle EXCEPT ![c] = @ - lost]
                /\ total' = [total EXCEPT ![c] = @ - lost]
          /\ back' = [x \in CPUs |-> back[x] \/ x \in {c, All}]
    /\ UNCHANGED <<samples, stats, busy, truth>>

----------------------------------------------------------------------------
(* the collector *)

\* collectCPU: the file is read at once. One that cannot be read ends the tick.
CollectCPU ==
    /\ samples = NotRead
    /\ samples' = [c \in Lines |-> [idle |-> IdleOf(c), total |-> TotalOf(c)]]
    /\ truth' = [c \in Lines |-> [busy |-> busy[c], back |-> back[c]]]
    /\ busy' = [c \in CPUs |-> IF c \in Lines THEN [used |-> 0, of |-> 0] ELSE busy[c]]
    /\ back' = [c \in CPUs |-> c \notin Lines /\ back[c]]
    /\ UNCHANGED <<procStat, stats>>

\* A first sample has nothing to compare with, and one that went backwards nothing
\* that makes sense.
UsageSinceBoot(sm, before) ==                            \* mutant: compares with 0
    IF sm.total > before.total /\ sm.idle >= before.idle
    THEN [used |-> (sm.total - before.total) - (sm.idle - before.idle),
          of   |-> sm.total - before.total]
    ELSE Unused
Usage(sm, before) ==
    IF before.total # 0 /\ sm.total > before.total /\ sm.idle >= before.idle
    THEN [used |-> (sm.total - before.total) - (sm.idle - before.idle),
          of   |-> sm.total - before.total]
    ELSE Unused

\* publishCPU, under the lock. A core without a line keeps what it has.
PublishCPU ==
    /\ samples # NotRead
    /\ usage' = [c \in CPUs |-> 
            IF c \in DOMAIN samples THEN Usage(samples[c], prev[c]) ELSE usage[c]]
    /\ prev' = [c \in CPUs |-> IF c \in DOMAIN samples THEN samples[c] ELSE prev[c]]
    /\ samples' = NotRead
    /\ truth' = NotRead
    /\ UNCHANGED <<procStat, busy, back>>

----------------------------------------------------------------------------

\* After initCPUStatic, on a machine that has been running.
Init ==
    /\ idle = [c \in Cores |-> 0]
    /\ total = [c \in Cores |-> 1]
    /\ online = Cores
    /\ samples = NotRead
    /\ prev = [c \in CPUs |-> [idle |-> 0, total |-> 0]]
    /\ usage = [c \in CPUs |-> Unused]
    /\ busy = [c \in CPUs |-> [used |-> 0, of |-> 0]]
    /\ back = [c \in CPUs |-> FALSE]
    /\ truth = NotRead

Next ==
    \/ Tick
    \/ \E c \in Cores : Switch(c)
    \/ CollectCPU
    \/ PublishCPU

Spec == Init /\ [][Next]_vars

----------------------------------------------------------------------------
(* properties *)

\* A CPU is shown in use for no more than it has been since it was last read, and
\* for exactly that, of exactly that time, unless its counters went back: not for
\* what it did before it was first read, nor while it was offline, nor for what is
\* left of a counter that went backwards ("the only honest answer is to wait for
\* the next tick", cpu.go:32).
UsageIsTime ==
    [][samples' = NotRead =>
        \A c \in DOMAIN samples :
            LET shown == usage'[c]
                spent == truth[c].busy
            IN  /\ shown.used <= spent.used
                /\ prev[c].total = 0 => shown.used = 0
                /\ prev[c].total # 0 /\ ~truth[c].back =>
                        shown.used * spent.of = spent.used * shown.of]_vars

====
