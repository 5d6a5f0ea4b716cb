---- MODULE Ring ----
(***************************************************************************)
(* RingBuffer of internal/stats, one of which is behind every graph: the   *)
(* collector pushes a sample a tick, under the buffer's own lock, and the  *)
(* window reads all of them, or the highest, under it as well.             *)
(*                                                                         *)
(* A definition marked "mutant" is a mistake the next one might have held. *)
(***************************************************************************)

EXTENDS Integers, Sequences, FiniteSetsExt

CONSTANTS
    HistLen,    \* samples to a graph: 60
    Samples     \* what is pushed, numbers from 0

VARIABLES
    data,       \* the samples, by their place from 0
    head,       \* the place of the next write
    n,          \* the valid samples
    recent      \* for the properties: the last samples pushed, oldest first

vars == <<data, head, n, recent>>

Push(v) ==
    /\ data' = [data EXCEPT ![head] = v]
    /\ head' = (head + 1) % HistLen
    /\ n' = IF n < HistLen THEN n + 1 ELSE n
    /\ recent' = IF Len(recent) = HistLen THEN Append(Tail(recent), v)
                                         ELSE Append(recent, v)

\* Oldest first.
ReadFromFirst ==                       \* mutant: in the order of the places
    [i \in 1 .. n |-> data[i - 1]]
ReadInto ==
    [i \in 1 .. n |-> data[(head - n + (i - 1) + HistLen) % HistLen]]

\* Highest is Max: the valid samples are in the first n places, full or not.
Highest == Max({data[i] : i \in 0 .. n - 1} \cup {0})

Init ==
    /\ data = [i \in 0 .. HistLen - 1 |-> 0]
    /\ head = 0
    /\ n = 0
    /\ recent = <<>>

Next == \E v \in Samples : Push(v)

Spec == Init /\ [][Next]_vars

----------------------------------------------------------------------------

\* A graph is the last samples pushed and no others, in their order, and is scaled
\* by the highest of them (ring.go:34, 48).
RingIsLastSamples ==
    /\ ReadInto = recent
    /\ Highest = Max({recent[i] : i \in DOMAIN recent} \cup {0})

====
