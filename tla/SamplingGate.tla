---- MODULE SamplingGate ----
(***************************************************************************)
(* What the gate of internal/stats promises the rest of Atlas, and all it  *)
(* promises: samplers that may be paused, resumed and, once, stopped.      *)
(*                                                                         *)
(* Pausing is not immediate. A sampler that has already been let past the  *)
(* gate still owes one sample, which it may deliver after the pause or the *)
(* stop; one that has not delivers none. Files the samplers read from may  *)
(* be closed only once nobody owes anything.                               *)
(*                                                                         *)
(* Collection is shown to implement this.                                  *)
(***************************************************************************)

CONSTANT Samplers

VARIABLES
    mode,    \* "running", "paused" or "stopped"
    owed,    \* the samplers let past the gate and not yet sampling
    taking,  \* the samplers that are taking a sample
    closed   \* the files they read are closed

vars == <<mode, owed, taking, closed>>

Init ==
    /\ mode = "running"
    /\ owed = {}
    /\ taking = {}
    /\ closed = FALSE

\* Only a running gate lets a sampler past, one that is not there already. The
\* first sample is taken at once, the others when their time comes.
Admit(s) ==
    /\ mode = "running"
    /\ s \notin owed \union taking
    /\ \/ owed' = owed \union {s} /\ UNCHANGED taking
       \/ taking' = taking \union {s} /\ UNCHANGED owed
    /\ UNCHANGED <<mode, closed>>

\* What is owed is delivered, whatever the gate has come to meanwhile.
Begin(s) ==
    /\ s \in owed
    /\ owed' = owed \ {s}
    /\ taking' = taking \union {s}
    /\ UNCHANGED <<mode, closed>>

Finish(s) ==
    /\ s \in taking
    /\ taking' = taking \ {s}
    /\ UNCHANGED <<mode, owed, closed>>

\* A sampler that sees the stop in time delivers nothing.
Forgo(s) ==
    /\ mode = "stopped"
    /\ s \in owed
    /\ owed' = owed \ {s}
    /\ UNCHANGED <<mode, taking, closed>>

Pause ==
    /\ mode = "running"
    /\ mode' = "paused"
    /\ UNCHANGED <<owed, taking, closed>>

Resume ==
    /\ mode = "paused"
    /\ mode' = "running"
    /\ UNCHANGED <<owed, taking, closed>>

Stop ==
    /\ mode # "stopped"
    /\ mode' = "stopped"
    /\ UNCHANGED <<owed, taking, closed>>

Close ==
    /\ mode = "stopped"
    /\ owed = {}
    /\ taking = {}
    /\ ~closed
    /\ closed' = TRUE
    /\ UNCHANGED <<mode, owed, taking>>

Next ==
    \/ \E s \in Samplers : Admit(s) \/ Begin(s) \/ Finish(s) \/ Forgo(s)
    \/ Pause
    \/ Resume
    \/ Stop
    \/ Close

Spec == Init /\ [][Next]_vars

====
