---- MODULE MCUpdate ----
(***************************************************************************)
(* A branch of the full program and the minimal one, one commit more on    *)
(* each, and two jobs, so that one may outlive its process.                *)
(***************************************************************************)

EXTENDS Update

CONSTANTS main, minimal, job1, job2

TwoChannels == {main, minimal}
TwoJobs     == {job1, job2}
Nothing     == {}

====
