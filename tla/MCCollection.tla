---- MODULE MCCollection ----
(***************************************************************************)
(* Two samplers, a page with processes and one without, and names for two  *)
(* scanners at once, one more than there should ever be.                   *)
(***************************************************************************)

EXTENDS Collection

CONSTANTS cpu, mem, scan1, scan2, apps, memory

TwoSamplers  == {cpu, mem}
TwoScanners  == {scan1, scan2}
TwoPages     == {apps, memory}
ProcessPages == {apps}

====
