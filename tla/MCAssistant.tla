---- MODULE MCAssistant ----
(* Two models, one of which may be missing, and two questions. *)
EXTENDS Assistant, TLC
====
