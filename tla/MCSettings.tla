---- MODULE MCSettings ----
EXTENDS Settings, FiniteSets
Nobody == {}
\* Bound: settings away from their default, in question or half typed, and changes of the
\* desktop, at once; one fewer while the disk is behind.
MaxChanged == 2
Changed ==
    {k \in Keys : before[k] \cup {chosen[k]} \cup durable[k] # {Defaults[k]}}
    \cup {k \in {"dark", "accent"} : desktop[k]}
    \cup Pending
Behind == disk # file \/ \E k \in Keys : ~(durable[k] \subseteq before[k] \cup {chosen[k]})
FewChanged == Cardinality(Changed) + (IF Behind THEN 1 ELSE 0) <= MaxChanged
====
