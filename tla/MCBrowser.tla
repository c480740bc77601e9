----------------------------- MODULE MCBrowser ------------------------------
(* Two rows of the schedule, due on the first day and on the last.          *)
EXTENDS Browser, TLC

CONSTANTS e1, e2

MCEntryDay == [e \in Entry |-> IF e = e1 THEN 0 ELSE LastDay]

Symmetry == Permutations(Session) \cup Permutations(Request)
=============================================================================
