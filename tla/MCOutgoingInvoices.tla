------------------------- MODULE MCOutgoingInvoices -------------------------
(* Two drafts, evidence that shares a number, a content no review accepts. *)
EXTENDS OutgoingInvoices, TLC

CONSTANTS c1, c2, d1, d2, q1, q2, hours, empty, r1, r2

MCTotal == r1 :> hours @@ r2 :> empty
MCNumber == [e \in Evidence |-> 1]
MCPeriodOf == r1 :> q1 @@ r2 :> q2

Symmetry == Permutations(Connection) \cup Permutations(Draft)
=============================================================================
