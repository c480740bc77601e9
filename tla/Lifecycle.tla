----------------------------- MODULE Lifecycle -----------------------------
(* The lifecycle that documents and transactions share. *)

InReview == {"received", "extracted", "needs_review"}
Unposted == InReview \cup {"approved"}
Booked == {"posted", "included_in_snapshot"}
Terminal == {"duplicate", "rejected", "void"}
Status == Unposted \cup Booked \cup Terminal

Successors ==
    [received |-> {"extracted"} \cup Terminal,
     extracted |-> {"needs_review", "approved"} \cup Terminal,
     needs_review |-> {"approved"} \cup Terminal,
     approved |-> {"posted"} \cup Terminal,
     posted |-> {"included_in_snapshot", "void"},
     included_in_snapshot |-> {},
     duplicate |-> {}, rejected |-> {}, void |-> {}]

CanMove(from, to) == from = to \/ to \in Successors[from]

\* The review packet also refuses to confirm a row that is already settled.
PacketCanMove(from, to) ==
    from \notin Terminal \cup Booked /\ CanMove(from, to)
=============================================================================
