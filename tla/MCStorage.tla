----------------------------- MODULE MCStorage -----------------------------
(* The private root, a managed Drive folder, a read-only archive, a mirror; *)
(* three documents for the move, so that one may be copied with the tree,   *)
(* one fetched by the rewrite, and one booked too late; a file of version   *)
(* 6, where the scripts end, of 18, before the backfills, a new one and a   *)
(* current one, with a subject that has two issues and two schedule rows    *)
(* that name one transaction.                                               *)
EXTENDS EvidenceStores, TLC

CONSTANTS local, managed, archive, mirror, c1, c2, p1, p2, d1, d2, d3

MCDriver ==
    local :> "filesystem" @@ managed :> "google_drive"
        @@ archive :> "google_drive" @@ mirror :> "s3"

MCComplaint ==
    {[subject |-> 1, dated |-> TRUE, at |-> 1],
     [subject |-> 1, dated |-> FALSE, at |-> 2],
     [subject |-> 2, dated |-> TRUE, at |-> 1]}

MCLinkOf == <<1, 2, 2>>

StoresSymmetry ==
    Permutations(Process) \cup Permutations(Evidence) \cup Permutations(Program)
=============================================================================
