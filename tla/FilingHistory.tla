---------------------------- MODULE FilingHistory ----------------------------
(***************************************************************************)
(* What the ledger promises a tax office.  Every quarter has a book of     *)
(* entries.  The book may be written until the quarter is closed, and      *)
(* never after; a closed quarter may be superseded by a later one; and     *)
(* what is filed for it is its whole book, filed once: another form for    *)
(* the same quarter reports the same entries.                              *)
(***************************************************************************)
CONSTANTS Quarter, Unfiled

VARIABLES
    phase,      \* quarter -> "writing", "closed" or "superseded"
    book,       \* quarter -> the entries in force
    filed       \* quarter -> the entries filed, or Unfiled

\* The first form filed for q fixes its entries.
FiledBook(q) == IF filed[q] = Unfiled THEN book[q] ELSE filed[q]

Init ==
    /\ phase = [q \in Quarter |-> "writing"]
    /\ book = [q \in Quarter |-> {}]
    /\ filed = [q \in Quarter |-> Unfiled]

\* Bookkeeping: any change to the books still being written.
Write ==
    /\ \A q \in Quarter : phase[q] # "writing" => book'[q] = book[q]
    /\ UNCHANGED <<phase, filed>>

Close(q) ==
    /\ phase[q] = "writing"
    /\ phase' = [phase EXCEPT ![q] = "closed"]
    /\ UNCHANGED <<book, filed>>

Supersede(q) ==
    /\ phase[q] = "closed"
    /\ phase' = [phase EXCEPT ![q] = "superseded"]
    /\ UNCHANGED <<book, filed>>

File(q) ==
    /\ phase[q] # "writing"
    /\ filed' = [filed EXCEPT ![q] = FiledBook(q)]
    /\ UNCHANGED <<phase, book>>

Next == Write \/ \E q \in Quarter : Close(q) \/ Supersede(q) \/ File(q)

Spec == Init /\ [][Next]_<<phase, book, filed>>
=============================================================================
