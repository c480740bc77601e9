-------------------------- MODULE EvidencePipeline --------------------------
(***************************************************************************)
(* From the inbox to the posted row: intake, review, posting, cleanup and  *)
(* the close, all at work on the same files, archive and ledger.           *)
(***************************************************************************)
EXTENDS PostingBatch

vars == <<inbox, archive, books, issues, quarter, work, credit, closing, late, overtaken>>

Init == IntakeInit /\ credit = [e \in Evidence |-> 0]

Review ==
    \E e \in Evidence :
        \/ \E decision \in {"approved", "rejected"} : ReviewDecides(e, decision)
        \/ ReviewWithdrawn(e)

Next ==
    \/ \E w \in Worker : IngestStep(w) /\ Passes(w) /\ UNCHANGED credit
    \/ \E w \in Worker : BatchStep(w) /\ UNCHANGED closeVars
    \/ Review /\ Overlaps(closing) /\ UNCHANGED <<closing, late, work, credit>>
    \/ BeginClose /\ UNCHANGED <<work, credit>>
    \/ \E passed \in SUBSET Worker : EndClose(passed) /\ UNCHANGED <<work, credit>>

Spec == Init /\ [][Next]_vars

-----------------------------------------------------------------------------
(* Properties *)

\* Files, entries, issues and workers keep their shape.
TypeOK ==
    /\ IntakeTypeOK /\ CloseTypeOK
    /\ credit \in [Evidence -> Nat]
    /\ DOMAIN work = Worker
    /\ \A w \in Worker :
          \/ work[w] \in Ingest \cup {Idle}
          \/ \E items \in SUBSET Evidence : work[w] \in Batch(items)

\* A file leaves the inbox only once its row is posted and a whole copy of it
\* is archived: no crash, collision or racing batch loses the only copy
\* (cleanup_expense_inbox_source, archive_evidence).
CleanedIsBooked ==
    \A e \in Evidence \ inbox : books[e].row = "posted" /\ archive[e] = "whole"

\* Every draft row has its evidence archived whole and registered, whatever
\* the point at which earlier ingests of the file stopped (_ingest_document).
RowHasEvidence ==
    \A e \in Evidence :
        books[e].row # "absent" => archive[e] = "whole" /\ books[e].stored

\* What a batch reports as posted is posted, with other batches, a reviewer
\* and the close between its steps (post_batch).
AnswerTrue ==
    \A w \in Worker, e \in Evidence :
        ItemAt(w, e, "posted") \/ ItemAt(w, e, "already_posted") => Posted(e)

\* Two web batches never both report the posting of one row: the lock of
\* post_ready, since the posting itself reads before it writes.
CreditedOnce == \A e \in Evidence : credit[e] <= 1

\* close_period, _assert_period_mutable: a closed quarter stays settled. No
\* ingest or batch that goes on after it leaves an open issue, undecided
\* evidence or an unposted row in it, unless the file changed between the reads
\* of the close and its UPDATE, or by a commit that had checked before it.
ClosedSettled ==
    quarter = "closed" => \A e \in Evidence \ overtaken : Settled(e)

\* No file is mislaid on its way, and no posting is reported twice.
PipelineInv == TypeOK /\ RowHasEvidence /\ CleanedIsBooked /\ CreditedOnce
=============================================================================
