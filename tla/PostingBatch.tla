---------------------------- MODULE PostingBatch ----------------------------
(***************************************************************************)
(* Posting the approved rows of a quarter: a request names rows and the    *)
(* versions its sender saw, and is answered row by row.  Requests come     *)
(* from the web server, one at a time under a lock of its process, and     *)
(* from the command line, which takes no lock.  Each row is read, then     *)
(* written, then its inbox file removed; anything may fail between.        *)
(***************************************************************************)
EXTENDS Intake

CONSTANT Receipted      \* files of the expense intake: only theirs are cleaned up

ASSUME PostingAssumption == Receipted \subseteq Evidence

VARIABLE credit         \* file -> web batches that reported its row as posted

postingVars == <<inbox, archive, books, issues, quarter, credit>>

\* "failed" stands for skipped and not attempted as well, and "posted" also
\* for a row whose inbox file could not be removed.
Answered == {"posted", "already_posted", "failed"}
InHand == {"write", "clean"}

Batch(items) ==
    [op : {"batch"}, web : BOOLEAN, asked : [items -> Nat],
     outcome : [items -> {"waiting"} \cup InHand \cup Answered]]

Batching(w) == ~Free(w) /\ work[w].op = "batch"
ItemAt(w, e, stage) ==
    Batching(w) /\ e \in DOMAIN work[w].outcome /\ work[w].outcome[e] = stage

\* The version is of no use once the row is answered.
Concludes(w, e, outcome) ==
    work' = [work EXCEPT ![w].outcome[e] = outcome,
                         ![w].asked[e] = IF outcome \in InHand THEN @ ELSE 0]

Posted(e) == books[e].row = "posted"
CommittedAny(w) == \E e \in Evidence : ItemAt(w, e, "posted") \/ ItemAt(w, e, "clean")

\* Broken variant: the web server takes no lock.
LockFree_Never(w) == TRUE

\* Held by the process for as long as the batch runs; a crash frees it.
LockFree(w) == \A v \in Worker : Batching(v) => ~work[v].web

\* The rows of a preview, at the versions it showed.
BeginBatch(w, web, items) ==
    /\ Free(w) /\ Mutable
    /\ web => LockFree(w)
    /\ \A e \in items : books[e].row \in Unposted \cup Booked
    /\ work' = [work EXCEPT ![w] =
          [op |-> "batch", web |-> web,
           asked |-> [e \in items |-> books[e].version],
           outcome |-> [e \in items |-> "waiting"]]]
    /\ UNCHANGED postingVars

\* Broken variant: what was not attempted is answered with an outcome of its own.
Breaks_Interrupted(w) ==
    IF CommittedAny(w)
    THEN work' = [work EXCEPT ![w].outcome =
             [e \in DOMAIN @ |-> IF @[e] \in Answered THEN @[e] ELSE "interrupted"]]
    ELSE Quit(w)

\* A busy database or another error.  With nothing counted yet the sender is
\* told to retry, even when it was the first row's reading back that failed.
Breaks(w) ==
    IF CommittedAny(w)
    THEN work' = [work EXCEPT ![w].outcome =
             [e \in DOMAIN @ |-> IF @[e] \in Answered THEN @[e] ELSE "failed"]]
    ELSE Quit(w)

-----------------------------------------------------------------------------
(* One row *)

\* The inbox file of an expense can only be removed beside a whole copy.
CleanupFails(e) == e \in Receipted /\ archive[e] # "whole"

Postable(e) ==
    books[e].document = "approved" /\ books[e].tax = "reviewed" /\ issues[e] = {}

Refused(w, e) ==
    \/ CleanupFails(e)
    \/ books[e].version # work[w].asked[e]
    \/ ~CanMove(books[e].row, "posted")

\* Broken variant: a row at another version counts as posted already.
ReadOutcome_StaleIsDone(w, e) ==
    IF Posted(e) \/ books[e].version # work[w].asked[e] THEN "already_posted"
    ELSE IF Refused(w, e) \/ ~Postable(e) THEN "failed"
    ELSE IF Mutable THEN "write" ELSE "closed"

ReadOutcome(w, e) ==
    IF Posted(e) THEN "already_posted"
    ELSE IF Refused(w, e) THEN "failed"
    ELSE IF ~Mutable THEN "closed"
    ELSE IF Postable(e) THEN "write" ELSE "failed"

\* A quarter that is closed by now fails the whole batch, or with a row of it
\* posted only this one.
ReadItem(w, e) ==
    /\ ItemAt(w, e, "waiting")
    /\ \A d \in DOMAIN work[w].outcome : work[w].outcome[d] \notin InHand
    /\ IF ReadOutcome(w, e) # "closed" THEN Concludes(w, e, ReadOutcome(w, e))
       ELSE IF CommittedAny(w) THEN Concludes(w, e, "failed") ELSE Quit(w)
    /\ UNCHANGED postingVars

\* The row is written as it was read, by its id alone, and read back after
\* the commit; then it is counted.
WriteItem(w, e) ==
    /\ ItemAt(w, e, "write") /\ work[w].asked[e] < MaxVersion[e]
    /\ books' = [books EXCEPT ![e].row = "posted", ![e].version = work[w].asked[e] + 1]
    /\ \/ /\ credit' = [credit EXCEPT ![e] = @ + (IF work[w].web THEN 1 ELSE 0)]
          /\ Concludes(w, e, IF e \in Receipted THEN "clean" ELSE "posted")
       \/ UNCHANGED credit /\ Breaks(w)    \* the reading back failed
    /\ UNCHANGED <<inbox, archive, issues, quarter>>

\* Both files are verified again; a failure leaves the row posted.
CleanItem(w, e) ==
    /\ ItemAt(w, e, "clean")
    /\ inbox' = inbox \/ (Archived(e) /\ inbox' = inbox \ {e})
    /\ Concludes(w, e, "posted")
    /\ UNCHANGED <<archive, books, issues, quarter, credit>>

-----------------------------------------------------------------------------
(* The end of a batch *)

BatchFails(w) ==
    /\ \E e \in Evidence : ItemAt(w, e, "waiting") \/ ItemAt(w, e, "write")
    /\ \A e \in Evidence : ~ItemAt(w, e, "clean")
    /\ Breaks(w)
    /\ UNCHANGED postingVars

\* Answered, or crashed.
BatchEnds(w) == Batching(w) /\ Quit(w) /\ UNCHANGED postingVars

\* Broken variant: the file of a row is removed whatever its status.
CleanupPosted_Any(w, e) ==
    /\ Free(w) /\ e \in Receipted
    /\ Archived(e)
    /\ inbox' = inbox \ {e}
    /\ UNCHANGED <<archive, books, issues, quarter, credit, work>>

\* inbox cleanup-posted, for what a batch could not remove.
CleanupPosted(w, e) ==
    /\ Free(w) /\ e \in Receipted
    /\ Posted(e) /\ Archived(e)
    /\ inbox' = inbox \ {e}
    /\ UNCHANGED <<archive, books, issues, quarter, credit, work>>

BatchStep(w) ==
    \/ \E items \in SUBSET Evidence \ {{}}, web \in BOOLEAN : BeginBatch(w, web, items)
    \/ \E e \in Evidence :
          ReadItem(w, e) \/ WriteItem(w, e) \/ CleanItem(w, e)
              \/ CleanupPosted(w, e)
    \/ BatchFails(w) \/ BatchEnds(w)
=============================================================================
