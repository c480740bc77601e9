------------------------------- MODULE Intake -------------------------------
(***************************************************************************)
(* How a file in the inbox becomes evidence and a draft row: the archive   *)
(* copy, then a series of commits of their own (document, stored source,   *)
(* issues, row, lifecycle, treatment, issue).  A worker may end between    *)
(* any two of them, and a file may be ingested again by another worker.    *)
(* Beside it stands the person who reviews, and the close of the quarter.  *)
(* A commit of a worker looks at the quarter in autocommit before it takes *)
(* the write lock, and the close looks at everything before its UPDATE:    *)
(* either may find that the other came between.                            *)
(***************************************************************************)
EXTENDS Naturals, FiniteSets, Lifecycle

CONSTANTS
    Evidence,       \* files, by content hash
    Worker,         \* server threads and command lines
    Idle,           \* a worker with nothing to do
    Flagged,        \* files whose extraction finds structural errors
    Unreadable,     \* files whose amounts must be typed in
    Reviewed,       \* files that were ingested and approved before
    MaxVersion      \* bound: versions of the row of a file

ASSUME IntakeAssumption ==
    /\ MaxVersion \in [Evidence -> Nat \ {0}]
    /\ Flagged \cup Unreadable \cup Reviewed \subseteq Evidence

VARIABLES
    inbox,          \* files in the inbox
    archive,        \* file -> "none", "part" or "whole"
    books,          \* file -> its document, stored source and row
    issues,         \* file -> its open blocking issues
    quarter,        \* status of the quarter
    work,           \* worker -> what it is at
    closing,        \* a close has found everything settled, and is about to write
    late,           \* workers whose next commit saw the quarter before it closed
    overtaken       \* ghost: files that changed between a check and its write

intakeVars == <<inbox, archive, books, issues, quarter>>
closeVars == <<closing, late, overtaken>>

Code == {"structural", "amount", "tax"}

Entry ==
    [document : {"absent", "extracted", "needs_review", "approved", "rejected"},
     stored : BOOLEAN,
     row : {"absent", "received", "extracted", "needs_review", "approved", "posted", "rejected"},
     version : Nat,
     tax : {"none", "unknown", "reviewed"}]

NoEntry == [document |-> "absent", stored |-> FALSE, row |-> "absent",
            version |-> 0, tax |-> "none"]

Stages == {"copy", "document", "store", "flag", "draft", "extract", "queue", "treat",
           "raise", "settle", "again"}

Ingest == [op : {"ingest"}, of : Evidence, amounts : BOOLEAN, at : Stages,
           new : BOOLEAN, version : Nat]

Free(w) == work[w] = Idle
Quit(w) == work' = [work EXCEPT ![w] = Idle]
Mutable == quarter = "open"

\* _assert_period_mutable of a worker's commit: it saw an open quarter.
Admits(w) == Mutable \/ w \in late

Changed == {e \in Evidence : books'[e] # books[e] \/ issues'[e] # issues[e]}
Overlaps(between) == overtaken' = overtaken \cup (IF between THEN Changed ELSE {})

\* A commit of a worker, or a step without one: the next looks again.
Passes(w) ==
    /\ Overlaps(closing \/ w \in late)
    /\ late' = late \ {w}
    /\ closing' = closing

IngestAt(w, stage) == ~Free(w) /\ work[w].op = "ingest" /\ work[w].at = stage
Goes(w, stage) == work' = [work EXCEPT ![w].at = stage]
File(w) == work[w].of

\* A commit of the ingest: the document must still be in an open quarter.
Sets(e, entry) == books' = [books EXCEPT ![e] = entry]

-----------------------------------------------------------------------------
(* The archive *)

\* Broken variant: a copy that is there is taken, its digest unread.
Archived_Exists(e) == archive[e] # "none"

\* The digest of the copy is the file's.
Archived(e) == archive[e] = "whole"

\* The copy grows under its final name: a part of one is a collision later.
BeginIngest(w, e, amounts) ==
    /\ Free(w) /\ e \in inbox
    /\ e \in Unreadable \/ amounts
    /\ Archived(e) \/ archive[e] = "none"
    /\ work' = [work EXCEPT ![w] = [op |-> "ingest", of |-> e, amounts |-> amounts,
            at |-> IF Archived(e) THEN "document" ELSE "copy",
            new |-> FALSE, version |-> 0]]
    /\ archive' = [archive EXCEPT ![e] = IF Archived(e) THEN @ ELSE "part"]
    /\ UNCHANGED <<inbox, books, issues, quarter>>

CopyEnds(w) ==
    /\ IngestAt(w, "copy")
    /\ archive' = [archive EXCEPT ![File(w)] = "whole"]
    /\ Goes(w, "document")
    /\ UNCHANGED <<inbox, books, issues, quarter>>

-----------------------------------------------------------------------------
(* The commits of _ingest_document *)

\* Found by content hash; of two concurrent inserts the later one fails.
IngestDocument(w) ==
    LET e == File(w)
        isNew == books[e].document = "absent"
    IN  /\ IngestAt(w, "document")
        /\ isNew => Admits(w)
        /\ Sets(e, IF isNew
                   THEN [books[e] EXCEPT !.document =
                           IF e \in Flagged THEN "needs_review" ELSE "extracted"]
                   ELSE books[e])
        /\ work' = [work EXCEPT ![w].at = "store", ![w].new = isNew]
        /\ UNCHANGED <<inbox, archive, issues, quarter>>

\* set_document_storage and register_local_source_replica (see Storage).
IngestStore(w) ==
    /\ IngestAt(w, "store")
    /\ Admits(w) \/ books[File(w)].stored
    /\ Sets(File(w), [books[File(w)] EXCEPT !.stored = TRUE])
    /\ Goes(w, "flag")
    /\ UNCHANGED <<inbox, archive, issues, quarter>>

\* Only the worker that created the document raises its issues.
IngestFlag(w) ==
    LET e == File(w)
        raised == {c \in {"structural"} : work[w].new /\ e \in Flagged}
    IN  /\ IngestAt(w, "flag")
        /\ raised # {} => Admits(w)
        /\ issues' = [issues EXCEPT ![e] = @ \cup raised]
        /\ Goes(w, "draft")
        /\ UNCHANGED <<inbox, archive, books, quarter>>

-----------------------------------------------------------------------------
(* The draft row: _intake_transaction_draft *)

Undecided(e) == books[e].document \in {"extracted", "needs_review"}

\* Without amounts there is no row; the new document gets an issue instead.
DraftWithoutAmounts(w) ==
    LET e == File(w)
        raised == {c \in {"amount"} : work[w].new}
    IN  /\ IngestAt(w, "draft")
        /\ books[e].row = "absent" /\ Undecided(e)
        /\ ~work[w].amounts
        /\ raised # {} => Admits(w)
        /\ issues' = [issues EXCEPT ![e] = @ \cup raised]
        /\ Quit(w)
        /\ UNCHANGED <<inbox, archive, books, quarter>>

DraftRow(w) ==
    LET e == File(w)
    IN  /\ IngestAt(w, "draft")
        /\ books[e].row = "absent" /\ Undecided(e)
        /\ work[w].amounts /\ Admits(w)
        /\ Sets(e, [books[e] EXCEPT !.row = "received", !.version = 1])
        /\ work' = [work EXCEPT ![w].at = "extract", ![w].version = 1, ![w].new = FALSE]
        /\ UNCHANGED <<inbox, archive, issues, quarter>>

\* transition_transaction with the version the previous commit returned.
Advance(w, status, next) ==
    LET e == File(w)
    IN  /\ books[e].version = work[w].version
        /\ Admits(w) /\ CanMove(books[e].row, status)
        /\ Sets(e, [books[e] EXCEPT !.row = status, !.version = @ + 1])
        /\ work' = [work EXCEPT ![w].at = next, ![w].version = @ + 1]
        /\ UNCHANGED <<inbox, archive, issues, quarter>>

DraftExtracted(w) ==
    /\ IngestAt(w, "extract")
    /\ Advance(w, "extracted", IF File(w) \in Flagged THEN "queue" ELSE "treat")

DraftQueued(w) == IngestAt(w, "queue") /\ Advance(w, "needs_review", "treat")

\* No version is expected of the treatment: it is written whatever is there.
DraftTreatment(w) ==
    /\ IngestAt(w, "treat")
    /\ Admits(w)
    /\ Sets(File(w), [books[File(w)] EXCEPT !.tax = "unknown"])
    /\ Goes(w, "raise")
    /\ UNCHANGED <<inbox, archive, issues, quarter>>

\* Broken variant: the issue is raised in whatever quarter.
DraftIssue_Anytime(w) ==
    /\ IngestAt(w, "raise")
    /\ issues' = [issues EXCEPT ![File(w)] = @ \cup {"tax"}]
    /\ Goes(w, "settle")
    /\ UNCHANGED <<inbox, archive, books, quarter>>

DraftIssue(w) ==
    /\ IngestAt(w, "raise")
    /\ Admits(w)
    /\ issues' = [issues EXCEPT ![File(w)] = @ \cup {"tax"}]
    /\ Goes(w, "settle")
    /\ UNCHANGED <<inbox, archive, books, quarter>>

DraftSettled(w) ==
    LET e == File(w)
    IN  /\ IngestAt(w, "settle")
        /\ "amount" \in issues[e] => Admits(w)
        /\ issues' = [issues EXCEPT ![e] = @ \ {"amount"}]
        /\ Quit(w)
        /\ UNCHANGED <<inbox, archive, books, quarter>>

\* A row from an earlier ingest: at most its candidate amounts are filled in
\* and the tax review is asked for again, each in a commit.
DraftExists(w) ==
    LET e == File(w)
    IN  /\ IngestAt(w, "draft")
        /\ books[e].row # "absent"
        /\ books[e].tax = "unknown" /\ work[w].amounts /\ e \in Unreadable
        /\ Admits(w)
        /\ Goes(w, "again")
        /\ UNCHANGED intakeVars

DraftAskedAgain(w) ==
    /\ IngestAt(w, "again")
    /\ Admits(w)
    /\ issues' = [issues EXCEPT ![File(w)] = @ \cup {"tax"}]
    /\ Quit(w)
    /\ UNCHANGED <<inbox, archive, books, quarter>>

\* The worker ends: nothing left to do, a check that failed, or a crash.
IngestEnds(w) ==
    /\ ~Free(w) /\ work[w].op = "ingest"
    /\ Quit(w)
    /\ UNCHANGED intakeVars

IngestStep(w) ==
    \/ \E e \in Evidence, amounts \in BOOLEAN : BeginIngest(w, e, amounts)
    \/ CopyEnds(w) \/ IngestDocument(w) \/ IngestStore(w) \/ IngestFlag(w)
    \/ DraftWithoutAmounts(w) \/ DraftRow(w) \/ DraftExtracted(w) \/ DraftQueued(w)
    \/ DraftTreatment(w) \/ DraftIssue(w) \/ DraftSettled(w)
    \/ DraftExists(w) \/ DraftAskedAgain(w)
    \/ IngestEnds(w)

-----------------------------------------------------------------------------
(* Review, and the close *)

\* The packet needs the treatment that the draft ends with.
Offered(e) == Mutable /\ books[e].row # "absent" /\ books[e].tax # "none"

\* One write transaction: issues, document, treatment and row.
ReviewDecides(e, decision) ==
    /\ Offered(e)
    /\ books[e].version < MaxVersion[e]
    /\ PacketCanMove(books[e].row, decision)
    /\ PacketCanMove(books[e].document, decision)
    /\ issues' = [issues EXCEPT ![e] = {}]
    /\ Sets(e, [books[e] EXCEPT !.document = decision, !.row = decision, !.version = @ + 1,
                                !.tax = IF decision = "approved" THEN "reviewed" ELSE @])
    /\ UNCHANGED <<inbox, archive, quarter>>

\* The wizard withdraws an approval when the draft is edited.
ReviewWithdrawn(e) ==
    /\ Mutable /\ books[e].row = "approved" /\ books[e].version < MaxVersion[e]
    /\ Sets(e, [books[e] EXCEPT !.document = "needs_review", !.row = "needs_review",
                                !.version = @ + 1])
    /\ UNCHANGED <<inbox, archive, issues, quarter>>

Settled(e) == issues[e] = {} /\ ~Undecided(e) /\ books[e].row \notin Unposted

\* Refuses open issues, evidence in review and rows not yet posted.
BeginClose ==
    /\ Mutable
    /\ \A e \in Evidence : Settled(e)
    /\ closing' = TRUE /\ overtaken' = {}
    /\ UNCHANGED late
    /\ UNCHANGED intakeVars

\* The UPDATE looks at the status of the quarter alone.
EndClose(passed) ==
    /\ closing
    /\ \A w \in passed : ~Free(w) /\ work[w].op = "ingest"
    /\ quarter' = "closed"
    /\ closing' = FALSE /\ late' = passed
    /\ UNCHANGED <<inbox, archive, books, issues, overtaken>>

IntakeInit ==
    /\ inbox = Evidence
    /\ archive = [e \in Evidence |-> IF e \in Reviewed THEN "whole" ELSE "none"]
    /\ books = [e \in Evidence |->
          IF e \in Reviewed
          THEN [document |-> "approved", stored |-> TRUE, row |-> "approved",
                version |-> 1, tax |-> "reviewed"]
          ELSE NoEntry]
    /\ issues = [e \in Evidence |-> {}]
    /\ quarter = "open"
    /\ work = [w \in Worker |-> Idle]
    /\ closing = FALSE /\ late = {} /\ overtaken = {}

IntakeTypeOK ==
    /\ inbox \subseteq Evidence
    /\ archive \in [Evidence -> {"none", "part", "whole"}]
    /\ books \in [Evidence -> Entry]
    /\ issues \in [Evidence -> SUBSET Code]
    /\ quarter \in {"open", "closed"}

CloseTypeOK == closing \in BOOLEAN /\ late \subseteq Worker /\ overtaken \subseteq Evidence
=============================================================================
