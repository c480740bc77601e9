----------------------- MODULE EvidencePipelineProofs -----------------------
(***************************************************************************)
(* For any number of files and workers: what the pipeline promises of      *)
(* evidence, postings and answers holds in every state.                    *)
(*                                                                         *)
(* What makes it inductive is what a worker in the middle of its commits   *)
(* has seen and nobody takes back: a copy that was whole, a source that    *)
(* was stored, a row that was posted; that one web batch at a time has     *)
(* rows it is yet to be credited with; and that what a close found settled *)
(* stays so until its UPDATE, but for the files that change meanwhile.     *)
(***************************************************************************)
EXTENDS EvidencePipeline, TLAPS

Batches == UNION {Batch(items) : items \in SUBSET Evidence}
Work == Ingest \cup Batches

\* The files of which something can be said for good.
Whole == {e \in Evidence : archive[e] = "whole"}
Stored == {e \in Evidence : books[e].stored}
Done == {e \in Evidence : Posted(e)}
Fresh == {e \in Evidence : credit[e] = 0}

\* What a worker has seen when it is at h.
Knows(h, whole, stored, done) ==
    /\ h.op = "ingest" =>
          /\ h.at # "copy" => h.of \in whole
          /\ h.at \notin {"copy", "document", "store"} => h.of \in stored
    /\ h.op = "batch" =>
          \A e \in DOMAIN h.outcome :
             /\ e \in whole /\ e \in stored
             /\ h.outcome[e] \in {"clean", "posted", "already_posted"} => e \in done

\* A web batch has not been credited yet with what it is about to post.
Owed(h, fresh) ==
    h.op = "batch" /\ h.web =>
        \A e \in DOMAIN h.outcome : h.outcome[e] = "write" => e \in fresh

Web(v) == Batching(v) /\ work[v].web

WorkInv ==
    /\ work \in [Worker -> Work \cup {Idle}]
    /\ \A w \in Worker :
          Free(w) \/ (Knows(work[w], Whole, Stored, Done) /\ Owed(work[w], Fresh))
    /\ \A v, w \in Worker : Web(v) /\ Web(w) => v = w

DataInv ==
    /\ IntakeTypeOK /\ credit \in [Evidence -> Nat]
    /\ RowHasEvidence /\ CleanedIsBooked /\ CreditedOnce
    /\ \A e \in Evidence : credit[e] > 0 => Posted(e)

FlowInv == WorkInv /\ DataInv

CloseInv ==
    /\ CloseTypeOK
    /\ closing \/ quarter = "closed" => \A e \in Evidence \ overtaken : Settled(e)

-----------------------------------------------------------------------------
(* What nobody takes back *)

Lasting == Whole \subseteq Whole' /\ Stored \subseteq Stored' /\ Done \subseteq Done'

LEMMA KnowsStays ==
    ASSUME NEW h \in Work, NEW whole, NEW stored, NEW done, NEW whole2, NEW stored2, NEW done2,
           Knows(h, whole, stored, done),
           whole \subseteq whole2, stored \subseteq stored2, done \subseteq done2
    PROVE  Knows(h, whole2, stored2, done2)
  BY DEF Knows

\* What a step of a worker has to show of itself, for all workers to be well.
LEMMA WorkKept ==
    ASSUME WorkInv, NEW w \in Worker, NEW h \in Work \cup {Idle},
           work' = [work EXCEPT ![w] = h],
           h = Idle \/ (Knows(h, Whole', Stored', Done') /\ Owed(h, Fresh')),
           h = Idle \/ ~(h.op = "batch" /\ h.web) \/ Web(w) \/ LockFree(w),
           Lasting, Fresh \subseteq Fresh' \/ Web(w)
    PROVE  WorkInv'
<1>1. work' \in [Worker -> Work \cup {Idle}]
  BY DEF WorkInv
<1>2. ASSUME NEW v \in Worker
      PROVE  work'[v] = Idle \/ (Knows(work'[v], Whole', Stored', Done') /\ Owed(work'[v], Fresh'))
  <2>1. CASE v = w
    BY <2>1 DEF WorkInv
  <2>2. CASE v # w
    <3>1. work'[v] = work[v]
      BY <2>2 DEF WorkInv
    <3>2. work[v] = Idle \/ (work[v] \in Work /\ Knows(work[v], Whole, Stored, Done))
      BY DEF WorkInv, Free
    <3>3. work[v] = Idle \/ Knows(work[v], Whole', Stored', Done')
      BY <3>2, KnowsStays DEF Lasting
    <3>4. work[v] = Idle \/ Owed(work[v], Fresh')
      <4>1. CASE Fresh \subseteq Fresh'
        BY <4>1 DEF WorkInv, Free, Owed
      <4>2. CASE Web(w)
        <5>1. ~Web(v)
          BY <2>2, <4>2 DEF WorkInv
        <5> QED
          BY <5>1 DEF Web, Batching, Free, Owed
      <4> QED
        BY <4>1, <4>2
    <3> QED
      BY <3>1, <3>3, <3>4
  <2> QED
    BY <2>1, <2>2
<1>3. ASSUME NEW v \in Worker, Web(v)' PROVE v = w \/ Web(v)
  BY <1>3 DEF WorkInv, Web, Batching, Free
<1>4. ASSUME NEW v \in Worker, Web(v), Web(w)' PROVE v = w
  <2>1. h # Idle /\ h.op = "batch" /\ h.web
    BY <1>4 DEF WorkInv, Web, Batching, Free
  <2>2. CASE Web(w)
    BY <1>4, <2>2 DEF WorkInv
  <2>3. CASE LockFree(w)
    BY <1>4, <2>3 DEF LockFree, Web
  <2> QED
    BY <2>1, <2>2, <2>3
<1>5. \A u, v \in Worker : Web(u)' /\ Web(v)' => u = v
  BY <1>3, <1>4 DEF WorkInv
<1> QED
  BY <1>1, <1>2, <1>5 DEF WorkInv, Free

-----------------------------------------------------------------------------
(* Intake *)

LEMMA IngestOf ==
    ASSUME WorkInv, NEW w \in Worker, ~Free(w), work[w].op = "ingest"
    PROVE  work[w] \in Ingest /\ Knows(work[w], Whole, Stored, Done)
  BY DEF WorkInv, Work, Batches, Batch, Free

\* An ingest that goes on with what it should have seen by then.
LEMMA IngestKept ==
    ASSUME WorkInv, NEW w \in Worker, NEW h \in Ingest \cup {Idle},
           work' = [work EXCEPT ![w] = h],
           h = Idle \/ h.at = "copy" \/ h.of \in Whole',
           h = Idle \/ h.at \in {"copy", "document", "store"} \/ h.of \in Stored',
           Lasting, UNCHANGED credit
    PROVE  WorkInv'
<1>1. h \in Work \cup {Idle}
  BY DEF Work
<1>2. h = Idle \/ (Knows(h, Whole', Stored', Done') /\ Owed(h, Fresh') /\ h.op # "batch")
  BY DEF Knows, Owed, Ingest
<1>3. Fresh \subseteq Fresh'
  BY DEF Fresh
<1> QED
  BY <1>1, <1>2, <1>3, WorkKept

LEMMA PostedForGood ==
    ASSUME NEW to \in {"extracted", "needs_review", "approved", "rejected"}
    PROVE  ~CanMove("posted", to)
  BY DEF CanMove, Successors

\* A commit of an ingest that changes books or issues.
LEMMA AdvanceKept ==
    ASSUME FlowInv, NEW w \in Worker, ~Free(w), work[w].op = "ingest",
           work[w].at \in {"extract", "queue"},
           NEW status \in {"extracted", "needs_review"}, NEW next \in {"queue", "treat"},
           Advance(w, status, next), UNCHANGED credit
    PROVE  FlowInv'
<1> DEFINE e == File(w)
           h == [work[w] EXCEPT !.at = next, !.version = @ + 1]
<1>1. work[w] \in Ingest /\ e \in Whole /\ e \in Stored /\ e \in Evidence
  BY IngestOf DEF FlowInv, Knows, File, Ingest
<1>2. books \in [Evidence -> Entry] /\ work \in [Worker -> Work \cup {Idle}]
  BY DEF FlowInv, DataInv, IntakeTypeOK, WorkInv
<1>3. work' = [work EXCEPT ![w] = h]
  BY <1>2 DEF Advance
<1>4. h \in Ingest /\ h.of = e /\ h.at = next
  <2>1. work[w].version + 1 \in Nat
    BY <1>1 DEF Ingest
  <2> QED
    BY <1>1, <2>1 DEF Ingest, Stages, File
<1>5. ~Posted(e)
  BY PostedForGood DEF Advance, Posted
<1>6. /\ books' = [books EXCEPT ![e] = [books[e] EXCEPT !.row = status, !.version = @ + 1]]
      /\ UNCHANGED <<inbox, archive, issues, quarter>>
  BY DEF Advance, Sets
<1>7. books' \in [Evidence -> Entry]
  <2>1. [books[e] EXCEPT !.row = status, !.version = @ + 1] \in Entry
    <3>1. books[e] \in Entry /\ books[e].version + 1 \in Nat
      BY <1>1, <1>2 DEF Entry
    <3> QED
      BY <3>1 DEF Entry
  <2> QED
    BY <1>1, <1>2, <1>6, <2>1
<1>8. /\ books'[e].stored = books[e].stored
      /\ \A d \in Evidence : d # e => books'[d] = books[d]
  BY <1>1, <1>2, <1>6 DEF Entry
<1>9. Lasting
  BY <1>5, <1>6, <1>8 DEF Lasting, Whole, Stored, Done, Posted
<1>10. WorkInv'
  <2>1. h.of \in Whole' /\ h.of \in Stored'
    BY <1>1, <1>4, <1>9 DEF Lasting
  <2> HIDE DEF h
  <2> QED
    BY <1>3, <1>4, <1>9, <2>1, IngestKept DEF FlowInv
<1>11. DataInv'
  BY <1>1, <1>5, <1>6, <1>7, <1>8
  DEF FlowInv, DataInv, IntakeTypeOK, RowHasEvidence, CleanedIsBooked, CreditedOnce,
      Posted, Whole, Stored
<1> QED
  BY <1>10, <1>11 DEF FlowInv

\* The steps of a worker that ingests a file.
LEMMA IngestStepKept ==
    ASSUME FlowInv, NEW w \in Worker, IngestStep(w), UNCHANGED credit
    PROVE  FlowInv'
<1> DEFINE e == File(w)
           at(stage) == [work[w] EXCEPT !.at = stage]
<1>a. /\ WorkInv /\ DataInv /\ books \in [Evidence -> Entry] /\ work \in [Worker -> Work \cup {Idle}]
      /\ archive \in [Evidence -> {"none", "part", "whole"}]
      /\ issues \in [Evidence -> SUBSET Code]
  BY DEF FlowInv, DataInv, IntakeTypeOK, WorkInv
<1>b. ASSUME ~Free(w), work[w].op = "ingest"
      PROVE  /\ work[w] \in Ingest /\ e \in Evidence
             /\ work[w].at # "copy" => e \in Whole
             /\ work[w].at \notin {"copy", "document", "store"} => e \in Stored
             /\ \A stage \in Stages : at(stage) \in Ingest /\ at(stage).of = e /\ at(stage).at = stage
  BY <1>a, <1>b, IngestOf DEF Knows, File, Ingest
<1> USE DEF IngestAt
<1>1. ASSUME NEW f \in Evidence, NEW amounts \in BOOLEAN, BeginIngest(w, f, amounts) PROVE FlowInv'
  <2> DEFINE h == [op |-> "ingest", of |-> f, amounts |-> amounts,
                   at |-> IF Archived(f) THEN "document" ELSE "copy", new |-> FALSE, version |-> 0]
  <2>1. h \in Ingest /\ (h.at = "copy" \/ h.of \in Whole) /\ h.at \in {"copy", "document"}
    BY DEF Ingest, Stages, Archived, Whole
  <2>2. /\ work' = [work EXCEPT ![w] = h]
        /\ archive' = [archive EXCEPT ![f] = IF Archived(f) THEN @ ELSE "part"]
        /\ Archived(f) \/ archive[f] = "none"
        /\ UNCHANGED <<inbox, books, issues, quarter>>
    BY <1>1 DEF BeginIngest
  <2>3. Lasting /\ archive' \in [Evidence -> {"none", "part", "whole"}]
    BY <1>a, <2>2 DEF Lasting, Whole, Stored, Done, Posted, Archived
  <2>4. WorkInv'
    <3> HIDE DEF h
    <3> QED
      BY <1>a, <2>1, <2>2, <2>3, IngestKept DEF Lasting
  <2>5. DataInv'
    BY <1>a, <2>2, <2>3 DEF DataInv, IntakeTypeOK, RowHasEvidence, CleanedIsBooked, CreditedOnce, Posted, Archived
  <2> QED
    BY <2>4, <2>5 DEF FlowInv
<1>2. CASE CopyEnds(w)
  <2>1. /\ work' = [work EXCEPT ![w] = at("document")]
        /\ archive' = [archive EXCEPT ![e] = "whole"] /\ UNCHANGED <<inbox, books, issues, quarter>>
    BY <1>a, <1>2 DEF CopyEnds, Goes
  <2>2. e \in Evidence /\ at("document") \in Ingest /\ at("document").of = e /\ at("document").at = "document"
    BY <1>b, <1>2 DEF CopyEnds, Stages
  <2>3. Lasting /\ e \in Whole' /\ archive' \in [Evidence -> {"none", "part", "whole"}]
    BY <1>a, <2>1, <2>2 DEF Lasting, Whole, Stored, Done, Posted
  <2>4. WorkInv'
    <3> HIDE DEF at
    <3> QED
      BY <1>a, <2>1, <2>2, <2>3, IngestKept
  <2>5. DataInv'
    BY <1>a, <2>1, <2>2, <2>3 DEF DataInv, IntakeTypeOK, RowHasEvidence, CleanedIsBooked, CreditedOnce, Posted
  <2> QED
    BY <2>4, <2>5 DEF FlowInv
<1>3. CASE IngestDocument(w)
  <2> DEFINE isNew == books[e].document = "absent"
             h == [work[w] EXCEPT !.at = "store", !.new = isNew]
             status == IF e \in Flagged THEN "needs_review" ELSE "extracted"
             entry == IF isNew THEN [books[e] EXCEPT !.document = status] ELSE books[e]
  <2>1. work[w] \in Ingest /\ e \in Evidence /\ e \in Whole
    BY <1>b, <1>3 DEF IngestDocument
  <2>2. /\ work' = [work EXCEPT ![w] = h] /\ books' = [books EXCEPT ![e] = entry]
        /\ UNCHANGED <<inbox, archive, issues, quarter>>
    BY <1>a, <1>3 DEF IngestDocument, Sets
  <2>3. h \in Ingest /\ h.of = e /\ h.at = "store"
    BY <2>1 DEF Ingest, Stages, File
  <2>4. entry \in Entry /\ entry.row = books[e].row /\ entry.stored = books[e].stored
    BY <1>a, <2>1 DEF Entry
  <2>5. /\ books' \in [Evidence -> Entry] /\ books'[e] = entry
        /\ \A d \in Evidence : d # e => books'[d] = books[d]
    BY <1>a, <2>1, <2>2, <2>4
  <2>6. Lasting
    BY <2>2, <2>4, <2>5 DEF Lasting, Whole, Stored, Done, Posted
  <2>7. WorkInv'
    <3>1. h.of \in Whole'
      BY <2>1, <2>3, <2>6 DEF Lasting
    <3> HIDE DEF h
    <3> QED
      BY <1>a, <2>2, <2>3, <2>6, <3>1, IngestKept
  <2>8. DataInv'
    <3> HIDE DEF entry
    <3> QED
      BY <1>a, <2>2, <2>4, <2>5 DEF DataInv, IntakeTypeOK, RowHasEvidence, CleanedIsBooked,
         CreditedOnce, Posted
  <2> QED
    BY <2>7, <2>8 DEF FlowInv
<1>4. CASE IngestStore(w)
  <2> DEFINE entry == [books[e] EXCEPT !.stored = TRUE]
  <2>1. /\ e \in Evidence /\ e \in Whole
        /\ at("flag") \in Ingest /\ at("flag").of = e /\ at("flag").at = "flag"
    BY <1>b, <1>4 DEF IngestStore, Stages
  <2>2. /\ work' = [work EXCEPT ![w] = at("flag")] /\ books' = [books EXCEPT ![e] = entry]
        /\ UNCHANGED <<inbox, archive, issues, quarter>>
    BY <1>a, <1>4 DEF IngestStore, Sets, Goes
  <2>3. entry \in Entry /\ entry.row = books[e].row /\ entry.stored /\ entry.document = books[e].document
    BY <1>a, <2>1 DEF Entry
  <2>4. /\ books' \in [Evidence -> Entry] /\ books'[e] = entry
        /\ \A d \in Evidence : d # e => books'[d] = books[d]
    BY <1>a, <2>1, <2>2, <2>3
  <2> HIDE DEF entry
  <2>5. Lasting /\ e \in Stored' /\ e \in Whole'
    BY <2>1, <2>2, <2>3, <2>4 DEF Lasting, Whole, Stored, Done, Posted
  <2>6. WorkInv'
    <3> HIDE DEF at
    <3> QED
      BY <1>a, <2>1, <2>2, <2>5, IngestKept
  <2>7. DataInv'
    BY <1>a, <2>2, <2>3, <2>4 DEF DataInv, IntakeTypeOK, RowHasEvidence, CleanedIsBooked,
       CreditedOnce, Posted
  <2> QED
    BY <2>6, <2>7 DEF FlowInv
<1>5. CASE DraftRow(w)
  <2> DEFINE h == [work[w] EXCEPT !.at = "extract", !.version = 1, !.new = FALSE]
             entry == [books[e] EXCEPT !.row = "received", !.version = 1]
  <2>1. work[w] \in Ingest /\ e \in Evidence /\ e \in Whole /\ e \in Stored
    BY <1>b, <1>5 DEF DraftRow
  <2>2. /\ work' = [work EXCEPT ![w] = h] /\ books' = [books EXCEPT ![e] = entry]
        /\ books[e].row = "absent"
        /\ UNCHANGED <<inbox, archive, issues, quarter>>
    BY <1>a, <1>5 DEF DraftRow, Sets
  <2>3. h \in Ingest /\ h.of = e /\ h.at = "extract"
    BY <2>1 DEF Ingest, Stages, File
  <2>4. entry \in Entry /\ entry.stored = books[e].stored
    BY <1>a, <2>1 DEF Entry
  <2>5. /\ books' \in [Evidence -> Entry] /\ books'[e] = entry
        /\ \A d \in Evidence : d # e => books'[d] = books[d]
    BY <1>a, <2>1, <2>2, <2>4
  <2>6. Lasting
    BY <2>2, <2>4, <2>5 DEF Lasting, Whole, Stored, Done, Posted
  <2>7. WorkInv'
    <3>1. h.of \in Whole' /\ h.of \in Stored'
      BY <2>1, <2>3, <2>6 DEF Lasting
    <3> HIDE DEF h
    <3> QED
      BY <1>a, <2>2, <2>3, <2>6, <3>1, IngestKept
  <2>8. DataInv'
    <3> HIDE DEF entry
    <3> QED
      BY <1>a, <2>1, <2>2, <2>4, <2>5 DEF DataInv, IntakeTypeOK, RowHasEvidence, CleanedIsBooked,
         CreditedOnce, Posted, Whole, Stored
  <2> QED
    BY <2>7, <2>8 DEF FlowInv
<1>6. CASE DraftExtracted(w) \/ DraftQueued(w)
  BY <1>6, AdvanceKept DEF DraftExtracted, DraftQueued
<1>7. CASE DraftTreatment(w)
  <2> DEFINE entry == [books[e] EXCEPT !.tax = "unknown"]
  <2>1. /\ e \in Evidence /\ e \in Whole /\ e \in Stored
        /\ at("raise") \in Ingest /\ at("raise").of = e /\ at("raise").at = "raise"
    BY <1>b, <1>7 DEF DraftTreatment, Stages
  <2>2. /\ work' = [work EXCEPT ![w] = at("raise")] /\ books' = [books EXCEPT ![e] = entry]
        /\ UNCHANGED <<inbox, archive, issues, quarter>>
    BY <1>a, <1>7 DEF DraftTreatment, Sets, Goes
  <2>3. /\ entry \in Entry /\ entry.row = books[e].row /\ entry.stored = books[e].stored
        /\ entry.document = books[e].document
    BY <1>a, <2>1 DEF Entry
  <2>4. /\ books' \in [Evidence -> Entry] /\ books'[e] = entry
        /\ \A d \in Evidence : d # e => books'[d] = books[d]
    BY <1>a, <2>1, <2>2, <2>3
  <2> HIDE DEF entry
  <2>5. Lasting /\ e \in Stored' /\ e \in Whole'
    BY <2>1, <2>2, <2>3, <2>4 DEF Lasting, Whole, Stored, Done, Posted
  <2>6. WorkInv'
    <3> HIDE DEF at
    <3> QED
      BY <1>a, <2>1, <2>2, <2>5, IngestKept
  <2>7. DataInv'
    BY <1>a, <2>2, <2>3, <2>4 DEF DataInv, IntakeTypeOK, RowHasEvidence, CleanedIsBooked,
       CreditedOnce, Posted
  <2> QED
    BY <2>6, <2>7 DEF FlowInv
\* What is left changes no more than the issues of the file.
<1>8. CASE \/ IngestFlag(w) \/ DraftWithoutAmounts(w) \/ DraftIssue(w) \/ DraftSettled(w)
           \/ DraftExists(w) \/ DraftAskedAgain(w) \/ IngestEnds(w)
  <2>1. ~Free(w) /\ work[w].op = "ingest" /\ UNCHANGED <<inbox, archive, books, quarter>>
    BY <1>8 DEF IngestFlag, DraftWithoutAmounts, DraftIssue, DraftSettled, DraftExists,
       DraftAskedAgain, IngestEnds, intakeVars
  <2>2. e \in Evidence
    BY <1>b, <2>1
  <2>3. PICK raised \in SUBSET Code :
           \/ issues' = [issues EXCEPT ![e] = @ \cup raised]
           \/ issues' = [issues EXCEPT ![e] = @ \ {"amount"}]
           \/ issues' = issues
    <3>1. CASE IngestFlag(w)
      <4> DEFINE r == {c \in {"structural"} : work[w].new /\ e \in Flagged}
      <4>1. r \in SUBSET Code
        BY DEF Code
      <4> QED
        BY <3>1, <4>1 DEF IngestFlag
    <3>2. CASE DraftWithoutAmounts(w)
      <4> DEFINE r == {c \in {"amount"} : work[w].new}
      <4>1. r \in SUBSET Code
        BY DEF Code
      <4> QED
        BY <3>2, <4>1 DEF DraftWithoutAmounts
    <3>3. CASE DraftIssue(w) \/ DraftAskedAgain(w)
      <4>1. {"tax"} \in SUBSET Code
        BY DEF Code
      <4>2. issues' = [issues EXCEPT ![e] = @ \cup {"tax"}]
        BY <3>3 DEF DraftIssue, DraftAskedAgain
      <4> QED
        BY <4>1, <4>2
    <3>4. CASE DraftSettled(w) \/ DraftExists(w) \/ IngestEnds(w)
      <4>1. {} \in SUBSET Code
        OBVIOUS
      <4>2. issues' = [issues EXCEPT ![e] = @ \ {"amount"}] \/ issues' = issues
        BY <3>4 DEF DraftSettled, DraftExists, IngestEnds, intakeVars
      <4> QED
        BY <4>1, <4>2
    <3> QED
      BY <1>8, <3>1, <3>2, <3>3, <3>4
  <2>4. issues' \in [Evidence -> SUBSET Code]
    BY <1>a, <2>2, <2>3
  <2>5. PICK h \in Ingest \cup {Idle} :
           /\ work' = [work EXCEPT ![w] = h]
           /\ h # Idle => h.of \in Whole /\ h.of \in Stored
    <3>1. CASE IngestFlag(w) \/ DraftIssue(w) \/ DraftExists(w)
      <4>1. PICK stage \in {"draft", "settle", "again"} : work' = [work EXCEPT ![w] = at(stage)]
        BY <1>a, <3>1 DEF IngestFlag, DraftIssue, DraftExists, Goes
      <4>2. at(stage) \in Ingest /\ at(stage).of = e
        BY <1>b, <2>1 DEF Stages
      <4>3. e \in Whole /\ e \in Stored
        BY <1>b, <2>1, <3>1 DEF IngestFlag, DraftIssue, DraftExists
      <4> QED
        BY <4>1, <4>2, <4>3
    <3>4. CASE DraftWithoutAmounts(w) \/ DraftSettled(w) \/ DraftAskedAgain(w) \/ IngestEnds(w)
      BY <3>4 DEF DraftWithoutAmounts, DraftSettled, DraftAskedAgain, IngestEnds, Quit
    <3> QED
      BY <1>8, <3>1, <3>4
  <2>6. Lasting /\ Whole' = Whole /\ Stored' = Stored
    BY <2>1 DEF Lasting, Whole, Stored, Done, Posted
  <2>7. WorkInv'
    BY <1>a, <2>5, <2>6, IngestKept
  <2>8. DataInv'
    BY <1>a, <2>1, <2>4 DEF DataInv, IntakeTypeOK, RowHasEvidence, CleanedIsBooked,
       CreditedOnce, Posted
  <2> QED
    BY <2>7, <2>8 DEF FlowInv
<1> QED
  BY <1>1, <1>2, <1>3, <1>4, <1>5, <1>6, <1>7, <1>8 DEF IngestStep

-----------------------------------------------------------------------------
(* Posting *)

LEMMA BatchOf ==
    ASSUME WorkInv, NEW w \in Worker, Batching(w)
    PROVE  /\ work[w] \in Work /\ Knows(work[w], Whole, Stored, Done) /\ Owed(work[w], Fresh)
           /\ \E items \in SUBSET Evidence : work[w] \in Batch(items)
  BY DEF WorkInv, Work, Batches, Ingest, Free, Batching

\* A batch with another outcome of an item.
LEMMA OutcomeOf ==
    ASSUME NEW items \in SUBSET Evidence, NEW h \in Batch(items), NEW e \in items,
           NEW outcome \in {"waiting"} \cup InHand \cup Answered
    PROVE  /\ [h EXCEPT !.outcome[e] = outcome] \in Batch(items)
           /\ [h EXCEPT !.outcome[e] = outcome].outcome = [h.outcome EXCEPT ![e] = outcome]
           /\ [h EXCEPT !.outcome[e] = outcome].web = h.web
  BY DEF Batch

\* What a batch answers changes: one item goes on to an outcome that is true,
\* and it is not about to post it, unless nothing of it was credited.
LEMMA ConcludeKept ==
    ASSUME WorkInv, NEW w \in Worker, Batching(w), NEW e \in DOMAIN work[w].outcome,
           NEW outcome \in {"waiting"} \cup InHand \cup Answered,
           Concludes(w, e, outcome), Lasting,
           outcome \in {"clean", "posted", "already_posted"} => e \in Done',
           outcome = "write" => e \in Fresh',
           Fresh \ {e} \subseteq Fresh', Fresh \subseteq Fresh' \/ work[w].web
    PROVE  WorkInv'
<1> DEFINE answered == [work[w] EXCEPT !.outcome[e] = outcome]
           h == [answered EXCEPT !.asked[e] = IF outcome \in InHand THEN @ ELSE 0]
<1>1. PICK items \in SUBSET Evidence : work[w] \in Batch(items)
  BY BatchOf
<1>2. e \in items /\ DOMAIN work[w].outcome = items /\ work[w].op = "batch"
  BY <1>1 DEF Batch
<1>3. /\ h \in Batch(items) /\ h.outcome = [work[w].outcome EXCEPT ![e] = outcome]
      /\ h.web = work[w].web
  <2>1. /\ answered \in Batch(items) /\ answered.web = work[w].web
        /\ answered.outcome = [work[w].outcome EXCEPT ![e] = outcome]
    BY <1>1, <1>2, OutcomeOf
  <2> HIDE DEF answered
  <2> QED BY <1>2, <2>1 DEF Batch
<1>4. h.op = "batch" /\ DOMAIN h.outcome = items
  BY <1>3 DEF Batch
<1>5. /\ h.outcome[e] = outcome
      /\ \A d \in items : d # e => h.outcome[d] = work[w].outcome[d]
  BY <1>1, <1>2, <1>3 DEF Batch
<1>6. work' = [work EXCEPT ![w] = h]
  BY DEF Concludes, WorkInv
<1> HIDE DEF h
<1>7. Knows(h, Whole', Stored', Done')
  BY <1>2, <1>4, <1>5, BatchOf DEF Knows, Lasting
<1>8. Owed(h, Fresh')
  BY <1>2, <1>3, <1>4, <1>5, BatchOf DEF Owed
<1>9. h \in Work
  BY <1>3 DEF Work, Batches
<1>10. ~(h.op = "batch" /\ h.web) \/ Web(w)
  BY <1>3 DEF Web
<1>11. Fresh \subseteq Fresh' \/ Web(w)
  BY DEF Web
<1> QED
  BY <1>6, <1>7, <1>8, <1>9, <1>10, <1>11, WorkKept

\* What a web batch is about to post stays uncredited when others step.
LEMMA BatchStepKept ==
    ASSUME FlowInv, NEW w \in Worker, BatchStep(w)
    PROVE  FlowInv'
<1>a. /\ WorkInv /\ DataInv /\ books \in [Evidence -> Entry] /\ work \in [Worker -> Work \cup {Idle}]
      /\ credit \in [Evidence -> Nat] /\ RowHasEvidence
  BY DEF FlowInv, DataInv, IntakeTypeOK, WorkInv
\* Most steps leave the files, the books and the credit alone.
<1>b. ASSUME UNCHANGED <<archive, books, issues, quarter, credit>>
      PROVE  Lasting /\ Fresh' = Fresh
  BY <1>b DEF Lasting, Whole, Stored, Done, Posted, Fresh
<1>c. ASSUME UNCHANGED postingVars PROVE DataInv'
  BY <1>a, <1>c DEF postingVars, DataInv, IntakeTypeOK, RowHasEvidence, CleanedIsBooked, CreditedOnce, Posted
<1>d. ASSUME Quit(w), Lasting, Fresh \subseteq Fresh' \/ Web(w) PROVE WorkInv'
  BY <1>a, <1>d, WorkKept DEF Quit
<1>e. ASSUME inbox' = inbox \/ \E e \in Evidence : Posted(e) /\ Archived(e) /\ inbox' = inbox \ {e},
             UNCHANGED <<archive, books, issues, quarter, credit>>
      PROVE  DataInv'
  BY <1>a, <1>e DEF DataInv, IntakeTypeOK, RowHasEvidence, CleanedIsBooked, CreditedOnce, Posted, Archived
<1>f. ASSUME NEW e \in Evidence, NEW stage, ItemAt(w, e, stage)
      PROVE  /\ Batching(w) /\ e \in DOMAIN work[w].outcome /\ work[w].outcome[e] = stage
             /\ e \in Whole /\ e \in Stored
             /\ stage = "clean" => e \in Done
             /\ stage = "write" /\ work[w].web => e \in Fresh
             /\ work[w].asked[e] \in Nat
  <2>1. Batching(w) /\ e \in DOMAIN work[w].outcome /\ work[w].outcome[e] = stage
    BY <1>f DEF ItemAt
  <2>2. PICK items \in SUBSET Evidence : work[w] \in Batch(items)
    BY <1>a, <2>1, BatchOf
  <2>3. work[w].asked[e] \in Nat /\ work[w].op = "batch"
    BY <2>1, <2>2 DEF Batch
  <2> QED
    BY <1>a, <2>1, <2>3, BatchOf DEF Knows, Owed
<1>1. ASSUME NEW items \in SUBSET Evidence, NEW web \in BOOLEAN, BeginBatch(w, web, items)
      PROVE  FlowInv'
  <2> DEFINE h == [op |-> "batch", web |-> web, asked |-> [e \in items |-> books[e].version],
                   outcome |-> [e \in items |-> "waiting"]]
  <2>1. h \in Batch(items) /\ h.op = "batch" /\ h.web = web /\ h.outcome = [e \in items |-> "waiting"]
    BY <1>a DEF Batch, Entry
  <2>2. work' = [work EXCEPT ![w] = h] /\ UNCHANGED postingVars
    BY <1>1 DEF BeginBatch
  <2>3. \A e \in items : e \in Whole /\ e \in Stored
    BY <1>a, <1>1 DEF BeginBatch, RowHasEvidence, Whole, Stored, Unposted, InReview, Booked
  <2>4. web => LockFree(w)
    BY <1>1 DEF BeginBatch
  <2> HIDE DEF h
  <2>5. Lasting /\ Fresh' = Fresh
    BY <1>b, <2>2 DEF postingVars
  <2>6. h \in Work
    BY <2>1 DEF Work, Batches
  <2>7. Knows(h, Whole', Stored', Done') /\ Owed(h, Fresh')
    <3>1. \A e \in items : e \in Whole' /\ e \in Stored' /\ h.outcome[e] = "waiting"
      BY <2>1, <2>3, <2>5 DEF Lasting
    <3> QED
      BY <2>1, <3>1 DEF Knows, Owed
  <2>8. WorkInv'
    BY <1>a, <2>1, <2>2, <2>4, <2>5, <2>6, <2>7, WorkKept
  <2> QED
    BY <1>c, <2>2, <2>8 DEF FlowInv
<1>2. ASSUME NEW e \in Evidence, ReadItem(w, e) PROVE FlowInv'
  <2>1. UNCHANGED postingVars /\ ItemAt(w, e, "waiting")
    BY <1>2 DEF ReadItem
  <2>2. Lasting /\ Fresh' = Fresh
    BY <1>b, <2>1 DEF postingVars
  <2>3. ASSUME NEW outcome \in {"write", "already_posted", "failed"},
               outcome = "already_posted" => Posted(e), outcome = "write" => ~Posted(e),
               Concludes(w, e, outcome)
        PROVE  WorkInv'
    <3>1. outcome = "write" => e \in Fresh'
      BY <1>a, <2>2, <2>3 DEF DataInv, Fresh
    <3>2. outcome \in {"clean", "posted", "already_posted"} => e \in Done'
      BY <2>2, <2>3 DEF Lasting, Done
    <3>3. Batching(w) /\ e \in DOMAIN work[w].outcome
      BY <2>1, <1>f
    <3>4. outcome \in {"waiting"} \cup InHand \cup Answered
      BY DEF InHand, Answered
    <3> QED
      BY <1>a, <2>2, <2>3, <3>1, <3>2, <3>3, <3>4, ConcludeKept
  <2>4. ASSUME Quit(w) PROVE WorkInv'
    BY <1>d, <2>2, <2>4
  <2>5. ASSUME Concludes(w, e, ReadOutcome(w, e)), ReadOutcome(w, e) # "closed" PROVE WorkInv'
    <3>1. /\ ReadOutcome(w, e) \in {"write", "already_posted", "failed"}
          /\ ReadOutcome(w, e) = "already_posted" => Posted(e)
          /\ ReadOutcome(w, e) = "write" => ~Posted(e)
      BY <2>5 DEF ReadOutcome
    <3> QED
      BY <2>3, <2>5, <3>1
  <2>6. ASSUME Concludes(w, e, "failed") PROVE WorkInv'
    BY <2>3, <2>6
  <2>7. WorkInv'
    BY <1>2, <2>4, <2>5, <2>6 DEF ReadItem
  <2> QED
    BY <1>c, <2>1, <2>7 DEF FlowInv
\* What a batch that breaks answers is what it had answered, or a failure.
<1>g. ASSUME Batching(w), Breaks(w), Lasting, Fresh \subseteq Fresh' \/ Web(w) PROVE WorkInv'
  <2> DEFINE answers == [e \in DOMAIN work[w].outcome |->
                IF work[w].outcome[e] \in Answered THEN work[w].outcome[e] ELSE "failed"]
             h == [work[w] EXCEPT !.outcome = answers]
  <2>1. PICK items \in SUBSET Evidence : work[w] \in Batch(items)
    BY <1>a, <1>g, BatchOf
  <2>2. /\ h \in Batch(items) /\ h.op = "batch" /\ h.web = work[w].web /\ h.outcome = answers
        /\ DOMAIN work[w].outcome = items /\ work[w].op = "batch"
    BY <2>1 DEF Batch, Answered
  <2>3. Quit(w) \/ work' = [work EXCEPT ![w] = h]
    BY <1>a, <1>g DEF Breaks
  <2>4. /\ DOMAIN h.outcome = items
        /\ \A e \in items : h.outcome[e] = "failed" \/ (h.outcome[e] \in Answered /\ h.outcome[e] = work[w].outcome[e])
    BY <2>2
  <2> HIDE DEF h
  <2>5. Knows(h, Whole', Stored', Done')
    BY <1>a, <1>g, <2>2, <2>4, BatchOf DEF Knows, Lasting
  <2>6. Owed(h, Fresh')
    BY <2>2, <2>4 DEF Owed, Answered
  <2>7. h \in Work /\ (~(h.op = "batch" /\ h.web) \/ Web(w))
    BY <1>g, <2>2 DEF Work, Batches, Web
  <2> QED
    BY <1>a, <1>d, <1>g, <2>3, <2>5, <2>6, <2>7, WorkKept
<1>3. ASSUME NEW e \in Evidence, WriteItem(w, e) PROVE FlowInv'
  <2> DEFINE entry == [books[e] EXCEPT !.row = "posted", !.version = work[w].asked[e] + 1]
             more == IF work[w].web THEN 1 ELSE 0
  <2>1. /\ Batching(w) /\ e \in DOMAIN work[w].outcome /\ e \in Whole /\ e \in Stored
        /\ work[w].web => e \in Fresh
        /\ work[w].asked[e] \in Nat
    BY <1>3, <1>f DEF WriteItem
  <2>2. books' = [books EXCEPT ![e] = entry] /\ UNCHANGED <<inbox, archive, issues, quarter>>
    BY <1>3, <1>a DEF WriteItem
  <2>3. /\ entry \in Entry /\ entry.row = "posted" /\ entry.stored = books[e].stored
        /\ entry.document = books[e].document
    <3>1. books[e] \in Entry /\ work[w].asked[e] + 1 \in Nat
      BY <1>a, <2>1
    <3> QED
      BY <3>1 DEF Entry
  <2>4. /\ books' \in [Evidence -> Entry] /\ books'[e] = entry
        /\ \A d \in Evidence : d # e => books'[d] = books[d]
    BY <1>a, <2>2, <2>3
  <2> HIDE DEF entry
  <2>5. Lasting /\ e \in Done'
    BY <2>2, <2>3, <2>4 DEF Lasting, Whole, Stored, Done, Posted
  <2>6. credit' = credit \/ (credit' = [credit EXCEPT ![e] = @ + more])
    BY <1>3 DEF WriteItem
  <2>7. /\ credit' \in [Evidence -> Nat] /\ \A d \in Evidence : d # e => credit'[d] = credit[d]
        /\ credit'[e] = credit[e] \/ (work[w].web /\ credit'[e] = credit[e] + 1)
    BY <1>a, <2>6
  <2>8. Fresh \ {e} \subseteq Fresh' /\ (Fresh \subseteq Fresh' \/ work[w].web)
    BY <2>7 DEF Fresh
  <2>9. WorkInv'
    <3>1. CASE Concludes(w, e, IF e \in Receipted THEN "clean" ELSE "posted")
      <4>1. PICK outcome \in {"clean", "posted"} : Concludes(w, e, outcome)
        BY <3>1
      <4>2. outcome \in {"waiting"} \cup InHand \cup Answered /\ outcome # "write"
        BY DEF InHand, Answered
      <4> QED
        BY <1>a, <2>1, <2>5, <2>8, <4>1, <4>2, ConcludeKept
    <3>2. CASE Breaks(w)
      BY <1>g, <2>1, <2>5, <2>8, <3>2 DEF Web
    <3> QED
      BY <1>3, <3>1, <3>2 DEF WriteItem
  <2>10. DataInv'
    <3>1. CreditedOnce' /\ \A d \in Evidence : credit'[d] > 0 => Posted(d)'
      <4> SUFFICES ASSUME NEW d \in Evidence PROVE credit'[d] <= 1 /\ (credit'[d] > 0 => Posted(d)')
        BY DEF CreditedOnce
      <4>1. CASE d = e
        BY <1>a, <2>1, <2>3, <2>4, <2>7, <4>1 DEF DataInv, CreditedOnce, Posted, Fresh
      <4>2. CASE d # e
        BY <1>a, <2>4, <2>7, <4>2 DEF DataInv, CreditedOnce, Posted
      <4> QED
        BY <4>1, <4>2
    <3>2. RowHasEvidence' /\ CleanedIsBooked'
      BY <1>a, <2>1, <2>2, <2>3, <2>4 DEF DataInv, RowHasEvidence, CleanedIsBooked, Whole, Stored
    <3> QED
      BY <1>a, <2>2, <2>4, <2>7, <3>1, <3>2 DEF DataInv, IntakeTypeOK
  <2> QED
    BY <2>9, <2>10 DEF FlowInv
<1>4. ASSUME NEW e \in Evidence, CleanItem(w, e) PROVE FlowInv'
  <2>1. /\ Concludes(w, e, "posted") /\ UNCHANGED <<archive, books, issues, quarter, credit>>
        /\ inbox' = inbox \/ (Archived(e) /\ inbox' = inbox \ {e})
    BY <1>4 DEF CleanItem
  <2>2. Batching(w) /\ e \in DOMAIN work[w].outcome /\ e \in Done
    BY <1>4, <1>f DEF CleanItem
  <2>3. Lasting /\ Fresh' = Fresh /\ e \in Done'
    BY <1>b, <2>1, <2>2 DEF Lasting
  <2>4. WorkInv'
    BY <1>a, <2>1, <2>2, <2>3, ConcludeKept DEF Answered
  <2>5. Posted(e)
    BY <2>2 DEF Done
  <2> QED
    BY <1>e, <2>1, <2>4, <2>5 DEF FlowInv
<1>5. ASSUME NEW e \in Evidence, CleanupPosted(w, e) PROVE FlowInv'
  <2>1. WorkInv'
    BY <1>a, <1>5 DEF CleanupPosted, WorkInv, Free, Web, Batching, Whole, Stored, Done, Posted, Fresh
  <2> QED
    BY <1>e, <1>5, <2>1 DEF CleanupPosted, FlowInv
<1>6. CASE BatchFails(w)
  <2>1. Batching(w)
    BY <1>6 DEF BatchFails, ItemAt
  <2>2. Lasting /\ Fresh' = Fresh /\ UNCHANGED postingVars
    BY <1>6, <1>b DEF BatchFails, postingVars
  <2> QED
    BY <1>6, <1>c, <1>g, <2>1, <2>2 DEF BatchFails, FlowInv
<1>7. CASE BatchEnds(w)
  <2>1. Lasting /\ Fresh' = Fresh /\ UNCHANGED postingVars
    BY <1>7, <1>b DEF BatchEnds, postingVars
  <2> QED
    BY <1>7, <1>c, <1>d, <2>1 DEF BatchEnds, FlowInv
<1> QED
  BY <1>1, <1>2, <1>3, <1>4, <1>5, <1>6, <1>7 DEF BatchStep

-----------------------------------------------------------------------------
(* Review, and the whole *)

\* A review never undoes a posting; the close writes nothing but the quarter.
LEMMA ReviewKept ==
    ASSUME FlowInv, \/ Review \/ BeginClose
                    \/ \E passed \in SUBSET Worker : EndClose(passed),
           UNCHANGED <<work, credit>>
    PROVE  FlowInv'
<1>a. /\ WorkInv /\ DataInv /\ books \in [Evidence -> Entry]
  BY DEF FlowInv, DataInv, IntakeTypeOK
\* No worker steps.
<1>b. ASSUME Lasting PROVE WorkInv'
  <2>1. Fresh' = Fresh
    BY DEF Fresh
  <2>2. ASSUME NEW w \in Worker, ~Free(w) PROVE Knows(work[w], Whole', Stored', Done')
    BY <1>a, <1>b, <2>2, KnowsStays DEF WorkInv, Lasting, Free
  <2> QED
    BY <1>a, <2>1, <2>2 DEF WorkInv, Free, Web, Batching
<1>1. ASSUME NEW e \in Evidence, NEW entry \in Entry,
             books' = [books EXCEPT ![e] = entry], entry.stored = books[e].stored,
             ~Posted(e), books[e].row # "absent",
             issues' \in [Evidence -> SUBSET Code], UNCHANGED <<inbox, archive, quarter>>
      PROVE  FlowInv'
  <2>1. /\ books' \in [Evidence -> Entry] /\ books'[e] = entry
        /\ \A d \in Evidence : d # e => books'[d] = books[d]
    BY <1>a, <1>1
  <2>2. Lasting
    BY <1>1, <2>1 DEF Lasting, Whole, Stored, Done, Posted
  <2>3. DataInv'
    BY <1>a, <1>1, <2>1 DEF DataInv, IntakeTypeOK, RowHasEvidence, CleanedIsBooked,
       CreditedOnce, Posted
  <2> QED
    BY <1>b, <2>2, <2>3 DEF FlowInv
<1>2. ASSUME NEW e \in Evidence, NEW decision \in {"approved", "rejected"}, ReviewDecides(e, decision)
      PROVE  FlowInv'
  <2> DEFINE entry == [books[e] EXCEPT !.document = decision, !.row = decision, !.version = @ + 1,
                                       !.tax = IF decision = "approved" THEN "reviewed" ELSE @]
  <2>1. entry \in Entry /\ entry.stored = books[e].stored
    <3>1. books[e] \in Entry /\ books[e].version + 1 \in Nat
      BY <1>a DEF Entry
    <3> QED
      BY <3>1 DEF Entry
  <2>2. books' = [books EXCEPT ![e] = entry]
    BY <1>2 DEF ReviewDecides, Sets
  <2>3. ~Posted(e) /\ books[e].row # "absent"
    BY <1>2 DEF ReviewDecides, PacketCanMove, Booked, Posted, Offered
  <2>4. issues' \in [Evidence -> SUBSET Code] /\ UNCHANGED <<inbox, archive, quarter>>
    BY <1>a, <1>2 DEF ReviewDecides, DataInv, IntakeTypeOK
  <2> HIDE DEF entry
  <2> QED
    BY <1>1, <2>1, <2>2, <2>3, <2>4
<1>3. ASSUME NEW e \in Evidence, ReviewWithdrawn(e) PROVE FlowInv'
  <2> DEFINE entry == [books[e] EXCEPT !.document = "needs_review", !.row = "needs_review",
                                       !.version = @ + 1]
  <2>1. entry \in Entry /\ entry.stored = books[e].stored
    <3>1. books[e] \in Entry /\ books[e].version + 1 \in Nat
      BY <1>a DEF Entry
    <3> QED
      BY <3>1 DEF Entry
  <2>2. books' = [books EXCEPT ![e] = entry]
    BY <1>3 DEF ReviewWithdrawn, Sets
  <2>3. ~Posted(e) /\ books[e].row # "absent"
    BY <1>3 DEF ReviewWithdrawn, Posted
  <2>4. issues' \in [Evidence -> SUBSET Code] /\ UNCHANGED <<inbox, archive, quarter>>
    BY <1>a, <1>3 DEF ReviewWithdrawn, DataInv, IntakeTypeOK
  <2> HIDE DEF entry
  <2> QED
    BY <1>1, <2>1, <2>2, <2>3, <2>4
<1>4. CASE BeginClose \/ \E passed \in SUBSET Worker : EndClose(passed)
  <2>1. UNCHANGED <<inbox, archive, books, issues>> /\ quarter' \in {quarter, "closed"}
    BY <1>4 DEF BeginClose, EndClose, intakeVars
  <2>2. Lasting
    BY <2>1 DEF Lasting, Whole, Stored, Done, Posted
  <2>3. DataInv'
    BY <1>a, <2>1 DEF DataInv, IntakeTypeOK, RowHasEvidence, CleanedIsBooked, CreditedOnce, Posted
  <2> QED
    BY <1>b, <2>2, <2>3 DEF FlowInv
<1> QED
  BY <1>2, <1>3, <1>4 DEF Review

-----------------------------------------------------------------------------
(* The close *)

\* In a quarter that it does not see open, an ingest unsettles nothing.
LEMMA RefusedIngest ==
    ASSUME FlowInv, NEW w \in Worker, IngestStep(w), ~Admits(w), NEW e \in Evidence, Settled(e)
    PROVE  Settled(e)'
<1>a. /\ books \in [Evidence -> Entry] /\ issues \in [Evidence -> SUBSET Code]
  BY DEF FlowInv, DataInv, IntakeTypeOK
<1>1. CASE /\ books' = books
           /\ \/ issues' = issues
              \/ \E f \in Evidence : issues' = [issues EXCEPT ![f] = @ \ {"amount"}]
              \/ \E f \in Evidence : issues' = [issues EXCEPT ![f] = @ \cup {}]
  BY <1>a, <1>1 DEF Settled, Undecided
<1>2. CASE \E f \in Evidence : Sets(f, [books[f] EXCEPT !.stored = TRUE]) /\ UNCHANGED issues
  BY <1>a, <1>2 DEF Settled, Undecided, Sets, Entry
<1>3. CASE \E f \in Evidence : Sets(f, books[f]) /\ UNCHANGED issues
  BY <1>a, <1>3 DEF Settled, Undecided, Sets
<1>4. ASSUME ~Free(w), work[w].op = "ingest" PROVE File(w) \in Evidence
  BY <1>4, IngestOf DEF FlowInv, File, Ingest
<1>5. CASE \E f \in Evidence, amounts \in BOOLEAN : BeginIngest(w, f, amounts)
  BY <1>1, <1>5 DEF BeginIngest
<1>6. CASE CopyEnds(w) \/ DraftExists(w) \/ IngestEnds(w)
  BY <1>1, <1>6 DEF CopyEnds, DraftExists, IngestEnds, intakeVars
<1>7. CASE IngestDocument(w)
  BY <1>3, <1>4, <1>7 DEF IngestDocument, IngestAt
<1>8. CASE IngestStore(w)
  BY <1>2, <1>4, <1>8 DEF IngestStore, IngestAt
<1>9. CASE IngestFlag(w) \/ DraftWithoutAmounts(w)
  <2>1. File(w) \in Evidence
    BY <1>4, <1>9 DEF IngestFlag, DraftWithoutAmounts, IngestAt
  <2>2. issues' = [issues EXCEPT ![File(w)] = @ \cup {}] /\ books' = books
    BY <1>9 DEF IngestFlag, DraftWithoutAmounts
  <2> QED
    BY <1>1, <2>1, <2>2
<1>10. CASE DraftSettled(w)
  BY <1>1, <1>4, <1>10 DEF DraftSettled, IngestAt
<1> QED
  BY <1>5, <1>6, <1>7, <1>8, <1>9, <1>10
  DEF IngestStep, DraftRow, DraftExtracted, DraftQueued, Advance, DraftTreatment, DraftIssue,
      DraftAskedAgain

\* A batch posts a row or leaves the books alone.
LEMMA BatchSettles ==
    ASSUME FlowInv, NEW w \in Worker, BatchStep(w), NEW e \in Evidence, Settled(e)
    PROVE  Settled(e)' /\ quarter' = quarter
<1>a. books \in [Evidence -> Entry]
  BY DEF FlowInv, DataInv, IntakeTypeOK
<1>1. CASE UNCHANGED <<books, issues, quarter>>
  BY <1>1 DEF Settled, Undecided
<1>2. ASSUME NEW f \in Evidence, WriteItem(w, f) PROVE Settled(e)' /\ quarter' = quarter
  <2>1. /\ books' = [books EXCEPT ![f].row = "posted", ![f].version = work[w].asked[f] + 1]
        /\ UNCHANGED <<issues, quarter>>
    BY <1>2 DEF WriteItem
  <2>2. books'[e].document = books[e].document /\ books'[e].row \in {books[e].row, "posted"}
    BY <1>a, <2>1 DEF Entry
  <2> QED
    BY <2>1, <2>2 DEF Settled, Undecided, Unposted, InReview
<1> QED
  BY <1>1, <1>2 DEF BatchStep, BeginBatch, ReadItem, CleanItem, CleanupPosted, BatchFails, BatchEnds,
     postingVars

\* What a close found settled stays so, but for what changes under its hands.
LEMMA CloseKept ==
    ASSUME FlowInv, CloseInv, [Next]_vars
    PROVE  CloseInv'
<1>1. CASE UNCHANGED vars
  BY <1>1 DEF vars, CloseInv, CloseTypeOK, Settled, Undecided
\* A step between a check and its write is noted.
<1>2. ASSUME NEW between \in BOOLEAN, Overlaps(between), closing' = closing, late' \subseteq late,
             quarter' = quarter,
             between \/ (closing \/ quarter = "closed" => \A e \in Evidence : Settled(e) => Settled(e)')
      PROVE  CloseInv'
  <2>1. CloseTypeOK'
    BY <1>2 DEF CloseInv, CloseTypeOK, Overlaps, Changed
  <2>2. ASSUME closing' \/ quarter' = "closed", NEW e \in Evidence \ overtaken'
        PROVE  Settled(e)'
    <3>1. Settled(e)
      BY <1>2, <2>2 DEF CloseInv, Overlaps
    <3>2. CASE between
      BY <1>2, <2>2, <3>1, <3>2 DEF Overlaps, Changed, Settled, Undecided
    <3>3. CASE ~between
      BY <1>2, <2>2, <3>1, <3>3
    <3> QED
      BY <3>2, <3>3
  <2> QED
    BY <2>1, <2>2 DEF CloseInv
<1>3. ASSUME NEW w \in Worker, IngestStep(w), Passes(w) PROVE CloseInv'
  <2>1. quarter' = quarter
    BY <1>3 DEF IngestStep, BeginIngest, CopyEnds, IngestDocument, IngestStore, IngestFlag,
       DraftWithoutAmounts, DraftRow, DraftExtracted, DraftQueued, Advance, DraftTreatment,
       DraftIssue, DraftSettled, DraftExists, DraftAskedAgain, IngestEnds, intakeVars
  <2>2. ~(closing \/ w \in late) /\ (closing \/ quarter = "closed") => ~Admits(w)
    BY DEF Admits, Mutable
  <2>3. /\ Overlaps(closing \/ w \in late) /\ closing' = closing /\ late' = late \ {w}
        /\ closing \in BOOLEAN
    BY <1>3 DEF Passes, CloseInv, CloseTypeOK
  <2> QED
    BY <1>2, <1>3, <2>1, <2>2, <2>3, RefusedIngest
<1>4. ASSUME NEW w \in Worker, BatchStep(w), UNCHANGED closeVars PROVE CloseInv'
  <2>1. quarter' = quarter
    BY <1>4 DEF BatchStep, BeginBatch, ReadItem, WriteItem, CleanItem, CleanupPosted, BatchFails,
       BatchEnds, postingVars
  <2> QED
    BY <1>4, <2>1, BatchSettles DEF CloseInv, CloseTypeOK, closeVars
<1>5. CASE Review /\ Overlaps(closing) /\ UNCHANGED <<closing, late, work, credit>>
  <2>1. quarter = "open" /\ quarter' = quarter
    BY <1>5 DEF Review, ReviewDecides, ReviewWithdrawn, Offered, Mutable
  <2>2. closing \in BOOLEAN
    BY DEF CloseInv, CloseTypeOK
  <2> QED
    BY <1>2, <1>5, <2>1, <2>2
<1>6. CASE BeginClose
  BY <1>6 DEF BeginClose, CloseInv, CloseTypeOK, Settled, Undecided, intakeVars
<1>7. ASSUME NEW passed \in SUBSET Worker, EndClose(passed) PROVE CloseInv'
  BY <1>7 DEF EndClose, CloseInv, CloseTypeOK, Settled, Undecided
<1> QED
  BY <1>1, <1>3, <1>4, <1>5, <1>6, <1>7 DEF Next

-----------------------------------------------------------------------------

LEMMA FlowStarts == ASSUME Init PROVE FlowInv
<1>1. /\ inbox = Evidence /\ quarter = "open" /\ work = [w \in Worker |-> Idle]
      /\ issues = [e \in Evidence |-> {}] /\ credit = [e \in Evidence |-> 0]
      /\ archive = [e \in Evidence |-> IF e \in Reviewed THEN "whole" ELSE "none"]
  BY DEF Init, IntakeInit
<1> DEFINE seen == [document |-> "approved", stored |-> TRUE, row |-> "approved",
                    version |-> 1, tax |-> "reviewed"]
<1>2. books = [e \in Evidence |-> IF e \in Reviewed THEN seen ELSE NoEntry]
  BY DEF Init, IntakeInit
<1>3. seen \in Entry /\ NoEntry \in Entry /\ seen.stored /\ NoEntry.row = "absent"
  BY DEF Entry, NoEntry
<1>4. WorkInv
  BY <1>1 DEF WorkInv, Free, Web, Batching
<1>5. IntakeTypeOK
  BY <1>1, <1>2, <1>3 DEF IntakeTypeOK
<1>6. RowHasEvidence
  BY <1>1, <1>2, <1>3 DEF RowHasEvidence
<1>7. DataInv
  BY <1>1, <1>5, <1>6 DEF DataInv, CleanedIsBooked, CreditedOnce
<1> QED
  BY <1>4, <1>7 DEF FlowInv

LEMMA FlowKept == ASSUME FlowInv, [Next]_vars PROVE FlowInv'
<1>1. CASE UNCHANGED vars
  BY <1>1 DEF vars, FlowInv, WorkInv, DataInv, IntakeTypeOK, RowHasEvidence, CleanedIsBooked,
     CreditedOnce, Posted, Free, Web, Batching, Whole, Stored, Done, Fresh
<1> QED
  BY <1>1, IngestStepKept, BatchStepKept, ReviewKept DEF Next

LEMMA FlowAlways == Spec => [](FlowInv /\ CloseInv)
<1>1. Init => CloseInv
  BY DEF Init, IntakeInit, CloseInv, CloseTypeOK
<1> QED
  BY <1>1, FlowStarts, FlowKept, CloseKept, PTL DEF Spec

-----------------------------------------------------------------------------
(* What it gives *)

LEMMA FlowTypes == ASSUME FlowInv, CloseInv PROVE TypeOK
<1>1. IntakeTypeOK /\ credit \in [Evidence -> Nat] /\ DOMAIN work = Worker
  BY DEF FlowInv, WorkInv, DataInv
<1>2. ASSUME NEW w \in Worker
      PROVE  work[w] \in Ingest \cup {Idle} \/ \E items \in SUBSET Evidence : work[w] \in Batch(items)
  BY DEF FlowInv, WorkInv, Work, Batches
<1> QED
  BY <1>1, <1>2 DEF TypeOK, CloseInv

\* No crash between two commits of an ingest, no racing batch, reviewer or
\* close loses a file: a row has its whole copy archived and its source
\* registered, a file that left the inbox is posted, and no posting is
\* reported by two web batches (_ingest_document, post_batch).
THEOREM PipelineStaysSound == Spec => []PipelineInv
<1>1. FlowInv /\ CloseInv => PipelineInv
  BY FlowTypes DEF PipelineInv, FlowInv, DataInv
<1> QED
  BY <1>1, FlowAlways, PTL

\* What a batch says it posted is posted, and stays so (post_batch).
THEOREM AnswersAreTrue == Spec => []AnswerTrue
<1>1. ASSUME FlowInv PROVE AnswerTrue
  <2> SUFFICES ASSUME NEW w \in Worker, NEW e \in Evidence,
                      ItemAt(w, e, "posted") \/ ItemAt(w, e, "already_posted")
               PROVE  Posted(e)
    BY DEF AnswerTrue
  <2>1. Batching(w) /\ WorkInv
    BY <1>1 DEF ItemAt, FlowInv
  <2> QED
    BY <2>1, BatchOf DEF ItemAt, Batching, Knows, Done
<1> QED
  BY <1>1, FlowAlways, PTL

\* Once the quarter closed, no ingest, batch or review leaves an open issue,
\* undecided evidence or an unposted row in it, but for files that change
\* between a check and its write (close_period, _assert_period_mutable).
THEOREM ClosedStaysSettled == Spec => []ClosedSettled
<1>1. CloseInv => ClosedSettled
  BY DEF CloseInv, ClosedSettled
<1> QED
  BY <1>1, FlowAlways, PTL
=============================================================================
