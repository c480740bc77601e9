---------------------------- MODULE HistoryImport ----------------------------
(***************************************************************************)
(* The history of a former provider: migrate_xolo_history reads its book   *)
(* of lines, its reconciliation and its inventory of filed returns, and is *)
(* run again whenever the provider exports anew.  It commits document,     *)
(* row and tax treatment of a line one after the other, then the questions *)
(* the reconciliation leaves, then what has to be declared; it may fail or *)
(* be killed between any two commits while people answer questions, treat, *)
(* post and reject rows, mark what is declared, and close quarters.        *)
(*                                                                         *)
(* A line is of a quarter and may carry an operation with another member   *)
(* state, which has to be declared; one form (modelo 349) stands for all   *)
(* forms, and of its evidence the inventory alone.  Annual asset lines,    *)
(* counterparties and superseded documents are left out; a document and    *)
(* the link to its line are one commit here.  A close reads before its     *)
(* UPDATE; a commit that looked at the quarter before that UPDATE and      *)
(* writes after it leaves what it would have left just before it.          *)
(***************************************************************************)
EXTENDS Naturals, FiniteSets, FiniteSetsExt

CONSTANTS
    Line,           \* lines of the book, numbered in its order
    Content,        \* what a line may say
    Of,             \* content -> its quarter
    Abroad,         \* contents with an operation in another member state
    Books,          \* exports: functions from some of the lines to their contents
    Remark,          \* what the reconciliation may say of a line
    Provisional,    \* remarks that the book settles once it has the line
    Reports,        \* reconciliations: functions from some of the lines to remarks
    Reconciled,     \* the quarter of the reconciliation
    Inventories,    \* sets of quarters whose return was filed
    None,
    MaxMigrations,  \* bound
    MaxByHand       \* bound: treatments and declarations changed by hand

HistoryQuarter == {Of[c] : c \in Content}

ASSUME HistoryAssumption ==
    /\ Line \subseteq Nat /\ IsFiniteSet(Line)
    /\ Abroad \subseteq Content /\ Provisional \subseteq Remark
    /\ Books \subseteq UNION {[ls -> Content] : ls \in SUBSET Line}
    /\ Reports \subseteq UNION {[ls -> Remark] : ls \in SUBSET Line}
    /\ Inventories \subseteq SUBSET HistoryQuarter /\ Reconciled \in HistoryQuarter
    /\ None \notin Content \cup Remark \cup {"due", "filed"}
    /\ MaxMigrations \in Nat /\ MaxByHand \in Nat

VARIABLES
    entry,          \* line -> content of its document, row and treatment; row status
    question,       \* line -> [state, about], raised by the reconciliation
    declared,       \* quarter -> status of its declaration
    shutting,       \* quarters a close has read and is about to close
    shut,           \* closed quarters
    migration,      \* the import under way
    migrations,     \* imports so far, up to MaxMigrations
    byHand,         \* changes by hand so far, up to MaxByHand
    taken,          \* ghost: the book of the last import, once it ended well
    torn,           \* ghost: lines left between the commits of a new row and its
                    \* treatment, or treated by hand
    unclassified    \* ghost: quarters that changed since an import classified them,
                    \* or whose close was under way when it did

historyVars ==
    <<entry, question, declared, shutting, shut, migration, migrations, byHand, taken, torn,
      unclassified>>

Dropped == {"rejected"}

At(stage) == migration.at = stage
\* No import is under way.
Resting == [at |-> "rest", book |-> << >>, report |-> << >>, inventory |-> {},
            left |-> {}, line |-> None, status |-> None]

Tables == <<entry, question, declared, shutting, shut>>
Ghosts == <<taken, torn, unclassified>>

\* The import ends early, on an error or with its process; between the commits
\* of a line's row and its treatment it leaves the two apart.
Stop ==
    /\ ~At("rest")
    /\ migration' = Resting
    /\ torn' = IF At("treatment") /\ entry[migration.line].treat # None
               THEN torn \cup {migration.line} ELSE torn
    /\ UNCHANGED <<Tables, migrations, byHand, taken, unclassified>>

BeginMigration(book, report, inventory) ==
    /\ At("rest") /\ migrations < MaxMigrations
    /\ migration' = [Resting EXCEPT !.at = "lines", !.book = book, !.report = report,
                        !.inventory = inventory, !.left = DOMAIN book]
    /\ migrations' = migrations + 1
    /\ taken' = << >>
    /\ UNCHANGED <<Tables, byHand, torn, unclassified>>

-----------------------------------------------------------------------------
(* The lines: _import_quarterly_row *)

Complete(l) == entry[l].doc # None /\ entry[l].row # None /\ entry[l].treat # None

\* Broken variant: whatever is there counts as imported.
Imported_Present(l, c) == Complete(l)

\* A row names the content it was made from; a dropped one need not be of it.
Imported(l, c) ==
    /\ Complete(l)
    /\ entry[l].row = c \/ (entry[l].status \in Dropped /\ entry[l].treat = c)

Skip ==
    LET l == Min(migration.left) IN
    /\ At("lines") /\ migration.left # {}
    /\ Imported(l, migration.book[l])
    /\ migration' = [migration EXCEPT !.left = @ \ {l}]
    /\ UNCHANGED <<Tables, migrations, byHand, Ghosts>>

\* A complete row must be of an open quarter; what is posted is to stay posted.
Check ==
    LET l == Min(migration.left) IN
    /\ At("lines") /\ migration.left # {}
    /\ ~Imported(l, migration.book[l])
    /\ Complete(l) => Of[entry[l].row] \notin shut
    /\ migration' = [migration EXCEPT
          !.at = IF Complete(l) /\ entry[l].status \in Dropped THEN "treatment" ELSE "document",
          !.line = l, !.left = @ \ {l},
          !.status = IF Complete(l) /\ entry[l].status = "posted" THEN "posted" ELSE "approved"]
    /\ UNCHANGED <<Tables, migrations, byHand, Ghosts>>

\* upsert_document, add_document_source
WriteDocument ==
    LET l == migration.line
        c == migration.book[l]
    IN  /\ At("document")
        /\ entry[l].doc # None => Of[entry[l].doc] \notin shut
        /\ Of[c] \notin shut
        /\ entry' = [entry EXCEPT ![l].doc = c]
        /\ migration' = [migration EXCEPT !.at = "row"]
        /\ UNCHANGED <<question, declared, shutting, shut, migrations, byHand, Ghosts>>

\* add_transaction: neither a dropped row nor one posted meanwhile is taken back.
WriteRow ==
    LET l == migration.line
        c == migration.book[l]
    IN  /\ At("row")
        /\ entry[l].status \in {None, migration.status}
        /\ entry[l].row # None => Of[entry[l].row] \notin shut
        /\ Of[c] \notin shut
        /\ entry' = [entry EXCEPT ![l].row = c, ![l].status = migration.status]
        /\ migration' = [migration EXCEPT !.at = "treatment"]
        /\ unclassified' = unclassified \cup {Of[c]}
        /\ UNCHANGED <<question, declared, shutting, shut, migrations, byHand, taken, torn>>

\* add_detailed_tax_treatment
WriteTreatment ==
    LET l == migration.line IN
    /\ At("treatment")
    /\ Of[entry[l].row] \notin shut
    /\ entry' = [entry EXCEPT ![l].treat = migration.book[l]]
    /\ migration' = [migration EXCEPT !.at = "lines"]
    /\ torn' = torn \ {l}
    /\ unclassified' = unclassified \cup {Of[entry[l].row]}
    /\ UNCHANGED <<question, declared, shutting, shut, migrations, byHand, taken>>

EndLines ==
    /\ At("lines") /\ migration.left = {}
    /\ migration' = [migration EXCEPT !.at = "questions", !.left = DOMAIN migration.report]
    /\ UNCHANGED <<Tables, migrations, byHand, Ghosts>>

-----------------------------------------------------------------------------
(* The questions of the reconciliation, all of one quarter *)

SettledByBook(l) == migration.report[l] \in Provisional /\ l \in DOMAIN migration.book

\* Broken variant: whatever was answered stays answered.
Asked_AnsweredOnce(l, remark) ==
    [state |-> IF question[l].state = "resolved" THEN "resolved" ELSE "open", about |-> remark]

\* Broken variant: an answer is not looked at.
Asked_Again(l, remark) == [state |-> "open", about |-> remark]

\* Broken variant: a state the table does not have.
Asked_Reopened(l, remark) == [state |-> "reopened", about |-> remark]

\* _import_reconciliation_issue: the answer to this very remark stands.
Asked(l, remark) ==
    [state |-> IF question[l] = [state |-> "resolved", about |-> remark] THEN "resolved" ELSE "open",
     about |-> remark]

\* resolve_issue touches open questions only, add_validation_issue always
\* wants its quarter open.
Ask ==
    LET l == Min(migration.left) IN
    /\ At("questions") /\ migration.left # {}
    /\ Reconciled \in shut => SettledByBook(l)
    /\ question' =
          IF ~SettledByBook(l) THEN [question EXCEPT ![l] = Asked(l, migration.report[l])]
          ELSE IF question[l].state = "open" THEN [question EXCEPT ![l].state = "resolved"]
          ELSE question
    /\ migration' = [migration EXCEPT !.left = @ \ {l}]
    /\ UNCHANGED <<entry, declared, shutting, shut, migrations, byHand, Ghosts>>

\* _resolve_stale_reconciliation_issues
ResolveStale ==
    /\ At("questions") /\ migration.left = {}
    /\ question' = [l \in Line |->
          IF question[l].state = "open" /\ l \notin DOMAIN migration.report
          THEN [question[l] EXCEPT !.state = "resolved"] ELSE question[l]]
    /\ migration' = [migration EXCEPT !.at = "filed", !.report = << >>,
                        !.left = migration.inventory, !.inventory = {}]
    /\ UNCHANGED <<entry, declared, shutting, shut, migrations, byHand, Ghosts>>

-----------------------------------------------------------------------------
(* What has to be declared, one quarter after the other *)

Declares(q, status) ==
    /\ q \notin shut
    /\ declared' = [declared EXCEPT ![q] = status]

\* _import_filing_inventory_row
Inventory(q) ==
    /\ At("filed") /\ q \in migration.left
    /\ IF declared[q] = "filed" THEN UNCHANGED declared ELSE Declares(q, "filed")
    /\ migration' = [migration EXCEPT !.left = @ \ {q}]
    /\ UNCHANGED <<entry, question, shutting, shut, migrations, byHand, Ghosts>>

EndInventory ==
    /\ At("filed") /\ migration.left = {}
    /\ migration' = [migration EXCEPT !.at = "classify",
                        !.left = {Of[migration.book[l]] : l \in DOMAIN migration.book}]
    /\ UNCHANGED <<Tables, migrations, byHand, Ghosts>>

\* Broken variant: the rows somebody has posted are not looked at.
Reportable_Approved(q) ==
    {l \in Line : entry[l].row # None /\ Of[entry[l].row] = q
                  /\ entry[l].status = "approved" /\ entry[l].treat \in Abroad}

\* Dropped rows count as well.
Reportable(q) ==
    {l \in Line : entry[l].row # None /\ Of[entry[l].row] = q /\ entry[l].treat \in Abroad}

\* _classify_source_book_obligations
Classify(q) ==
    /\ At("classify") /\ q \in migration.left
    /\ IF declared[q] = "filed" THEN UNCHANGED declared
       ELSE Declares(q, IF Reportable(q) # {} THEN "due" ELSE "waived")
    /\ migration' = [migration EXCEPT !.left = @ \ {q}]
    /\ unclassified' = IF q \in shutting THEN unclassified \cup {q} ELSE unclassified \ {q}
    /\ UNCHANGED <<entry, question, shutting, shut, migrations, byHand, taken, torn>>

\* _seed_missing_obligations: the quarters nothing is known of.
EndMigration ==
    LET missing == {q \in HistoryQuarter : declared[q] = None} IN
    /\ At("classify") /\ migration.left = {}
    /\ missing \cap shut = {}
    /\ declared' = [q \in HistoryQuarter |-> IF q \in missing THEN "unknown" ELSE declared[q]]
    /\ migration' = Resting
    /\ taken' = migration.book
    /\ UNCHANGED <<entry, question, shutting, shut, migrations, byHand, torn, unclassified>>

-----------------------------------------------------------------------------
(* People *)

Person == UNCHANGED <<migration, migrations, byHand, taken>>
ByHand ==
    /\ byHand < MaxByHand /\ byHand' = byHand + 1
    /\ UNCHANGED <<migration, migrations, taken>>

\* resolve_issue, waive_issue
Answer(l) ==
    /\ question[l].state = "open" /\ Reconciled \notin shut
    /\ question' = [question EXCEPT ![l].state = "resolved"]
    /\ Person /\ UNCHANGED <<entry, declared, shutting, shut, torn, unclassified>>

\* transition_transaction
Move(l, status) ==
    /\ entry[l].status = "approved" /\ Of[entry[l].row] \notin shut
    /\ entry' = [entry EXCEPT ![l].status = status]
    /\ Person /\ UNCHANGED <<question, declared, shutting, shut, torn, unclassified>>

\* tax add: another treatment, whatever the line says.
Treat(l, c) ==
    /\ entry[l].row # None /\ Of[entry[l].row] \notin shut /\ entry[l].treat # c
    /\ entry' = [entry EXCEPT ![l].treat = c]
    /\ torn' = torn \cup {l}
    /\ unclassified' = unclassified \cup {Of[entry[l].row]}
    /\ ByHand /\ UNCHANGED <<question, declared, shutting, shut>>

\* obligations mark
Mark(q, status) ==
    /\ declared[q] # status
    /\ Declares(q, status)
    /\ unclassified' = IF status = "filed" THEN unclassified ELSE unclassified \cup {q}
    /\ ByHand /\ UNCHANGED <<entry, question, shutting, shut, torn>>

\* close_period reads; a filed quarter excuses approved rows of the history.
BeginCloseHistory(q) ==
    /\ q \notin shut
    /\ declared[q] \notin {"unknown", "due"}
    /\ q = Reconciled => \A l \in Line : question[l].state # "open"
    /\ declared[q] # "filed" =>
          \A l \in Line : entry[l].row # None /\ Of[entry[l].row] = q => entry[l].status # "approved"
    /\ shutting' = shutting \cup {q}
    /\ Person /\ UNCHANGED <<entry, question, declared, shut, torn, unclassified>>

\* Its UPDATE.
EndCloseHistory(q) ==
    /\ q \in shutting
    /\ shutting' = shutting \ {q} /\ shut' = shut \cup {q}
    /\ Person /\ UNCHANGED <<entry, question, declared, torn, unclassified>>

-----------------------------------------------------------------------------

HistoryInit ==
    /\ entry = [l \in Line |-> [doc |-> None, row |-> None, treat |-> None, status |-> None]]
    /\ question = [l \in Line |-> [state |-> "none", about |-> None]]
    /\ declared = [q \in HistoryQuarter |-> None]
    /\ shutting = {} /\ shut = {} /\ migration = Resting /\ migrations = 0 /\ byHand = 0
    /\ taken = << >> /\ torn = {} /\ unclassified = {}

HistoryNext ==
    \/ \E book \in Books, report \in Reports, inventory \in Inventories :
          BeginMigration(book, report, inventory)
    \/ Skip \/ Check \/ WriteDocument \/ WriteRow \/ WriteTreatment \/ EndLines
    \/ Ask \/ ResolveStale \/ EndInventory \/ EndMigration \/ Stop
    \/ \E q \in HistoryQuarter :
          \/ Inventory(q) \/ Classify(q) \/ BeginCloseHistory(q) \/ EndCloseHistory(q)
          \/ \E status \in {"unknown", "due", "waived", "filed"} : Mark(q, status)
    \/ \E l \in Line :
          \/ Answer(l) \/ \E status \in {"posted", "rejected"} : Move(l, status)
          \/ \E c \in Content : Treat(l, c)

-----------------------------------------------------------------------------
(* Properties *)

\* Tables and import keep their shape.
HistoryTypeOK ==
    /\ entry \in [Line -> [doc : Content \cup {None}, row : Content \cup {None},
                           treat : Content \cup {None},
                           status : {None, "approved", "posted", "rejected"}]]
    /\ question \in [Line -> [state : {"none", "open", "resolved"}, about : Remark \cup {None}]]
    /\ declared \in [HistoryQuarter -> {None, "unknown", "due", "waived", "filed"}]
    /\ shutting \subseteq HistoryQuarter /\ shut \subseteq HistoryQuarter
    /\ unclassified \subseteq HistoryQuarter
    /\ migration.at \in {"rest", "lines", "document", "row", "treatment", "questions", "filed", "classify"}
    /\ migrations \in 0..MaxMigrations /\ byHand \in 0..MaxByHand /\ torn \subseteq Line

\* migrate_xolo_history: when an import has ended well, however many failed or
\* were killed before it, every line of the export is in the ledger with its
\* amounts and with the treatment it asks for.  Two cases are not covered.  The
\* row of a changed line whose import stopped before the treatment says that the
\* line is imported, and no later run looks at it again.  A row that somebody
\* dropped keeps its old amounts; when the line later goes back to them, it
\* keeps the treatment that came in between.
TakenIsBooked ==
    \A l \in DOMAIN taken \ torn :
        \/ entry[l].row = taken[l] /\ entry[l].treat = taken[l]
        \/ entry[l].status \in Dropped /\ taken[l] \in {entry[l].row, entry[l].treat}

\* _import_reconciliation_issue: an import may settle a question by itself, but
\* it asks again only about another remark than the one that was answered; and
\* a new remark is always asked about, never covered by an older answer.
QuestionsStand ==
    [][\A l \in Line :
          LET before == question[l]
              after == question'[l]
          IN  /\ before.state = "resolved" /\ after.state = "open" => after.about # before.about
              /\ after.about # before.about => after.state = "open"]_historyVars

\* close_period, _classify_source_book_obligations: a quarter closes with
\* operations in other member states only when they were filed, also when
\* lines changed or moved between quarters after it had been waived; unless the
\* last import stopped before it classified the quarter again.
ClosedDeclares ==
    \A l \in Line :
        /\ entry[l].treat \in Abroad /\ entry[l].row # None /\ entry[l].status \notin Dropped
        /\ Of[entry[l].row] \in shut \ unclassified
        => declared[Of[entry[l].row]] = "filed"

\* What imports took is in the books, and what quarters closed with is declared.
HistoryInv == HistoryTypeOK /\ TakenIsBooked /\ ClosedDeclares
=============================================================================
