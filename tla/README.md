# Formal models of the autónomo ledger

TLA+ models, TLC checks and TLAPS proofs of `backend/src/autonomo_taxes`, of
the browser shell in `frontend/src` where it decides anything, and of the
scripts in `ops` that replace programs and data. At the centre is the SQLite
ledger with its quarters, evidence, rows and filings; around it stand the
programs that bring evidence in, post it, file it, store it and move it.

    tlc -workers 2 -config MCLedger_close.cfg MCLedger.tla
    tlapm LedgerSafety.tla

## The system

One SQLite file holds everything. The command line (`operational_cli.py`), the
local web server (`local_web.py`, one thread and one connection per request)
and the agents that call either one share it through `LedgerDB`
(`ledger_db.py`). There is no cache of accounting state between them: two
actors interact through committed rows, row versions, and SQLite's write lock.
Evidence files lie in the private root and at storage backends, outside any
transaction.

| Component | State | Operations | Correct when |
|---|---|---|---|
| Periods, documents, rows, issues, obligations, filing snapshots | the ledger's central tables | the handlers of `ledger_db.py`, the review packet, expenses without invoice, the import of a former provider's books | nothing about a closed quarter changes, and a settled row only by a new export of its own line; what the close refused never comes back; a filing claims the whole book, once |
| Connections | handlers between their read and their write | transitions, close, amend, file | checks still hold when the write lands |
| Statement imports | known lines, legacy payments, matches | import, restore on failure, retry | what was reported is recorded, once |
| History import | lines, treatments, questions, declarations | import and rerun, answer, post, close | the books end up as the last export says |
| Intake and posting | inbox, archive, documents, rows | ingest, review, post a batch, clean up, close | evidence is never lost, answers are true |
| Storage | replicas of a file, objects at the backends | register, verify, promote, migrate, reconcile, adopt, clean up | one primary, and always a copy to read |
| Schema | the ledger file's version, tables and backfills | open, migrate, restore, write | whole, filled in once, and nothing saved is taken away |
| Private root | two roots and a configuration | relocate, rerun | what is configured is whole and complete |
| Outgoing invoices | templates, drafts, links to evidence | edit, draft, review, finalize, void | forward only, issued as the evidence says, the newest template active |
| Expense wizard | drafts, saved actions, schedule rows | save, preview, confirm, recognize | posts once, what the preview showed |
| Browser shell | calculation queue, batch, stale markers | post, calculate, navigate | old figures are marked |
| Attribution and annual adjustments | decisions, adjustments, periods | attribute, withdraw, adjust, close | a closed figure changes only when acknowledged; each source counts once |
| Tax forms | posted entries, their attributions, doubtful facts | post, void, attribute, change facts | the forms of a year agree with one another |
| Annual VAT | filed quarterly snapshots, the former year's | file, correct, read the former year | when modelo 390 may be calculated it says what was filed |
| Returns 130 and 303 | registered snapshots | calculate and register, correct | payments and credits carry over once |
| Equipment | plan, schedule, disposal | buy, take over, recognize, continue, dispose | depreciation adds up and ends with the use |
| AEAT cases | status and trail | open, record events | the trail is a legal course |
| Modelo 216 | payments, reviews, decision | pay, classify, settle, close | nothing owed is closed unasked |
| RETA | elections, tables | elect, void, check the bracket | legal change days; a base inside its tramo owes nothing |
| Releases | installed releases, units, database, copies | deploy, roll back, restore | no acknowledged write is lost, failures are undone |

`PROJECT.json` lists the remaining parts with the reason they are not modelled,
and under `hazards` what is hard to test, at its line. The kinds that matter
most here:

* **Long legal sequences.** Every handler checks the period it writes to, but
  rows, documents, payments, plans and attributions of several periods are
  linked, so a decision in one quarter reaches into another.
* **Reads before the write lock.** `sqlite3`'s implicit transactions begin at
  the first `UPDATE`. Most `LedgerDB` handlers read, check the version, the
  lifecycle and the period in autocommit, and then update by id alone. The
  review packet, the wizard, the assets and the reviewed sheet take
  `BEGIN IMMEDIATE` first.
* **Several commits for one thing.** Intake, statement and history imports,
  storage and relocation commit step by step, and may stop between any two.
* **Lost answers.** Confirming an expense and posting depreciation carry a
  request key, saved with the result; a batch is sent again with versions that
  its first delivery changed; a calculation may end after the screen is gone.
* **Whole files replaced.** A failing statement import, a restore, a rollback
  and a relocation put a database in place of another one.

## Modules

| Module | Models |
|---|---|
| `Lifecycle` | the status table that documents and transactions share |
| `Ledger`, `LedgerProperties` | every handler of the central tables, one action per handler run to its end, and its properties |
| `FilingHistory` | the abstract promise: a book per quarter, final when closed, filed once |
| `LedgerRace` | the same handlers as a read step and a write step on several connections |
| `Statements`, `HistoryImport` | imports commit by commit, beside other connections |
| `Connections` | composes the last three |
| `Intake`, `PostingBatch`, `EvidencePipeline` | from the inbox to the posted row; one state, built up by EXTENDS |
| `Storage`, `Relocation`, `Migrations`, `EvidenceStores` | copies of a file; the move of the private root; the schema of the ledger file; all of them |
| `OutgoingInvoices` | templates, drafts and issued invoices on several connections |
| `ExpenseWizard`, `Calculation`, `Browser` | the expense through its sessions and threads; the figures a quarter shows; both |
| `TaxRows`, `Returns`, `Assets`, `Cases`, `Withholding`, `Reta` | the parts of the tax desk that keep tables |
| `TaxForms`, `AnnualStatus` | what the posted entries come to on each form; the closed year, its gates and modelo 390 |
| `TaxDesk` | all of them |
| `Releases` | deploy, rollback and restore on the production host |
| `LedgerSafety` | theorems about `Ledger` and its refinement of `FilingHistory` |
| `ConnectionsProofs` | about `LedgerRace`, `Statements`, `HistoryImport` |
| `EvidenceStoresProofs` | about `Storage`, `Relocation`, `Migrations` |
| `EvidencePipelineProofs`, `OutgoingInvoicesProofs`, `ReleasesProofs` | about the modules they are named after |
| `ExpenseWizardProofs` | about `ExpenseWizard`, `Calculation`, `Browser` |
| `TaxDeskProofs` | about the parts of `TaxDesk` |
| `MC*` | small instances for TLC |

Some compositions interact (`EvidencePipeline`: intake, batches, review and
close work on the same rows). In others (`Connections`, `EvidenceStores`,
`TaxDesk`, `Browser`) the parts share no variable as they are modelled; a
variable (`shares`, `keeping`, `desk`, `waitsFor`) then chooses the part a
behaviour is about, because interleaving them would multiply the states
without adding a step.

### `Ledger`

`periods`, `documents`, `transactions`, `issues`, `obligations` and
`snapshots` are the tables of the same names; `today` is `date.today()`. An
action is one handler of `ledger_db.py`, or the packet or wizard operation
built from several of them under one write transaction, with all of its
effects: `AddObligation` settles the IRNR issues, `CreateFilingSnapshot`
claims the posted rows, `ConfirmExpense` moves row and document to the quarter
of the new date, resolves the issues the wizard may resolve and posts. A
handler that names a new quarter creates it (`Ensured`), and leaves it behind
when it fails (`EnsurePeriod`).

`BookLine` are the rows of the former provider's books and `Imported` the
documents behind them. Every import commits a line's document
(`ImportDocument`), its row (`ImportTransaction`) and its treatment
(`AddTaxTreatment`) one after the other. A line that is complete in the books
keeps its status and has its facts replaced, a posted one too, as long as
neither its quarter nor the new one is closed; that is the one way in which
the facts of a posted row change, and `SettledFrozen` names it (`Corrected`).
Other rows are entered again only while they are received (`AddTransaction`).

Data is kept to what the gates compare. A date is a day number and a quarter
the set of its days. A rate is its provenance, because only provenance decides
whether posting and closing accept it. A treatment is whether its code is
known, kept apart for the Spanish invoice treatment that the packet decides.
A request with a stale version is refused and is therefore no step. Left out:
documents without a period, treatments of other jurisdictions than the two
kinds, the entry type, the correction pointer, zero amounts, and the asset
branch of a packet decision, the adjustment that a verified history adds, and
the row that the wizard enters for the depreciation of an asset (`RecognizedOnce`
of the wizard is about it). None of them relaxes a gate that is modelled.

### Connections

In `LedgerRace`, `pending` holds what a handler read and what it is about to
write. A transition writes the whole row back as it was read; a counterparty
change writes its column and the version it read plus one; close, amend and
file write what they decided on. `DecidePacket` locks first. `Abandon` is a
crash or a lock timeout between read and write.

`Statements` takes an import of Revolut or ZenMoney lines through claim, match
and record, one commit each. On an exception it puts back the copy of the
database it took at the start, with whatever other connections wrote
meanwhile gone; a kill puts nothing back. An issue on a missing line is checked
against the quarter in one step and inserted in the next, and the close finds
the quarter ready in one step (`closing`) and updates it in another. The ghosts
`erased` and `crossed` remember that a restore undid another commit, and that
two imports matched at once: `ReportedIsRecorded`, `LegacyCountsOnce` and
`RowSettledOnce` are claimed only without that, and are false with it. `late`
are the lines whose issue overlapped the close; `ClosedMissesNothing` says that
a closed quarter has no other one.

`HistoryImport` commits document, row and treatment of a line one after the
other, then the questions of the reconciliation, then the classification of
what is to be declared, and is run again on changed exports while people
answer, post, reject, treat a row by hand, mark what is declared
(`obligations mark`) and close, reading before they write (`shutting`). Modelo
349 stands for all forms; a document and the link to its line are one commit;
annual asset lines, counterparties and superseded documents are left out.
`torn` marks the lines left between row and treatment, and those somebody
treated by hand: the code itself does not tell whose treatment it is.
`unclassified` marks the quarters whose lines, treatments or declaration
changed since an import classified them, or whose close was under way when one
did.

### Evidence

`Intake` has the archive copy and each commit of an ingest as a step; a worker
may end between any two, leaving a partial copy, a document without its issues
or without its row. A commit looks at the quarter before it takes the write
lock, so a worker whose commit saw it open may still write after the close
(`late`); the close itself reads in `BeginClose` and writes in `EndClose`, and
what other connections commit in between stays unseen (`closing`). `overtaken`
remembers the files that either happened to, and `ClosedSettled` is claimed of
the others. `PostingBatch` posts row by row, web batches under a lock,
the command line without one. Outcomes are kept to posted, already posted and
failed, which stands for skipped and not attempted too.

`Storage` is about one file, since files share no row. A backend that cannot
be reached, and one that answers with other bytes, are the same failure to
verify, possible any time but on the disk of the private root. Retiring a
replica by hand has no command that calls it and is left out, as are edits to
the list of backends. Adoption is run for read-only Google archives only, as
`PROVISIONING.md` has it; for a writable one a reconcile during an outage
could mark the only copy corrupt for good.

`Relocation` copies the configuration and the evidence file by file, replaces
the database by a snapshot, rewrites its paths and switches the configuration;
it may be killed at each step and be run again while programs book in the root
they are led to: by the configurations there are (`relative`: the copied one
leads to the new root already), or by `AUTONOMO_PRIVATE_ROOT` or an explicit
configuration (`pinned`), which also keep programs on the old root after the
move. `EnteredStays` speaks of what is booked once the new root has a
configuration of its own (`Settled`); what such programs book there earlier
goes with the database the move replaces, and what is booked in the old root
after the move stays there.

`Migrations` takes the ledger file from any version to the latest. A migration
is the tables it creates (a migration that adds columns only is named for
them) and its backfill, if it has one. The first seven are scripts, a step per
statement, because `sqlite3` commits them so; each later one is one step. A
program goes on from the version it read when it opened; a table that exists
already stops it. A restore loads a backup of any version, migrates it, and
puts back the copy it took before when something fails. `torn` marks files
that a script left half done, or that were replaced under a program migrating
them; `late` the rates that were saved while a restore ran.

### `OutgoingInvoices`

Every handler is a read step and a write step; the unique indexes and the
trigger on status are checked again at the write. A template changes from the
version that was read, and only its newest version may be active
(`ActiveIsNewest`). `overlapped` marks drafts on
which two handlers were at work. Rendering and totals are not modelled, and a
suggested number reserves nothing.

### `ExpenseWizard`, `Calculation`

`source` is the row and its document, `draft` the saved draft with the source
version it was saved on, `entries` the schedule rows with the state of their
recognition, `actions` the saved actions by request key. `calls` are server
threads, each at a stage of `confirm_and_post`: sent, past the lookup of the
saved action, past the draft and its exchange rate, then the write
transaction. A session remembers its last preview token and its last request.
`Timeout` breaks a connection and leaves its thread at work; `Crash` ends all
threads. Everything under the write lock is one step, because an exception
rolls all of it back. The follow-up after the commit and the evidence file of
a recognition are not modelled.

`Calculation` is the review screen that posts a batch, the marker of a quarter
whose figures are behind, the shell's queue, and the server that reads the
ledger and rewrites `dashboard.json`. Screens outside the queue may overlap
with it; `overlapped` remembers that, and the figures are claimed only
without it: an older reading can overwrite a newer file after the marker was
cleared.

### The tax desk

`TaxRows` has one year and the income tax basis; amounts are the revision of
the facts they were read from.

`TaxForms` is a set of entries with the treatments they carry and, as
functions of which of them are posted, where they are attributed and what they
say, the boxes of modelos 100, 111, 115, 130, 216, 303, 347, 349 and their
annual counterparts: which rows a form takes (`Projected`), which box a row
goes to (`BoxRows`), and when the form refuses (`Classified`, `Certain`).
Amounts are cents and rounding is done as `Decimal.quantize` does it; rates
that no row of the instance has, the regional rules and the layout of the
forms are left out. `AnnualStatus` files quarters of a closed year from that
book, from a receipt or from a snapshot of an older release, with a slip in
box 27 or none, and asks two things that the code answers in two places: do
the gates of `annual_readiness.py` let modelo 390 be calculated, and what does
`calculate_modelo390` then say, going through the ledger again. Readings of
the former year by the two are compared by a premise of its own,
`FormerAgrees`, because they may differ (below).

`Returns` registers a return as it is
calculated, with the snapshot formats that older releases left. In `Assets`
days are half quarters and parts of a year are units. `Cases` has two clerks
who read before they write. `Withholding` has payments whose review is a
commit of its own, checked in one step (`CheckQuarter`) and written in the next, as
do the handlers of people (`marks`) and of the close (`closing`); a payment
recorded again asks again. `crossed` are the quarters whose close another
handler's check and write overlapped, `reviewed` the payments whose question
some handler carried through, `drifted` and `overtaken` mark a payee who was
changed without asking, or while a handler asked: `ClosedIsReviewed` and
`AsksWhatMatters` are claimed without them. `Reta` has short months, so that a partial month, a month's
end and a year's end all fall inside the bound.

### `Releases`

The three scripts step by step; each step may fail, the operator may
interrupt, the host may reboot. A schema is a number, and a release's hook
moves the database one number at a time. The first managed deployment, the
rotation of snapshots and the age of the maintenance marker are left out.

## What TLC checks

| Run | Instance | Shows |
|---|---|---|
| `close` | 2 quarters, 1 document, a row kept by hand and a line of the former books, 4 rates | references lead somewhere; amendments never lead back; a closed quarter does not change, a settled row only by a new export of its own line in quarters that are not closed |
| `issues` | 1 quarter, 2 issues (one on the document, one IRNR), Modelo 216, an imported document and a baseline filing | what the close verified stays true, also when it let authoritative history pass |
| `filing` | 1 quarter, 2 days, 2 rows that may share the document, rates with a source and without, 2 final filings | filings claim the whole book once; refinement of `FilingHistory`; evidence, date and rate of posted rows survive decisions about their neighbours |
| `race_filed` | 2 connections, 1 row, 4 versions; 2 importers, 3 imports; 2 runs of the history import over 2 lines, with 1 treatment or declaration by hand | what filings rest on survives every interleaving; imports lose, double and re-settle nothing; a rerun ends where the last export says |
| `race_closed` | 2 connections | **violated**: a write checked before the close lands after it |
| `storage` | 2 processes, 4 backends of the 3 drivers, 1 read-only; 3 documents and 3 moves | one primary; nothing listed that was never stored; always a copy to read; a moved root is whole and complete; a ledger file of 4 versions that 2 programs and a restore work on ends up with a whole schema |
| `pipeline` | 2 workers, 2 files, one with a structural error and unreadable amounts, one approved before | evidence survives crashes; answers are true; nothing lands in the closed quarter but by a commit that overlapped its close |
| `invoicing` | 2 connections, 2 drafts, 2 quarters, 2 pieces of evidence | only a template's newest version is active; issued invoices match; status only forward |
| `wizard_safe` | 2 sessions, 2 keys, 2 contents, 1 schedule row, 2 threads; 2 batches, 3 calculations | posted once, as previewed; answers are true; depreciation once; old figures are marked |
| `wizard_retry` | 1 session, 1 key; 2 batches, 2 calculations | who keeps retrying is told; a queued calculation has its turn |
| `desk` | one small year of each part | see below |
| `releases` | 3 releases over 3 schemas, 3 scripts, 2 writes | one release serves; no acknowledged write is lost; success serves, failure is undone |

Several invariants of one module are often one property of a run, a
conjunction of parts that have a name and a comment of their own in the
module: `StatementsInv` (`LegacyCountsOnce`, `RowSettledOnce`,
`ClosedMissesNothing`), `HistoryInv` (`TakenIsBooked`, `ClosedDeclares`),
`StorageInv` (`OnePrimary`, `ListedWasStored`), `RelocationInv`
(`MovedIsWhole`, `MovedIsAll`, `EnteredStays`), `MigrationsInv`
(`SchemaIsWhole`, `NewestIsKept`, `ProvenOnce`, `AdoptedOnce`, `SavedStays`),
`PipelineInv`
(`RowHasEvidence`, `CleanedIsBooked`, `CreditedOnce`), `RowsInv`
(`AnnualCountsOnce`), `AssetsInv` (`NothingAfterLastUse`), `CasesInv`
(`CourseIsLegal`, `EventsHappened`), `WithholdingInv` (`ClosedIsReviewed`,
`AsksWhatMatters`), `RetaInv` (`LockedInAtYearEnd`, `ChangesOnLegalDays`),
`CalculationInv` (`UnmarkedIsCounted`), `ReleasesInv` (`NothingElseLost`,
`OneReleaseServes`). In `TaxDesk` `AssetsHold`, `CasesHold`,
`WithholdingHold` and `RetaHold` are these invariants while their part is at
work, and `RowsHold` goes from the rows to the returns: `RowsInv`,
`QuarterAddsUp`, `SaysTheSame`, `WithheldAddsUp` and `IncomeAgrees` of the
forms, `PaidOnce`, `CarryUsedOnce` and `CreditConserved` of the returns.
`AssetsHold` also has what is calculated for an asset, `PlanIsWhole`,
`CarriedForward` and `ReadyMeansCharged`, and `RetaHold` `InsideOwesNothing` of
the contributions. `FiguresAddUp` is `YearBalances` and `ReadyMeansFiled` of the
closed year.
`ClosedStays` is `SettledQuarterStays` and `ClosedYearStays` of the rows and
`FrozenQuarter` of the asset; `AttributionsConserve` says that an attribution
moves VAT between quarters and makes none.
Each has the type invariant of its module as a further part.
Each part has a broken variant of the code that violates it.

Run `desk`: a row, home in a quarter or in the annual period, is posted,
voided, reclassified, attributed to another quarter (two revisions) and
adjusted for the year (two requests) while periods are filed and closed; two of
eight entries, chosen so that every box and every form has one, are posted,
voided and attributed; modelos 303 of a year of two working quarters are filed
from a receipt or a legacy snapshot, over what a former year left, with modelo
390 above them; modelos 130 and 303 follow one another over three quarters with three returns,
one of them a correction, in four snapshot formats; an asset goes through
purchase or takeover, plan, voids, recognition, continuation and disposal over
five quarters, so that the plan crosses a year's end; two clerks write three
events to a case; two payments go to a payee whose legal form and residence
change; three elections of a contribution base meet three months and every
table, period of activity and income of a small set.

Run `close` has rows of treatment "other" only, so the packet and the wizard,
which decide an invoice's treatment, do not occur in it: they do in `issues`
and `filing`, and the theorems are about all handlers at once. The two
payments of `desk` are of one quarter; the proof drops that.

Bounds. Two quarters are needed for a row to move between a closed and an open
one, and for two amendments to form a ring; in `close` they share their day, as
no question of that run is about the calendar. Two rows are needed to share a
document, two filings for one to come after the other. One row, two
connections and four versions let each connection read and write twice. Two
keys, sessions and threads let a retry meet its first delivery while a
competitor runs; two days put the recognition both inside the confirmation and
after it. Three imports, moves and scripts let one fail, one be repeated, and
one run beside them; the history import runs alone, and two of it let one stop
and the next go on over a changed export. Four backends hold a source, a managed copy, an archive to
adopt and a mirror. The theorems below drop the bounds of their modules.
Symmetry (connections, sessions, keys, workers, processes, documents, clerks)
is used only where no liveness is checked. `CHECK_DEADLOCK FALSE` is set in
every configuration: when the days, versions and attempts are used up and all
is filed, nobody has anything left to do.

Fairness (`wizard_retry`). Server threads run to their end (weak fairness of
abandoned threads, strong fairness of the stages of a thread somebody waits
for: a session does not hang up every single time just before its thread ends),
and a session that got no answer sends the request again, as
`operation-request.ts` keeps the key for. `EventuallyTold` starts when a
request was carried out and the thread its session waited for is gone: the
session is told in the end that it is posted, and a refusal does not count as
being told. In `Calculation` the server ends
what it was asked, answered or not, and the shell takes the next of its queue
when the last has ended: both are code without a wait for anybody else.
Nothing is assumed of edits, closes, batches, timeouts or crashes.

## Where the code and its documents part

* **`race_closed`** A handler checks that the quarter is open, the quarter
  closes, the handler writes. "Period … is immutable after close"
  (`ledger_db.py:6571`).

Others met while modelling, described by no run of their own:

* Two handlers read one row; the later write lands on a row that is no longer
  what it checked. `approved` is written over `rejected`, which
  `VALID_LIFECYCLE_TRANSITIONS` excludes. Two overlapping finalizes of an
  invoice overwrite links that are called immutable (`ledger_db.py:6145`).
* `confirm_and_post` looks for the saved action and then loads the draft as
  editable, before it takes the lock. If the first delivery commits in between,
  the retry is refused with `expense_finalized`, where
  `docs/AGENT_WORKFLOW.md:183` promises the saved action. Nothing is posted
  twice, and a further retry is answered.
* Posting accepts a `target_derived` rate; `close_period` never does, and the
  rate of a posted row is frozen: the quarter cannot be closed.
* `sheet apply` lets a reviewed sheet move a posted row to
  `included_in_snapshot` with no snapshot.
* A packet looks only at the period of its transaction, so it may approve or
  reject a document, or resolve an issue, filed under a closed quarter; the
  treatment of a posted row can be replaced while its quarter is open.
* A failing statement import restores its copy over other connections'
  commits, and can reopen a quarter that was closed meanwhile
  (`operational_cli.py:3459`, `3765`).
* A busy database on the read-back of a batch reports `retry_later` for a row
  that is posted (`posting_operations.py:98`).
* A failed or interrupted deployment leaves the new unit enabled
  (`deploy.sh:115`, `131`), so that two releases start at the next boot, and
  the health check does not say which one answers (`healthcheck.py:44`).
* The first seven migrations run by `executescript`, which commits statement by
  statement: one that is interrupted fails on what exists already ever after
  (`ledger_db.py:6423`). A program that still has the seventh under way sets
  the version back to 7 after another one has gone on, and a restore may
  replace the file under a program that migrates it.
* An import of history that is killed between a row and its treatment never
  comes back to that row (`history_migration.py:716`).
* Two readers take the former year's last modelo 303 for the opening credit:
  the gate its best evidence, `_evidence_carry`, and the calculation the most
  complete snapshot, `_previous_filed_vat_compensation`. They differ when that
  snapshot keeps less than boxes 72 and 87 (a legacy one with only its result,
  say): the gate then accepts an opening of nothing, the calculation starts
  with the result.
* Programs that the environment or a relative path leads to the new root
  during a move book in a database that the move then replaces; programs with
  an explicit configuration go on in the old one after it
  (`migrate_private_root.py:169`).
* Whatever checks a quarter before it takes the write lock may land in it after
  its close: besides `race_closed`, the issues of statement imports, commits of
  an ingest, and reviews of a payment.

The properties name these as premises (`overlapped`, `erased`, `crossed`,
`late`, `overtaken`, `torn`, `unclassified`, `drifted`, `reviewed`, `left`,
`Settled`, `FormerAgrees`), so that each says what holds outside the case it
excludes. Hazards that fall wholly or partly into such a case are therefore not
caught by the property they are listed with, and their note in `PROJECT.json`
says so: an undecided document is all that is left of one whose issues a crash
lost (H15); a writable archive that an outage marked corrupt (H18); what is booked
in the new root before it has its own configuration (H20); a draft written by two
calls at once (H23); figures written by two calculations at once (H25); the
line torn between row and treatment (H29); a stale question that comes back
(H30); the short formats of a former year's snapshot (H33); an instalment
whose recognition was voided (H35); and a payment whose handler died before it
asked (H37). The numbers are the places in the list of hazards.

`Ledger` runs each handler to its end, so its theorems are about handlers that
do not overlap. The overlaps are studied where they matter: `LedgerRace` for
transitions, closes, amendments and filings, and the imports, the intake and
the payments in modules of their own. `TaxRows`, `Assets` and `Returns` do as
`Ledger` does.

## What is proved

For every value of the constants that meets the assumptions beside them: any
number of quarters, rows, documents, issues, connections, imports, drafts,
sessions, threads, backends, workers, clerks, payees, releases and scripts,
every calendar and every bound. The theorems state every property of the
passing runs but two, named at the end of this section.

| Theorems | Module | They say |
|---|---|---|
| `TypeCorrect` | `LedgerSafety` | the tables keep their shape, and what rows, documents and amendments refer to exists |
| `NeverReopened` | `LedgerSafety` | a closed quarter never reopens, an amended one never changes |
| `CorrectionsGoForward` | `LedgerSafety` | amendments form no cycle |
| `ClosedBooksFrozen`, `SettledFactsFrozen` | `LedgerSafety` | `ClosedFrozen` and `SettledFrozen`: what is in a closed quarter does not change, what is settled only by a new export of its line |
| `ClosedStaysClean` | `LedgerSafety` | what the close verified stays true |
| `PostedStaysSound` | `LedgerSafety` | posted rows keep a usable rate, and those kept by hand their evidence and a date that has come |
| `FilingStaysSound` | `LedgerSafety` | final filings claim the posted book, once |
| `LedgerImplementsHistory` | `LedgerSafety` | every handler is a step of `FilingHistory` or a stutter |
| `RaceTypes`, `FilingSurvivesRaces` | `ConnectionsProofs` | what filings rest on survives stale writes |
| `StatementsCountOnce`, `ReportsAreRecorded` | `ConnectionsProofs` | `StatementsInv` and `ReportedIsRecorded`: imports lose, double and re-settle nothing |
| `HistoryIsBooked`, `AnswersStand` | `ConnectionsProofs` | `HistoryInv` and `QuestionsStand`: the books hold what was taken from the exports; answers stand |
| `TypeCorrect`, `IssuedSaysItsEvidence`, `NoStepBack`, `ActiveTemplateIsNewest` | `OutgoingInvoicesProofs` | issued invoices match their evidence, status moves forward, the active template is the newest |
| `TypeCorrect`, `PostedOnceAsPreviewed`, `AnswersStayTrue`, `DepreciatedOnce`, `ClosedEntriesKept` | `ExpenseWizardProofs` | one posting per request and as previewed, true answers, one recognition per schedule row, none undone in a closed quarter |
| `BrowserIsSound`, `FiguresAreCounted` | `ExpenseWizardProofs` | the same of the browser's behaviours; `CalculationInv`: a quarter without a stale marker shows every batch that was answered |
| `CatalogueIsSound`, `ACopyCanBeRead`, `MovedRootIsSound` | `EvidenceStoresProofs` | `StorageInv`, `AlwaysServable` and `RelocationInv` |
| `SchemaIsSound` | `EvidenceStoresProofs` | `MigrationsInv`: the schema is whole, backfills run once, nothing saved is lost |
| `PipelineStaysSound`, `AnswersAreTrue`, `ClosedStaysSettled` | `EvidencePipelineProofs` | `PipelineInv`, `AnswerTrue` and `ClosedSettled` |
| `DeskIsSound`, `DisposalEndsCharges`, `CasesTellTheirCourse`, `PaymentsAreReviewed`, `ElectionsStartLegally` | `TaxDeskProofs` | the inductive invariants of the desk's parts; `AssetsHold`, `CasesHold`, `WithholdingHold` and `RetaHold` |
| `RowsCountOnce` | `TaxDeskProofs` | `RowsHold`: each source counts once, the forms of a year agree, the chains of 130 and 303 use each payment, loss and credit once |
| `TheYearAddsUp` | `TaxDeskProofs` | `FiguresAddUp`: modelo 390 balances over any chain of quarters, and says what was filed when its gates are open |
| `AttributionsMoveVat` | `TaxDeskProofs` | `AttributionsConserve`: an attribution moves VAT to another quarter and makes none |
| `WhatClosedStays` | `TaxDeskProofs` | `ClosedStays`: what a settled quarter, a closed year and a closed quarter's schedule say does not change |
| `ReleasesAreSound`, `SuccessServes`, `FailureIsUndone` | `ReleasesProofs` | `ReleasesInv`, `AcceptedServes` and `FailureUndone` |

The assumptions are those the modules name beside their constants
(`LedgerAssumption`, `RaceAssumption`, `StatementsAssumption`,
`HistoryAssumption`, `InvoiceAssumption`, `WizardAssumption`,
`CalculationAssumption`, `StorageAssumption`, `RelocationAssumption`,
`MigrationsAssumption`, `IntakeAssumption`, `PostingAssumption`,
`TaxRowsAssumption`, `FormsAssumption`, `AnnualAssumption`,
`ReturnsAssumption`, `AssetsAssumption`, `CasesAssumption`,
`WithholdingAssumption`, `RetaAssumption`, `ReleasesAssumption`): types,
positive bounds, finite inputs, and values that differ. Only `ACopyCanBeRead`
has a premise besides, `OneArchive`. Where an argument runs over the naturals
(the newest complaint, the maximum of an export), it takes the least
counterexample of a set (`WFMin`), because an induction rule takes its
predicate as a parameter. The finite inputs are there for the same reason: a
finite set of numbers has a greatest one.

*Ledger.* The argument has three layers, in the order of the module. The first
proves the type invariant and that every stored row has a quarter (`Shape`,
inductive by itself, one step per action), and classifies what a step does to a
row (`RowsStep`): nothing, arrival in a mutable quarter, a change inside one,
or a filing. The second adds what a step does to a quarter (`PeriodsMove`) and
derives the action properties from both; `ClosedClean` is not inductive by
itself, since a close may admit imported rows that only a filing vouches for,
so its proof also uses that snapshots only grow (`SnapshotsGrow`) and that no
issue is raised in a closed quarter (`ClosedIssues`). `AmendmentAcyclic` needs
the strengthening that only an amended quarter names another one: a new
amendment then ends every chain it joins. The third proves that the claims of
final filings are sound and that each handler is a step of `FilingHistory` or
leaves it alone. What rows, documents and amendments refer to (`References`)
comes with the quarters: it needs that nothing is ever taken away
(`NamedStays`), and then one step per handler for what it adds (`RowsRefer`).

*Connections.* What a handler holds between its read and its write may be
stale, so `FiledIsClosed` needs the part of it that no other handler can make
untrue (`PendingSound`): a filing or an amendment under way read a quarter that
had left open, and nothing takes a quarter back there. It also keeps the
versions that stale handlers write within their bound.

*Imports.* An import that nobody disturbed is alone (`UndisturbedIsAlone`), so
the copy it may put back has everything that was reported (`NothingLost`); and
as long as two imports have not matched at once, the rows an import is about to
settle are still on offer (`MatchesStand`). The greedy matching of
`match_revolut_payments` is a recursive function over the movements; that it gives
no row to two lines (`Matches`) is shown on the least line that would get one
taken before. An issue that is open in a closed quarter was under way at its
close, or came after the close had read (`LateExcused`).

*History.* What an import under way is past is booked, unless it was treated
by hand since (`PastIsBooked`), which it needs about the line at work as well: the row comes
before its treatment (`RowComesFirst`), and a treatment that is not of its row
is remembered (`TornIsKnown`). Operations abroad of a quarter that was
classified since are filed, or due while no close has found it ready
(`AbroadIsDue`).

*Outgoing invoices.* The invariant relates what a pending handler read to what
the row is now: a row whose status has moved past what was read can only have
gone where the schema lets it (`StatusSince`), its content is what was read
unless the draft counts as overlapped (`BaseSince`, `ReadFacts`), and the
versions of a template have no gap (`NoGap`), so that the newest one is the
active one.

*Expense wizard.* Two halves: what the records say of each other (a saved
action exists exactly when the source was posted by it; a recognized schedule
row has one action; `RecordsInv`) and what calls and sessions carry is backed
by them (a call past the lookup found no action or its own, an answer names a
saved action; `SessionsInv`). The figures of a quarter need to know in which
order the file is written: while no two calculations overlap, what was written
counts no more than what a calculation at work has read (`InOrder`), and a
calculation that may clear the marker read the ledger after it was made
(`SawMarked`).

*Storage.* A handler keeps across its steps what it verified: a replica it
may promote was stored and read, and a clean-up is backed by another copy that
no handler may take away (`Backed`, `Sure`). Local copies are never cleared,
so a registered file stays readable unless its only copies lie in two
read-only archives that handlers adopt and clean up at once; `OneArchive`
excludes it, since `_validate_backend_roles` does not. *Private root.* From
the snapshot on, a row names the new root only when its file is there
(`Rewriting`), what was there when the move began has been carried (`Carried`),
and the move writes the new configuration only after both (`GoesOn`). Where
programs are led meanwhile does not matter to it, since each books file and row
in one root.
*Schema.* As long as no script was interrupted or run twice, the file is what
its version says plus what the scripts under way have made so far, and each
program is where the file is (`Whole`). That two programs run one script at
once is not excluded by the code; the model marks it (`torn`).

*Evidence pipeline.* A worker in the middle of its commits knows what nobody
takes back: the copy was whole, the source stored, the row posted (`Knows`,
kept because `Whole`, `Stored` and `Done` only grow, `Lasting`). Once the close
has read, every file is settled or counts as overtaken (`CloseInv`). `CreditedOnce`
also needs that one web batch at a time has rows to be credited with, and that
none of those has a credit yet (`Owed`).

*Tax desk.* Each part has an invariant of its own, proved from the part's own
actions; the last section puts it under the desk that is at work. Of the rows
it is that a source has one active adjustment (`OneActive`); of the cases, what
a clerk read is old by its row version, or still true (`ClerkKnows`); of the
payments, that behind each one that a handler carried through there is a review
of the payee as he is classified now, or a decision (`ReviewExists`), and that a
close that found its quarter ready still does, unless it is crossed; of the asset,
that there are no rows before its purchase (`AbsentIsEmpty`). The elections'
invariant is inductive as it stands. *Sums.* A form is a sum over a set of
entries, and `MapThenSumSet` folds a set in an order nobody chose. That such a
fold is what its recursion says (`FoldExists`, `SumFolds`) and that the order
does not matter (`SumWithOne`) is shown on a counterexample of least
cardinality; from there follow sums over unions, over parts, of sums, and over
intervals, which is all that the forms use: the boxes of modelo 303 part the
rows of each side (`FormBoxesAddUp`), so they add up to the rows one by one.
*Returns.* A registered return says what it would say if it were calculated
now, unless a return it was calculated from came later (`Told130`, `Told303`),
which each return remembers (`saw`). Among returns that are all in order, an
instalment is what is left of the running maximum of 04 - 06, and a
quarter's losses bound what later ones take, by induction along the quarters
(`StepByStep`). The recursive `Carry` is a function because for each quarter
one exists that follows its equation so far (`CarryExists`). The books of an
asset hold the rows of its plan, dated and undated (`BooksFollowPlan`), and
each instalment is the difference of two targets: their sum telescopes to what
is deductible (`PlanTelescopes`), however the shares of a quarter are rounded,
and a year's figure carries the last one on. What was paid on a base of RETA
and what a month weighs are the same days by the same factor (`MonthCounts`),
so a bound on the bases is a bound on the payments.

*The year.* What was filed in a quarter is a settled return, and a quarter that
is not due has none (`AnnualIInv`). `Listed` puts the quarters that are due in
order (`ListedInOrder`); `Chain` and `CreditsAfter` are recursive functions along
it, and one that follows the equation exists (`ChainExists`, `LeftExists`). Each
quarter opens with what the one before it leaves, so the two credits add up to
what it leaves in turn (`CreditsLeft`), and the figures to what was paid, is
left or was refunded (`YearAddsUp`). For what was filed, the gates let a
quarter's opening credit be two cents off, and each side of its figure too. The
proof carries three differences between the chain and the filed quarters: of
what is left, of what was paid, and of the two (`Keeping`). The first two would
not do by themselves: a quarter may turn a difference in what is left into one
in what is paid, and only their difference is known to grow by six cents
(`QuarterDrifts`).

*Releases.* A script keeps a way back (`Backed`, `Undoable`): until its first
change the database is as it found it, or better, and from then on a file on
disk is. `NothingElseLost` also needs that this file holds every write that was
acknowledged before it was made (`Snapshot`). Which units may be started is
followed through each script (`Units`); before a script links its target the
old unit has gone from the port, so a health check that passes was answered by
the target.

What the proofs found in the models: a type invariant whose conjuncts were
nested otherwise than they looked (`AssetsTypeOK`), a union that two parsers
read differently (`SchemaIsWhole`), and assumptions that TLC's instances met
silently: what an export is and that its lines are finitely many (`Books`,
`Reports`, `Complaint`), and that no content is `None`. `ReadyMeansFiled` had
allowed four cents a quarter, which no run on two quarters with one slip
exceeds; six is what the tolerances add up to. And of the checks that
`calculate_modelo390` makes of its chain, two were missing from `Balanced`: that
no more of a year's credit is used than there is, and that box 87 is what is
left of both credits.

Only model-checked:

* `EventuallyTold` and `QueuedHasItsTurn`: liveness under fairness, ENABLED.
* `ClosedRowsFrozen` of `race_closed`, which is violated.

## Not modelled

`PROJECT.json` lists every component with its reason. The map covers about a
sixth of the implementation's lines, and most of the rest is not of a kind a
model says something about: parsers of the former provider's exports and of
invoices (`parsers.py`, `source_book_*`, `history.py`), the toolkit of the
first release (`cli.py`, `toolkit_cli.py`), reports and views (`analytics_*`,
`services/queries.py`, `tax_result_view.py`, `sequential_summary.py`),
spreadsheet layout (`aeat_workbook.py`, `aeat_books.py`, `books.py`), argument
parsing and routing (`operational_cli.py`, `local_web.py`), screens (`*.vue`)
and charts. They keep no state that these properties speak of; where one of
them decides something (an import's commits, a batch's lock, a screen's queue),
that part is in a model.

Left out although they have state: accounts and settings (one versioned record
each, one operator), the list of storage backends, the allocation of payments
to filed forms, the cache of exchange rates, and the intake of a
former depreciation schedule.

## Plan

1. An abstract specification of intake and posting, each file booked at most
   once, refined by `EvidencePipeline`.
2. Allocation of payments to filed forms, beside `Withholding`.
3. The guided review and the intake dialog of the browser, beside
   `Calculation`.

Runs are kept few: a new question joins the instance that can already answer
it before it gets one of its own.
