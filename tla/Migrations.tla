----------------------------- MODULE Migrations -----------------------------
(***************************************************************************)
(* The schema of the ledger file: how a file of any version becomes one of *)
(* the latest, by several programs at once and through restores.  The      *)
(* first seven migrations are scripts that sqlite3 commits statement by    *)
(* statement; each later one is a transaction that also writes the new     *)
(* version.  A migration is what it creates and, where it has one, its     *)
(* backfill.  Tables stand for their columns and indexes; a migration that *)
(* only adds columns is named for them.                                    *)
(***************************************************************************)
EXTENDS Naturals, Sequences, FiniteSets

CONSTANTS
    Program,        \* processes that open the file
    Starts,         \* versions a file, or a backup of one, may have
    Complaint,      \* reconciliation issues of a file from before version 7
    Rate,           \* exchange rates
    Recorded,       \* those from before version 19
    Line,           \* schedule rows from before version 22
    LinkOf,         \* line -> the transaction its source reference names
    Journals,       \* transactions that are a matching posted recognition
    MaxRestores     \* bound: restores begun

Latest == 31

ASSUME MigrationsAssumption ==
    /\ Starts \subseteq 0..Latest /\ Latest \in Starts
    /\ Complaint \subseteq [subject : Nat, dated : BOOLEAN, at : Nat] /\ IsFiniteSet(Complaint)
    /\ Recorded \subseteq Rate
    /\ 0 \notin Journals /\ MaxRestores \in Nat

VARIABLES
    file,           \* the ledger file
    programs,       \* program -> where it is
    saved,          \* rates some client was told are recorded
    loads,          \* restores begun
    late,           \* ghost: those recorded while a restore was under way
    torn            \* ghost: a script was interrupted or ran twice, or the
                    \* file was replaced under a program that migrates it

migrationsVars == <<file, programs, saved, loads, late, torn>>

-----------------------------------------------------------------------------
(* What each migration creates *)

Core == <<"taxpayer_profile", "periods", "household_members", "import_batches",
          "counterparties", "documents", "obligations", "rule_versions",
          "filing_snapshots", "transactions">>
Bookings == <<"tax_treatments", "payments", "fx_rates", "assets",
              "amortization_entries", "validation_issues", "annual_adjustments">>
TaxColumns == <<"vat_id", "source_path", "amount_eur", "tax_code", "blocking", "manifest_path">>
Determinations == <<"determination", "rectifies_document_id", "entry_kind">>
Sources == <<"document_sources">>
Resolutions == <<"resolution_reason", "resolved_at">>
Keys == <<"dedupe_key", "form_code">>
Indexes == <<"validation_issues_period_dedupe", "filing_snapshots_period_form">>
PaymentSources == <<"payments_source">>
Invoicing == <<"invoice_templates", "outgoing_invoice_drafts", "outgoing_invoice_lines">>
Activities == <<"business_activities">>
BookProfiles == <<"aeat_asset_identifier">>
Identities == <<"counterparty_identities">>
InvoiceTypes == <<"aeat_invoice_type">>
Calendar == <<"tax_calendar_entries">>
Receipts == <<"intake_receipts">>
LegalForms == <<"legal_form", "obligation_evidence">>
RateSources == <<"source_reference">>
Files == <<"files", "storage_backends", "document_attachments", "file_replicas">>
Provenance == <<"fx_provenance">>
Names == <<"name_is_manual", "counterparty_name_changes">>
Goods == <<"vat_investment_good">>
Drafts == <<"expense_drafts", "expense_draft_events", "expense_actions",
            "asset_depreciation_plans", "recognition_transaction_id">>
ProfileChanges == <<"taxpayer_profile_changes">>
Verifications == <<"fx_verifications">>
AeatCases == <<"aeat_cases", "aeat_documents", "aeat_case_events">>
ViesChecks == <<"vies_checks">>
Elections == <<"reta_base_elections", "reta_base_election_voids", "reta_rate_tables">>
Attributions == <<"transaction_tax_attributions", "tax_attribution_fx_events">>
Registrations == <<"receipt_registration_series", "receipt_registrations">>
Disposals == <<"asset_disposals">>
Adjustments == <<"source_transaction_id", "annual_adjustment_voids">>

\* _MIGRATIONS
Creates == <<Core \o Bookings, TaxColumns, Determinations, Sources, Resolutions, Keys, Indexes,
             PaymentSources, Invoicing, Activities, BookProfiles, Identities, InvoiceTypes,
             Calendar, Receipts, LegalForms, RateSources, Files, Provenance, Names, Goods,
             Drafts, ProfileChanges, Verifications, AeatCases, ViesChecks, Elections,
             Attributions, Registrations, Disposals, Adjustments>>

Tables(v) == {Creates[v][i] : i \in 1..Len(Creates[v])}
UpTo(v) == UNION {Tables(u) : u \in 1..v}

-----------------------------------------------------------------------------
(* The backfills *)

\* A subject used to carry the status of the comparison.
Subject(c) == c.subject

\* Broken variant: the first one that was raised is kept.
Newest_First(issues) ==
    {c \in issues : \A d \in issues : Subject(d) = Subject(c) => c.at <= d.at}

\* ORDER BY updated_at DESC: the newest of a subject is kept.
Newest(issues) ==
    {c \in issues : \A d \in issues : Subject(d) = Subject(c) => d.at <= c.at}

\* _migration_7 gives the issue it keeps the canonical subject.
Deduplicated(issues) == {[c EXCEPT !.dated = FALSE] : c \in Newest(issues)}

\* Broken variant: old rates are left without a record of where they are from.
Backfilled_None(f) == f.proofs

\* _backfill_fx_provenance, for every rate there is
Backfilled(f) == [r \in Rate |-> IF r \in f.rates THEN f.proofs[r] + 1 ELSE f.proofs[r]]

\* Broken variant: two schedule rows may name one transaction.
Unambiguous_Any(l) == TRUE

Unambiguous(l) == \A k \in Line \ {l} : LinkOf[k] # LinkOf[l]

\* _migration_22 adopts a recognition only where the reference leaves no doubt.
Recognized(f) ==
    [l \in Line |-> IF f.used /\ LinkOf[l] \in Journals /\ Unambiguous(l)
                    THEN LinkOf[l] ELSE 0]

\* Broken variant: the version is written before its migration has run.
Stamp_Early(v) == IF v < Latest THEN v + 1 ELSE v

\* PRAGMA user_version
Stamp(v) == v

\* One migration as a transaction.
Migrated(f, v) ==
    [f EXCEPT !.version = Stamp(v), !.made = @ \cup Tables(v),
              !.proofs = IF v = 19 THEN Backfilled(f) ELSE @,
              !.recognized = IF v = 22 THEN Recognized(f) ELSE @]

\* A file of version v that was in use; version 0 is a new one.
FileOf(v) ==
    LET used == v > 0
        rates == IF used THEN Recorded ELSE {}
        f == [version |-> v, made |-> UpTo(v), used |-> used,
              issues |-> IF used THEN Complaint ELSE {}, rates |-> rates,
              proofs |-> [r \in Rate |-> 0], recognized |-> [l \in Line |-> 0]]
    IN  [f EXCEPT !.issues = IF v >= 7 THEN Deduplicated(@) ELSE @,
                  !.proofs = IF v >= 19 THEN Backfilled(f) ELSE @,
                  !.recognized = IF v >= 22 THEN Recognized(f) ELSE @]

-----------------------------------------------------------------------------
(* Programs *)

Away == [stage |-> "away", next |-> 0, step |-> 0, restores |-> FALSE,
         copy |-> FileOf(0), told |-> {}]

Migrating(p) == programs[p].stage = "migrating"
Due(p) == programs[p].next
InScript(p) == Migrating(p) /\ Due(p) < 8
SomeRestore == \E p \in Program : programs[p].restores

Becomes(p, h) == programs' = [programs EXCEPT ![p] = h]

\* LedgerDB.migrate and initialize; open refuses any version but the latest.
Open(p) ==
    /\ programs[p] = Away
    /\ Becomes(p, [Away EXCEPT !.stage = IF file.version = Latest THEN "open" ELSE "migrating",
                            !.next = file.version + 1])
    /\ UNCHANGED <<file, saved, loads, late, torn>>

\* Broken variant: a table that exists already is passed over.
Exists_Never(names) == FALSE

\* "table already exists", "duplicate column name"
Exists(names) == names \cap file.made # {}

\* The next statement of a script; the seventh only creates what is not there.
Statement(p) ==
    LET v == Due(p)
        s == programs[p].step + 1
        name == Creates[v][s]
    IN  /\ InScript(p) /\ s <= Len(Creates[v])
        /\ v = 7 \/ ~Exists({name})
        /\ file' = [file EXCEPT !.made = @ \cup {name},
                                !.issues = IF v = 7 /\ s = 1 THEN Deduplicated(@) ELSE @]
        /\ Becomes(p, [programs[p] EXCEPT !.step = s])
        /\ UNCHANGED <<saved, loads, late, torn>>

\* The version of a script is a statement of its own.
StampScript(p) ==
    LET v == Due(p) IN
    /\ InScript(p) /\ programs[p].step = Len(Creates[v])
    /\ file' = [file EXCEPT !.version = Stamp(v)]
    /\ torn' = (torn \/ file.version # v - 1)
    /\ Becomes(p, [programs[p] EXCEPT !.next = v + 1, !.step = 0])
    /\ UNCHANGED <<saved, loads, late>>

\* BEGIN IMMEDIATE ... commit; the version is not read again under the lock.
Transaction(p) ==
    LET v == Due(p) IN
    /\ Migrating(p) /\ v \in 8..Latest
    /\ ~Exists(Tables(v))
    /\ file' = Migrated(file, v)
    /\ Becomes(p, [programs[p] EXCEPT !.next = v + 1])
    /\ UNCHANGED <<saved, loads, late, torn>>

Opened(p) ==
    /\ Migrating(p) /\ Due(p) > Latest
    /\ Becomes(p, [Away EXCEPT !.stage = "open"])
    /\ UNCHANGED <<file, saved, loads, late, torn>>

\* A script that stops after its first statement cannot be run again.
TornBy(p) == InScript(p) /\ Due(p) < 7 /\ programs[p].step > 0

\* Broken variant: a restore that fails leaves what it had loaded.
PutBack_Never(p) == file

\* restore_from puts back the copy it took in memory.
PutBack(p) == IF programs[p].restores THEN programs[p].copy ELSE file

\* A statement fails, the lock is not had in time, or a check fails.
Fail(p) ==
    /\ Migrating(p)
    /\ file' = PutBack(p)
    /\ saved' = IF programs[p].restores THEN programs[p].told \cup late ELSE saved
    /\ torn' = (torn \/ TornBy(p)
                \/ (programs[p].restores /\ \E q \in Program \ {p} : Migrating(q)))
    /\ Becomes(p, Away) /\ UNCHANGED <<loads, late>>

\* The process ends.
Quit(p) ==
    /\ programs[p] # Away
    /\ torn' = (torn \/ TornBy(p))
    /\ Becomes(p, Away) /\ UNCHANGED <<file, saved, loads, late>>

\* restore_from: the copy in memory, then the backup over the file.
Load(p, v) ==
    /\ programs[p].stage = "open" /\ v \in 1..Latest
    /\ loads < MaxRestores /\ loads' = loads + 1
    /\ programs' = [programs EXCEPT ![p] =
            [Away EXCEPT !.stage = "migrating", !.next = v + 1, !.restores = TRUE,
                         !.copy = file, !.told = saved]]
    /\ file' = FileOf(v)
    /\ saved' = Recorded
    /\ torn' = (torn \/ \E q \in Program : Migrating(q))
    /\ UNCHANGED late

\* add_fx_rate on a connection that found the latest version when it opened:
\* the rate and its provenance in one commit.
AddRate(p, r) ==
    /\ programs[p].stage = "open"
    /\ {"fx_rates", "fx_provenance"} \subseteq file.made
    /\ r \notin file.rates
    /\ file' = [file EXCEPT !.rates = @ \cup {r}, !.proofs[r] = 1]
    /\ saved' = saved \cup {r}
    /\ late' = IF SomeRestore THEN late \cup {r} ELSE late
    /\ UNCHANGED <<programs, loads, torn>>

MigrationsInit ==
    /\ \E v \in Starts : file = FileOf(v) /\ saved = FileOf(v).rates
    /\ programs = [p \in Program |-> Away]
    /\ loads = 0 /\ late = {} /\ torn = FALSE

MigrationsNext ==
    \E p \in Program :
        \/ Open(p) \/ Statement(p) \/ StampScript(p) \/ Transaction(p) \/ Opened(p)
        \/ Fail(p) \/ Quit(p)
        \/ \E v \in Starts : Load(p, v)
        \/ \E r \in Rate : AddRate(p, r)

-----------------------------------------------------------------------------
(* Properties *)

FileShape ==
    [version : 0..Latest, made : SUBSET UpTo(Latest), used : BOOLEAN,
     issues : SUBSET (Complaint \cup Deduplicated(Complaint)),
     rates : SUBSET Rate, proofs : [Rate -> Nat], recognized : [Line -> Journals \cup {0}]]

\* The file and the programs keep their shape.
MigrationsTypeOK ==
    /\ file \in FileShape
    /\ \A p \in Program :
          /\ programs[p].stage \in {"away", "migrating", "open"}
          /\ programs[p].next \in 0..(Latest + 1) /\ programs[p].copy \in FileShape
          /\ programs[p].told \subseteq Rate
    /\ saved \subseteq Rate /\ late \subseteq Rate
    /\ loads \in 0..MaxRestores /\ torn \in BOOLEAN

\* _apply_migrations: however many programs migrate one file, and wherever they
\* end, it holds exactly what the migrations up to its version create, and
\* beside that at most the part of a script that is running, or of the seventh,
\* which can be begun again.
SchemaIsWhole ==
    torn \/ /\ UpTo(file.version) \subseteq file.made
            /\ file.made \ UpTo(file.version) \subseteq
                   (UNION {Tables(Due(p)) : p \in {q \in Program : InScript(q)}})
                       \cup (IF file.version = 6 THEN Tables(7) ELSE {})

\* _migration_7: every subject that had an issue has one afterwards, the newest,
\* however often the script was begun.
NewestIsKept ==
    torn \/ (file.version >= 7 /\ file.used =>
        /\ \A i, j \in file.issues : Subject(i) = Subject(j) => i = j
        /\ \A c \in Complaint : \E i \in file.issues :
              Subject(i) = Subject(c) /\ ~i.dated /\ i.at >= c.at)

\* _migration_19 and add_fx_rate: from version 19 on, each rate has exactly one
\* record of where it is from, whoever migrates and writes at the same time.
ProvenOnce ==
    torn \/ (file.version >= 19 => \A r \in file.rates : file.proofs[r] = 1)

\* _migration_22: no transaction is the recognition of two schedule rows, so
\* the unique index it has just made never refuses the file.
AdoptedOnce ==
    \A k, l \in Line : k # l /\ file.recognized[k] # 0 => file.recognized[k] # file.recognized[l]

\* restore_from: a restore that fails takes no rate away that was saved, but for
\* those saved while it ran.
SavedStays == saved \ late \subseteq file.rates

\* What the migrations of the ledger file promise.
MigrationsInv ==
    /\ MigrationsTypeOK /\ SchemaIsWhole /\ NewestIsKept /\ ProvenOnce /\ AdoptedOnce /\ SavedStays
=============================================================================
