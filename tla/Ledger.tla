------------------------------- MODULE Ledger -------------------------------
(***************************************************************************)
(* The accounting ledger of backend/src/autonomo_taxes: periods, evidence  *)
(* documents, transactions, validation issues, obligations and filing      *)
(* snapshots, with every handler that changes them.  One action is one     *)
(* handler run to its end on one connection; LedgerRace.tla splits the     *)
(* handlers that read before their write transaction begins.               *)
(*                                                                         *)
(* Data is kept to what the gates look at: a date is a day number, an      *)
(* exchange rate is its provenance, a tax treatment is whether its code is *)
(* known, an obligation is whether it still holds up the close.  A request *)
(* with a stale row version is refused and is therefore no step here.      *)
(***************************************************************************)
EXTENDS Naturals, Sequences, Lifecycle

CONSTANTS
    Period,         \* quarters, by period_key
    Document,       \* evidence documents
    Transaction,    \* ledger rows
    Party,          \* counterparties
    Issue,          \* validation issues, by (period, code, subject)
    Form,           \* AEAT form codes a quarter may owe
    None,           \* SQL NULL
    LastDay,        \* bound: the days of the calendar are 0 .. LastDay
    DaysOf,         \* period -> its days, starts_on .. ends_on
    IssuePeriod,    \* issue -> the period it is filed under
    IssueSubject,   \* issue -> the row it is about, or None
    WizardIssue,    \* issues whose code the expense wizard may resolve
    IrnrIssue,      \* issues settled by deciding Modelo 216
    IrnrForm,       \* Modelo 216
    Imported,       \* documents that the source books of a former provider name
    BookLine,       \* rows whose external key names a line of those books
    RateInput,      \* bound: exchange-rate provenances a run tries
    TreatmentInput, \* bound: kinds of tax treatment a run adds
    SnapshotInput,  \* bound: snapshot kinds a run tries
    MaxSnapshots    \* bound: filing snapshots recorded

Day == 0..LastDay

(***************************************************************************)
(* Rate provenance: "eur" needs no rate, "unsourced" is foreign currency   *)
(* with no EUR amount yet, "official" an allowed source, "xolo" a          *)
(* xolo_recorded rate dated after the cutover, "derived" target_derived.   *)
(***************************************************************************)
Rate == {"eur", "unsourced", "official", "xolo", "derived"}

\* A row may carry a Spanish invoice_review treatment, which the review packet
\* decides, beside treatments of other kinds, which stand here as one.
TreatmentKind == {"invoice", "other"}
TaxCode == {"none", "unknown", "reviewed"}
Untreated == [kind \in TreatmentKind |-> "none"]

\* Kinds of filing snapshot; only "final" claims the rows of its period.
SnapshotKind == {"draft", "baseline", "final"}

ASSUME LedgerAssumption ==
    /\ LastDay \in Nat
    /\ MaxSnapshots \in Nat
    /\ None \notin Period \cup Document \cup Transaction \cup Party
    /\ DaysOf \in [Period -> SUBSET Day]
    /\ IssuePeriod \in [Issue -> Period]
    /\ IssueSubject \in [Issue -> Document \cup Transaction \cup Party \cup {None}]
    /\ WizardIssue \subseteq Issue
    /\ IrnrIssue \subseteq Issue
    /\ Imported \subseteq Document
    /\ BookLine \subseteq Transaction
    /\ RateInput \subseteq Rate
    /\ TreatmentInput \subseteq TreatmentKind
    /\ SnapshotInput \subseteq SnapshotKind

VARIABLES
    periods,        \* period -> [status, amendedIn]
    documents,      \* document -> [status, period]
    transactions,   \* transaction -> row
    issues,         \* issue -> [status, blocking]
    obligations,    \* period -> form -> standing
    snapshots,      \* filing snapshots, oldest first: [period, kind]
    today           \* date.today()

vars == <<periods, documents, transactions, issues, obligations, snapshots, today>>

-----------------------------------------------------------------------------
(* Rows *)

Row == [status : Status \cup {"absent"}, period : Period \cup {None},
        document : Document \cup {None}, party : Party \cup {None},
        date : Day, rate : Rate,
        tax : [TreatmentKind -> TaxCode],
        snapshot : (1..MaxSnapshots) \cup {None}]

NoRow == [status |-> "absent", period |-> None, document |-> None, party |-> None,
          date |-> 0, rate |-> "eur", tax |-> Untreated, snapshot |-> None]

PeriodStatus == {"missing", "open", "closed", "amended"}
Standing == {"absent", "undecided", "due", "settled", "advisory"}

Exists(t) == transactions[t].status # "absent"
HasDocument(t) == transactions[t].document # None
RowsOf(p) == {t \in Transaction : transactions[t].period = p}
DocumentsOf(p) == {d \in Document : documents[d].period = p}

Open(p) == periods[p].status = "open"
Closed(p) == periods[p].status \in {"closed", "amended"}
Mutable(p) == ~Closed(p)

\* ensure_period: a period row appears, open, the first time it is named.
Ensured(p) ==
    [periods EXCEPT ![p].status = IF @ = "missing" THEN "open" ELSE @]

-----------------------------------------------------------------------------
(* Gates *)

OpenIssue(i) == issues[i].status = "open"
Blocks(i) == OpenIssue(i) /\ issues[i].blocking

IssuesAbout(subjects) == {i \in Issue : IssueSubject[i] \in subjects \ {None}}

\* Issues on a row, its document or its party, whatever period they sit in.
Linked(t) ==
    IssuesAbout({t, transactions[t].document, transactions[t].party})

DocumentReady(t) ==
    HasDocument(t) => documents[transactions[t].document].status \in {"approved"} \cup Booked

TaxReviewed(t) ==
    /\ transactions[t].tax # Untreated
    /\ \A kind \in TreatmentKind : transactions[t].tax[kind] # "unknown"

\* evaluate_transaction_posting without the lifecycle blocker.
Postable(t) ==
    /\ Open(transactions[t].period)
    /\ transactions[t].date <= today
    /\ TaxReviewed(t)
    /\ transactions[t].rate \notin {"unsourced", "xolo"}
    /\ DocumentReady(t)
    /\ \A i \in Linked(t) : ~Blocks(i)

\* Imported rows that a filing of the period already vouches for.
AuthoritativeHistory(t) ==
    /\ transactions[t].status = "approved"
    /\ transactions[t].document \in Imported
    /\ \E k \in 1..Len(snapshots) :
          /\ snapshots[k].period = transactions[t].period
          /\ snapshots[k].kind # "draft"

\* validate_period: what close_period demands of the rows of p.
RowsReady(p, allowHistory) ==
    \A t \in RowsOf(p) :
        /\ transactions[t].status \in Unposted => allowHistory /\ AuthoritativeHistory(t)
        /\ transactions[t].rate \notin {"xolo", "derived"}
        /\ transactions[t].status \notin Terminal => transactions[t].date \in DaysOf[p]

Ready(p, allowHistory) ==
    /\ \A i \in Issue : IssuePeriod[i] = p => ~Blocks(i)
    /\ \A f \in Form : obligations[p][f] \notin {"undecided", "due"}
    /\ \A d \in DocumentsOf(p) : documents[d].status \notin InReview
    /\ RowsReady(p, allowHistory)

-----------------------------------------------------------------------------
(* Periods and obligations *)

\* Any handler that names a new period and then fails leaves the period behind.
EnsurePeriod(p) ==
    /\ periods[p].status = "missing"
    /\ periods' = Ensured(p)
    /\ UNCHANGED <<documents, transactions, issues, obligations, snapshots, today>>

\* `period open`: the standard obligations of the quarter start undecided.
OpenPeriod(p) ==
    /\ Mutable(p)
    /\ periods' = Ensured(p)
    /\ obligations' = [obligations EXCEPT ![p] =
          [f \in Form |-> IF @[f] = "absent" THEN "undecided" ELSE @[f]]]
    /\ UNCHANGED <<documents, transactions, issues, snapshots, today>>

\* Deciding Modelo 216 settles the IRNR issues of the period.
AddObligation(p, f, standing) ==
    /\ Mutable(p)
    /\ periods' = Ensured(p)
    /\ obligations' = [obligations EXCEPT ![p][f] = standing]
    /\ issues' = [i \in Issue |->
          IF f = IrnrForm /\ standing \in {"due", "settled"}
                /\ i \in IrnrIssue /\ IssuePeriod[i] = p /\ OpenIssue(i)
          THEN [issues[i] EXCEPT !.status = "resolved"]
          ELSE issues[i]]
    /\ UNCHANGED <<documents, transactions, snapshots, today>>

ClosePeriod(p, allowHistory) ==
    /\ Open(p)
    /\ Ready(p, allowHistory)
    /\ periods' = [periods EXCEPT ![p].status = "closed"]
    /\ UNCHANGED <<documents, transactions, issues, obligations, snapshots, today>>

\* Broken variant: corrections go back.
Amendable_Backwards(p, q) == periods[p].status = "closed" /\ p # q

\* The amendment period is created if new and must then be open.
Amendable(p, q) == periods[p].status = "closed" /\ Mutable(q)

AmendPeriod(p, q) ==
    /\ Amendable(p, q)
    /\ periods' = [Ensured(q) EXCEPT ![p] = [status |-> "amended", amendedIn |-> q]]
    /\ UNCHANGED <<documents, transactions, issues, obligations, snapshots, today>>

\* Broken variant: an open quarter is filed.
SnapshotAllowed_Open(p, kind) == periods[p].status # "missing"

SnapshotAllowed(p, kind) ==
    periods[p].status # "missing" /\ (kind = "final" => Closed(p))

SnapshotId == Len(snapshots) + 1

\* A final snapshot claims every posted row of its period in one transaction.
CreateFilingSnapshot(p, kind) ==
    /\ SnapshotAllowed(p, kind)
    /\ Len(snapshots) < MaxSnapshots
    /\ snapshots' = Append(snapshots, [period |-> p, kind |-> kind])
    /\ transactions' = [t \in Transaction |->
          IF kind = "final" /\ transactions[t].period = p /\ transactions[t].status = "posted"
          THEN [transactions[t] EXCEPT !.status = "included_in_snapshot",
                                       !.snapshot = SnapshotId]
          ELSE transactions[t]]
    /\ UNCHANGED <<periods, documents, issues, obligations, today>>

-----------------------------------------------------------------------------
(* Documents *)

\* Intake registers the evidence under the quarter of its issue date.
AddDocument(d, p, status) ==
    /\ documents[d].status = "absent"
    /\ Mutable(p)
    /\ periods' = Ensured(p)
    /\ documents' = [documents EXCEPT ![d] = [status |-> status, period |-> p]]
    /\ UNCHANGED <<transactions, issues, obligations, snapshots, today>>

TransitionDocument(d, status) ==
    /\ documents[d].status \notin Terminal \cup {"absent"}
    /\ Mutable(documents[d].period)
    /\ CanMove(documents[d].status, status)
    /\ documents' = [documents EXCEPT ![d].status = status]
    /\ UNCHANGED <<periods, transactions, issues, obligations, snapshots, today>>

-----------------------------------------------------------------------------
(* Transactions *)

Facts == [period : Period, document : Document \cup {None},
          party : Party \cup {None}, date : Day, rate : RateInput]

\* Broken variant: the row may name evidence that was never registered.
AddTransaction_AnyDocument(t, facts) ==
    /\ t \notin BookLine
    /\ \/ ~Exists(t)
       \/ transactions[t].status = "received" /\ Mutable(transactions[t].period)
    /\ Mutable(facts.period)
    /\ periods' = Ensured(facts.period)
    /\ transactions' = [transactions EXCEPT ![t] =
          [status |-> "received", period |-> facts.period, document |-> facts.document,
           party |-> facts.party, date |-> facts.date, rate |-> facts.rate,
           tax |-> @.tax, snapshot |-> @.snapshot]]
    /\ UNCHANGED <<documents, issues, obligations, snapshots, today>>

\* `transactions add` and intake name "received" and no other status, so that the
\* lifecycle lets them add a row or give new facts to a received one.
AddTransaction(t, facts) ==
    /\ t \notin BookLine
    /\ facts.document # None => documents[facts.document].status # "absent"
    /\ \/ ~Exists(t)
       \/ transactions[t].status = "received" /\ Mutable(transactions[t].period)
    /\ Mutable(facts.period)
    /\ periods' = Ensured(facts.period)
    /\ transactions' = [transactions EXCEPT ![t] =
          [status |-> "received", period |-> facts.period, document |-> facts.document,
           party |-> facts.party, date |-> facts.date, rate |-> facts.rate,
           tax |-> @.tax, snapshot |-> @.snapshot]]
    /\ UNCHANGED <<documents, issues, obligations, snapshots, today>>

\* Evidence without an invoice arrives reviewed: document and row are approved.
RecordNonInvoiceExpense(d, t, p, party) ==
    /\ documents[d].status = "absent" /\ ~Exists(t) /\ t \notin BookLine
    /\ Mutable(p)
    /\ periods' = Ensured(p)
    /\ documents' = [documents EXCEPT ![d] = [status |-> "approved", period |-> p]]
    /\ \E date \in DaysOf[p] :
          /\ date <= today
          /\ transactions' = [transactions EXCEPT ![t] =
                [status |-> "approved", period |-> p, document |-> d, party |-> party,
                 date |-> date, rate |-> "eur", snapshot |-> None,
                 tax |-> [Untreated EXCEPT !["other"] = "reviewed"]]]
    /\ UNCHANGED <<issues, obligations, snapshots, today>>

\* The spreadsheet may name any status, the command line all but two of them.
TransitionTransaction(t, status) ==
    /\ transactions[t].status \notin Terminal \cup {"absent"}
    /\ CanMove(transactions[t].status, status)
    /\ status = "posted" /\ transactions[t].status # "posted" => Postable(t)
    /\ Mutable(transactions[t].period)
    /\ transactions' = [transactions EXCEPT ![t].status = status]
    /\ UNCHANGED <<periods, documents, issues, obligations, snapshots, today>>

\* Broken variant: the counterparty of a posted row may change.
SetCounterparty_AnyStatus(t, party) ==
    /\ Exists(t)
    /\ Mutable(transactions[t].period)
    /\ transactions' = [transactions EXCEPT ![t].party = party]
    /\ UNCHANGED <<periods, documents, issues, obligations, snapshots, today>>

SetCounterparty(t, party) ==
    /\ transactions[t].status \in Unposted
    /\ Mutable(transactions[t].period)
    /\ transactions' = [transactions EXCEPT ![t].party = party]
    /\ UNCHANGED <<periods, documents, issues, obligations, snapshots, today>>

\* Only foreign-currency rows take a rate; it may be one kept for history.
ApplyFx(t, rate) ==
    /\ transactions[t].status \in Unposted
    /\ transactions[t].rate # "eur" /\ rate \notin {"eur", "unsourced"}
    /\ Mutable(transactions[t].period)
    /\ transactions' = [transactions EXCEPT ![t].rate = rate]
    /\ UNCHANGED <<periods, documents, issues, obligations, snapshots, today>>

\* Broken variant: a treatment reaches a closed quarter.
AddTaxTreatment_AnyPeriod(t, kind, code) ==
    /\ Exists(t)
    /\ transactions' = [transactions EXCEPT ![t].tax[kind] = code]
    /\ UNCHANGED <<periods, documents, issues, obligations, snapshots, today>>

\* The handler looks at the period of the row but not at its lifecycle.
AddTaxTreatment(t, kind, code) ==
    /\ Exists(t)
    /\ Mutable(transactions[t].period)
    /\ transactions' = [transactions EXCEPT ![t].tax[kind] = code]
    /\ UNCHANGED <<periods, documents, issues, obligations, snapshots, today>>

-----------------------------------------------------------------------------
(* The books of a former provider.  The import commits the document, the row *)
(* and the treatment (AddTaxTreatment) of a line one after the other, and is *)
(* run again with every new export; HistoryImport.tla is about its course.   *)

\* New evidence arrives approved; what exists moves to the quarter of its line.
ImportDocument(d, p) ==
    /\ d \in Imported
    /\ documents[d].status \notin Terminal
    /\ documents[d].status # "absent" => Mutable(documents[d].period)
    /\ Mutable(p)
    /\ periods' = Ensured(p)
    /\ documents' = [documents EXCEPT ![d] =
          [status |-> IF @.status = "absent" THEN "approved" ELSE @.status, period |-> p]]
    /\ UNCHANGED <<transactions, issues, obligations, snapshots, today>>

\* A complete line that is in the books stays there, whatever it now says.
StaysBooked(t) ==
    transactions[t].status \in Booked /\ transactions[t].tax["other"] # "none"

\* Broken variant: a line may also leave a closed quarter.
LineWritable_AnyPeriod(t) ==
    Exists(t) => StaysBooked(t) \/ CanMove(transactions[t].status, "approved")

LineWritable(t) ==
    Exists(t) =>
        /\ Mutable(transactions[t].period)
        /\ StaysBooked(t) \/ CanMove(transactions[t].status, "approved")

\* The line's facts replace those of its row, a posted one included; the date
\* is a day of the line's quarter, be it past or to come.
ImportTransaction(t, d, p, party, date) ==
    /\ t \in BookLine
    /\ d \in Imported /\ documents[d].status # "absent"
    /\ date \in DaysOf[p]
    /\ LineWritable(t)
    /\ Mutable(p)
    /\ periods' = Ensured(p)
    /\ transactions' = [transactions EXCEPT ![t] =
          [status |-> IF StaysBooked(t) THEN @.status ELSE "approved",
           period |-> p, document |-> d, party |-> party, date |-> date, rate |-> "eur",
           tax |-> @.tax, snapshot |-> @.snapshot]]
    /\ UNCHANGED <<documents, issues, obligations, snapshots, today>>

-----------------------------------------------------------------------------
(* Validation issues *)

\* Broken variant: a late finding is filed under a closed quarter.
AddIssue_AnyPeriod(i, blocking) ==
    /\ periods' = Ensured(IssuePeriod[i])
    /\ issues' = [issues EXCEPT ![i] = [status |-> "open", blocking |-> blocking]]
    /\ UNCHANGED <<documents, transactions, obligations, snapshots, today>>

AddIssue(i, blocking) ==
    /\ Mutable(IssuePeriod[i])
    /\ periods' = Ensured(IssuePeriod[i])
    /\ issues' = [issues EXCEPT ![i] = [status |-> "open", blocking |-> blocking]]
    /\ UNCHANGED <<documents, transactions, obligations, snapshots, today>>

\* waive_issue and resolve_issue
SettleIssue(i, status) ==
    /\ issues[i].status # "absent"
    /\ Mutable(IssuePeriod[i])
    /\ issues' = [issues EXCEPT ![i].status = status]
    /\ UNCHANGED <<periods, documents, transactions, obligations, snapshots, today>>

-----------------------------------------------------------------------------
(* The guided review packet *)

\* Both outcomes: the open period of the row, a document, one invoice treatment.
PacketOffered(t) ==
    /\ Exists(t)
    /\ Open(transactions[t].period)
    /\ HasDocument(t)
    /\ transactions[t].tax["invoice"] # "none"

\* A decision resolves every blocking linked issue and any others it chooses.
Resolutions(t) ==
    {S \in SUBSET {i \in Linked(t) : OpenIssue(i)} :
        \A i \in Linked(t) : Blocks(i) => i \in S}

Resolved(S) ==
    [i \in Issue |-> IF i \in S THEN [issues[i] EXCEPT !.status = "resolved"] ELSE issues[i]]

\* With a confirmed rate, the rate and the decision commit together.
ApprovePacket(t, S, rate) ==
    LET row == transactions[t]
        d == row.document
    IN  /\ PacketOffered(t)
        /\ S \in Resolutions(t)
        /\ PacketCanMove(row.status, "approved")
        /\ PacketCanMove(documents[d].status, "approved")
        /\ row.date <= today
        /\ row.party # None
        /\ rate \in {row.rate} \cup (IF row.rate = "eur" THEN {} ELSE {"official"})
        /\ rate \in {"eur", "official"}
        /\ issues' = Resolved(S)
        /\ documents' = [documents EXCEPT ![d].status = "approved"]
        /\ transactions' = [transactions EXCEPT ![t].status = "approved",
                                                ![t].tax["invoice"] = "reviewed",
                                                ![t].rate = rate]
        /\ UNCHANGED <<periods, obligations, snapshots, today>>

RejectPacket(t, S) ==
    LET d == transactions[t].document
    IN  /\ PacketOffered(t)
        /\ S \in Resolutions(t)
        /\ PacketCanMove(transactions[t].status, "rejected")
        /\ PacketCanMove(documents[d].status, "rejected")
        /\ issues' = Resolved(S)
        /\ documents' = [documents EXCEPT ![d].status = "rejected"]
        /\ transactions' = [transactions EXCEPT ![t].status = "rejected"]
        /\ UNCHANGED <<periods, obligations, snapshots, today>>

-----------------------------------------------------------------------------
(* The expense wizard *)

\* Broken variant: the wizard edits a row whose document another row uses.
Editable_Shared(t) ==
    /\ PacketOffered(t)
    /\ transactions[t].status \in Unposted
    /\ documents[transactions[t].document].status \in Unposted

\* A row the wizard edits shares its document with no other row.
Editable(t) ==
    /\ PacketOffered(t)
    /\ transactions[t].status \in Unposted
    /\ documents[transactions[t].document].status \in Unposted
    /\ \A u \in Transaction : transactions[u].document = transactions[t].document => u = t

\* A changed draft withdraws the approval of the row and of its document.
InvalidateApproval(t) ==
    /\ Editable(t)
    /\ transactions[t].status = "approved"
    /\ transactions' = [transactions EXCEPT ![t].status = "needs_review"]
    /\ documents' = [documents EXCEPT ![transactions[t].document].status = "needs_review"]
    /\ UNCHANGED <<periods, issues, obligations, snapshots, today>>

\* Confirm and post: new facts for row and document, review, then posting.
ConfirmExpense(t, p, date, party, rate) ==
    LET d == transactions[t].document
        linked == IssuesAbout({t, d, party})
    IN  /\ Editable(t)
        /\ Open(p) /\ date \in DaysOf[p] /\ date <= today
        /\ PacketCanMove(transactions[t].status, "approved")
        /\ transactions[t].status # "approved"
        /\ PacketCanMove(documents[d].status, "approved")
        /\ transactions[t].tax["other"] # "unknown"
        /\ \A i \in linked : Blocks(i) => i \in WizardIssue
        /\ issues' = Resolved({i \in linked \cap WizardIssue : OpenIssue(i)})
        /\ documents' = [documents EXCEPT ![d] = [status |-> "approved", period |-> p]]
        /\ transactions' = [transactions EXCEPT ![t] =
              [@ EXCEPT !.status = "posted", !.period = p, !.party = party,
                        !.date = date, !.rate = rate, !.tax["invoice"] = "reviewed"]]
        /\ UNCHANGED <<periods, obligations, snapshots, today>>

-----------------------------------------------------------------------------
(* The clock *)

Tick ==
    /\ today < LastDay
    /\ today' = today + 1
    /\ UNCHANGED <<periods, documents, transactions, issues, obligations, snapshots>>

-----------------------------------------------------------------------------

Init ==
    /\ periods = [p \in Period |-> [status |-> "missing", amendedIn |-> None]]
    /\ documents = [d \in Document |-> [status |-> "absent", period |-> None]]
    /\ transactions = [t \in Transaction |-> NoRow]
    /\ issues = [i \in Issue |-> [status |-> "absent", blocking |-> FALSE]]
    /\ obligations = [p \in Period |-> [f \in Form |-> "absent"]]
    /\ snapshots = <<>>
    /\ today = 0

PeriodStep ==
    \E p \in Period :
        \/ EnsurePeriod(p)
        \/ OpenPeriod(p)
        \/ \E f \in Form, s \in Standing \ {"absent"} : AddObligation(p, f, s)
        \/ \E allowHistory \in BOOLEAN : ClosePeriod(p, allowHistory)
        \/ \E q \in Period : AmendPeriod(p, q)
        \/ \E kind \in SnapshotInput : CreateFilingSnapshot(p, kind)

DocumentStep ==
    \E d \in Document :
        \/ \E p \in Period, s \in {"extracted", "needs_review"} : AddDocument(d, p, s)
        \/ \E s \in Status : TransitionDocument(d, s)
        \/ \E t \in Transaction, p \in Period, party \in Party :
              RecordNonInvoiceExpense(d, t, p, party)

TransactionStep ==
    \E t \in Transaction :
        \/ \E facts \in Facts : AddTransaction(t, facts)
        \/ \E s \in Status : TransitionTransaction(t, s)
        \/ \E party \in Party : SetCounterparty(t, party)
        \/ \E rate \in RateInput : ApplyFx(t, rate)
        \/ \E kind \in TreatmentInput, code \in TaxCode \ {"none"} : AddTaxTreatment(t, kind, code)

IssueStep ==
    \E i \in Issue :
        \/ \E blocking \in BOOLEAN : AddIssue(i, blocking)
        \/ \E s \in {"ignored", "resolved"} : SettleIssue(i, s)

ImportStep ==
    \E p \in Period :
        \/ \E d \in Imported : ImportDocument(d, p)
        \/ \E t \in BookLine, d \in Imported, party \in Party, date \in DaysOf[p] :
              ImportTransaction(t, d, p, party, date)

ReviewStep ==
    \E t \in Transaction :
        \/ \E S \in SUBSET Issue : RejectPacket(t, S) \/ \E rate \in RateInput : ApprovePacket(t, S, rate)
        \/ InvalidateApproval(t)
        \/ \E p \in Period, date \in Day, party \in Party, rate \in {"eur", "official"} :
              ConfirmExpense(t, p, date, party, rate)

Next == PeriodStep \/ DocumentStep \/ TransactionStep \/ ImportStep \/ IssueStep \/ ReviewStep \/ Tick

Spec == Init /\ [][Next]_vars
=============================================================================
