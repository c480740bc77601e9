---------------------------- MODULE LedgerSafety ----------------------------
(***************************************************************************)
(* The theorems of the ledger, for any number of quarters, documents,      *)
(* rows, parties, issues and forms.  All of them rest on the same          *)
(* inductive invariant: the tables are typed and every row has a quarter.  *)
(* Its proof comes first, one step per action, then quarters and what      *)
(* refers to them, closed quarters and settled rows, then what filings     *)
(* claim.                                                                  *)
(***************************************************************************)
EXTENDS LedgerProperties, SequenceTheorems, TLAPS

-----------------------------------------------------------------------------
(* Types *)

\* The empty ledger is well formed.
LEMMA InitTyped == Init => Typed
BY LedgerAssumption
   DEF LedgerAssumption, Init, Typed, NoRow, Row, Untreated, TreatmentKind, TaxCode, Status, Unposted,
       InReview, Booked, Terminal, Rate, PeriodStatus, Standing, SnapshotKind, Day

\* ensure_period keeps the period table well formed.
LEMMA EnsuredTyped ==
    ASSUME Typed, NEW p \in Period
    PROVE  Ensured(p) \in [Period -> [status : PeriodStatus, amendedIn : Period \cup {None}]]
BY DEF Ensured, Typed, PeriodStatus

\* The handlers of periods, obligations and filings.
LEMMA PeriodStepTyped == Typed /\ PeriodStep => Typed'
<1> SUFFICES ASSUME Typed, NEW p \in Period,
                    \/ EnsurePeriod(p)
                    \/ OpenPeriod(p)
                    \/ \E f \in Form, s \in Standing \ {"absent"} : AddObligation(p, f, s)
                    \/ \E allowHistory \in BOOLEAN : ClosePeriod(p, allowHistory)
                    \/ \E q \in Period : AmendPeriod(p, q)
                    \/ \E kind \in SnapshotInput : CreateFilingSnapshot(p, kind)
             PROVE  Typed'
  BY DEF PeriodStep
<1>1. CASE EnsurePeriod(p)
  BY <1>1, EnsuredTyped DEF EnsurePeriod, Typed
<1>2. CASE OpenPeriod(p)
  <2>1. obligations' \in [Period -> [Form -> Standing]]
    BY <1>2 DEF OpenPeriod, Typed, Standing
  <2> QED BY <1>2, <2>1, EnsuredTyped DEF OpenPeriod, Typed
<1>3. CASE \E f \in Form, s \in Standing \ {"absent"} : AddObligation(p, f, s)
  <2> PICK f \in Form, s \in Standing \ {"absent"} : AddObligation(p, f, s)
    BY <1>3
  <2>1. obligations' \in [Period -> [Form -> Standing]]
    BY DEF AddObligation, Typed
  <2>2. issues' \in [Issue -> [status : {"absent", "open", "ignored", "resolved"},
                               blocking : BOOLEAN]]
    BY DEF AddObligation, Typed
  <2> QED BY <2>1, <2>2, EnsuredTyped DEF AddObligation, Typed
<1>4. CASE \E allowHistory \in BOOLEAN : ClosePeriod(p, allowHistory)
  BY <1>4 DEF ClosePeriod, Typed, PeriodStatus
<1>5. CASE \E q \in Period : AmendPeriod(p, q)
  BY <1>5, EnsuredTyped DEF AmendPeriod, Typed, PeriodStatus
<1>6. CASE \E kind \in SnapshotInput : CreateFilingSnapshot(p, kind)
  <2> PICK kind \in SnapshotInput : CreateFilingSnapshot(p, kind)
    BY <1>6
  <2> DEFINE Snapshot == [period : Period, kind : SnapshotKind]
  <2>a. snapshots \in Seq(Snapshot) /\ Len(snapshots) \in Nat
    BY DEF Typed
  <2>b. MaxSnapshots \in Nat /\ kind \in SnapshotKind
    BY LedgerAssumption DEF LedgerAssumption
  <2>c. Len(snapshots) < MaxSnapshots
    BY DEF CreateFilingSnapshot
  <2>1. SnapshotId \in 1..MaxSnapshots
    BY <2>a, <2>b, <2>c DEF SnapshotId
  <2>2. transactions' \in [Transaction -> Row]
    <3> SUFFICES ASSUME NEW t \in Transaction PROVE transactions'[t] \in Row
      BY DEF CreateFilingSnapshot
    <3>1. transactions[t] \in Row
      BY DEF Typed
    <3>2. transactions'[t] = transactions[t]
          \/ transactions'[t] = [transactions[t] EXCEPT !.status = "included_in_snapshot",
                                                        !.snapshot = SnapshotId]
      BY DEF CreateFilingSnapshot
    <3> QED BY <2>1, <3>1, <3>2 DEF Row, Status, Booked
  <2>3. snapshots' \in Seq(Snapshot) /\ Len(snapshots') <= MaxSnapshots
    <3>1. [period |-> p, kind |-> kind] \in Snapshot
      BY <2>b
    <3>2. snapshots' = Append(snapshots, [period |-> p, kind |-> kind])
      BY DEF CreateFilingSnapshot
    <3> HIDE DEF Snapshot
    <3> QED BY <2>a, <2>b, <2>c, <3>1, <3>2, AppendProperties
  <2> QED BY <2>2, <2>3 DEF CreateFilingSnapshot, Typed
<1> QED BY <1>1, <1>2, <1>3, <1>4, <1>5, <1>6

\* The handlers of documents.
LEMMA DocumentStepTyped == Typed /\ DocumentStep => Typed'
<1> SUFFICES ASSUME Typed, NEW d \in Document,
                    \/ \E p \in Period, s \in {"extracted", "needs_review"} : AddDocument(d, p, s)
                    \/ \E s \in Status : TransitionDocument(d, s)
                    \/ \E t \in Transaction, p \in Period, party \in Party :
                          RecordNonInvoiceExpense(d, t, p, party)
             PROVE  Typed'
  BY DEF DocumentStep
<1>1. CASE \E p \in Period, s \in {"extracted", "needs_review"} : AddDocument(d, p, s)
  <2> PICK p \in Period, s \in {"extracted", "needs_review"} : AddDocument(d, p, s)
    BY <1>1
  <2>1. s \in Status
    BY DEF Status, Unposted, InReview
  <2> QED BY <2>1, EnsuredTyped DEF AddDocument, Typed
<1>2. CASE \E s \in Status : TransitionDocument(d, s)
  BY <1>2 DEF TransitionDocument, Typed
<1>3. CASE \E t \in Transaction, p \in Period, party \in Party :
              RecordNonInvoiceExpense(d, t, p, party)
  <2> PICK t \in Transaction, p \in Period, party \in Party :
              RecordNonInvoiceExpense(d, t, p, party)
    BY <1>3
  <2> PICK date \in DaysOf[p] : transactions' = [transactions EXCEPT ![t] =
              [status |-> "approved", period |-> p, document |-> d, party |-> party,
               date |-> date, rate |-> "eur", snapshot |-> None,
               tax |-> [Untreated EXCEPT !["other"] = "reviewed"]]]
    BY DEF RecordNonInvoiceExpense
  <2>1. "approved" \in Status
    BY DEF Status, Unposted
  <2>2. date \in Day
    BY LedgerAssumption DEF LedgerAssumption
  <2>3. [Untreated EXCEPT !["other"] = "reviewed"] \in [TreatmentKind -> TaxCode]
    BY DEF Untreated, TreatmentKind, TaxCode
  <2>4. transactions' \in [Transaction -> Row]
    BY <2>1, <2>2, <2>3 DEF Typed, Row, Rate
  <2>5. documents' \in [Document -> [status : Status \cup {"absent"},
                                     period : Period \cup {None}]]
    BY <2>1 DEF RecordNonInvoiceExpense, Typed
  <2> QED BY <2>4, <2>5, EnsuredTyped DEF RecordNonInvoiceExpense, Typed
<1> QED BY <1>1, <1>2, <1>3

\* The handlers of transactions.
LEMMA TransactionStepTyped == Typed /\ TransactionStep => Typed'
<1> SUFFICES ASSUME Typed, NEW t \in Transaction,
                    \/ \E facts \in Facts : AddTransaction(t, facts)
                    \/ \E s \in Status : TransitionTransaction(t, s)
                    \/ \E party \in Party : SetCounterparty(t, party)
                    \/ \E rate \in RateInput : ApplyFx(t, rate)
                    \/ \E kind \in TreatmentInput, code \in TaxCode \ {"none"} :
                          AddTaxTreatment(t, kind, code)
             PROVE  Typed'
  BY DEF TransactionStep
<1>r. transactions[t] \in Row
  BY DEF Typed
<1>1. CASE \E facts \in Facts : AddTransaction(t, facts)
  <2> PICK facts \in Facts : AddTransaction(t, facts)
    BY <1>1
  <2>1. facts \in [period : Period, document : Document \cup {None},
                   party : Party \cup {None}, date : Day, rate : Rate]
    BY LedgerAssumption DEF LedgerAssumption, Facts
  <2>2. transactions' \in [Transaction -> Row]
    BY <1>r, <2>1 DEF AddTransaction, Typed, Row, Status, Unposted, InReview
  <2> QED BY <2>1, <2>2, EnsuredTyped DEF AddTransaction, Typed
<1>2. CASE \E s \in Status : TransitionTransaction(t, s)
  <2> PICK s \in Status : TransitionTransaction(t, s)
    BY <1>2
  <2>1. [transactions[t] EXCEPT !.status = s] \in Row
    BY <1>r DEF Row
  <2> QED BY <2>1 DEF TransitionTransaction, Typed
<1>3. CASE \E party \in Party : SetCounterparty(t, party)
  <2> PICK party \in Party : SetCounterparty(t, party)
    BY <1>3
  <2>1. [transactions[t] EXCEPT !.party = party] \in Row
    BY <1>r DEF Row
  <2> QED BY <2>1 DEF SetCounterparty, Typed
<1>4. CASE \E rate \in RateInput : ApplyFx(t, rate)
  <2> PICK rate \in RateInput : ApplyFx(t, rate)
    BY <1>4
  <2>1. rate \in Rate
    BY LedgerAssumption DEF LedgerAssumption
  <2>2. [transactions[t] EXCEPT !.rate = rate] \in Row
    BY <1>r, <2>1 DEF Row
  <2> QED BY <2>2 DEF ApplyFx, Typed
<1>5. CASE \E kind \in TreatmentInput, code \in TaxCode \ {"none"} :
              AddTaxTreatment(t, kind, code)
  <2> PICK kind \in TreatmentInput, code \in TaxCode \ {"none"} : AddTaxTreatment(t, kind, code)
    BY <1>5
  <2>1. kind \in TreatmentKind
    BY LedgerAssumption DEF LedgerAssumption
  <2>2. transactions' \in [Transaction -> Row]
    BY <1>r, <2>1 DEF AddTaxTreatment, Typed, Row
  <2> QED BY <2>2 DEF AddTaxTreatment, Typed
<1> QED BY <1>1, <1>2, <1>3, <1>4, <1>5

\* The books of a former provider.
LEMMA ImportStepTyped == Typed /\ ImportStep => Typed'
<1> SUFFICES ASSUME Typed, NEW p \in Period,
                    \/ \E d \in Imported : ImportDocument(d, p)
                    \/ \E t \in BookLine, d \in Imported, party \in Party, date \in DaysOf[p] :
                          ImportTransaction(t, d, p, party, date)
             PROVE  Typed'
  BY DEF ImportStep
<1>i. Imported \subseteq Document /\ BookLine \subseteq Transaction /\ DaysOf[p] \subseteq Day
  BY LedgerAssumption DEF LedgerAssumption
<1>s. "approved" \in Status
  BY DEF Status, Unposted
<1>1. CASE \E d \in Imported : ImportDocument(d, p)
  <2> PICK d \in Imported : ImportDocument(d, p)
    BY <1>1
  <2>1. documents' \in [Document -> [status : Status \cup {"absent"},
                                     period : Period \cup {None}]]
    BY <1>i, <1>s DEF ImportDocument, Typed
  <2> QED BY <2>1, EnsuredTyped DEF ImportDocument, Typed
<1>2. CASE \E t \in BookLine, d \in Imported, party \in Party, date \in DaysOf[p] :
              ImportTransaction(t, d, p, party, date)
  <2> PICK t \in BookLine, d \in Imported, party \in Party, date \in DaysOf[p] :
              ImportTransaction(t, d, p, party, date)
    BY <1>2
  <2>r. transactions[t] \in Row
    BY <1>i DEF Typed
  <2>1. transactions' \in [Transaction -> Row]
    BY <1>i, <1>s, <2>r DEF ImportTransaction, Typed, Row, Rate
  <2> QED BY <2>1, EnsuredTyped DEF ImportTransaction, Typed
<1> QED BY <1>1, <1>2

\* The handlers of validation issues.
LEMMA IssueStepTyped == Typed /\ IssueStep => Typed'
<1> SUFFICES ASSUME Typed, NEW i \in Issue,
                    \/ \E blocking \in BOOLEAN : AddIssue(i, blocking)
                    \/ \E s \in {"ignored", "resolved"} : SettleIssue(i, s)
             PROVE  Typed'
  BY DEF IssueStep
<1>1. CASE \E blocking \in BOOLEAN : AddIssue(i, blocking)
  <2>1. IssuePeriod[i] \in Period
    BY LedgerAssumption DEF LedgerAssumption
  <2> QED BY <1>1, <2>1, EnsuredTyped DEF AddIssue, Typed
<1>2. CASE \E s \in {"ignored", "resolved"} : SettleIssue(i, s)
  BY <1>2 DEF SettleIssue, Typed
<1> QED BY <1>1, <1>2

\* The review packet and the expense wizard.
LEMMA ReviewStepTyped == Typed /\ ReviewStep => Typed'
<1> SUFFICES ASSUME Typed, NEW t \in Transaction,
                    \/ \E S \in SUBSET Issue : RejectPacket(t, S)
                    \/ \E S \in SUBSET Issue, rate \in RateInput : ApprovePacket(t, S, rate)
                    \/ InvalidateApproval(t)
                    \/ \E p \in Period, date \in Day, party \in Party, rate \in {"eur", "official"} :
                          ConfirmExpense(t, p, date, party, rate)
             PROVE  Typed'
  BY DEF ReviewStep
<1> DEFINE d == transactions[t].document
<1>r. transactions[t] \in Row
  BY DEF Typed
<1>d. PacketOffered(t) => d \in Document
  BY <1>r DEF PacketOffered, HasDocument, Row
<1>s. {"approved", "rejected", "needs_review", "posted"} \subseteq Status
  BY DEF Status, Unposted, InReview, Booked, Terminal
<1>i. \A S : Resolved(S) \in [Issue -> [status : {"absent", "open", "ignored", "resolved"},
                                          blocking : BOOLEAN]]
  BY DEF Resolved, Typed
<1> HIDE DEF d
<1>1. CASE \E S \in SUBSET Issue : RejectPacket(t, S)
  <2> PICK S \in SUBSET Issue : RejectPacket(t, S)
    BY <1>1
  <2>1. transactions' \in [Transaction -> Row]
    BY <1>r, <1>s DEF RejectPacket, Typed, Row
  <2>2. documents' \in [Document -> [status : Status \cup {"absent"},
                                     period : Period \cup {None}]]
    BY <1>d, <1>s DEF RejectPacket, Typed, d
  <2>3. UNCHANGED <<periods, obligations, snapshots, today>> /\ \E I : issues' = Resolved(I)
    BY DEF RejectPacket
  <2> QED BY <2>1, <2>2, <2>3, <1>i DEF Typed
<1>2. CASE \E S \in SUBSET Issue, rate \in RateInput : ApprovePacket(t, S, rate)
  <2> PICK S \in SUBSET Issue, rate \in RateInput : ApprovePacket(t, S, rate)
    BY <1>2
  <2>1. rate \in Rate
    BY LedgerAssumption DEF LedgerAssumption
  <2>2. [transactions[t].tax EXCEPT !["invoice"] = "reviewed"] \in [TreatmentKind -> TaxCode]
    BY <1>r DEF Row, TaxCode
  <2>3. transactions' \in [Transaction -> Row]
    BY <1>r, <1>s, <2>1, <2>2 DEF ApprovePacket, Typed, Row
  <2>4. documents' \in [Document -> [status : Status \cup {"absent"},
                                     period : Period \cup {None}]]
    BY <1>d, <1>s DEF ApprovePacket, Typed, d
  <2>5. UNCHANGED <<periods, obligations, snapshots, today>> /\ \E I : issues' = Resolved(I)
    BY DEF ApprovePacket
  <2> QED BY <2>3, <2>4, <2>5, <1>i DEF Typed
<1>3. CASE InvalidateApproval(t)
  <2>1. d \in Document
    BY <1>3, <1>d DEF InvalidateApproval, Editable
  <2>2. transactions' \in [Transaction -> Row]
    BY <1>3, <1>r, <1>s DEF InvalidateApproval, Typed, Row
  <2>3. documents' \in [Document -> [status : Status \cup {"absent"},
                                     period : Period \cup {None}]]
    BY <1>3, <1>s, <2>1 DEF InvalidateApproval, Typed, d
  <2>4. UNCHANGED <<periods, issues, obligations, snapshots, today>>
    BY <1>3 DEF InvalidateApproval
  <2> QED BY <2>2, <2>3, <2>4 DEF Typed
<1>4. CASE \E p \in Period, date \in Day, party \in Party, rate \in {"eur", "official"} :
              ConfirmExpense(t, p, date, party, rate)
  <2> PICK p \in Period, date \in Day, party \in Party, rate \in {"eur", "official"} :
              ConfirmExpense(t, p, date, party, rate)
    BY <1>4
  <2>1. d \in Document
    BY <1>d DEF ConfirmExpense, Editable
  <2>2. [transactions[t].tax EXCEPT !["invoice"] = "reviewed"] \in [TreatmentKind -> TaxCode]
    BY <1>r DEF Row, TaxCode
  <2>3. transactions' \in [Transaction -> Row]
    BY <1>r, <1>s, <2>2 DEF ConfirmExpense, Typed, Row, Rate
  <2>4. documents' \in [Document -> [status : Status \cup {"absent"},
                                     period : Period \cup {None}]]
    BY <1>s, <2>1 DEF ConfirmExpense, Typed, d
  <2>5. UNCHANGED <<periods, obligations, snapshots, today>> /\ \E I : issues' = Resolved(I)
    BY DEF ConfirmExpense
  <2> QED BY <2>3, <2>4, <2>5, <1>i DEF Typed
<1> QED BY <1>1, <1>2, <1>3, <1>4

\* Every step keeps every table well formed.
LEMMA StepTyped == Typed /\ [Next]_vars => Typed'
<1> SUFFICES ASSUME Typed, [Next]_vars PROVE Typed'
  OBVIOUS
<1>1. CASE Tick
  BY <1>1, LedgerAssumption DEF LedgerAssumption, Tick, Typed, Day
<1>2. CASE UNCHANGED vars
  BY <1>2 DEF vars, Typed
<1> QED
  BY <1>1, <1>2, PeriodStepTyped, DocumentStepTyped, TransactionStepTyped,
     ImportStepTyped, IssueStepTyped, ReviewStepTyped DEF Next

-----------------------------------------------------------------------------
(* Closed quarters *)

\* A row that was never added is blank, so adding it takes nothing from a
\* quarter; every other row has a quarter.
Placed(row) == IF row.status = "absent" THEN row = NoRow ELSE row.period \in Period

RowsPlaced == \A t \in Transaction : Placed(transactions[t])

\* Every step keeps rows placed.
LEMMA PlacedStep == Typed /\ RowsPlaced /\ [Next]_vars => RowsPlaced'
<1> SUFFICES ASSUME Typed, RowsPlaced, [Next]_vars, NEW u \in Transaction
             PROVE  Placed(transactions'[u])
  BY DEF RowsPlaced
<1> USE DEF RowsPlaced, Placed, Exists
<1>s. "absent" \notin Status
  BY DEF Status, Unposted, InReview, Booked, Terminal
<1>r. transactions \in [Transaction -> Row]
  BY DEF Typed
<1>0. CASE UNCHANGED transactions
  BY <1>0
<1>1. CASE PeriodStep
  <2>1. CASE \E p \in Period, kind \in SnapshotInput : CreateFilingSnapshot(p, kind)
    <3> PICK p \in Period, kind \in SnapshotInput : CreateFilingSnapshot(p, kind)
      BY <2>1
    <3>1. \/ transactions'[u] = transactions[u]
          \/ /\ transactions[u].period = p
             /\ transactions'[u] = [transactions[u] EXCEPT !.status = "included_in_snapshot",
                                                           !.snapshot = SnapshotId]
      BY <1>r DEF CreateFilingSnapshot
    <3> QED BY <3>1, <1>r DEF Row
  <2> QED
    BY <1>0, <1>1, <2>1 DEF PeriodStep, EnsurePeriod, OpenPeriod, AddObligation, ClosePeriod,
                          AmendPeriod
<1>2. CASE DocumentStep
  BY <1>0, <1>2, <1>r DEF DocumentStep, AddDocument, TransitionDocument,
                          RecordNonInvoiceExpense
<1>3. CASE TransactionStep
  <2> PICK t \in Transaction :
          \/ \E facts \in Facts : AddTransaction(t, facts)
          \/ \E s \in Status : TransitionTransaction(t, s)
          \/ \E party \in Party : SetCounterparty(t, party)
          \/ \E rate \in RateInput : ApplyFx(t, rate)
          \/ \E kind \in TreatmentInput, code \in TaxCode \ {"none"} :
                AddTaxTreatment(t, kind, code)
    BY <1>3 DEF TransactionStep
  <2>1. CASE \E facts \in Facts : AddTransaction(t, facts)
    <3> PICK facts \in Facts : AddTransaction(t, facts)
      BY <2>1
    <3>1. transactions' = [transactions EXCEPT ![t] = transactions'[t]]
          /\ transactions'[t].status = "received" /\ transactions'[t].period = facts.period
      BY <1>r DEF AddTransaction
    <3>2. facts.period \in Period
      BY DEF Facts
    <3> QED BY <3>1, <3>2, <1>r
  <2>2. CASE \E s \in Status : TransitionTransaction(t, s)
    BY <2>2, <1>r, <1>s DEF TransitionTransaction, Row
  <2>3. CASE \E party \in Party : SetCounterparty(t, party)
    BY <2>3, <1>r, <1>s DEF SetCounterparty, Row, Status
  <2>4. CASE \E rate \in RateInput : ApplyFx(t, rate)
    BY <2>4, <1>r, <1>s DEF ApplyFx, Row, Status
  <2>5. CASE \E kind \in TreatmentInput, code \in TaxCode \ {"none"} :
                AddTaxTreatment(t, kind, code)
    BY <2>5, <1>r DEF AddTaxTreatment, Row
  <2> QED BY <2>1, <2>2, <2>3, <2>4, <2>5
<1>4. CASE IssueStep
  BY <1>0, <1>4 DEF IssueStep, AddIssue, SettleIssue
<1>5. CASE ReviewStep
  <2> PICK t \in Transaction :
          \/ \E S \in SUBSET Issue : RejectPacket(t, S)
          \/ \E S \in SUBSET Issue, rate \in RateInput : ApprovePacket(t, S, rate)
          \/ InvalidateApproval(t)
          \/ \E p \in Period, date \in Day, party \in Party, rate \in {"eur", "official"} :
                ConfirmExpense(t, p, date, party, rate)
    BY <1>5 DEF ReviewStep
  <2>r. transactions[t] \in Row
    BY <1>r
  <2>1. CASE \E S \in SUBSET Issue : RejectPacket(t, S)
    <3> PICK S \in SUBSET Issue : RejectPacket(t, S)
      BY <2>1
    <3>1. transactions' = [transactions EXCEPT ![t] = transactions'[t]]
          /\ transactions'[t].status = "rejected"
          /\ transactions'[t].period = transactions[t].period
          /\ Exists(t)
      BY <2>r, <1>r DEF RejectPacket, PacketOffered, Row
    <3> QED BY <3>1, <1>r
  <2>2. CASE \E S \in SUBSET Issue, rate \in RateInput : ApprovePacket(t, S, rate)
    <3> PICK S \in SUBSET Issue, rate \in RateInput : ApprovePacket(t, S, rate)
      BY <2>2
    <3>1. transactions' = [transactions EXCEPT ![t] = transactions'[t]]
          /\ transactions'[t].status = "approved"
          /\ transactions'[t].period = transactions[t].period
          /\ Exists(t)
      BY <2>r, <1>r DEF ApprovePacket, PacketOffered, Row
    <3> QED BY <3>1, <1>r
  <2>3. CASE InvalidateApproval(t)
    <3>1. transactions' = [transactions EXCEPT ![t] = transactions'[t]]
          /\ transactions'[t].status = "needs_review"
          /\ transactions'[t].period = transactions[t].period
          /\ transactions[t].status = "approved"
      BY <2>3, <2>r, <1>r DEF InvalidateApproval, Row
    <3> QED BY <3>1, <1>r
  <2>4. CASE \E p \in Period, date \in Day, party \in Party, rate \in {"eur", "official"} :
                ConfirmExpense(t, p, date, party, rate)
    <3> PICK p \in Period, date \in Day, party \in Party, rate \in {"eur", "official"} :
                ConfirmExpense(t, p, date, party, rate)
      BY <2>4
    <3>1. transactions' = [transactions EXCEPT ![t] = transactions'[t]]
          /\ transactions'[t].status = "posted" /\ transactions'[t].period = p
      BY <2>r, <1>r DEF ConfirmExpense, Row
    <3> QED BY <3>1, <1>r
  <2> QED BY <2>1, <2>2, <2>3, <2>4
<1>6. CASE ImportStep
  <2>1. CASE \E p \in Period : \E t \in BookLine, d \in Imported, party \in Party, date \in DaysOf[p] :
                ImportTransaction(t, d, p, party, date)
    <3> PICK p \in Period : \E t \in BookLine, d \in Imported, party \in Party, date \in DaysOf[p] :
                ImportTransaction(t, d, p, party, date)
      BY <2>1
    <3> PICK t \in BookLine, d \in Imported, party \in Party, date \in DaysOf[p] :
                ImportTransaction(t, d, p, party, date)
      OBVIOUS
    <3>1. BookLine \subseteq Transaction
      BY LedgerAssumption DEF LedgerAssumption
    <3>2. transactions' = [transactions EXCEPT ![t] = transactions'[t]]
          /\ transactions'[t].period = p
          /\ transactions'[t].status \in {"approved"} \cup Booked
      BY <1>r, <3>1 DEF ImportTransaction, StaysBooked
    <3>3. "absent" \notin {"approved"} \cup Booked
      BY DEF Booked
    <3> QED BY <3>1, <3>2, <3>3, <1>r
  <2> QED BY <1>0, <1>6, <2>1 DEF ImportStep, ImportDocument
<1> QED BY <1>0, <1>1, <1>2, <1>3, <1>4, <1>5, <1>6 DEF Next, Tick, vars

-----------------------------------------------------------------------------
(* What one step may do to one row *)

\* The row is filed: a final snapshot claims it.
FiledRow(u) ==
    /\ CreateFilingSnapshot(transactions[u].period, "final")
    /\ transactions[u].status = "posted"
    /\ transactions'[u] = [transactions[u] EXCEPT !.status = "included_in_snapshot",
                                                 !.snapshot = SnapshotId]

\* The row is edited: between mutable quarters, the facts of a settled row only
\* as a corrected book line, and into the books only past the posting checks.
EditedRow(u) ==
    LET old == transactions[u]
        new == transactions'[u]
    IN  /\ old.period \in Period => Mutable(old.period)
        /\ new.period \in Period /\ Mutable(new.period)
        /\ new.snapshot = old.snapshot
        /\ old.status \in Booked \cup Terminal => FactsOf(new) = FactsOf(old) \/ Corrected(u)
        /\ new.status \in Booked /\ old.status \notin Booked =>
              /\ new.date <= today
              /\ new.rate \in {"eur", "official", "derived"}
              /\ new.document # None =>
                    documents'[new.document].status \in {"approved"} \cup Booked

RowStep(u) == transactions'[u] = transactions[u] \/ FiledRow(u) \/ EditedRow(u)

\* The lifecycle enters a filing only from the books and never goes back to review.
LEMMA CanMoveFacts ==
    ASSUME NEW from \in Status, NEW to \in Status, CanMove(from, to)
    PROVE  /\ to = "included_in_snapshot" => from \in Booked
           /\ to \in InReview => from \in InReview
BY DEF CanMove, Successors, Status, Unposted, InReview, Booked, Terminal

\* The other quarters keep their status when one is first named.
LEMMA EnsuredKeeps ==
    ASSUME Typed, NEW p \in Period, NEW q \in Period
    PROVE  /\ Closed(q) => Ensured(p)[q] = periods[q]
           /\ Ensured(p)[q].amendedIn = periods[q].amendedIn
           /\ Ensured(p)[q].status \in {"closed", "amended"} => Closed(q)
BY DEF Ensured, Typed, Closed, PeriodStatus

\* Every handler does one of these to each row.
LEMMA RowsStep ==
    Typed /\ RowsPlaced /\ [Next]_vars => \A u \in Transaction : RowStep(u)
<1> SUFFICES ASSUME Typed, RowsPlaced, [Next]_vars, NEW u \in Transaction
             PROVE  RowStep(u)
  OBVIOUS
<1>r. /\ transactions \in [Transaction -> Row] /\ transactions[u] \in Row
      /\ documents \in [Document -> [status : Status \cup {"absent"},
                                     period : Period \cup {None}]]
  BY DEF Typed
<1>n. None \notin Period \cup Document
  BY LedgerAssumption DEF LedgerAssumption
<1>0. CASE UNCHANGED transactions
  BY <1>0 DEF RowStep
<1>1. CASE PeriodStep
  <2>1. CASE \E p \in Period, kind \in SnapshotInput : CreateFilingSnapshot(p, kind)
    <3> PICK p \in Period, kind \in SnapshotInput : CreateFilingSnapshot(p, kind)
      BY <2>1
    <3>1. \/ transactions'[u] = transactions[u]
          \/ /\ kind = "final" /\ transactions[u].period = p /\ transactions[u].status = "posted"
             /\ transactions'[u] = [transactions[u] EXCEPT !.status = "included_in_snapshot",
                                                           !.snapshot = SnapshotId]
      BY <1>r DEF CreateFilingSnapshot
    <3> QED BY <3>1 DEF RowStep, FiledRow
  <2> QED
    BY <1>0, <1>1, <2>1 DEF PeriodStep, EnsurePeriod, OpenPeriod, AddObligation, ClosePeriod,
                          AmendPeriod
<1>2. CASE DocumentStep
  <2> PICK d \in Document :
          \/ \E p \in Period, s \in {"extracted", "needs_review"} : AddDocument(d, p, s)
          \/ \E s \in Status : TransitionDocument(d, s)
          \/ \E t \in Transaction, p \in Period, party \in Party :
                RecordNonInvoiceExpense(d, t, p, party)
    BY <1>2 DEF DocumentStep
  <2>1. CASE \E t \in Transaction, p \in Period, party \in Party :
                RecordNonInvoiceExpense(d, t, p, party)
    <3> PICK t \in Transaction, p \in Period, party \in Party :
                RecordNonInvoiceExpense(d, t, p, party)
      BY <2>1
    <3> PICK date \in DaysOf[p] : transactions' = [transactions EXCEPT ![t] =
              [status |-> "approved", period |-> p, document |-> d, party |-> party,
               date |-> date, rate |-> "eur", snapshot |-> None,
               tax |-> [Untreated EXCEPT !["other"] = "reviewed"]]]
      BY DEF RecordNonInvoiceExpense
    <3>1. CASE u # t
      BY <1>r, <3>1 DEF RowStep
    <3>2. CASE u = t
      <4>1. transactions[u] = NoRow /\ Mutable(p)
        BY <3>2 DEF RecordNonInvoiceExpense, RowsPlaced, Placed, Exists
      <4>2. /\ transactions'[u].status = "approved" /\ transactions'[u].period = p
            /\ transactions'[u].snapshot = None
        BY <1>r, <3>2
      <4>3. "absent" \notin Booked \cup Terminal /\ "approved" \notin Booked
        BY DEF Booked, Terminal
      <4> QED BY <1>n, <4>1, <4>2, <4>3 DEF RowStep, EditedRow, NoRow
    <3> QED BY <3>1, <3>2
  <2> QED BY <1>0, <2>1 DEF AddDocument, TransitionDocument
<1>3. CASE TransactionStep
  <2> PICK t \in Transaction :
          \/ \E facts \in Facts : AddTransaction(t, facts)
          \/ \E s \in Status : TransitionTransaction(t, s)
          \/ \E party \in Party : SetCounterparty(t, party)
          \/ \E rate \in RateInput : ApplyFx(t, rate)
          \/ \E kind \in TreatmentInput, code \in TaxCode \ {"none"} :
                AddTaxTreatment(t, kind, code)
    BY <1>3 DEF TransactionStep
  <2>0. \A v \in Transaction : v # t => transactions'[v] = transactions[v]
    BY <1>r DEF AddTransaction, TransitionTransaction, SetCounterparty, ApplyFx, AddTaxTreatment
  <2>a. CASE u # t
    BY <2>0, <2>a DEF RowStep
  <2>b. CASE u = t
    <3>e. Exists(u) => transactions[u].status \in Status
      BY <1>r DEF Exists, Row
    <3>1. CASE \E facts \in Facts : AddTransaction(t, facts)
      <4> PICK facts \in Facts : AddTransaction(t, facts)
        BY <3>1
      <4>1. /\ transactions'[u].status = "received"
            /\ transactions'[u].period = facts.period
            /\ transactions'[u].snapshot = transactions[u].snapshot
        BY <1>r, <2>b DEF AddTransaction
      <4>2. transactions[u].status \in {"absent", "received"}
            /\ (transactions[u].period \in Period => Mutable(transactions[u].period))
        BY <1>n, <2>b DEF AddTransaction, RowsPlaced, Placed, Exists, NoRow
      <4>3. facts.period \in Period /\ Mutable(facts.period)
        BY DEF AddTransaction, Facts
      <4> QED BY <4>1, <4>2, <4>3 DEF RowStep, EditedRow, Booked, Terminal
    <3> SUFFICES ASSUME ~ \E facts \in Facts : AddTransaction(t, facts) PROVE RowStep(u)
      BY <3>1
    <3>f. Exists(u) /\ Mutable(transactions[u].period)
      BY <2>b DEF TransitionTransaction, SetCounterparty, ApplyFx, AddTaxTreatment, Exists,
                  Unposted, InReview
    <3>p. transactions[u].period \in Period
      BY <3>f DEF RowsPlaced, Placed, Exists
    <3>2. CASE \E s \in Status : TransitionTransaction(t, s)
      <4> PICK s \in Status : TransitionTransaction(t, s)
        BY <3>2
      <4>1. transactions'[u] = [transactions[u] EXCEPT !.status = s]
        BY <1>r, <2>b DEF TransitionTransaction
      <4>2. /\ FactsOf(transactions'[u]) = FactsOf(transactions[u])
            /\ transactions'[u].snapshot = transactions[u].snapshot
            /\ transactions'[u].status = s /\ transactions'[u].period = transactions[u].period
            /\ transactions'[u].date = transactions[u].date
            /\ transactions'[u].rate = transactions[u].rate
            /\ transactions'[u].document = transactions[u].document
        BY <1>r, <4>1 DEF FactsOf, Row
      <4>3. CASE s \in Booked /\ transactions[u].status \notin Booked
        <5>1. s = "posted" /\ Postable(u) /\ documents' = documents
          BY <2>b, <3>e, <3>f, <4>3, CanMoveFacts DEF TransitionTransaction, Booked
        <5>2. transactions[u].rate \in {"eur", "official", "derived"}
          BY <1>r, <5>1 DEF Postable, Row, Rate
        <5>3. transactions[u].document # None =>
                documents[transactions[u].document].status \in {"approved"} \cup Booked
          BY <5>1 DEF Postable, DocumentReady, HasDocument
        <5> QED
          BY <3>f, <3>p, <4>2, <4>3, <5>1, <5>2, <5>3 DEF RowStep, EditedRow, Postable
      <4> QED BY <3>f, <3>p, <4>2, <4>3 DEF RowStep, EditedRow
    <3>3. CASE \E party \in Party : SetCounterparty(t, party)
      <4> PICK party \in Party : SetCounterparty(t, party)
        BY <3>3
      <4>1. /\ transactions'[u].period = transactions[u].period
            /\ transactions'[u].status = transactions[u].status
            /\ transactions'[u].snapshot = transactions[u].snapshot
        BY <1>r, <2>b DEF SetCounterparty, Row
      <4> QED
        BY <2>b, <3>f, <3>p, <4>1
        DEF RowStep, EditedRow, SetCounterparty, Unposted, InReview, Booked, Terminal
    <3>4. CASE \E rate \in RateInput : ApplyFx(t, rate)
      <4> PICK rate \in RateInput : ApplyFx(t, rate)
        BY <3>4
      <4>1. /\ transactions'[u].period = transactions[u].period
            /\ transactions'[u].status = transactions[u].status
            /\ transactions'[u].snapshot = transactions[u].snapshot
        BY <1>r, <2>b DEF ApplyFx, Row
      <4> QED
        BY <2>b, <3>f, <3>p, <4>1
        DEF RowStep, EditedRow, ApplyFx, Unposted, InReview, Booked, Terminal
    <3>5. CASE \E kind \in TreatmentInput, code \in TaxCode \ {"none"} :
                AddTaxTreatment(t, kind, code)
      <4> PICK kind \in TreatmentInput, code \in TaxCode \ {"none"} :
                AddTaxTreatment(t, kind, code)
        BY <3>5
      <4>1. /\ transactions'[u].period = transactions[u].period
            /\ transactions'[u].status = transactions[u].status
            /\ transactions'[u].snapshot = transactions[u].snapshot
            /\ FactsOf(transactions'[u]) = FactsOf(transactions[u])
        BY <1>r, <2>b DEF AddTaxTreatment, Row, FactsOf
      <4> QED BY <3>f, <3>p, <4>1 DEF RowStep, EditedRow
    <3> QED BY <3>2, <3>3, <3>4, <3>5
  <2> QED BY <2>a, <2>b
<1>4. CASE IssueStep
  BY <1>0, <1>4 DEF IssueStep, AddIssue, SettleIssue
<1>5. CASE ReviewStep
  <2> PICK t \in Transaction :
          \/ \E S \in SUBSET Issue : RejectPacket(t, S)
          \/ \E S \in SUBSET Issue, rate \in RateInput : ApprovePacket(t, S, rate)
          \/ InvalidateApproval(t)
          \/ \E p \in Period, date \in Day, party \in Party, rate \in {"eur", "official"} :
                ConfirmExpense(t, p, date, party, rate)
    BY <1>5 DEF ReviewStep
  <2>0. \A v \in Transaction : v # t => transactions'[v] = transactions[v]
    BY <1>r DEF RejectPacket, ApprovePacket, InvalidateApproval, ConfirmExpense
  <2>a. CASE u # t
    BY <2>0, <2>a DEF RowStep
  <2>b. CASE u = t
    <3>f. Open(transactions[u].period) /\ Exists(u) /\ transactions[u].document # None
      BY <2>b DEF RejectPacket, ApprovePacket, InvalidateApproval, ConfirmExpense, Editable,
                  PacketOffered, HasDocument
    <3>g. Mutable(transactions[u].period)
      BY <3>f DEF Open, Mutable, Closed
    <3>p. transactions[u].period \in Period
      BY <3>f DEF RowsPlaced, Placed, Exists
    <3>d. transactions[u].document \in Document
      BY <1>r, <3>f DEF Row
    <3>1. CASE \E S \in SUBSET Issue : RejectPacket(t, S)
      <4> PICK S \in SUBSET Issue : RejectPacket(t, S)
        BY <3>1
      <4>1. /\ transactions'[u].period = transactions[u].period
            /\ transactions'[u].status = "rejected"
            /\ transactions'[u].snapshot = transactions[u].snapshot
        BY <1>r, <2>b DEF RejectPacket, Row
      <4>2. transactions[u].status \notin Booked \cup Terminal
        BY <2>b DEF RejectPacket, PacketCanMove
      <4> QED BY <3>p, <3>g, <4>1, <4>2 DEF RowStep, EditedRow, Booked
    <3>2. CASE \E S \in SUBSET Issue, rate \in RateInput : ApprovePacket(t, S, rate)
      <4> PICK S \in SUBSET Issue, rate \in RateInput : ApprovePacket(t, S, rate)
        BY <3>2
      <4>1. /\ transactions'[u].period = transactions[u].period
            /\ transactions'[u].status = "approved"
            /\ transactions'[u].snapshot = transactions[u].snapshot
        BY <1>r, <2>b DEF ApprovePacket, Row
      <4>2. transactions[u].status \notin Booked \cup Terminal
        BY <2>b DEF ApprovePacket, PacketCanMove
      <4> QED BY <3>p, <3>g, <4>1, <4>2 DEF RowStep, EditedRow, Booked
    <3>3. CASE InvalidateApproval(t)
      <4>1. /\ transactions'[u].period = transactions[u].period
            /\ transactions'[u].status = "needs_review"
            /\ transactions'[u].snapshot = transactions[u].snapshot
        BY <1>r, <2>b, <3>3 DEF InvalidateApproval, Row
      <4>2. transactions[u].status = "approved"
        BY <2>b, <3>3 DEF InvalidateApproval
      <4> QED BY <3>p, <3>g, <4>1, <4>2 DEF RowStep, EditedRow, Booked, Terminal
    <3>4. CASE \E p \in Period, date \in Day, party \in Party, rate \in {"eur", "official"} :
                ConfirmExpense(t, p, date, party, rate)
      <4> PICK p \in Period, date \in Day, party \in Party, rate \in {"eur", "official"} :
                ConfirmExpense(t, p, date, party, rate)
        BY <3>4
      <4>1. /\ transactions'[u].period = p /\ Mutable(p) /\ date <= today
            /\ transactions'[u].date = date /\ transactions'[u].rate = rate
            /\ transactions'[u].document = transactions[u].document
            /\ transactions'[u].snapshot = transactions[u].snapshot
        BY <1>r, <2>b DEF ConfirmExpense, Row, Open, Mutable, Closed
      <4>2. transactions[u].status \notin Booked \cup Terminal
        BY <2>b DEF ConfirmExpense, PacketCanMove
      <4>3. documents'[transactions[u].document].status = "approved"
        BY <1>r, <2>b, <3>d DEF ConfirmExpense
      <4> QED BY <3>p, <3>g, <4>1, <4>2, <4>3 DEF RowStep, EditedRow
    <3> QED BY <3>1, <3>2, <3>3, <3>4
  <2> QED BY <2>a, <2>b
<1>6. CASE ImportStep
  <2>1. CASE \E p \in Period : \E t \in BookLine, d \in Imported, party \in Party, date \in DaysOf[p] :
                ImportTransaction(t, d, p, party, date)
    <3> PICK p \in Period : \E t \in BookLine, d \in Imported, party \in Party, date \in DaysOf[p] :
                ImportTransaction(t, d, p, party, date)
      BY <2>1
    <3> PICK t \in BookLine, d \in Imported, party \in Party, date \in DaysOf[p] :
                ImportTransaction(t, d, p, party, date)
      OBVIOUS
    <3>1. CASE u # t
      BY <1>r, <3>1 DEF RowStep, ImportTransaction
    <3>2. CASE u = t
      <4>1. /\ transactions'[u].period = p /\ transactions'[u].document = d
            /\ transactions'[u].rate = "eur"
            /\ transactions'[u].snapshot = transactions[u].snapshot
            /\ transactions'[u].status =
                  IF StaysBooked(u) THEN transactions[u].status ELSE "approved"
        BY <1>r, <3>2 DEF ImportTransaction
      <4>2. Mutable(p)
        BY DEF ImportTransaction
      <4>3. CASE Exists(u)
        <5>1. Mutable(transactions[u].period)
              /\ (StaysBooked(u) \/ CanMove(transactions[u].status, "approved"))
          BY <3>2, <4>3 DEF ImportTransaction, LineWritable
        <5>2. CASE StaysBooked(u)
          <6>1. Corrected(u)
            BY <3>2, <4>1, <4>2, <5>1, <5>2 DEF Corrected, StaysBooked
          <6> QED BY <4>1, <4>2, <5>1, <5>2, <6>1 DEF RowStep, EditedRow, StaysBooked
        <5>3. CASE ~StaysBooked(u)
          <6>1. transactions[u].status \notin Booked \cup Terminal
            BY <1>r, <4>3, <5>1, <5>3
            DEF CanMove, Successors, Exists, Row, Status, Unposted, InReview, Booked, Terminal
          <6> QED BY <4>1, <4>2, <5>1, <5>3, <6>1 DEF RowStep, EditedRow, Booked
        <5> QED BY <5>2, <5>3
      <4>4. CASE ~Exists(u)
        <5>1. transactions[u].period = None /\ transactions[u].status = "absent"
          BY <4>4 DEF RowsPlaced, Placed, Exists, NoRow
        <5>2. "absent" \notin Booked \cup Terminal /\ "approved" \notin Booked
          BY DEF Booked, Terminal
        <5> QED BY <1>n, <4>1, <4>2, <5>1, <5>2 DEF RowStep, EditedRow, StaysBooked
      <4> QED BY <4>3, <4>4
    <3> QED BY <3>1, <3>2
  <2> QED BY <1>0, <1>6, <2>1 DEF ImportStep, ImportDocument
<1> QED BY <1>0, <1>1, <1>2, <1>3, <1>4, <1>5, <1>6 DEF Next, Tick, vars

-----------------------------------------------------------------------------
(* The safety theorems *)

\* The invariant under every theorem of this module.
Shape == Typed /\ RowsPlaced

\* Tables keep their shape and every stored row its quarter, whatever handler runs.
LEMMA ShapeInvariant == Spec => []Shape
<1>1. Init => Shape
  BY InitTyped DEF Init, Shape, RowsPlaced, Placed, NoRow
<1>2. Shape /\ [Next]_vars => Shape'
  BY StepTyped, PlacedStep DEF Shape
<1> QED BY <1>1, <1>2, PTL DEF Spec

-----------------------------------------------------------------------------
(* Quarters *)

\* What one step may do to a quarter: nothing, open it, close it or amend it.
PeriodMove(q) ==
    \/ periods'[q] = periods[q]
    \/ /\ periods[q].status = "missing"
       /\ periods'[q] = [periods[q] EXCEPT !.status = "open"]
    \/ \E allowHistory \in BOOLEAN : ClosePeriod(q, allowHistory)
    \/ \E r \in Period : AmendPeriod(q, r)

\* ensure_period opens a missing quarter and leaves the others alone.
LEMMA EnsuredMove ==
    ASSUME Typed, NEW p \in Period, NEW q \in Period
    PROVE  \/ Ensured(p)[q] = periods[q]
           \/ /\ periods[q].status = "missing"
              /\ Ensured(p)[q] = [periods[q] EXCEPT !.status = "open"]
BY DEF Ensured, Typed

\* Every handler does at most one such thing to each quarter.
LEMMA PeriodsMove == Typed /\ [Next]_vars => \A q \in Period : PeriodMove(q)
<1> SUFFICES ASSUME Typed, [Next]_vars, NEW q \in Period PROVE PeriodMove(q)
  OBVIOUS
<1>t. periods \in [Period -> [status : PeriodStatus, amendedIn : Period \cup {None}]]
  BY DEF Typed
<1>0. CASE UNCHANGED periods
  BY <1>0 DEF PeriodMove
<1>e. ASSUME NEW p \in Period, periods' = Ensured(p) PROVE PeriodMove(q)
  BY <1>e, EnsuredMove DEF PeriodMove
<1>1. CASE PeriodStep
  <2> PICK p \in Period :
        \/ EnsurePeriod(p)
        \/ OpenPeriod(p)
        \/ \E f \in Form, s \in Standing \ {"absent"} : AddObligation(p, f, s)
        \/ \E allowHistory \in BOOLEAN : ClosePeriod(p, allowHistory)
        \/ \E r \in Period : AmendPeriod(p, r)
        \/ \E kind \in SnapshotInput : CreateFilingSnapshot(p, kind)
    BY <1>1 DEF PeriodStep
  <2>1. CASE \E allowHistory \in BOOLEAN : ClosePeriod(p, allowHistory)
    BY <1>t, <2>1 DEF ClosePeriod, PeriodMove
  <2>2. CASE \E r \in Period : AmendPeriod(p, r)
    <3> PICK r \in Period : AmendPeriod(p, r)
      BY <2>2
    <3>1. Ensured(r) \in [Period -> [status : PeriodStatus, amendedIn : Period \cup {None}]]
      BY EnsuredTyped
    <3>2. CASE q # p
      <4>1. periods'[q] = Ensured(r)[q]
        BY <3>1, <3>2 DEF AmendPeriod
      <4> QED BY <4>1, EnsuredMove DEF PeriodMove
    <3>3. CASE q = p
      BY <3>3 DEF PeriodMove
    <3> QED BY <3>2, <3>3
  <2> QED
    BY <1>0, <1>e, <2>1, <2>2 DEF EnsurePeriod, OpenPeriod, AddObligation, CreateFilingSnapshot
<1>2. CASE DocumentStep
  BY <1>0, <1>2, <1>e DEF DocumentStep, AddDocument, TransitionDocument,
                          RecordNonInvoiceExpense
<1>3. CASE TransactionStep
  BY <1>0, <1>3, <1>e DEF TransactionStep, AddTransaction, TransitionTransaction,
                          SetCounterparty, ApplyFx, AddTaxTreatment, Facts
<1>4. CASE IssueStep
  <2>1. \A i \in Issue : IssuePeriod[i] \in Period
    BY LedgerAssumption DEF LedgerAssumption
  <2> QED BY <1>0, <1>4, <1>e, <2>1 DEF IssueStep, AddIssue, SettleIssue
<1>5. CASE ReviewStep
  <2>1. \A t, S : RejectPacket(t, S) => UNCHANGED periods
    BY DEF RejectPacket
  <2>2. \A t, S, rate : ApprovePacket(t, S, rate) => UNCHANGED periods
    BY DEF ApprovePacket
  <2>3. \A t : InvalidateApproval(t) => UNCHANGED periods
    BY DEF InvalidateApproval
  <2>4. \A t, p, date, party, rate : ConfirmExpense(t, p, date, party, rate) => UNCHANGED periods
    BY DEF ConfirmExpense
  <2> QED BY <1>0, <1>5, <2>1, <2>2, <2>3, <2>4 DEF ReviewStep
<1>6. CASE ImportStep
  BY <1>0, <1>6, <1>e DEF ImportStep, ImportDocument, ImportTransaction
<1> QED BY <1>0, <1>1, <1>2, <1>3, <1>4, <1>5, <1>6 DEF Next, Tick, vars

\* NoReopen, one step of it: a closed quarter stays closed, an amended one as it is.
LEMMA StaysClosed ==
    ASSUME Typed, [Next]_vars, NEW p \in Period, Closed(p)
    PROVE  Closed(p)' /\ (periods[p].status = "amended" => periods'[p] = periods[p])
<1>t. periods[p] \in [status : PeriodStatus, amendedIn : Period \cup {None}]
  BY DEF Typed
<1>1. PeriodMove(p)
  BY PeriodsMove
<1>2. CASE \E r \in Period : AmendPeriod(p, r)
  <2> PICK r \in Period : AmendPeriod(p, r)
    BY <1>2
  <2>1. Ensured(r) \in [Period -> [status : PeriodStatus, amendedIn : Period \cup {None}]]
    BY EnsuredTyped
  <2> QED BY <2>1 DEF AmendPeriod, Amendable, Closed
<1> QED BY <1>1, <1>2, <1>t DEF PeriodMove, ClosePeriod, Open, Closed

\* NoReopen: a quarter that was closed is never open again, and an amended
\* quarter keeps the amendment it was given.
THEOREM NeverReopened == Spec => NoReopen
<1>1. Shape /\ [Next]_vars =>
        [\A p \in Period : Closed(p) => Closed(p)' /\ (periods[p].status = "amended"
                                                        => periods'[p] = periods[p])]_vars
  BY StaysClosed DEF Shape
<1> QED BY <1>1, ShapeInvariant, PTL DEF Spec, NoReopen

\* Only an amended quarter names another, so a new amendment ends every chain it joins.
Acyclic ==
    /\ AmendmentAcyclic
    /\ \A p \in Period : periods[p].amendedIn # None => periods[p].status = "amended"

\* AmendmentAcyclic: corrections of corrections never lead back to a quarter.
THEOREM CorrectionsGoForward == Spec => []AmendmentAcyclic
<1>n. None \notin Period
  BY LedgerAssumption DEF LedgerAssumption
<1>1. Init => Acyclic
  <2> SUFFICES ASSUME Init PROVE Acyclic
    OBVIOUS
  <2>1. \A p \in Period : periods[p].amendedIn = None
    BY DEF Init
  <2>2. ASSUME NEW S \in (SUBSET Period) \ {{}} PROVE \E p \in S : periods[p].amendedIn \notin S
    <3> PICK p \in S : TRUE
      OBVIOUS
    <3> QED BY <1>n, <2>1
  <2> QED BY <2>1, <2>2 DEF Acyclic, AmendmentAcyclic
<1>2. Shape /\ Acyclic /\ [Next]_vars => Acyclic'
  <2> SUFFICES ASSUME Typed, Acyclic, [Next]_vars PROVE Acyclic'
    BY DEF Shape
  <2>m. \A q \in Period : PeriodMove(q)
    BY PeriodsMove
  <2>t. periods \in [Period -> [status : PeriodStatus, amendedIn : Period \cup {None}]]
    BY DEF Typed
  <2>1. CASE \E p, q \in Period : AmendPeriod(p, q)
    <3> PICK p \in Period, q \in Period : AmendPeriod(p, q)
      BY <2>1
    <3>1. Ensured(q) \in [Period -> [status : PeriodStatus, amendedIn : Period \cup {None}]]
      BY EnsuredTyped
    <3>2. periods'[p] = [status |-> "amended", amendedIn |-> q]
      BY <3>1 DEF AmendPeriod
    <3>3. \A r \in Period : r # p => periods'[r].amendedIn = periods[r].amendedIn
                                     /\ (periods[r].status = "amended" => periods'[r] = periods[r])
      BY <3>1, <2>t DEF AmendPeriod, Ensured
    <3>4. p # q /\ periods[q].amendedIn = None
      BY DEF AmendPeriod, Amendable, Mutable, Closed, Acyclic
    <3>5. ASSUME NEW S \in (SUBSET Period) \ {{}} PROVE \E r \in S : periods'[r].amendedIn \notin S
      <4>1. CASE p \notin S
        BY <3>3, <4>1 DEF Acyclic, AmendmentAcyclic
      <4>2. CASE p \in S /\ q \in S
        BY <1>n, <3>3, <3>4, <4>2
      <4>3. CASE p \in S /\ q \notin S
        BY <3>2, <4>3
      <4> QED BY <4>1, <4>2, <4>3
    <3>6. ASSUME NEW r \in Period, periods'[r].amendedIn # None
          PROVE  periods'[r].status = "amended"
      BY <3>2, <3>3, <3>6 DEF Acyclic
    <3> QED BY <3>5, <3>6 DEF Acyclic, AmendmentAcyclic
  <2>2. CASE ~ \E p, q \in Period : AmendPeriod(p, q)
    <3>1. ASSUME NEW r \in Period
          PROVE  /\ periods'[r].amendedIn = periods[r].amendedIn
                 /\ periods[r].status = "amended" => periods'[r].status = "amended"
      <4>1. PeriodMove(r)
        BY <2>m
      <4>2. CASE \E allowHistory \in BOOLEAN : ClosePeriod(r, allowHistory)
        BY <2>t, <4>2 DEF ClosePeriod, Open
      <4> QED BY <2>2, <2>t, <4>1, <4>2 DEF PeriodMove
    <3> QED BY <3>1 DEF Acyclic, AmendmentAcyclic
  <2> QED BY <2>1, <2>2
<1>3. Acyclic => AmendmentAcyclic
  BY DEF Acyclic
<1> QED BY <1>1, <1>2, <1>3, ShapeInvariant, PTL DEF Spec

-----------------------------------------------------------------------------
(* What refers to what *)

\* A quarter that has a row of its own keeps it, and ensure_period gives it one.
LEMMA NamedStays ==
    ASSUME Typed, [Next]_vars, NEW q \in Period, periods[q].status # "missing"
    PROVE  periods'[q].status # "missing"
<1>t. periods[q] \in [status : PeriodStatus, amendedIn : Period \cup {None}]
  BY DEF Typed
<1>1. PeriodMove(q)
  BY PeriodsMove
<1>2. CASE \E r \in Period : AmendPeriod(q, r)
  <2> PICK r \in Period : AmendPeriod(q, r)
    BY <1>2
  <2>1. Ensured(r) \in [Period -> [status : PeriodStatus, amendedIn : Period \cup {None}]]
    BY EnsuredTyped
  <2> QED BY <2>1 DEF AmendPeriod
<1>3. CASE \E allowHistory \in BOOLEAN : ClosePeriod(q, allowHistory)
  <2>1. periods'[q].status = "closed"
    BY <1>3 DEF ClosePeriod, Typed
  <2> QED BY <2>1
<1> QED BY <1>1, <1>2, <1>3, <1>t DEF PeriodMove

\* The quarter ensure_period names has a row.
LEMMA EnsuredNamed ==
    ASSUME Typed, NEW p \in Period PROVE Ensured(p)[p].status # "missing"
BY DEF Ensured, Typed

\* An amendment names a quarter that is there.
LEMMA AmendmentsRefer ==
    ASSUME Typed, References, [Next]_vars, NEW q \in Period, periods'[q].amendedIn # None
    PROVE  periods'[periods'[q].amendedIn].status # "missing"
<1>t. /\ periods \in [Period -> [status : PeriodStatus, amendedIn : Period \cup {None}]]
      /\ periods' \in [Period -> [status : PeriodStatus, amendedIn : Period \cup {None}]]
  BY StepTyped DEF Typed
<1>1. CASE periods'[q].amendedIn = periods[q].amendedIn
  <2>1. periods[q].amendedIn \in Period /\ periods[periods[q].amendedIn].status # "missing"
    BY <1>t, <1>1 DEF References
  <2> QED BY <1>1, <2>1, NamedStays
<1>2. CASE \E r \in Period : AmendPeriod(q, r)
  <2> PICK r \in Period : AmendPeriod(q, r)
    BY <1>2
  <2>1. Ensured(r) \in [Period -> [status : PeriodStatus, amendedIn : Period \cup {None}]]
    BY EnsuredTyped
  <2>2. q # r
    BY DEF AmendPeriod, Amendable, Mutable, Closed
  <2>3. periods'[q].amendedIn = r /\ periods'[r] = Ensured(r)[r]
    BY <2>1, <2>2 DEF AmendPeriod
  <2> QED BY <2>3, EnsuredNamed
<1>3. CASE \E allowHistory \in BOOLEAN : ClosePeriod(q, allowHistory)
  BY <1>1, <1>3, <1>t DEF ClosePeriod
<1>4. PeriodMove(q)
  BY PeriodsMove
<1> QED BY <1>1, <1>2, <1>3, <1>4, <1>t DEF PeriodMove

\* A document's quarter is there, whichever handler registers or moves it.
LEMMA DocumentsRefer ==
    ASSUME Typed, References, [Next]_vars, NEW d \in Document
    PROVE  /\ documents[d].status # "absent" => documents'[d].status # "absent"
           /\ documents'[d].status # "absent" =>
                 /\ documents'[d].period \in Period
                 /\ periods'[documents'[d].period].status # "missing"
<1>t. /\ documents \in [Document -> [status : Status \cup {"absent"}, period : Period \cup {None}]]
      /\ transactions \in [Transaction -> Row]
  BY DEF Typed
<1>s. "absent" \notin Status
  BY DEF Status, Unposted, InReview, Booked, Terminal
<1>k. ASSUME documents'[d].period = documents[d].period,
             documents[d].status = "absent" <=> documents'[d].status = "absent"
      PROVE  /\ documents[d].status # "absent" => documents'[d].status # "absent"
             /\ documents'[d].status # "absent" =>
                   /\ documents'[d].period \in Period
                   /\ periods'[documents'[d].period].status # "missing"
  BY <1>k, NamedStays DEF References
<1>m. ASSUME NEW p \in Period, documents'[d].period = p, documents'[d].status # "absent",
             periods' = Ensured(p) \/ periods'[p].status # "missing"
      PROVE  /\ documents[d].status # "absent" => documents'[d].status # "absent"
             /\ documents'[d].status # "absent" =>
                   /\ documents'[d].period \in Period
                   /\ periods'[documents'[d].period].status # "missing"
  BY <1>m, EnsuredNamed
<1>0. CASE UNCHANGED documents
  BY <1>0, <1>k
<1>1. CASE PeriodStep
  BY <1>0, <1>1 DEF PeriodStep, EnsurePeriod, OpenPeriod, AddObligation, ClosePeriod,
                    AmendPeriod, CreateFilingSnapshot
<1>2. CASE DocumentStep
  <2> PICK e \in Document :
          \/ \E p \in Period, s \in {"extracted", "needs_review"} : AddDocument(e, p, s)
          \/ \E s \in Status : TransitionDocument(e, s)
          \/ \E t \in Transaction, p \in Period, party \in Party :
                RecordNonInvoiceExpense(e, t, p, party)
    BY <1>2 DEF DocumentStep
  <2>1. CASE d # e
    <3>1. documents'[d] = documents[d]
      BY <1>t, <2>1 DEF AddDocument, TransitionDocument, RecordNonInvoiceExpense
    <3> QED BY <3>1, <1>k
  <2>2. CASE \E s \in Status : TransitionDocument(d, s)
    BY <1>k, <1>s, <1>t, <2>2 DEF TransitionDocument
  <2>3. CASE \E p \in Period, s \in {"extracted", "needs_review"} : AddDocument(d, p, s)
    BY <1>m, <1>t, <2>3 DEF AddDocument
  <2>4. CASE \E t \in Transaction, p \in Period, party \in Party :
                RecordNonInvoiceExpense(d, t, p, party)
    BY <1>m, <1>t, <2>4 DEF RecordNonInvoiceExpense
  <2> QED BY <2>1, <2>2, <2>3, <2>4
<1>3. CASE TransactionStep
  BY <1>0, <1>3 DEF TransactionStep, AddTransaction, TransitionTransaction, SetCounterparty,
                    ApplyFx, AddTaxTreatment
<1>4. CASE IssueStep
  BY <1>0, <1>4 DEF IssueStep, AddIssue, SettleIssue
<1>5. CASE ReviewStep
  <2> PICK t \in Transaction :
          \/ \E S \in SUBSET Issue : RejectPacket(t, S)
          \/ \E S \in SUBSET Issue, rate \in RateInput : ApprovePacket(t, S, rate)
          \/ InvalidateApproval(t)
          \/ \E p \in Period, date \in Day, party \in Party, rate \in {"eur", "official"} :
                ConfirmExpense(t, p, date, party, rate)
    BY <1>5 DEF ReviewStep
  <2>1. Exists(t) /\ HasDocument(t)
    BY DEF RejectPacket, ApprovePacket, InvalidateApproval, ConfirmExpense, Editable, PacketOffered
  <2>2. documents[transactions[t].document].status # "absent"
    BY <2>1 DEF References
  <2>3. CASE \E p \in Period, date \in Day, party \in Party, rate \in {"eur", "official"} :
                ConfirmExpense(t, p, date, party, rate)
    <3> PICK p \in Period, date \in Day, party \in Party, rate \in {"eur", "official"} :
                ConfirmExpense(t, p, date, party, rate)
      BY <2>3
    <3>1. documents' = [documents EXCEPT ![transactions[t].document] =
                          [status |-> "approved", period |-> p]]
          /\ periods' = periods /\ periods[p].status = "open"
      BY DEF ConfirmExpense, Open
    <3>2. CASE d = transactions[t].document
      BY <1>m, <1>t, <3>1, <3>2
    <3>3. CASE d # transactions[t].document
      BY <1>k, <1>t, <3>1, <3>3
    <3> QED BY <3>2, <3>3
  <2>4. CASE ~ \E p \in Period, date \in Day, party \in Party, rate \in {"eur", "official"} :
                ConfirmExpense(t, p, date, party, rate)
    <3>1. \E s \in {"approved", "rejected", "needs_review"} :
             documents' = [documents EXCEPT ![transactions[t].document].status = s]
      BY <2>4 DEF RejectPacket, ApprovePacket, InvalidateApproval
    <3> QED BY <1>k, <1>t, <2>2, <3>1
  <2> QED BY <2>3, <2>4
<1>6. CASE ImportStep
  <2> PICK p \in Period :
          \/ \E e \in Imported : ImportDocument(e, p)
          \/ \E t \in BookLine, e \in Imported, party \in Party, date \in DaysOf[p] :
                ImportTransaction(t, e, p, party, date)
    BY <1>6 DEF ImportStep
  <2>1. CASE \E e \in Imported : ImportDocument(e, p)
    <3> PICK e \in Imported : ImportDocument(e, p)
      BY <2>1
    <3>1. CASE d = e
      BY <1>m, <1>t, <3>1 DEF ImportDocument
    <3>2. CASE d # e
      BY <1>k, <1>t, <3>2 DEF ImportDocument
    <3> QED BY <3>1, <3>2
  <2> QED BY <1>0, <2>1 DEF ImportTransaction
<1> QED BY <1>0, <1>1, <1>2, <1>3, <1>4, <1>5, <1>6 DEF Next, Tick, vars

\* A row keeps its quarter and evidence, or is given some that are there.
Referring(u) ==
    /\ \/ transactions'[u].period = transactions[u].period /\ Exists(u)
       \/ transactions'[u].period \in Period
             /\ periods'[transactions'[u].period].status # "missing"
    /\ \/ transactions'[u].document = transactions[u].document /\ Exists(u)
       \/ transactions'[u].document = None
       \/ documents'[transactions'[u].document].status # "absent"

\* Every handler leaves a row as it was, or referring to what is there.
LEMMA RowsRefer ==
    ASSUME Typed, RowsPlaced, References, [Next]_vars, NEW u \in Transaction
    PROVE  transactions'[u] = transactions[u] \/ Referring(u)
<1>r. /\ transactions \in [Transaction -> Row] /\ transactions[u] \in Row
      /\ documents \in [Document -> [status : Status \cup {"absent"},
                                     period : Period \cup {None}]]
  BY DEF Typed
<1>s. "absent" \notin Status
  BY DEF Status, Unposted, InReview, Booked, Terminal
<1>0. CASE UNCHANGED transactions
  BY <1>0
<1>1. CASE PeriodStep
  <2>1. CASE \E p \in Period, kind \in SnapshotInput : CreateFilingSnapshot(p, kind)
    <3>1. \/ transactions'[u] = transactions[u]
          \/ /\ transactions[u].status = "posted"
             /\ transactions'[u] = [transactions[u] EXCEPT !.status = "included_in_snapshot",
                                                           !.snapshot = SnapshotId]
      BY <1>r, <2>1 DEF CreateFilingSnapshot
    <3> QED BY <3>1, <1>r DEF Referring, Exists, Row
  <2> QED
    BY <1>0, <1>1, <2>1 DEF PeriodStep, EnsurePeriod, OpenPeriod, AddObligation, ClosePeriod,
                          AmendPeriod
<1>2. CASE DocumentStep
  <2>1. CASE \E d \in Document, t \in Transaction, p \in Period, party \in Party :
                RecordNonInvoiceExpense(d, t, p, party)
    <3> PICK d \in Document, t \in Transaction, p \in Period, party \in Party :
                RecordNonInvoiceExpense(d, t, p, party)
      BY <2>1
    <3>1. PICK date \in DaysOf[p] : transactions' = [transactions EXCEPT ![t] =
              [status |-> "approved", period |-> p, document |-> d, party |-> party,
               date |-> date, rate |-> "eur", snapshot |-> None,
               tax |-> [Untreated EXCEPT !["other"] = "reviewed"]]]
      BY DEF RecordNonInvoiceExpense
    <3>2. documents'[d].status = "approved" /\ periods' = Ensured(p)
      BY <1>r DEF RecordNonInvoiceExpense
    <3>3. CASE u = t
      <4>1. transactions'[u].period = p /\ transactions'[u].document = d
        BY <1>r, <3>1, <3>3
      <4> QED BY <3>2, <4>1, EnsuredNamed DEF Referring
    <3>4. CASE u # t
      BY <1>r, <3>1, <3>4
    <3> QED BY <3>3, <3>4
  <2> QED BY <1>0, <1>2, <2>1 DEF DocumentStep, AddDocument, TransitionDocument
<1>3. CASE TransactionStep
  <2> PICK t \in Transaction :
          \/ \E facts \in Facts : AddTransaction(t, facts)
          \/ \E s \in Status : TransitionTransaction(t, s)
          \/ \E party \in Party : SetCounterparty(t, party)
          \/ \E rate \in RateInput : ApplyFx(t, rate)
          \/ \E kind \in TreatmentInput, code \in TaxCode \ {"none"} :
                AddTaxTreatment(t, kind, code)
    BY <1>3 DEF TransactionStep
  <2>1. CASE \E facts \in Facts : AddTransaction(t, facts)
    <3> PICK facts \in Facts : AddTransaction(t, facts)
      BY <2>1
    <3>1. facts.period \in Period /\ periods' = Ensured(facts.period) /\ documents' = documents
          /\ (facts.document # None => documents[facts.document].status # "absent")
      BY DEF AddTransaction, Facts
    <3>2. u = t => transactions'[u].period = facts.period
                   /\ transactions'[u].document = facts.document
      BY <1>r DEF AddTransaction
    <3>3. u # t => transactions'[u] = transactions[u]
      BY <1>r DEF AddTransaction
    <3> QED BY <3>1, <3>2, <3>3, EnsuredNamed DEF Referring
  <2>2. CASE ~ \E facts \in Facts : AddTransaction(t, facts)
    <3>1. Exists(t)
      BY <2>2 DEF TransitionTransaction, SetCounterparty, ApplyFx, AddTaxTreatment, Exists,
                  Unposted, InReview
    <3>2. transactions'[u] = transactions[u]
          \/ /\ u = t
             /\ transactions'[u].period = transactions[u].period
             /\ transactions'[u].document = transactions[u].document
      BY <1>r, <2>2 DEF TransitionTransaction, SetCounterparty, ApplyFx, AddTaxTreatment, Row
    <3> QED BY <3>1, <3>2 DEF Referring
  <2> QED BY <2>1, <2>2
<1>4. CASE IssueStep
  BY <1>0, <1>4 DEF IssueStep, AddIssue, SettleIssue
<1>5. CASE ReviewStep
  <2> PICK t \in Transaction :
          \/ \E S \in SUBSET Issue : RejectPacket(t, S)
          \/ \E S \in SUBSET Issue, rate \in RateInput : ApprovePacket(t, S, rate)
          \/ InvalidateApproval(t)
          \/ \E p \in Period, date \in Day, party \in Party, rate \in {"eur", "official"} :
                ConfirmExpense(t, p, date, party, rate)
    BY <1>5 DEF ReviewStep
  <2>1. Exists(t)
    BY DEF RejectPacket, ApprovePacket, InvalidateApproval, ConfirmExpense, Editable, PacketOffered
  <2>2. CASE \E p \in Period, date \in Day, party \in Party, rate \in {"eur", "official"} :
                ConfirmExpense(t, p, date, party, rate)
    <3> PICK p \in Period, date \in Day, party \in Party, rate \in {"eur", "official"} :
                ConfirmExpense(t, p, date, party, rate)
      BY <2>2
    <3>1. periods' = periods /\ periods[p].status = "open"
      BY DEF ConfirmExpense, Open
    <3>2. transactions'[u] = transactions[u]
          \/ /\ u = t
             /\ transactions'[u].period = p
             /\ transactions'[u].document = transactions[u].document
      BY <1>r DEF ConfirmExpense, Row
    <3> QED BY <2>1, <3>1, <3>2 DEF Referring
  <2>3. CASE ~ \E p \in Period, date \in Day, party \in Party, rate \in {"eur", "official"} :
                ConfirmExpense(t, p, date, party, rate)
    <3>1. transactions'[u] = transactions[u]
          \/ /\ u = t
             /\ transactions'[u].period = transactions[u].period
             /\ transactions'[u].document = transactions[u].document
      BY <1>r, <2>3 DEF RejectPacket, ApprovePacket, InvalidateApproval, Row
    <3> QED BY <2>1, <3>1 DEF Referring
  <2> QED BY <2>2, <2>3
<1>6. CASE ImportStep
  <2> PICK p \in Period :
          \/ \E d \in Imported : ImportDocument(d, p)
          \/ \E t \in BookLine, d \in Imported, party \in Party, date \in DaysOf[p] :
                ImportTransaction(t, d, p, party, date)
    BY <1>6 DEF ImportStep
  <2>1. CASE \E t \in BookLine, d \in Imported, party \in Party, date \in DaysOf[p] :
                ImportTransaction(t, d, p, party, date)
    <3> PICK t \in BookLine, d \in Imported, party \in Party, date \in DaysOf[p] :
                ImportTransaction(t, d, p, party, date)
      BY <2>1
    <3>1. periods' = Ensured(p) /\ documents' = documents /\ documents[d].status # "absent"
      BY DEF ImportTransaction
    <3>2. CASE u = t
      <4>1. transactions'[u].period = p /\ transactions'[u].document = d
        BY <1>r, <3>2 DEF ImportTransaction
      <4> QED BY <3>1, <4>1, EnsuredNamed DEF Referring
    <3>3. CASE u # t
      BY <1>r, <3>3 DEF ImportTransaction
    <3> QED BY <3>2, <3>3
  <2> QED BY <1>0, <2>1 DEF ImportDocument
<1> QED BY <1>0, <1>1, <1>2, <1>3, <1>4, <1>5, <1>6 DEF Next, Tick, vars

\* Quarters, documents and rows together.
LEMMA ReferencesStep ==
    ASSUME Shape, References, [Next]_vars PROVE References'
<1>1. ASSUME NEW t \in Transaction, Exists(t)'
      PROVE  /\ transactions'[t].period \in Period
             /\ periods'[transactions'[t].period].status # "missing"
             /\ transactions'[t].document # None =>
                    documents'[transactions'[t].document].status # "absent"
  <2>r. transactions[t] \in Row
    BY DEF Shape, Typed
  <2>1. Exists(t) =>
          /\ transactions[t].period \in Period
          /\ periods'[transactions[t].period].status # "missing"
          /\ transactions[t].document # None =>
                 documents'[transactions[t].document].status # "absent"
    BY <2>r, NamedStays, DocumentsRefer DEF Shape, References, HasDocument, Row
  <2>2. CASE transactions'[t] = transactions[t]
    BY <1>1, <2>1, <2>2 DEF Exists
  <2>3. CASE Referring(t)
    BY <2>1, <2>3 DEF Referring
  <2> QED BY <2>2, <2>3, RowsRefer DEF Shape
<1>2. \A p \in Period : periods'[p].amendedIn # None =>
          periods'[periods'[p].amendedIn].status # "missing"
  BY AmendmentsRefer DEF Shape
<1>3. \A d \in Document : documents'[d].status # "absent" =>
          /\ documents'[d].period \in Period
          /\ periods'[documents'[d].period].status # "missing"
  BY DocumentsRefer DEF Shape
<1> QED BY <1>1, <1>2, <1>3 DEF References, HasDocument, Exists

\* TypeOK: whatever handlers run, the tables keep their shape and refer to
\* nothing that is not there: no row to evidence or a quarter never registered.
THEOREM TypeCorrect == Spec => []TypeOK
<1>1. Init => References
  BY DEF Init, References, NoRow, Exists
<1>2. Shape /\ References /\ [Next]_vars => References'
  BY ReferencesStep
<1>3. Shape /\ References => TypeOK
  BY DEF Shape, TypeOK
<1> QED BY <1>1, <1>2, <1>3, ShapeInvariant, PTL DEF Spec

-----------------------------------------------------------------------------
(* Rows *)

\* Obligations of a quarter that has been closed do not change.
LEMMA ObligationsFrozen ==
    ASSUME Typed, [Next]_vars, NEW p \in Period, Closed(p)
    PROVE  obligations'[p] = obligations[p]
<1>t. obligations \in [Period -> [Form -> Standing]]
  BY DEF Typed
<1>0. CASE UNCHANGED obligations
  BY <1>0
<1>1. CASE PeriodStep
  <2> PICK q \in Period :
        \/ EnsurePeriod(q)
        \/ OpenPeriod(q)
        \/ \E f \in Form, s \in Standing \ {"absent"} : AddObligation(q, f, s)
        \/ \E allowHistory \in BOOLEAN : ClosePeriod(q, allowHistory)
        \/ \E r \in Period : AmendPeriod(q, r)
        \/ \E kind \in SnapshotInput : CreateFilingSnapshot(q, kind)
    BY <1>1 DEF PeriodStep
  <2>1. CASE OpenPeriod(q)
    BY <1>t, <2>1 DEF OpenPeriod, Mutable
  <2>2. CASE \E f \in Form, s \in Standing \ {"absent"} : AddObligation(q, f, s)
    BY <1>t, <2>2 DEF AddObligation, Mutable
  <2> QED
    BY <1>0, <2>1, <2>2 DEF EnsurePeriod, ClosePeriod, AmendPeriod, CreateFilingSnapshot
<1>2. CASE DocumentStep
  BY <1>0, <1>2 DEF DocumentStep, AddDocument, TransitionDocument, RecordNonInvoiceExpense
<1>3. CASE TransactionStep
  BY <1>0, <1>3 DEF TransactionStep, AddTransaction, TransitionTransaction, SetCounterparty,
                    ApplyFx, AddTaxTreatment
<1>4. CASE IssueStep
  BY <1>0, <1>4 DEF IssueStep, AddIssue, SettleIssue
<1>5. CASE ReviewStep
  <2>1. \A t, S : RejectPacket(t, S) => UNCHANGED obligations
    BY DEF RejectPacket
  <2>2. \A t, S, rate : ApprovePacket(t, S, rate) => UNCHANGED obligations
    BY DEF ApprovePacket
  <2>3. \A t : InvalidateApproval(t) => UNCHANGED obligations
    BY DEF InvalidateApproval
  <2>4. \A t, q, date, party, rate : ConfirmExpense(t, q, date, party, rate) => UNCHANGED obligations
    BY DEF ConfirmExpense
  <2> QED BY <1>0, <1>5, <2>1, <2>2, <2>3, <2>4 DEF ReviewStep
<1>6. CASE ImportStep
  BY <1>0, <1>6 DEF ImportStep, ImportDocument, ImportTransaction
<1> QED BY <1>0, <1>1, <1>2, <1>3, <1>4, <1>5, <1>6 DEF Next, Tick, vars

\* A row of a closed quarter is left alone or filed; no row arrives there.
LEMMA ClosedRows ==
    ASSUME Shape, [Next]_vars, NEW p \in Period, Closed(p), NEW t \in Transaction
    PROVE  \/ transactions[t].period # p /\ transactions'[t].period # p
           \/ transactions'[t] = transactions[t]
           \/ FiledRow(t)
<1>1. RowStep(t)
  BY RowsStep DEF Shape
<1>2. CASE EditedRow(t)
  BY <1>2 DEF EditedRow, Mutable
<1> QED BY <1>1, <1>2 DEF RowStep

\* One step of ClosedFrozen: rows and obligations of a closed quarter together.
LEMMA ClosedQuarterStep ==
    ASSUME Shape, [Next]_vars, NEW p \in Period, Closed(p) PROVE ClosedStep(p)
<1>1. obligations'[p] = obligations[p]
  BY ObligationsFrozen DEF Shape
<1>2. ASSUME NEW t \in Transaction
      PROVE  \/ transactions[t].period # p /\ transactions'[t].period # p
             \/ transactions'[t] = transactions[t]
             \/ /\ transactions[t].status = "posted"
                /\ \E k \in {transactions'[t].snapshot} :
                      transactions'[t] = [transactions[t] EXCEPT
                          !.status = "included_in_snapshot", !.snapshot = k]
  <2>1. CASE FiledRow(t)
    <3>1. transactions[t] \in Row
      BY DEF Shape, Typed
    <3>2. transactions'[t].snapshot = SnapshotId
      BY <2>1, <3>1 DEF FiledRow, Row
    <3> QED BY <2>1, <3>2 DEF FiledRow
  <2> QED BY <2>1, ClosedRows
<1> QED BY <1>1, <1>2 DEF ClosedStep

\* ClosedFrozen: the rows, treatments and obligations of a closed quarter stay
\* as they were closed, but for the mark a final filing leaves on posted rows.
THEOREM ClosedBooksFrozen == Spec => ClosedFrozen
<1>1. Shape /\ [Next]_vars => [\A p \in Period : Closed(p) => ClosedStep(p)]_vars
  BY ClosedQuarterStep
<1> QED BY <1>1, ShapeInvariant, PTL DEF Spec, ClosedFrozen

\* SettledFrozen: the facts of a posted, filed or discarded row change only when
\* a new export corrects a book line, which stays posted, in open quarters.
THEOREM SettledFactsFrozen == Spec => SettledFrozen
<1>1. ASSUME Shape, [Next]_vars, NEW t \in Transaction,
             transactions[t].status \in Booked \cup Terminal
      PROVE  FactsOf(transactions'[t]) = FactsOf(transactions[t]) \/ Corrected(t)
  <2>1. RowStep(t)
    BY <1>1, RowsStep DEF Shape
  <2>2. CASE FiledRow(t)
    <3>1. transactions[t] \in Row
      BY <1>1 DEF Shape, Typed
    <3> QED BY <2>2, <3>1 DEF FiledRow, FactsOf, Row
  <2>3. CASE EditedRow(t)
    BY <1>1, <2>3 DEF EditedRow
  <2> QED BY <2>1, <2>2, <2>3 DEF RowStep
<1>2. Shape /\ [Next]_vars =>
        [\A t \in Transaction : transactions[t].status \in Booked \cup Terminal =>
              FactsOf(transactions'[t]) = FactsOf(transactions[t]) \/ Corrected(t)]_vars
  BY <1>1
<1> QED BY <1>2, ShapeInvariant, PTL DEF Spec, SettledFrozen

-----------------------------------------------------------------------------
(* The verdict of the close *)

\* An issue of a closed quarter may be settled but not raised.
LEMMA ClosedIssues ==
    ASSUME Typed, [Next]_vars, NEW i \in Issue, Closed(IssuePeriod[i]), Blocks(i)'
    PROVE  Blocks(i)
<1>t. issues \in [Issue -> [status : {"absent", "open", "ignored", "resolved"},
                            blocking : BOOLEAN]]
  BY DEF Typed
<1>0. CASE UNCHANGED issues
  BY <1>0 DEF Blocks, OpenIssue
<1>1. CASE PeriodStep
  <2> PICK q \in Period :
        \/ EnsurePeriod(q)
        \/ OpenPeriod(q)
        \/ \E f \in Form, s \in Standing \ {"absent"} : AddObligation(q, f, s)
        \/ \E allowHistory \in BOOLEAN : ClosePeriod(q, allowHistory)
        \/ \E r \in Period : AmendPeriod(q, r)
        \/ \E kind \in SnapshotInput : CreateFilingSnapshot(q, kind)
    BY <1>1 DEF PeriodStep
  <2>1. CASE \E f \in Form, s \in Standing \ {"absent"} : AddObligation(q, f, s)
    <3> PICK f \in Form, s \in Standing \ {"absent"} : AddObligation(q, f, s)
      BY <2>1
    <3>1. issues'[i] = issues[i] \/ issues'[i] = [issues[i] EXCEPT !.status = "resolved"]
      BY DEF AddObligation
    <3> QED BY <1>t, <3>1 DEF Blocks, OpenIssue
  <2> QED
    BY <1>0, <2>1 DEF EnsurePeriod, OpenPeriod, ClosePeriod, AmendPeriod, CreateFilingSnapshot
<1>2. CASE DocumentStep
  BY <1>0, <1>2 DEF DocumentStep, AddDocument, TransitionDocument, RecordNonInvoiceExpense
<1>3. CASE TransactionStep
  BY <1>0, <1>3 DEF TransactionStep, AddTransaction, TransitionTransaction, SetCounterparty,
                    ApplyFx, AddTaxTreatment
<1>4. CASE IssueStep
  <2> PICK j \in Issue : \/ \E blocking \in BOOLEAN : AddIssue(j, blocking)
                         \/ \E s \in {"ignored", "resolved"} : SettleIssue(j, s)
    BY <1>4 DEF IssueStep
  <2>1. i # j /\ issues'[i] = issues[i]
    BY <1>t DEF AddIssue, SettleIssue, Mutable
  <2> QED BY <2>1 DEF Blocks, OpenIssue
<1>5. CASE ReviewStep
  <2>1. issues' = issues \/ \E S : issues' = Resolved(S)
    <3>1. \A t, S : RejectPacket(t, S) => issues' = Resolved(S)
      BY DEF RejectPacket
    <3>2. \A t, S, rate : ApprovePacket(t, S, rate) => issues' = Resolved(S)
      BY DEF ApprovePacket
    <3>3. \A t : InvalidateApproval(t) => UNCHANGED issues
      BY DEF InvalidateApproval
    <3>4. \A t, p, date, party, rate : ConfirmExpense(t, p, date, party, rate) =>
             \E S : issues' = Resolved(S)
      BY DEF ConfirmExpense
    <3> QED BY <1>5, <3>1, <3>2, <3>3, <3>4 DEF ReviewStep
  <2> QED BY <1>0, <1>t, <2>1 DEF Resolved, Blocks, OpenIssue
<1>6. CASE ImportStep
  BY <1>0, <1>6 DEF ImportStep, ImportDocument, ImportTransaction
<1> QED BY <1>0, <1>1, <1>2, <1>3, <1>4, <1>5, <1>6 DEF Next, Tick, vars

\* Filing snapshots are only ever appended, by the handler that files.
LEMMA SnapshotsStep ==
    [Next]_vars => \/ UNCHANGED snapshots
                   \/ \E p \in Period, kind \in SnapshotInput : CreateFilingSnapshot(p, kind)
<1> SUFFICES ASSUME [Next]_vars
             PROVE  \/ UNCHANGED snapshots
                    \/ \E p \in Period, kind \in SnapshotInput : CreateFilingSnapshot(p, kind)
  OBVIOUS
<1>1. CASE PeriodStep
  BY <1>1 DEF PeriodStep, EnsurePeriod, OpenPeriod, AddObligation, ClosePeriod, AmendPeriod
<1>2. CASE DocumentStep
  BY <1>2 DEF DocumentStep, AddDocument, TransitionDocument, RecordNonInvoiceExpense
<1>3. CASE TransactionStep
  BY <1>3 DEF TransactionStep, AddTransaction, TransitionTransaction, SetCounterparty,
              ApplyFx, AddTaxTreatment
<1>4. CASE IssueStep
  BY <1>4 DEF IssueStep, AddIssue, SettleIssue
<1>5. CASE ReviewStep
  <2>1. \A t, S : RejectPacket(t, S) => UNCHANGED snapshots
    BY DEF RejectPacket
  <2>2. \A t, S, rate : ApprovePacket(t, S, rate) => UNCHANGED snapshots
    BY DEF ApprovePacket
  <2>3. \A t : InvalidateApproval(t) => UNCHANGED snapshots
    BY DEF InvalidateApproval
  <2>4. \A t, p, date, party, rate : ConfirmExpense(t, p, date, party, rate) => UNCHANGED snapshots
    BY DEF ConfirmExpense
  <2> QED BY <1>5, <2>1, <2>2, <2>3, <2>4 DEF ReviewStep
<1>6. CASE ImportStep
  BY <1>6 DEF ImportStep, ImportDocument, ImportTransaction
<1> QED BY <1>1, <1>2, <1>3, <1>4, <1>5, <1>6 DEF Next, Tick, vars

\* No filing snapshot is ever rewritten or removed.
LEMMA SnapshotsGrow ==
    ASSUME Typed, [Next]_vars, NEW k \in 1..Len(snapshots)
    PROVE  k \in 1..Len(snapshots') /\ snapshots'[k] = snapshots[k]
<1>1. CASE UNCHANGED snapshots
  BY <1>1
<1>2. CASE \E p \in Period, kind \in SnapshotInput : CreateFilingSnapshot(p, kind)
  <2> PICK p \in Period, kind \in SnapshotInput : CreateFilingSnapshot(p, kind)
    BY <1>2
  <2> DEFINE Snapshot == [period : Period, kind : SnapshotKind]
  <2>1. snapshots \in Seq(Snapshot) /\ Len(snapshots) \in Nat
    BY DEF Typed
  <2>2. [period |-> p, kind |-> kind] \in Snapshot
    BY LedgerAssumption DEF LedgerAssumption
  <2>3. snapshots' = Append(snapshots, [period |-> p, kind |-> kind])
    BY DEF CreateFilingSnapshot
  <2> HIDE DEF Snapshot
  <2> QED BY <2>1, <2>2, <2>3, AppendProperties
<1> QED BY <1>1, <1>2, SnapshotsStep

\* What close_period verified of the rows is still true after any step.
LEMMA RowsStayReady ==
    ASSUME Shape, [Next]_vars, NEW p \in Period, Closed(p), RowsReady(p, TRUE)
    PROVE  RowsReady(p, TRUE)'
<1> SUFFICES ASSUME NEW t \in Transaction, transactions'[t].period = p
             PROVE  /\ transactions'[t].status \in Unposted => AuthoritativeHistory(t)'
                    /\ transactions'[t].rate \notin {"xolo", "derived"}
                    /\ transactions'[t].status \notin Terminal => transactions'[t].date \in DaysOf[p]
  BY DEF RowsReady, RowsOf
<1>r. transactions[t] \in Row
  BY DEF Shape, Typed
<1>1. transactions'[t] = transactions[t] \/ FiledRow(t)
  BY ClosedRows
<1>2. transactions[t].period = p
  BY <1>1, <1>r DEF FiledRow, Row
<1>3. CASE transactions'[t] = transactions[t]
  <2>1. AuthoritativeHistory(t) => AuthoritativeHistory(t)'
    <3> SUFFICES ASSUME AuthoritativeHistory(t) PROVE AuthoritativeHistory(t)'
      OBVIOUS
    <3> PICK k \in 1..Len(snapshots) : snapshots[k].period = transactions[t].period
                                       /\ snapshots[k].kind # "draft"
      BY DEF AuthoritativeHistory
    <3>1. k \in 1..Len(snapshots') /\ snapshots'[k] = snapshots[k]
      BY SnapshotsGrow DEF Shape
    <3> QED BY <1>3, <3>1 DEF AuthoritativeHistory
  <2> QED BY <1>2, <1>3, <2>1 DEF RowsReady, RowsOf
<1>4. CASE FiledRow(t)
  <2>1. /\ transactions'[t].status = "included_in_snapshot"
        /\ transactions'[t].rate = transactions[t].rate
        /\ transactions'[t].date = transactions[t].date
        /\ transactions[t].status = "posted"
    BY <1>4, <1>r DEF FiledRow, Row
  <2> QED BY <1>2, <2>1 DEF RowsReady, RowsOf, Unposted, InReview, Terminal
<1> QED BY <1>1, <1>3, <1>4

\* ClosedClean: the blocking issues, obligations and rows that held up a close
\* never come back in a quarter that has been closed.
THEOREM ClosedStaysClean == Spec => []ClosedClean
<1>1. Init => ClosedClean
  BY DEF Init, ClosedClean, Closed
<1>2. Shape /\ ClosedClean /\ [Next]_vars => ClosedClean'
  <2> SUFFICES ASSUME Shape, ClosedClean, [Next]_vars, NEW p \in Period, Closed(p)'
               PROVE  /\ \A i \in Issue : IssuePeriod[i] = p => ~Blocks(i)'
                      /\ \A f \in Form : obligations'[p][f] \notin {"undecided", "due"}
                      /\ RowsReady(p, TRUE)'
    BY DEF ClosedClean
  <2>1. CASE Closed(p)
    <3>1. \A i \in Issue : IssuePeriod[i] = p => ~Blocks(i)'
      BY <2>1, ClosedIssues DEF ClosedClean, Shape
    <3>2. obligations'[p] = obligations[p]
      BY <2>1, ObligationsFrozen DEF Shape
    <3>3. RowsReady(p, TRUE)'
      BY <2>1, RowsStayReady DEF ClosedClean
    <3> QED BY <2>1, <3>1, <3>2, <3>3 DEF ClosedClean
  <2>2. CASE ~Closed(p)
    <3>1. PeriodMove(p)
      BY PeriodsMove DEF Shape
    <3>2. PICK allowHistory \in BOOLEAN : ClosePeriod(p, allowHistory)
      <4>1. periods[p] \in [status : PeriodStatus, amendedIn : Period \cup {None}]
        BY DEF Shape, Typed
      <4>2. ~ \E r \in Period : AmendPeriod(p, r)
        BY <2>2 DEF AmendPeriod, Amendable, Closed
      <4> QED BY <2>2, <3>1, <4>1, <4>2 DEF PeriodMove, Closed
    <3>3. Ready(p, allowHistory)
          /\ UNCHANGED <<documents, transactions, issues, obligations, snapshots, today>>
      BY <3>2 DEF ClosePeriod
    <3>4. RowsReady(p, TRUE)
      BY <3>3 DEF Ready, RowsReady
    <3>5. RowsReady(p, TRUE)'
      BY <3>3, <3>4 DEF RowsReady, RowsOf, AuthoritativeHistory
    <3> QED BY <3>3, <3>5 DEF Ready, Blocks, OpenIssue
  <2> QED BY <2>1, <2>2
<1> QED BY <1>1, <1>2, ShapeInvariant, PTL DEF Spec

-----------------------------------------------------------------------------
(* Posted rows, filing snapshots, and the theorem that the ledger implements *)
(* FilingHistory                                                            *)

\* A document out of review goes back only under rows that are not posted.
LEMMA EvidenceStep ==
    ASSUME Shape, [Next]_vars, NEW d \in Document,
           documents[d].status \notin InReview \cup {"absent"},
           documents'[d].status \in InReview \cup {"absent"}
    PROVE  \A u \in Transaction : transactions[u].document = d => transactions[u].status = "approved"
<1>t. /\ documents \in [Document -> [status : Status \cup {"absent"}, period : Period \cup {None}]]
      /\ transactions \in [Transaction -> Row]
  BY DEF Shape, Typed
<1>s. "absent" \notin Status
  BY DEF Status, Unposted, InReview, Booked, Terminal
<1>0. CASE UNCHANGED documents
  BY <1>0
<1>1. CASE PeriodStep
  BY <1>0, <1>1 DEF PeriodStep, EnsurePeriod, OpenPeriod, AddObligation, ClosePeriod,
                    AmendPeriod, CreateFilingSnapshot
<1>2. CASE DocumentStep
  <2> PICK e \in Document :
          \/ \E p \in Period, s \in {"extracted", "needs_review"} : AddDocument(e, p, s)
          \/ \E s \in Status : TransitionDocument(e, s)
          \/ \E t \in Transaction, p \in Period, party \in Party :
                RecordNonInvoiceExpense(e, t, p, party)
    BY <1>2 DEF DocumentStep
  <2>1. \A f \in Document : f # e => documents'[f] = documents[f]
    BY <1>t DEF AddDocument, TransitionDocument, RecordNonInvoiceExpense
  <2>2. d = e
    BY <2>1
  <2>3. PICK s \in Status : TransitionDocument(d, s)
    BY <2>2 DEF AddDocument, RecordNonInvoiceExpense
  <2>4. documents'[d].status = s /\ CanMove(documents[d].status, s)
        /\ documents[d].status \in Status
    BY <1>t, <2>3 DEF TransitionDocument
  <2> QED BY <1>s, <2>4, CanMoveFacts
<1>3. CASE TransactionStep
  BY <1>0, <1>3 DEF TransactionStep, AddTransaction, TransitionTransaction, SetCounterparty,
                    ApplyFx, AddTaxTreatment
<1>4. CASE IssueStep
  BY <1>0, <1>4 DEF IssueStep, AddIssue, SettleIssue
<1>5. CASE ReviewStep
  <2> PICK t \in Transaction :
          \/ \E S \in SUBSET Issue : RejectPacket(t, S)
          \/ \E S \in SUBSET Issue, rate \in RateInput : ApprovePacket(t, S, rate)
          \/ InvalidateApproval(t)
          \/ \E p \in Period, date \in Day, party \in Party, rate \in {"eur", "official"} :
                ConfirmExpense(t, p, date, party, rate)
    BY <1>5 DEF ReviewStep
  <2>1. {"approved", "rejected"} \cap (InReview \cup {"absent"}) = {}
    BY DEF InReview
  <2>2. \A S : ~RejectPacket(t, S)
    BY <1>t, <2>1 DEF RejectPacket
  <2>3. \A S, rate : ~ApprovePacket(t, S, rate)
    BY <1>t, <2>1 DEF ApprovePacket
  <2>4. \A p, date, party, rate : ~ConfirmExpense(t, p, date, party, rate)
    <3> SUFFICES ASSUME NEW p, NEW date, NEW party, NEW rate, ConfirmExpense(t, p, date, party, rate)
                 PROVE  FALSE
      OBVIOUS
    <3>1. documents' = [documents EXCEPT ![transactions[t].document] =
                          [status |-> "approved", period |-> p]]
      BY DEF ConfirmExpense
    <3>2. documents'[d] = documents[d] \/ documents'[d].status = "approved"
      BY <1>t, <3>1
    <3> QED BY <2>1, <3>2
  <2>5. InvalidateApproval(t)
    BY <2>2, <2>3, <2>4
  <2>6. transactions[t].document = d /\ transactions[t].status = "approved"
    BY <1>t, <2>5 DEF InvalidateApproval
  <2> QED BY <2>5, <2>6 DEF InvalidateApproval, Editable
<1>6. CASE ImportStep
  <2> PICK p \in Period :
          \/ \E e \in Imported : ImportDocument(e, p)
          \/ \E t \in BookLine, e \in Imported, party \in Party, date \in DaysOf[p] :
                ImportTransaction(t, e, p, party, date)
    BY <1>6 DEF ImportStep
  <2>1. PICK e \in Imported : ImportDocument(e, p)
    BY <1>0 DEF ImportTransaction
  <2>2. documents'[d].status = documents[d].status \/ documents'[d].status = "approved"
    BY <1>t, <2>1 DEF ImportDocument
  <2> QED BY <2>2 DEF InReview
<1> QED BY <1>0, <1>1, <1>2, <1>3, <1>4, <1>5, <1>6 DEF Next, Tick, vars

\* The clock does not go back.
LEMMA TodayGrows == ASSUME Typed, [Next]_vars PROVE today <= today' /\ today \in Nat
<1>1. today \in Nat /\ (UNCHANGED today => today <= today')
  BY LedgerAssumption DEF LedgerAssumption, Typed, Day
<1>2. Tick \/ UNCHANGED today
  <2>1. PeriodStep => UNCHANGED today
    BY DEF PeriodStep, EnsurePeriod, OpenPeriod, AddObligation, ClosePeriod, AmendPeriod,
           CreateFilingSnapshot
  <2>2. DocumentStep => UNCHANGED today
    BY DEF DocumentStep, AddDocument, TransitionDocument, RecordNonInvoiceExpense
  <2>3. TransactionStep => UNCHANGED today
    BY DEF TransactionStep, AddTransaction, TransitionTransaction, SetCounterparty, ApplyFx,
           AddTaxTreatment
  <2>4. IssueStep => UNCHANGED today
    BY DEF IssueStep, AddIssue, SettleIssue
  <2>5. ReviewStep => UNCHANGED today
    <3>1. \A t, S : RejectPacket(t, S) => UNCHANGED today
      BY DEF RejectPacket
    <3>2. \A t, S, rate : ApprovePacket(t, S, rate) => UNCHANGED today
      BY DEF ApprovePacket
    <3>3. \A t : InvalidateApproval(t) => UNCHANGED today
      BY DEF InvalidateApproval
    <3>4. \A t, p, date, party, rate : ConfirmExpense(t, p, date, party, rate) => UNCHANGED today
      BY DEF ConfirmExpense
    <3> QED BY <3>1, <3>2, <3>3, <3>4 DEF ReviewStep
  <2>6. ImportStep => UNCHANGED today
    BY DEF ImportStep, ImportDocument, ImportTransaction
  <2> QED BY <2>1, <2>2, <2>3, <2>4, <2>5, <2>6 DEF Next, vars
<1> QED BY <1>1, <1>2 DEF Tick

\* PostedSound: no later handler unsources the rate of a posted row, dates it
\* ahead or takes its evidence back into review, the last two unless it is a
\* book line that a new export may rewrite.
THEOREM PostedStaysSound == Spec => []PostedSound
<1>1. Init => PostedSound
  BY DEF Init, PostedSound, NoRow, Booked
<1>2. Shape /\ PostedSound /\ [Next]_vars => PostedSound'
  <2> SUFFICES ASSUME Shape, PostedSound, [Next]_vars,
                      NEW t \in Transaction, transactions'[t].status \in Booked
               PROVE  /\ transactions'[t].rate \in {"eur", "official", "derived"}
                      /\ t \notin BookLine =>
                            /\ transactions'[t].date <= today'
                            /\ transactions'[t].document # None =>
                                  documents'[transactions'[t].document].status
                                      \notin InReview \cup {"absent"}
    BY DEF PostedSound, HasDocument
  <2>r. transactions[t] \in Row /\ transactions'[t] \in Row
    BY StepTyped DEF Shape, Typed
  <2>d. today <= today' /\ today \in Nat /\ today' \in Nat
        /\ transactions[t].date \in Nat /\ transactions'[t].date \in Nat
    BY <2>r, TodayGrows, StepTyped, LedgerAssumption
    DEF LedgerAssumption, Shape, Typed, Day, Row
  <2>1. CASE transactions[t].status \in Booked /\ FactsOf(transactions'[t]) = FactsOf(transactions[t])
    <3>1. /\ transactions'[t].date = transactions[t].date
          /\ transactions'[t].rate = transactions[t].rate
          /\ transactions'[t].document = transactions[t].document
      BY <2>1 DEF FactsOf
    <3>2. transactions[t].document # None => transactions[t].document \in Document
      BY <2>r DEF Row
    <3>3. transactions[t].status # "approved"
      BY <2>1 DEF Booked
    <3>4. t \notin BookLine /\ transactions[t].document # None =>
            documents'[transactions[t].document].status \notin InReview \cup {"absent"}
      BY <2>1, <3>2, <3>3, EvidenceStep DEF PostedSound, HasDocument
    <3> QED BY <2>1, <2>d, <3>1, <3>4 DEF PostedSound
  <2>2. CASE EditedRow(t) /\ transactions[t].status \notin Booked
    <3>1. ({"approved"} \cup Booked) \cap (InReview \cup {"absent"}) = {}
      BY DEF Booked, InReview
    <3> QED BY <2>2, <2>d, <3>1 DEF EditedRow
  <2>3. CASE FiledRow(t)
    <3>1. transactions[t].status \in Booked /\ FactsOf(transactions'[t]) = FactsOf(transactions[t])
      BY <2>3, <2>r DEF FiledRow, FactsOf, Row, Booked
    <3> QED BY <2>1, <3>1
  <2>4. CASE Corrected(t)
    BY <2>4 DEF Corrected
  <2>5. RowStep(t)
    BY RowsStep DEF Shape
  <2> QED BY <2>1, <2>2, <2>3, <2>4, <2>5 DEF RowStep, EditedRow
<1> QED BY <1>1, <1>2, ShapeInvariant, PTL DEF Spec

-----------------------------------------------------------------------------
(* Filing snapshots *)

\* The final snapshots of a quarter after a step: those before it and, when the
\* step files the quarter, the new one.
LEMMA FinalsStep ==
    ASSUME Shape, NEW p \in Period, NEW kind \in SnapshotInput, CreateFilingSnapshot(p, kind),
           NEW q \in Period
    PROVE  FinalOf(q)' = FinalOf(q) \cup (IF q = p /\ kind = "final" THEN {SnapshotId} ELSE {})
<1> DEFINE Snapshot == [period : Period, kind : SnapshotKind]
           new == [period |-> p, kind |-> kind]
<1>1. snapshots \in Seq(Snapshot) /\ Len(snapshots) \in Nat
  BY DEF Shape, Typed
<1>2. new \in Snapshot
  BY LedgerAssumption DEF LedgerAssumption
<1>3. snapshots' = Append(snapshots, new)
  BY DEF CreateFilingSnapshot
<1>4. /\ Len(snapshots') = Len(snapshots) + 1
      /\ \A k \in 1..Len(snapshots) : snapshots'[k] = snapshots[k]
      /\ snapshots'[Len(snapshots) + 1] = new
  <2> HIDE DEF Snapshot, new
  <2> QED BY <1>1, <1>2, <1>3, AppendProperties
<1> QED BY <1>1, <1>4 DEF FinalOf, SnapshotId

\* A new snapshot is numbered after every final filing there is.
LEMMA NewSnapshot ==
    ASSUME Shape PROVE \A q \in Period : \A k \in FinalOf(q) : k \in Nat /\ k < SnapshotId
<1>1. Len(snapshots) \in Nat
  BY DEF Shape, Typed
<1> QED BY <1>1 DEF FinalOf, SnapshotId

\* A further filing claims only what no earlier final filing has claimed.
LEMMA FilingStep ==
    ASSUME Shape, FilingSound, NEW p \in Period, NEW kind \in SnapshotInput,
           CreateFilingSnapshot(p, kind)
    PROVE  FilingSound'
<1>r. transactions \in [Transaction -> Row]
  BY DEF Shape, Typed
<1>f. \A q \in Period :
        FinalOf(q)' = FinalOf(q) \cup (IF q = p /\ kind = "final" THEN {SnapshotId} ELSE {})
  BY FinalsStep
<1>c. UNCHANGED periods /\ (kind = "final" => Closed(p))
  BY DEF CreateFilingSnapshot, SnapshotAllowed
<1>t. \A t \in Transaction : transactions'[t] =
          IF kind = "final" /\ transactions[t].period = p /\ transactions[t].status = "posted"
          THEN [transactions[t] EXCEPT !.status = "included_in_snapshot", !.snapshot = SnapshotId]
          ELSE transactions[t]
  BY DEF CreateFilingSnapshot
<1>1. ASSUME NEW q \in Period, FinalOf(q)' # {}
      PROVE  Closed(q)' /\ \A t \in Transaction :
                              transactions'[t].period = q => transactions'[t].status # "posted"
  <2>1. Closed(q)
    BY <1>1, <1>c, <1>f DEF FilingSound
  <2>2. ASSUME NEW t \in Transaction, transactions'[t].period = q
        PROVE  transactions'[t].status # "posted"
    <3>1. transactions[t] \in Row
      BY <1>r
    <3>2. transactions[t].period = q
      BY <1>t, <2>2, <3>1 DEF Row
    <3>3. CASE q = p /\ kind = "final"
      BY <1>t, <3>1, <3>2, <3>3 DEF Row
    <3>4. CASE ~(q = p /\ kind = "final")
      <4>1. FinalOf(q) # {}
        BY <1>1, <1>f, <3>4
      <4>2. transactions'[t] = transactions[t]
        BY <1>t, <3>2, <3>4
      <4> QED BY <3>2, <4>1, <4>2 DEF FilingSound, RowsOf
    <3> QED BY <3>3, <3>4
  <2> QED BY <1>c, <2>1, <2>2 DEF Closed
<1>2. ASSUME NEW q \in Period, NEW t \in Transaction,
             transactions'[t].period = q, transactions'[t].snapshot # None
      PROVE  /\ transactions'[t].status = "included_in_snapshot"
             /\ transactions'[t].snapshot \in FinalOf(q)'
             /\ \A k \in FinalOf(q)' : transactions'[t].snapshot <= k
  <2>1. transactions[t] \in Row
    BY <1>r
  <2>n. SnapshotId \in Nat
    BY DEF SnapshotId, Shape, Typed
  <2>2. CASE kind = "final" /\ transactions[t].period = p /\ transactions[t].status = "posted"
    <3>1. /\ transactions'[t].status = "included_in_snapshot"
          /\ transactions'[t].snapshot = SnapshotId
          /\ q = p
      BY <1>t, <1>2, <2>1, <2>2 DEF Row
    <3>2. FinalOf(p) = {}
      BY <2>2 DEF FilingSound, RowsOf
    <3>3. FinalOf(q)' = {SnapshotId}
      BY <1>f, <2>2, <3>1, <3>2
    <3> QED BY <2>n, <3>1, <3>3
  <2>3. CASE ~(kind = "final" /\ transactions[t].period = p /\ transactions[t].status = "posted")
    <3>1. transactions'[t] = transactions[t]
      BY <1>t, <2>3
    <3>2. /\ transactions[t].status = "included_in_snapshot"
          /\ transactions[t].snapshot \in FinalOf(q)
          /\ \A k \in FinalOf(q) : transactions[t].snapshot <= k
      BY <1>2, <3>1 DEF FilingSound, RowsOf
    <3>3. transactions[t].snapshot \in Nat /\ transactions[t].snapshot < SnapshotId
      BY <3>2, NewSnapshot
    <3>4. \A k \in FinalOf(q)' : k \in FinalOf(q) \/ k = SnapshotId
      BY <1>f
    <3>5. FinalOf(q) \subseteq FinalOf(q)'
      BY <1>f
    <3> QED BY <2>n, <3>1, <3>2, <3>3, <3>4, <3>5
  <2> QED BY <2>2, <2>3
<1> QED BY <1>1, <1>2 DEF FilingSound, RowsOf

\* FilingSound: only closed quarters are filed, a filed quarter has no posted row
\* left over, and every claimed row belongs to the first final filing.
THEOREM FilingStaysSound == Spec => []FilingSound
<1>1. Init => FilingSound
  <2> SUFFICES ASSUME Init PROVE FilingSound
    OBVIOUS
  <2>1. ASSUME NEW p \in Period PROVE FinalOf(p) = {}
    <3>1. Len(snapshots) = 0
      BY DEF Init
    <3> QED BY <3>1 DEF FinalOf
  <2>2. \A t \in Transaction : transactions[t].snapshot = None
    BY DEF Init, NoRow
  <2> QED BY <2>1, <2>2 DEF FilingSound, RowsOf
<1>2. Shape /\ FilingSound /\ [Next]_vars => FilingSound'
  <2> SUFFICES ASSUME Shape, FilingSound, [Next]_vars PROVE FilingSound'
    OBVIOUS
  <2>1. CASE \E p \in Period, kind \in SnapshotInput : CreateFilingSnapshot(p, kind)
    BY <2>1, FilingStep
  <2>2. CASE UNCHANGED snapshots
    <3>f. \A q \in Period : FinalOf(q)' = FinalOf(q)
      BY <2>2 DEF FinalOf
    <3>l. Len(snapshots) \in Nat
      BY DEF Shape, Typed
    <3>n. \A t \in Transaction : ~FiledRow(t)
      <4> SUFFICES ASSUME NEW t \in Transaction, FiledRow(t) PROVE FALSE
        OBVIOUS
      <4> DEFINE new == [period |-> transactions[t].period, kind |-> "final"]
      <4>1. transactions[t].period \in Period
        BY DEF FiledRow, Shape, RowsPlaced, Placed
      <4>2. snapshots' = Append(snapshots, new)
        BY DEF FiledRow, CreateFilingSnapshot
      <4>3. snapshots \in Seq([period : Period, kind : SnapshotKind])
            /\ new \in [period : Period, kind : SnapshotKind]
        BY <4>1 DEF Shape, Typed, SnapshotKind
      <4> HIDE DEF new
      <4>4. Len(snapshots') = Len(snapshots) + 1
        BY <4>2, <4>3, AppendProperties
      <4> QED BY <2>2, <3>l, <4>4
    <3>1. ASSUME NEW q \in Period, FinalOf(q)' # {}
          PROVE  Closed(q)' /\ \A t \in Transaction :
                                  transactions'[t].period = q => transactions'[t].status # "posted"
      <4>1. Closed(q) /\ \A t \in RowsOf(q) : transactions[t].status # "posted"
        BY <3>1, <3>f DEF FilingSound
      <4>2. Closed(q)'
        BY <4>1, StaysClosed DEF Shape
      <4>3. ASSUME NEW t \in Transaction, transactions'[t].period = q
            PROVE  transactions'[t] = transactions[t]
        BY <3>n, <4>1, <4>3, ClosedRows
      <4> QED BY <4>1, <4>2, <4>3 DEF RowsOf
    <3>2. ASSUME NEW t \in Transaction, transactions'[t].snapshot # None
          PROVE  transactions'[t] = transactions[t] /\ transactions[t].period \in Period
      <4>1. CASE transactions[t].snapshot # None
        <5>1. transactions[t].period \in Period
          BY <4>1 DEF Shape, RowsPlaced, Placed, NoRow
        <5>2. FinalOf(transactions[t].period) # {}
          BY <4>1, <5>1 DEF FilingSound, RowsOf
        <5>3. Closed(transactions[t].period)
          BY <5>1, <5>2 DEF FilingSound
        <5> QED BY <3>n, <5>1, <5>3, ClosedRows
      <4>2. CASE transactions[t].snapshot = None
        <5>1. RowStep(t)
          BY RowsStep DEF Shape
        <5> QED BY <3>n, <3>2, <4>2, <5>1 DEF RowStep, EditedRow
      <4> QED BY <4>1, <4>2
    <3> QED BY <3>1, <3>2, <3>f DEF FilingSound, RowsOf
  <2> QED BY <2>1, <2>2, SnapshotsStep
<1> QED BY <1>1, <1>2, ShapeInvariant, PTL DEF Spec

-----------------------------------------------------------------------------
(* Refinement *)

\* A closed quarter keeps its rows and what they enter in the books.
LEMMA ClosedEntries ==
    ASSUME Shape, [Next]_vars, NEW p \in Period, Closed(p), NEW t \in Transaction
    PROVE  /\ t \in RowsOf(p)' <=> t \in RowsOf(p)
           /\ t \in RowsOf(p) => /\ Entry(t)' = Entry(t)
                                 /\ (transactions[t].status \in Booked)' <=>
                                        transactions[t].status \in Booked
<1>r. transactions[t] \in Row
  BY DEF Shape, Typed
<1>1. CASE transactions'[t] = transactions[t]
  BY <1>1 DEF RowsOf, Entry
<1>2. CASE FiledRow(t)
  <2>1. /\ transactions'[t].period = transactions[t].period
        /\ FactsOf(transactions'[t]) = FactsOf(transactions[t])
        /\ transactions'[t].tax = transactions[t].tax
        /\ transactions'[t].status = "included_in_snapshot"
        /\ transactions[t].status = "posted"
    BY <1>2, <1>r DEF FiledRow, FactsOf, Row
  <2> QED BY <2>1 DEF RowsOf, Entry, Booked
<1>3. CASE transactions[t].period # p /\ transactions'[t].period # p
  BY <1>3 DEF RowsOf
<1> QED BY <1>1, <1>2, <1>3, ClosedRows

\* The book of a closed quarter does not change.
LEMMA ClosedBook ==
    ASSUME Shape, [Next]_vars, NEW p \in Period, Closed(p) PROVE Book'[p] = Book[p]
BY ClosedEntries DEF Book, RowsOf

\* Only filing changes what is filed.
LEMMA FiledKept ==
    ASSUME Shape, FilingSound, [Next]_vars, UNCHANGED snapshots PROVE Filed' = Filed
<1> SUFFICES ASSUME NEW p \in Period PROVE Filed'[p] = Filed[p]
  BY DEF Filed
<1>f. FinalOf(p)' = FinalOf(p)
  BY DEF FinalOf
<1>1. CASE FinalOf(p) = {}
  BY <1>f, <1>1 DEF Filed
<1>2. CASE FinalOf(p) # {}
  <2>1. Closed(p) /\ \A t \in RowsOf(p) : transactions[t].status # "posted"
    BY <1>2 DEF FilingSound
  <2>2. ASSUME NEW t \in Transaction
        PROVE  /\ t \in RowsOf(p)' <=> t \in RowsOf(p)
               /\ t \in RowsOf(p) => transactions'[t] = transactions[t]
    <3>1. t \in RowsOf(p) => ~FiledRow(t)
      BY <2>1 DEF FiledRow
    <3> QED BY <2>1, <3>1, ClosedRows, ClosedEntries DEF RowsOf
  <2> DEFINE S == {u \in RowsOf(p) : transactions[u].status = "included_in_snapshot"}
  <2>3. S' = S
    BY <2>2 DEF RowsOf
  <2>4. \A t \in S : Entry(t)' = Entry(t)
    BY <2>2 DEF RowsOf, Entry
  <2>5. {Entry(t) : t \in S}' = {Entry(t) : t \in S}
    <3> HIDE DEF S
    <3> QED BY <2>3, <2>4
  <2> QED BY <1>f, <1>2, <2>5 DEF Filed
<1> QED BY <1>1, <1>2

\* Filing a quarter fixes its book; any other kind of snapshot changes nothing.
LEMMA FileStep ==
    ASSUME Shape, FilingSound, [Next]_vars, NEW p \in Period, NEW kind \in SnapshotInput,
           CreateFilingSnapshot(p, kind)
    PROVE  History!File(p) \/ UNCHANGED <<Phase, Book, Filed>>
<1>r. transactions \in [Transaction -> Row]
  BY DEF Shape, Typed
<1>f. \A q \in Period :
        FinalOf(q)' = FinalOf(q) \cup (IF q = p /\ kind = "final" THEN {SnapshotId} ELSE {})
  BY FinalsStep
<1>p. UNCHANGED periods /\ (kind = "final" => Closed(p))
  BY DEF CreateFilingSnapshot, SnapshotAllowed
<1>h. Phase' = Phase
  BY <1>p DEF Phase
<1>t. \A t \in Transaction : transactions'[t] =
          IF kind = "final" /\ transactions[t].period = p /\ transactions[t].status = "posted"
          THEN [transactions[t] EXCEPT !.status = "included_in_snapshot", !.snapshot = SnapshotId]
          ELSE transactions[t]
  BY DEF CreateFilingSnapshot
<1>1. CASE kind # "final"
  <2>1. \A t \in Transaction : transactions'[t] = transactions[t]
    BY <1>t, <1>1
  <2>2. Book' = Book
    BY <2>1 DEF Book, RowsOf, Entry
  <2>3. Filed' = Filed
    BY <1>f, <1>1, <2>1 DEF Filed, RowsOf, Entry
  <2> QED BY <1>h, <2>2, <2>3
<1>2. CASE kind = "final"
  <2>1. \A q \in Period : q # p =>
          \A t \in Transaction : /\ t \in RowsOf(q)' <=> t \in RowsOf(q)
                                 /\ t \in RowsOf(q) => transactions'[t] = transactions[t]
    BY <1>r, <1>t DEF RowsOf, Row
  <2>2. Closed(p)
    BY <1>2, <1>p
  <2>3. \A q \in Period : q # p => Book'[q] = Book[q] /\ Filed'[q] = Filed[q]
    <3> SUFFICES ASSUME NEW q \in Period, q # p PROVE Book'[q] = Book[q] /\ Filed'[q] = Filed[q]
      OBVIOUS
    <3>1. FinalOf(q)' = FinalOf(q)
      BY <1>f
    <3>2. Book'[q] = Book[q]
      BY <2>1 DEF Book, Entry, RowsOf
    <3> DEFINE S == {u \in RowsOf(q) : transactions[u].status = "included_in_snapshot"}
    <3>a. S' = S
      BY <2>1 DEF RowsOf
    <3>b. \A t \in S : Entry(t)' = Entry(t)
      BY <2>1 DEF RowsOf, Entry
    <3>c. {Entry(t) : t \in S}' = {Entry(t) : t \in S}
      <4> HIDE DEF S
      <4> QED BY <3>a, <3>b
    <3>3. Filed'[q] = Filed[q]
      BY <3>1, <3>c DEF Filed
    <3> QED BY <3>2, <3>3
  <2>4. Book'[p] = Book[p]
    BY <2>2, ClosedBook
  <2>5. Filed'[p] = Book'[p]
    <3>1. FinalOf(p)' # {}
      BY <1>f, <1>2
    <3>2. \A t \in Transaction : transactions'[t].period = p => transactions'[t].status # "posted"
      BY <3>1, FilingStep DEF FilingSound, RowsOf
    <3> QED BY <3>1, <3>2 DEF Filed, Book, RowsOf, Booked
  <2>6. History!FiledBook(p) = Book[p]
    <3>1. CASE FinalOf(p) = {}
      BY <3>1 DEF History!FiledBook, Filed
    <3>2. CASE FinalOf(p) # {}
      <4>1. \A t \in RowsOf(p) : transactions[t].status # "posted"
        BY <3>2 DEF FilingSound
      <4>2. Filed[p] = Book[p]
        BY <3>2, <4>1 DEF Filed, Book, Booked
      <4> QED BY <4>2 DEF History!FiledBook
    <3> QED BY <3>1, <3>2
  <2>7. Book' = Book
    BY <2>3, <2>4 DEF Book
  <2>8. Filed' = [Filed EXCEPT ![p] = History!FiledBook(p)]
    BY <2>3, <2>4, <2>5, <2>6 DEF Filed
  <2>9. Phase[p] # "writing"
    BY <2>2 DEF Phase, Closed
  <2> QED BY <1>h, <2>7, <2>8, <2>9 DEF History!File
<1> QED BY <1>1, <1>2

\* Every handler is a step of the filing history, or changes nothing in it.
LEMMA HistoryStep == Shape /\ FilingSound /\ [Next]_vars => [History!Next]_<<Phase, Book, Filed>>
<1> SUFFICES ASSUME Shape, FilingSound, [Next]_vars
             PROVE  [History!Next]_<<Phase, Book, Filed>>
  OBVIOUS
<1>t. periods \in [Period -> [status : PeriodStatus, amendedIn : Period \cup {None}]]
  BY DEF Shape, Typed
<1>1. CASE \E p \in Period, kind \in SnapshotInput : CreateFilingSnapshot(p, kind)
  BY <1>1, FileStep DEF History!Next
<1>2. CASE \E p \in Period, allowHistory \in BOOLEAN : ClosePeriod(p, allowHistory)
  <2> PICK p \in Period, allowHistory \in BOOLEAN : ClosePeriod(p, allowHistory)
    BY <1>2
  <2>1. Book' = Book /\ Filed' = Filed
    BY DEF ClosePeriod, Book, Filed, FinalOf, RowsOf, Entry
  <2>2. Phase[p] = "writing" /\ Phase' = [Phase EXCEPT ![p] = "closed"]
    BY <1>t DEF ClosePeriod, Open, Phase
  <2> QED BY <2>1, <2>2 DEF History!Next, History!Close
<1>3. CASE \E p, r \in Period : AmendPeriod(p, r)
  <2> PICK p \in Period, r \in Period : AmendPeriod(p, r)
    BY <1>3
  <2>1. Book' = Book /\ Filed' = Filed
    BY DEF AmendPeriod, Book, Filed, FinalOf, RowsOf, Entry
  <2>2. Phase[p] = "closed"
    BY DEF AmendPeriod, Amendable, Phase
  <2>3. Ensured(r) \in [Period -> [status : PeriodStatus, amendedIn : Period \cup {None}]]
    BY EnsuredTyped DEF Shape
  <2>4. ASSUME NEW q \in Period, q # p PROVE Phase'[q] = Phase[q]
    <3>1. periods'[q] = Ensured(r)[q]
      BY <2>3, <2>4 DEF AmendPeriod
    <3>2. Ensured(r)[q].status = periods[q].status
          \/ {Ensured(r)[q].status, periods[q].status} \subseteq {"missing", "open"}
      BY <1>t DEF Ensured
    <3> QED BY <3>1, <3>2 DEF Phase
  <2>5. Phase'[p] = "superseded"
    BY <2>3 DEF AmendPeriod, Phase
  <2>6. Phase' = [Phase EXCEPT ![p] = "superseded"]
    BY <2>4, <2>5 DEF Phase
  <2> QED BY <2>1, <2>2, <2>6 DEF History!Next, History!Supersede
<1>4. ASSUME ~ \E p \in Period, kind \in SnapshotInput : CreateFilingSnapshot(p, kind),
             ~ \E p \in Period, allowHistory \in BOOLEAN : ClosePeriod(p, allowHistory),
             ~ \E p, r \in Period : AmendPeriod(p, r)
      PROVE  History!Write
  <2>1. Filed' = Filed
    BY <1>4, SnapshotsStep, FiledKept
  <2>2. ASSUME NEW q \in Period PROVE Phase'[q] = Phase[q]
    <3>1. PeriodMove(q)
      BY PeriodsMove DEF Shape
    <3>2. \/ periods'[q] = periods[q]
          \/ periods[q].status = "missing" /\ periods'[q].status = "open"
      BY <1>4, <1>t, <3>1 DEF PeriodMove
    <3> QED BY <3>2 DEF Phase
  <2>3. Phase' = Phase
    BY <2>2 DEF Phase
  <2>4. ASSUME NEW q \in Period, Phase[q] # "writing" PROVE Book'[q] = Book[q]
    <3>1. Closed(q)
      BY <2>4 DEF Phase, Closed
    <3> QED BY <3>1, ClosedBook
  <2> QED BY <2>1, <2>3, <2>4 DEF History!Write
<1> QED BY <1>1, <1>2, <1>3, <1>4 DEF History!Next

\* ImplementsFilingHistory: the ledger, seen as books and filings, is a filing
\* history: books are final at the close, what is filed is exactly the book, and
\* neither later forms nor amendments restate it.
THEOREM LedgerImplementsHistory == Spec => ImplementsFilingHistory
<1>1. Init => History!Init
  <2> SUFFICES ASSUME Init PROVE History!Init
    OBVIOUS
  <2>1. \A t \in Transaction : transactions[t].status \notin Booked
    BY DEF Init, NoRow, Booked
  <2>2. \A p \in Period : FinalOf(p) = {}
    <3>1. Len(snapshots) = 0
      BY DEF Init
    <3> QED BY <3>1 DEF FinalOf
  <2>3. Phase = [q \in Period |-> "writing"]
    BY DEF Init, Phase
  <2>4. Book = [q \in Period |-> {}]
    <3>1. \A q \in Period : {u \in RowsOf(q) : transactions[u].status \in Booked} = {}
      BY <2>1 DEF RowsOf
    <3> QED BY <3>1 DEF Book
  <2>5. Filed = [q \in Period |-> None]
    BY <2>2 DEF Filed
  <2> QED BY <2>3, <2>4, <2>5 DEF History!Init
<1> QED
  BY <1>1, HistoryStep, ShapeInvariant, FilingStaysSound, PTL
  DEF Spec, ImplementsFilingHistory, History!Spec
=============================================================================
