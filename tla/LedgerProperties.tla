-------------------------- MODULE LedgerProperties --------------------------
(***************************************************************************)
(* What the ledger promises, as invariants and action properties of        *)
(* Ledger, and as a refinement of FilingHistory.                           *)
(***************************************************************************)
EXTENDS Ledger

\* Every variable has the shape of the tables it stands for.
Typed ==
    /\ periods \in [Period -> [status : PeriodStatus, amendedIn : Period \cup {None}]]
    /\ documents \in [Document -> [status : Status \cup {"absent"},
                                   period : Period \cup {None}]]
    /\ transactions \in [Transaction -> Row]
    /\ issues \in [Issue -> [status : {"absent", "open", "ignored", "resolved"},
                             blocking : BOOLEAN]]
    /\ obligations \in [Period -> [Form -> Standing]]
    /\ snapshots \in Seq([period : Period, kind : SnapshotKind])
    /\ Len(snapshots) <= MaxSnapshots
    /\ today \in Day

\* What the tables refer to is there: a row's or a document's quarter, the
\* quarter that amends another, the evidence of a row.
References ==
    /\ \A p \in Period : periods[p].amendedIn # None =>
          periods[periods[p].amendedIn].status # "missing"
    /\ \A d \in Document : documents[d].status # "absent" =>
          /\ documents[d].period \in Period
          /\ periods[documents[d].period].status # "missing"
    /\ \A t \in Transaction : Exists(t) =>
          /\ transactions[t].period \in Period
          /\ periods[transactions[t].period].status # "missing"
          /\ HasDocument(t) => documents[transactions[t].document].status # "absent"

\* Every variable keeps the shape of its tables, and every foreign key of a
\* row, a document or a period leads to something.
TypeOK == Typed /\ References

-----------------------------------------------------------------------------
(* Closed periods *)

\* close_period's verdict outlives the close: nothing the review packet, the
\* wizard, a late issue or another period's work does later gives a closed
\* quarter an open blocking issue, an undecided obligation, a row waiting to
\* be posted, a historical-only rate or a live row dated outside the quarter.
ClosedClean ==
    \A p \in Period : Closed(p) =>
        /\ \A i \in Issue : IssuePeriod[i] = p => ~Blocks(i)
        /\ \A f \in Form : obligations[p][f] \notin {"undecided", "due"}
        /\ RowsReady(p, TRUE)

\* "Period ... is immutable after close": no row, treatment or obligation of a
\* closed quarter changes, and none arrives or leaves, except that a final
\* snapshot marks its posted rows.
ClosedStep(p) ==
    /\ obligations'[p] = obligations[p]
    /\ \A t \in Transaction :
          \/ transactions[t].period # p /\ transactions'[t].period # p
          \/ transactions'[t] = transactions[t]
          \/ /\ transactions[t].status = "posted"
             /\ \E k \in {transactions'[t].snapshot} :
                   transactions'[t] = [transactions[t] EXCEPT
                       !.status = "included_in_snapshot", !.snapshot = k]

ClosedFrozen == [][\A p \in Period : Closed(p) => ClosedStep(p)]_vars

\* A period that left "open" never returns to it.
NoReopen ==
    [][\A p \in Period : Closed(p) => Closed(p)' /\ (periods[p].status = "amended"
                                                        => periods'[p] = periods[p])]_vars

\* Corrections go forward: no chain of amendments leads back to where it began.
\* A cycle would be a set of periods each amended in a member of the set.
AmendmentAcyclic ==
    \A S \in (SUBSET Period) \ {{}} : \E p \in S : periods[p].amendedIn \notin S

-----------------------------------------------------------------------------
(* Posted rows *)

\* A posted or filed row still meets the posting checks that later handlers
\* could undo: it has a usable rate, it is not dated ahead and its evidence
\* never falls back into review.  A line of the former provider's books, which
\* a new export may redate and give other evidence, keeps the rate alone.
PostedSound ==
    \A t \in Transaction : transactions[t].status \in Booked =>
        /\ transactions[t].rate \in {"eur", "official", "derived"}
        /\ t \notin BookLine =>
              /\ transactions[t].date <= today
              /\ HasDocument(t) =>
                    documents[transactions[t].document].status \notin InReview \cup {"absent"}

\* "Posted/closed records remain read-only": once a row is posted or out of
\* the books, no handler changes what it records apart from its tax treatment,
\* except that a new export of the former provider's books corrects its own
\* posted lines: these stay posted, and move between quarters that are not closed.
FactsOf(row) ==
    [period |-> row.period, document |-> row.document, party |-> row.party,
     date |-> row.date, rate |-> row.rate]

Corrected(t) ==
    /\ t \in BookLine
    /\ transactions[t].status \in Booked
    /\ transactions'[t].status = transactions[t].status
    /\ \A p \in {transactions[t].period, transactions'[t].period} : Mutable(p)
    /\ transactions'[t].document \in Imported /\ transactions'[t].rate = "eur"

SettledFrozen ==
    [][\A t \in Transaction :
          transactions[t].status \in Booked \cup Terminal =>
              FactsOf(transactions'[t]) = FactsOf(transactions[t]) \/ Corrected(t)]_vars

-----------------------------------------------------------------------------
(* Filing snapshots *)

FinalOf(p) ==
    {k \in 1..Len(snapshots) : snapshots[k].period = p /\ snapshots[k].kind = "final"}

\* A final snapshot is of a closed period and leaves no posted row behind it;
\* all rows it could claim belong to the first one, so the second form filed
\* for the same quarter cannot split or restate its book.
FilingSound ==
    \A p \in Period :
        /\ FinalOf(p) # {} =>
              Closed(p) /\ \A t \in RowsOf(p) : transactions[t].status # "posted"
        /\ \A t \in RowsOf(p) : transactions[t].snapshot # None =>
              /\ transactions[t].status = "included_in_snapshot"
              /\ transactions[t].snapshot \in FinalOf(p)
              /\ \A k \in FinalOf(p) : transactions[t].snapshot <= k

-----------------------------------------------------------------------------
(* The ledger implements FilingHistory *)

\* A row in the books: the facts that reach the tax forms.
Entry(t) == <<t, FactsOf(transactions[t]), transactions[t].tax>>

Phase ==
    [p \in Period |-> CASE periods[p].status = "closed" -> "closed"
                        [] periods[p].status = "amended" -> "superseded"
                        [] OTHER -> "writing"]

Book ==
    [p \in Period |-> {Entry(t) : t \in {u \in RowsOf(p) : transactions[u].status \in Booked}}]

Filed ==
    [p \in Period |-> IF FinalOf(p) = {} THEN None
        ELSE {Entry(t) : t \in {u \in RowsOf(p) :
                                 transactions[u].status = "included_in_snapshot"}}]

History == INSTANCE FilingHistory WITH
    Quarter <- Period, Unfiled <- None, phase <- Phase, book <- Book, filed <- Filed

\* The books of a closed quarter are final, the filed entries are exactly
\* those books, and no second form, amendment or late decision changes either.
ImplementsFilingHistory == History!Spec

=============================================================================
