------------------------------ MODULE TaxRows -------------------------------
(***************************************************************************)
(* Which row counts in which tax figure: the posted journal, the reviewed   *)
(* attributions that move a row to another quarter without rewriting it     *)
(* (tax_attribution.py), and the annual adjustments that bring a source     *)
(* outside the quarterly journal into the yearly figure                     *)
(* (annual_adjustments.py), all under periods that close.                   *)
(*                                                                          *)
(* One year, one counterparty, one tax (IRPF; the VAT basis and the exchange *)
(* differences of a decision take the same path).  Facts and the tax data   *)
(* of the counterparty are numbers, changed by taking another value; an     *)
(* amount is the revision or the facts it was read from.                    *)
(***************************************************************************)
EXTENDS Naturals

CONSTANTS
    Row,          \* transactions
    Quarters,     \* quarters of the year
    Dates,        \* the quarters rows are dated in
    Adjustment,   \* request identifiers of annual adjustments
    MaxFacts,     \* bound: versions of a row's facts
    MaxRevision   \* bound: revisions of one attribution

ASSUME TaxRowsAssumption ==
    /\ Quarters \in Nat \ {0} /\ Dates \subseteq 1 .. Quarters
    /\ MaxFacts \in Nat /\ MaxRevision \in Nat

VARIABLES
    row,          \* [Row -> [home, quarter, status, facts, in130]]: home is the period
                  \* it is booked in, 0 for the annual one, quarter that of its date
    party,        \* tax data of the counterparty
    decision,     \* [Row -> latest attribution, revision 0 when there is none]
    adjustment,   \* [Adjustment -> annual adjustment]
    blocking,     \* rows with an open blocking issue of their own
    period        \* [0 .. Quarters -> "open", "filed" (still open) or "closed"]

rowsVars == <<row, party, decision, adjustment, blocking, period>>

Annual == 0
Quarter == 1 .. Quarters
JournalRow ==
    [home : 0 .. Quarters, quarter : Quarter, status : {"approved", "posted", "void"},
     facts : 0 .. MaxFacts, in130 : BOOLEAN]
NoDecision == [revision |-> 0, quarter |-> 0, seen |-> <<0, 0, FALSE>>, corrects |-> FALSE]
NoAdjustment == [state |-> "none"]
Withdrawn == [state |-> "void"]

-----------------------------------------------------------------------------
(* What the figures read *)

\* The facts an attribution was reviewed against.
Source(t) == <<row[t].facts, party, row[t].in130>>

Attributed(t) == decision[t].quarter # 0
Stale(t) == Attributed(t) /\ decision[t].seen # Source(t)
Counted(t) == row[t].status = "posted" /\ row[t].in130
Effective(t) == IF Attributed(t) THEN decision[t].quarter ELSE row[t].quarter
Amount(t) ==
    IF Attributed(t) THEN <<"reviewed", decision[t].revision>>
                     ELSE <<"booked", row[t].facts>>

\* The lines of a quarter's own rows.
Recognized(q) == {<<t, Amount(t)>> : t \in {r \in Row : Counted(r) /\ Effective(r) = q}}

\* A stored decision about a row that left the quarterly tax blocks all.
InvalidStored == \E t \in Row : row[t].status = "posted" /\ Attributed(t) /\ ~row[t].in130
YearToDateBlocked(q) ==
    InvalidStored \/ \E t \in Row : Counted(t) /\ Effective(t) <= q /\ Stale(t)

\* A row an annual adjustment may stand on.
Outside(t) == row[t].status # "void" /\ row[t].home = Annual /\ ~row[t].in130
Active(a) == adjustment[a].state = "active"
AdjustmentBlocked(a) ==
    LET t == adjustment[a].source IN
    \/ adjustment[a].grade = "provisional"
    \/ ~Outside(t)
    \/ t \in blocking
    \/ adjustment[a].snapshot # row[t].facts

AnnualBlocked ==
    \/ YearToDateBlocked(Quarters)
    \/ \E a \in Adjustment : Active(a) /\ AdjustmentBlocked(a)

AnnualLines ==
    {<<t, Amount(t)>> : t \in {r \in Row : Counted(r)}}
        \cup {<<adjustment[a].source, <<"adjusted", a>>>> : a \in {b \in Adjustment : Active(b)}}

-----------------------------------------------------------------------------
(* Attributions *)

Settled(p) == period[p] # "open"

\* The quarters a decision touches: the row's own, and the one it names.
Affected(t, q) == {row[t].quarter} \cup ({q} \ {0})

\* Broken variant: the quarters of the replaced decision are forgotten.
Touched_NewOnly(t, q) == Affected(t, q)

\* All the quarters a change of decision touches, the replaced one's included.
Touched(t, q) == Affected(t, q) \cup Affected(t, decision[t].quarter)

\* Broken variant: a decision that keeps the number of the one it replaces.
ApplyAttribution_Unnumbered(t, q, corrects) ==
    /\ decision[t].revision < MaxRevision
    /\ row[t].status \in {"approved", "posted"}
    /\ q # 0 => row[t].in130
    /\ (\E d \in Touched(t, q) : Settled(d) \/ Settled(Annual)) => corrects
    /\ decision' = [decision EXCEPT ![t] = [revision |-> @.revision, quarter |-> q,
                                            seen |-> Source(t), corrects |-> corrects]]
    /\ UNCHANGED <<row, party, adjustment, blocking, period>>

\* q = 0 withdraws the attribution; corrects acknowledges that a settled
\* period is touched.  The same decision sent again is a stuttering step.
ApplyAttribution(t, q, corrects) ==
    /\ decision[t].revision < MaxRevision
    /\ row[t].status \in {"approved", "posted"}
    /\ q # 0 => row[t].in130
    /\ (\E d \in Touched(t, q) : Settled(d) \/ Settled(Annual)) => corrects
    /\ decision' = [decision EXCEPT ![t] = [revision |-> @.revision + 1, quarter |-> q,
                                            seen |-> Source(t), corrects |-> corrects]]
    /\ UNCHANGED <<row, party, adjustment, blocking, period>>

-----------------------------------------------------------------------------
(* The journal underneath *)

Mutable(t) == period[row[t].home] # "closed"

SetRow(t, r) ==
    /\ row' = [row EXCEPT ![t] = r]
    /\ UNCHANGED <<party, decision, adjustment, blocking, period>>

Post(t) ==
    /\ Mutable(t) /\ row[t].status = "approved"
    /\ SetRow(t, [row[t] EXCEPT !.status = "posted"])

Void(t) ==
    /\ Mutable(t) /\ row[t].status # "void"
    /\ SetRow(t, [row[t] EXCEPT !.status = "void"])

\* Only an unposted row is valued again.
Revalue(t, f) ==
    /\ Mutable(t) /\ row[t].status = "approved" /\ f # row[t].facts
    /\ SetRow(t, [row[t] EXCEPT !.facts = f])

\* The tax treatment of a row may be replaced while its period is open.
Reclassify(t) ==
    /\ Mutable(t) /\ row[t].status # "void"
    /\ SetRow(t, [row[t] EXCEPT !.in130 = ~@])

\* No period guards the tax data of a counterparty.
ChangeParty ==
    /\ party' = 1 - party
    /\ UNCHANGED <<row, decision, adjustment, blocking, period>>

\* The issue may be filed under any open period, so the row's does not guard it.
ToggleIssue(t) ==
    /\ blocking' = IF t \in blocking THEN blocking \ {t} ELSE blocking \cup {t}
    /\ UNCHANGED <<row, party, decision, adjustment, period>>

-----------------------------------------------------------------------------
(* Annual adjustments *)

\* Broken variant: the one active adjustment per source and year is not looked for.
Recorded_Never(t) == FALSE

Recorded(t) == \E a \in Adjustment : Active(a) /\ adjustment[a].source = t

\* A request identifier names one adjustment: sent again it returns the stored
\* one, or is refused once that is withdrawn.
RecordAdjustment(a, t, grade) ==
    /\ adjustment[a] = NoAdjustment
    /\ period[Annual] # "closed"
    /\ Outside(t)
    /\ grade = "verified" => t \notin blocking
    /\ ~Recorded(t)
    /\ adjustment' = [adjustment EXCEPT ![a] =
          [state |-> "active", source |-> t, grade |-> grade, snapshot |-> row[t].facts]]
    /\ UNCHANGED <<row, party, decision, blocking, period>>

\* Broken variant: the withdrawal of an adjustment does not look at its period.
VoidAdjustment_Closed(a) ==
    /\ Active(a)
    /\ adjustment' = [adjustment EXCEPT ![a] = Withdrawn]
    /\ UNCHANGED <<row, party, decision, blocking, period>>

VoidAdjustment(a) ==
    /\ Active(a)
    /\ period[Annual] # "closed"
    /\ adjustment' = [adjustment EXCEPT ![a] = Withdrawn]
    /\ UNCHANGED <<row, party, decision, blocking, period>>

-----------------------------------------------------------------------------
(* Periods *)

\* A return marked as filed, or a snapshot, leaves the period open.
FilePeriod(p) ==
    /\ period[p] = "open"
    /\ period' = [period EXCEPT ![p] = "filed"]
    /\ UNCHANGED <<row, party, decision, adjustment, blocking>>

\* The close looks at the rows of the period itself: neither at the rows
\* attributed to it nor, for the year, at its adjustments or its quarters.
ClosePeriod(p) ==
    /\ period[p] # "closed"
    /\ \A t \in Row : row[t].home = p => row[t].status # "approved" /\ t \notin blocking
    /\ period' = [period EXCEPT ![p] = "closed"]
    /\ UNCHANGED <<row, party, decision, adjustment, blocking>>

-----------------------------------------------------------------------------
RowsInit ==
    /\ row \in [Row -> {r \in JournalRow :
                          /\ r.quarter \in Dates /\ r.status = "approved" /\ r.facts = 0
                          /\ r.home \in {Annual, r.quarter} /\ r.in130 = (r.home # Annual)}]
    /\ party = 0
    /\ decision = [t \in Row |-> NoDecision]
    /\ adjustment = [a \in Adjustment |-> NoAdjustment]
    /\ blocking = {}
    /\ period = [p \in 0 .. Quarters |-> "open"]

RowStep(t) ==
    \/ \E q \in 0 .. Quarters, corrects \in BOOLEAN : ApplyAttribution(t, q, corrects)
    \/ Post(t)
    \/ Void(t)
    \/ \E f \in 0 .. MaxFacts : Revalue(t, f)
    \/ Reclassify(t)
    \/ ToggleIssue(t)

RowsNext ==
    \/ \E t \in Row : RowStep(t)
    \/ ChangeParty
    \/ \E a \in Adjustment :
          \/ \E t \in Row, grade \in {"verified", "provisional"} : RecordAdjustment(a, t, grade)
          \/ VoidAdjustment(a)
    \/ \E p \in 0 .. Quarters : FilePeriod(p) \/ ClosePeriod(p)

-----------------------------------------------------------------------------
(* Properties *)

\* Rows, attributions, adjustments and periods keep the shape of their tables.
RowsTypeOK ==
    /\ row \in [Row -> JournalRow]
    /\ party \in {0, 1}
    /\ decision \in [Row -> {NoDecision} \cup
          [revision : 1 .. MaxRevision, quarter : 0 .. Quarters,
           seen : (0 .. MaxFacts) \X {0, 1} \X BOOLEAN, corrects : BOOLEAN]]
    /\ adjustment \in [Adjustment -> {NoAdjustment, Withdrawn} \cup
          [state : {"active"}, source : Row,
           grade : {"verified", "provisional"}, snapshot : 0 .. MaxFacts]]
    /\ blocking \subseteq Row
    /\ period \in [0 .. Quarters -> {"open", "filed", "closed"}]

Acknowledged(t) == decision'[t] # decision[t] /\ decision'[t].corrects

\* What a closed or filed quarter recognizes changes only by an attribution
\* that acknowledges the correction, or by a change of a row whose own period
\* is still open: a decision made while the quarter was open, replaced or withdrawn
\* after it closed, does not slip through (apply_attribution).
SettledQuarterStays ==
    \A q \in Quarter : Settled(q) =>
        \A line \in (Recognized(q) \cup Recognized(q)') \ (Recognized(q) \cap Recognized(q)') :
            \/ Acknowledged(line[1])
            \/ row'[line[1]] # row[line[1]] /\ Mutable(line[1])

\* An annual figure that is not blocked counts each source once: as a row of
\* the quarterly journal or through one adjustment, whatever was reclassified,
\* withdrawn, replaced or sent again (adjustment_rows, record_adjustment).
AnnualCountsOnce ==
    ~AnnualBlocked =>
        \A line, other \in AnnualLines : line[1] = other[1] => line = other

\* Once the year and its quarters are closed, the lines of the annual figure
\* change only by an acknowledged attribution.
ClosedYearStays ==
    (\A p \in 0 .. Quarters : period[p] = "closed") =>
        AnnualLines' = AnnualLines \/ \E t \in Row : Acknowledged(t)

\* The rows keep their shape, and each source counts once.
RowsInv == RowsTypeOK /\ AnnualCountsOnce
=============================================================================
