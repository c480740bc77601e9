-------------------------------- MODULE Reta --------------------------------
(***************************************************************************)
(* Contribution bases of the self-employed (RETA): the register of base    *)
(* elections, and the check of a year's bases against the tramo that its   *)
(* income falls in.  Days run from the first of the year; every fraction   *)
(* is kept over Scale.  The generic deduction, the worker kinds and the    *)
(* reasons the ledger contributes are left out.                            *)
(***************************************************************************)
EXTENDS Integers, Sequences, FiniteSets, FiniteSetsExt

CONSTANTS
    Length,         \* days of each month
    Thirty,         \* the divisor of a partial month
    Scale,          \* common multiple of Thirty and the lengths
    Bases,          \* monthly bases that are tried
    Tables,         \* rate tables that are tried
    Activities,     \* alta periods <<first day, last day>> that are tried
    Incomes,        \* net incomes that are tried
    MaxElections    \* bound: elections recorded

Month == 1..Len(Length)
Begins == [m \in 1..(Len(Length) + 1) |-> 1 + MapThenSumSet(LAMBDA i : Length[i], 1..(m - 1))]
YearDay == 1..(Begins[Len(Length) + 1] - 1)
DaysOf(m) == Begins[m]..(Begins[m + 1] - 1)

\* A table is a sequence of tramos; the last one has no upper limit.
NoTable == <<>>
Maximum(t) == Max({t[i].max : i \in 1..Len(t)})

ASSUME RetaAssumption ==
    /\ Length \in Seq(Nat \ {0}) /\ Len(Length) > 0
    /\ Thirty \in Nat \ {0} /\ Scale \in Nat
    /\ \A d \in {Thirty} \cup {Length[m] : m \in Month} : Scale % d = 0
    /\ Bases \subseteq Nat \ {0} /\ Activities \subseteq YearDay \X Nat
    /\ MaxElections \in Nat
    /\ \A t \in Tables :
          /\ t \in Seq([upper : Nat, inclusive : BOOLEAN, min : Nat, max : Nat])
          /\ \A i \in 1..Len(t) : 0 < t[i].min /\ t[i].min <= t[i].max

VARIABLES
    elections,      \* live rows
    voided,         \* dates of void rows
    alta,           \* business activities
    table,          \* the imported table, or NoTable
    entered         \* elections recorded so far

retaVars == <<elections, voided, alta, table, entered>>

\* A tarifa plana row has no base.
Election == [from : YearDay, base : Bases \cup {0}]
Plana(e) == e.base = 0

-----------------------------------------------------------------------------
(* The register *)

\* RD 2064/1995 art. 45.1: the first of an odd month.
ChangeDay(d) == \E m \in Month : m % 2 = 1 /\ d = Begins[m]

\* Broken variant: any day will do.
MayStart_Any(d) == \A e \in elections : e.from < d

\* After every live row, and on a legal day unless the last one is a tarifa plana.
MayStart(d) ==
    \A e \in elections :
        /\ e.from < d
        /\ (\A f \in elections : f.from <= e.from) =>
              Plana(e) \/ ChangeDay(d) \/ \E a \in alta : a[1] = d

\* add_reta_base_election
Elect(d, base) ==
    /\ entered < MaxElections
    /\ MayStart(d)
    /\ base # 0 => table # NoTable /\ base <= Maximum(table)
    /\ elections' = elections \cup {[from |-> d, base |-> base]}
    /\ entered' = entered + 1
    /\ UNCHANGED <<voided, alta, table>>

\* void_reta_base_election
VoidElection(e) ==
    /\ e \in elections
    /\ elections' = elections \ {e}
    /\ voided' = voided \cup {e.from}
    /\ UNCHANGED <<alta, table, entered>>

AddActivity(a) ==
    /\ a \notin alta
    /\ alta' = alta \cup {a}
    /\ UNCHANGED <<elections, voided, table, entered>>

\* import_reta_table: a corrected table replaces the one of its year.
ImportTable(t) ==
    /\ t # table
    /\ table' = t
    /\ UNCHANGED <<elections, voided, alta, entered>>

-----------------------------------------------------------------------------
(* bracket_check *)

InAlta(d) == \E a \in alta : a[1] <= d /\ d <= a[2]

Latest(S) == CHOOSE e \in S : \A f \in S : f.from <= e.from

\* The election in force on a day, if any.
Started(d) == {e \in elections : e.from <= d}
InForce(d) == Latest(Started(d))

Missing(d) == InAlta(d) /\ Started(d) = {}
Regularisable(d) == InAlta(d) /\ (Started(d) # {} => ~Plana(InForce(d)))
Based(m) == {d \in DaysOf(m) : Regularisable(d) /\ ~Missing(d)}

Whole(m) == Cardinality(Based(m)) = Length[m]

\* Broken variant: every month counts its days over thirty.
MonthShare_Days(m) == Cardinality(Based(m)) * (Scale \div Thirty)

\* What a month weighs, and what was paid on provisionally in it, by Scale.
MonthShare(m) == IF Whole(m) THEN Scale ELSE Cardinality(Based(m)) * (Scale \div Thirty)
BasesOf(days) == MapThenSumSet(LAMBDA d : InForce(d).base, days)
Provisional(m) ==
    BasesOf(Based(m))
        * (Scale \div (IF Whole(m) THEN Length[m] ELSE Thirty))

UsedBases(months) == UNION {{InForce(d).base : d \in Based(m)} : m \in months}

\* The tramo of a monthly average, income * Thirty / days, compared exactly.
Reaches(t, i, income, days) ==
    \/ i = Len(t)
    \/ income * Thirty < t[i].upper * days
    \/ t[i].inclusive /\ income * Thirty = t[i].upper * days
TramoOf(t, income, days) == t[Min({i \in 1..Len(t) : Reaches(t, i, income, days)})]

\* Broken variant: the last month is never locked.
LockedUntil_Short(asOf) ==
    IF asOf > Len(Length) THEN Len(Length) - 1
    ELSE Min({Len(Length) - 1, ((asOf - 1) \div 2) * 2 + 2})

\* The last month that a request made in month asOf no longer reaches;
\* asOf = Len(Length) + 1 is a date in the next year.
LockedUntil(asOf) ==
    IF asOf > Len(Length) THEN Len(Length)
    ELSE Min({Len(Length), ((asOf - 1) \div 2) * 2 + 2})

WindowDays(through) == UNION {DaysOf(m) : m \in 1..through}

Known(through, asOf) ==
    LET used == UsedBases(1..LockedUntil(asOf)) IN
    /\ table # NoTable
    /\ \A d \in WindowDays(through) : ~Missing(d)
    /\ \E d \in WindowDays(through) : Regularisable(d)
    /\ \A b \in used : table[1].min <= b /\ b <= Maximum(table)

TramoFor(through, income) ==
    TramoOf(table, income, Cardinality({d \in WindowDays(through) : Regularisable(d)}))

Paid(through) == MapThenSumSet(Provisional, 1..through)
Weight(through) == MapThenSumSet(MonthShare, 1..through)
Floor(through, income) == TramoFor(through, income).min * Weight(through)
Ceiling(through, income) == TramoFor(through, income).max * Weight(through)

Positive(n) == IF n > 0 THEN n ELSE 0

BracketCheck(through, asOf, income) ==
    IF ~Known(through, asOf)
    THEN [status |-> "unknown", additional |-> 0, refund |-> 0, locked |-> 0]
    ELSE [status |-> IF Paid(through) < Floor(through, income) THEN "below_bracket"
                     ELSE IF Paid(through) > Ceiling(through, income) THEN "above_bracket"
                     ELSE "ok",
          additional |-> Positive(Floor(through, income) - Paid(through)),
          refund |-> Positive(Paid(through) - Ceiling(through, income)),
          locked |-> Positive(
              TramoFor(through, income).min * Weight(LockedUntil(asOf)) - Paid(LockedUntil(asOf)))]

-----------------------------------------------------------------------------

RetaInit ==
    /\ elections = {} /\ voided = {} /\ alta = {} /\ table = NoTable /\ entered = 0

RetaNext ==
    \/ \E d \in YearDay, base \in Bases \cup {0} : Elect(d, base)
    \/ \E e \in elections : VoidElection(e)
    \/ \E a \in Activities : AddActivity(a)
    \/ \E t \in Tables : ImportTable(t)

-----------------------------------------------------------------------------
(* Properties *)

\* The register, the activities and the table keep their shape.
RetaTypeOK ==
    /\ elections \subseteq Election /\ voided \subseteq YearDay
    /\ \A e, f \in elections : e.from = f.from => e = f
    /\ alta \subseteq Activities /\ table \in Tables \cup {NoTable}
    /\ entered \in 0..MaxElections

CheckPoints == {a \in Month \X (1..(Len(Length) + 1)) : a[2] >= a[1]}

\* bracket_check: a year-to-date whose every base lies in the tramo of its
\* income owes nothing and gets nothing back, whole and partial months alike;
\* whoever owes has paid some day on a base below it.
InsideOwesNothing ==
    \A a \in CheckPoints, income \in Incomes :
        LET c == BracketCheck(a[1], a[2], income)
            used == UsedBases(1..a[1])
        IN  c.status # "unknown" =>
              /\ (\A b \in used : TramoFor(a[1], income).min <= b /\ b <= TramoFor(a[1], income).max)
                    => c.status = "ok" /\ c.additional = 0 /\ c.refund = 0
              /\ c.additional > 0 => \E b \in used : b < TramoFor(a[1], income).min

\* bracket_check: once the year is over, what is locked in is what is owed.
LockedInAtYearEnd ==
    \A income \in Incomes :
        LET c == BracketCheck(Len(Length), Len(Length) + 1, income)
        IN  c.locked = c.additional

\* add_reta_base_election: between neighbouring live rows the base changes on a
\* day art. 45.1 allows, on an alta, or after a tarifa plana, unless a row
\* between them was voided.
ChangesOnLegalDays ==
    \A e, f \in elections :
        /\ e.from < f.from
        /\ \A g \in elections : ~(e.from < g.from /\ g.from < f.from)
        => \/ Plana(e) \/ ChangeDay(f.from)
           \/ \E a \in alta : a[1] = f.from
           \/ \E d \in voided : e.from < d /\ d < f.from

\* Elections start when they may, and a finished year owes what it locked in.
RetaInv == RetaTypeOK /\ LockedInAtYearEnd /\ ChangesOnLegalDays
=============================================================================
