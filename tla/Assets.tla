------------------------------- MODULE Assets -------------------------------
(***************************************************************************)
(* One piece of equipment: bought through the expense wizard or taken over *)
(* from an older workflow, planned quarter by quarter, recognized one row  *)
(* at a time in quarters that may close meanwhile, and disposed of.  Every *)
(* operation runs in one BEGIN IMMEDIATE transaction, so each is a step.   *)
(* Days are half quarters: 2q is the last day of quarter q, 2q-1 a day     *)
(* inside it.  Parts of a year are counted in units, of which the asset is *)
(* written off in Life.                                                    *)
(***************************************************************************)
EXTENDS Integers, FiniteSets, FiniteSetsExt, Functions

CONSTANTS
    AssetQuarters,  \* bound: the quarters 1..AssetQuarters
    AssetYear,      \* quarters in a year
    Elapsed,        \* quarter -> units from the first day of service to its end
    Life,           \* units in which the annual rate writes the asset off
    Basis,          \* amortizable basis, before the business share
    Ratios,         \* business shares, as <<part, whole>>
    Balances,       \* opening balances that are tried
    Gone            \* pairs <<disposed_on, last_depreciable_on>> that are tried

AssetQuarter == 1..AssetQuarters
Day == 0..2 * AssetQuarters      \* 0 stands for no date
Year == {(q - 1) \div AssetYear + 1 : q \in AssetQuarter}
YearOf(q) == (q - 1) \div AssetYear + 1
YearEnd(y) == 2 * y * AssetYear
QuarterOf(d) == (d + 1) \div 2

ASSUME AssetsAssumption ==
    /\ AssetQuarters \in Nat \ {0, 1} /\ AssetYear \in Nat \ {0}
    /\ Elapsed \in [0..AssetQuarters -> Nat] /\ Elapsed[0] = 0
    /\ \A q \in AssetQuarter : Elapsed[q - 1] < Elapsed[q]
    /\ Life \in Nat \ {0} /\ Basis \in Nat \ {0}
    /\ \A r \in Ratios : r \in Nat \X Nat /\ r[1] <= r[2] /\ r[2] > 0
    /\ Balances \subseteq Nat
    /\ \A g \in Gone : g \in Day \X Day /\ g[2] <= g[1] /\ g[2] >= 1

VARIABLES
    today,
    asset,          \* its acquisition row and its business share
    plan,           \* the reviewed parameters, or NoPlan
    entries,        \* quarter -> its schedule row
    shut,           \* closed quarters
    disposal        \* <<disposed_on, last_depreciable_on>>, or NotDisposed

assetsVars == <<today, asset, plan, entries, shut, disposal>>

NotDisposed == <<0, 0>>
NoPlan == [method |-> "none", ratio |-> <<1, 1>>, asOf |-> 0, prior |-> 0, current |-> 0]
NoEntry == [amount |-> 0, on |-> 0, tx |-> "none", books |-> FALSE]

Exists(e) == e.on # 0
Depreciated(e) == e.tx = "posted"
TakesRows(q) == q \notin shut

-----------------------------------------------------------------------------
(* The schedule: cumulative totals are rounded, never the instalments *)

\* ROUND_HALF_UP of n / d.
HalfUp(n, d) == (2 * n + d) \div (2 * d)
Smaller(a, b) == IF a <= b THEN a ELSE b

BusinessBasis(ratio) == HalfUp(Basis * ratio[1], ratio[2])
Opening(p) == p.prior + p.current

\* Broken variant: the last instalment is not capped.
Target_Uncapped(p, q) ==
    IF q < p.asOf THEN Opening(p)
    ELSE HalfUp(Opening(p) * Life
                  + BusinessBasis(p.ratio) * (Elapsed[q] - Elapsed[p.asOf]), Life)

\* What the books should have charged by the end of quarter q.
Target(p, q) ==
    IF q < p.asOf THEN Opening(p)
    ELSE Smaller(BusinessBasis(p.ratio),
               HalfUp(Opening(p) * Life
                        + BusinessBasis(p.ratio) * (Elapsed[q] - Elapsed[p.asOf]), Life))

Schedule(p) ==
    [q \in AssetQuarter |->
        IF p.method = "immediate"
        THEN IF q = 1 THEN [NoEntry EXCEPT !.amount = BusinessBasis(p.ratio), !.on = 1] ELSE NoEntry
        ELSE IF Target(p, q) > Target(p, q - 1)
        THEN [NoEntry EXCEPT !.amount = Target(p, q) - Target(p, q - 1), !.on = 2 * q]
        ELSE NoEntry]

\* schedule() refuses a basis that rounds to zero and an opening above it;
\* the horizon (a bound) must hold the last instalment.
Plannable(p) ==
    /\ p.ratio[1] > 0 /\ BusinessBasis(p.ratio) > 0 /\ Opening(p) <= BusinessBasis(p.ratio)
    /\ p.method = "linear" => Target(p, AssetQuarters) >= BusinessBasis(p.ratio)

\* Broken variant: a schedule row may be added to a closed quarter.
RowAllowed_Closed(q) == disposal = NotDisposed \/ 2 * q <= disposal[2]

\* add_amortization_entry
RowAllowed(q) ==
    /\ disposal = NotDisposed \/ 2 * q <= disposal[2]
    /\ TakesRows(q)

RowsAllowed(p) == \A q \in AssetQuarter : Exists(Schedule(p)[q]) => RowAllowed(q)

-----------------------------------------------------------------------------
(* Purchase, takeover, change of the book profile *)

\* The wizard books the purchase, the plan, and the rows that are due.
Acquire(method, ratio) ==
    LET p == [NoPlan EXCEPT !.method = method, !.ratio = ratio]
        rows == Schedule(p)
        due == {q \in AssetQuarter : Exists(rows[q]) /\ rows[q].on <= today}
    IN  /\ asset.status = "absent"
        /\ TakesRows(1)
        /\ Plannable(p) /\ RowsAllowed(p)
        /\ asset' = [status |-> "posted", ratio |-> ratio]
        /\ plan' = p
        /\ entries' = [q \in AssetQuarter |->
                IF q \in due THEN [rows[q] EXCEPT !.tx = "posted", !.books = TRUE] ELSE rows[q]]
        /\ UNCHANGED <<today, shut, disposal>>

EditProfile(ratio) ==
    /\ asset.status # "absent" /\ ratio # asset.ratio
    /\ TakesRows(1)
    /\ \A q \in AssetQuarter : Exists(entries[q]) => TakesRows(q)
    /\ asset' = [asset EXCEPT !.ratio = ratio]
    /\ UNCHANGED <<today, plan, entries, shut, disposal>>

Unplanned(asOf) ==
    /\ plan = NoPlan
    /\ disposal = NotDisposed
    /\ \A q \in AssetQuarter : Exists(entries[q]) => q <= asOf

\* continue_asset: a plan for what the reviewed opening balance leaves.
Continue(asOf, prior, current) ==
    LET p == [method |-> "linear", ratio |-> asset.ratio,
              asOf |-> asOf, prior |-> prior, current |-> current]
        rows == Schedule(p)
    IN  /\ 2 * asOf <= today
        /\ asset.status # "absent"
        /\ Unplanned(asOf)
        /\ Plannable(p) /\ RowsAllowed(p)
        /\ plan' = p
        /\ entries' = [q \in AssetQuarter |-> IF Exists(rows[q]) THEN rows[q] ELSE entries[q]]
        /\ UNCHANGED <<today, asset, shut, disposal>>

-----------------------------------------------------------------------------
(* Recognition *)

Amounts(quarters) == MapThenSumSet(LAMBDA q : entries[q].amount, quarters)

\* What the guard of _recognize counts as used.
UsedBasis ==
    Opening(plan) + Amounts({q \in AssetQuarter :
        Depreciated(entries[q]) /\ (plan.asOf > 0 => entries[q].on > 2 * plan.asOf)})

StillUsed(e) == disposal = NotDisposed \/ e.on <= disposal[2]

\* recognize_period; a row that is posted already answers so and changes nothing.
Recognize(q) ==
    LET e == entries[q] IN
    /\ Exists(e) /\ e.tx = "none"
    /\ plan # NoPlan
    /\ StillUsed(e)
    /\ e = Schedule(plan)[q]
    /\ asset.ratio = plan.ratio
    /\ TakesRows(q)
    /\ e.on <= today
    /\ asset.status = "posted"
    /\ UsedBasis + e.amount <= BusinessBasis(asset.ratio)
    /\ entries' = [entries EXCEPT ![q].tx = "posted", ![q].books = TRUE]
    /\ UNCHANGED <<today, asset, plan, shut, disposal>>

\* `transactions transition ... void` on a recognition: the row keeps its link.
VoidRecognition(q) ==
    /\ Depreciated(entries[q])
    /\ TakesRows(q)
    /\ entries' = [entries EXCEPT ![q].tx = "void"]
    /\ UNCHANGED <<today, asset, plan, shut, disposal>>

VoidAcquisition ==
    /\ asset.status = "posted"
    /\ TakesRows(1)
    /\ asset' = [asset EXCEPT !.status = "void"]
    /\ UNCHANGED <<today, plan, entries, shut, disposal>>

\* Broken variant: rows already in the books are not looked at.
Disposable_Booked(on, last) == on <= today /\ disposal = NotDisposed

Disposable(on, last) ==
    /\ on <= today
    /\ disposal = NotDisposed
    /\ \A q \in AssetQuarter : entries[q].books => entries[q].on <= last

RecordDisposal(on, last) ==
    /\ asset.status # "absent"
    /\ Disposable(on, last)
    /\ disposal' = <<on, last>>
    /\ UNCHANGED <<today, asset, plan, entries, shut>>

CloseQuarter(q) ==
    /\ TakesRows(q)
    /\ shut' = shut \cup {q}
    /\ UNCHANGED <<today, asset, plan, entries, disposal>>

Tick ==
    /\ today < 2 * AssetQuarters
    /\ today' = today + 1
    /\ UNCHANGED <<asset, plan, entries, shut, disposal>>

-----------------------------------------------------------------------------
(* The summary of a year that the books and the annual check read *)

Late(e, through) == disposal # NotDisposed /\ disposal[1] <= through /\ e.on > disposal[2]

Charged(q, through) ==
    /\ Exists(entries[q]) /\ (plan.asOf > 0 => entries[q].on > 2 * plan.asOf)
    /\ ~Late(entries[q], through)
    /\ Depreciated(entries[q]) /\ entries[q].on <= through

\* Broken variant: a voided recognition is taken for a recognized one.
PendingRow_Voided(q, y, through) ==
    /\ Exists(entries[q]) /\ (plan.asOf > 0 => entries[q].on > 2 * plan.asOf)
    /\ ~Late(entries[q], through)
    /\ YearOf(q) = y /\ entries[q].on <= through
    /\ ~entries[q].books

PendingRow(q, y, through) ==
    /\ Exists(entries[q]) /\ (plan.asOf > 0 => entries[q].on > 2 * plan.asOf)
    /\ ~Late(entries[q], through)
    /\ YearOf(q) = y /\ entries[q].on <= through
    /\ ~Depreciated(entries[q]) \/ ~entries[q].books

\* A summary exists once the year reaches past the opening balance.
Summarized(through) == plan # NoPlan /\ through > 2 * plan.asOf

\* Broken variant: what the opening charged in its own year is not carried.
OpeningIn_Dropped(y) ==
    [prior |-> plan.prior, current |-> IF y = YearOf(plan.asOf) THEN plan.current ELSE 0]

OpeningIn(y) ==
    [prior |-> plan.prior + (IF y > YearOf(plan.asOf) THEN plan.current ELSE 0),
     current |-> IF y = YearOf(plan.asOf) THEN plan.current ELSE 0]

ChargedIn(years, through) ==
    Amounts({q \in AssetQuarter : YearOf(q) \in years /\ Charged(q, through)})

Summary(y, through) ==
    [prior |-> OpeningIn(y).prior + ChargedIn(0..(y - 1), through),
     current |-> OpeningIn(y).current + ChargedIn({y}, through),
     pending |-> \/ \E q \in AssetQuarter : PendingRow(q, y, through)
                 \/ /\ disposal # NotDisposed /\ disposal[1] <= through
                    /\ YearOf(QuarterOf(disposal[1])) = y]

-----------------------------------------------------------------------------

\* A ledger without the asset, or one whose previous workflow has it: with the
\* rows that workflow posted in the first two quarters, and no plan.
AssetsInit ==
    /\ plan = NoPlan /\ shut = {} /\ disposal = NotDisposed
    /\ \/ /\ today = 1
          /\ asset = [status |-> "absent", ratio |-> <<1, 1>>]
          /\ entries = [q \in AssetQuarter |-> NoEntry]
       \/ \E r \in Ratios, posted \in SUBSET {1, 2} :
          /\ today = 4
          /\ asset = [status |-> "posted", ratio |-> r]
          /\ entries = [q \in AssetQuarter |->
                IF q \in posted THEN [amount |-> 1, on |-> 2 * q, tx |-> "posted", books |-> TRUE]
                ELSE NoEntry]

AssetsNext ==
    \/ \E r \in Ratios :
          \/ EditProfile(r)
          \/ \E method \in {"immediate", "linear"} : Acquire(method, r)
    \/ \E asOf \in AssetQuarter, prior, current \in Balances : Continue(asOf, prior, current)
    \/ \E q \in AssetQuarter : Recognize(q) \/ VoidRecognition(q) \/ CloseQuarter(q)
    \/ VoidAcquisition
    \/ \E gone \in Gone : RecordDisposal(gone[1], gone[2])
    \/ Tick

-----------------------------------------------------------------------------
(* Properties *)

Entry == [amount : Nat, on : Day, tx : {"none", "posted", "void"}, books : BOOLEAN]

\* The asset, its plan and its schedule rows keep their shape; a row in the
\* books was recognized, and its date lies in the quarter it is filed under.
AssetsTypeOK ==
    /\ today \in Day
    /\ asset \in [status : {"absent", "posted", "void"}, ratio : Ratios \cup {<<1, 1>>}]
    /\ plan \in [method : {"none", "immediate", "linear"}, ratio : Ratios \cup {<<1, 1>>},
                 asOf : 0..AssetQuarters, prior : Nat, current : Nat]
    /\ entries \in [AssetQuarter -> Entry]
    /\ \A q \in AssetQuarter :
          /\ entries[q].books <=> entries[q].tx # "none"
          /\ Exists(entries[q]) => QuarterOf(entries[q].on) = q
    /\ shut \subseteq AssetQuarter
    /\ disposal \in Day \X Day

\* asset_lifecycle.py: whichever comes first, the disposal or the recognition,
\* no day after the last use is ever charged to the books.
NothingAfterLastUse ==
    disposal # NotDisposed =>
        \A q \in AssetQuarter : Depreciated(entries[q]) => entries[q].on <= disposal[2]

\* depreciation.py: the instalments of a plan add up to what its opening
\* balance leaves of the basis, whatever the daily shares round to, and each
\* is worth something.
PlanIsWhole ==
    LET planned == {q \in AssetQuarter : Exists(entries[q]) /\ entries[q].on > 2 * plan.asOf} IN
    plan # NoPlan =>
        /\ \A q \in planned : entries[q].amount > 0
        /\ Opening(plan) + Amounts(planned) = BusinessBasis(plan.ratio)

\* depreciation.py: when no year up to y has anything pending, the books have
\* charged exactly what the plan asks for by the end of y: an instalment that
\* was voided, or that its closed quarter no longer takes, shows in its year.
ReadyMeansCharged ==
    \A y \in Year :
        /\ plan.method = "linear" /\ Summarized(YearEnd(y))
        /\ \A z \in 1..y : Summarized(YearEnd(z)) => ~Summary(z, YearEnd(z)).pending
        /\ disposal = NotDisposed
        => Summary(y, YearEnd(y)).prior + Summary(y, YearEnd(y)).current
                = Target(plan, Smaller(y * AssetYear, AssetQuarters))

\* depreciation.py: a year opens with what the year before closed with, also
\* when the opening balance falls inside that year.
CarriedForward ==
    \A y \in Year :
        Summarized(YearEnd(y)) /\ y + 1 \in Year =>
            Summary(y + 1, YearEnd(y + 1)).prior
                = Summary(y, YearEnd(y)).prior + Summary(y, YearEnd(y)).current

\* What a closed quarter charged, and what was planned for it, stays: no
\* purchase, recognition, void, continuation or disposal reaches back into it.
FrozenQuarter == \A q \in shut : entries'[q] = entries[q]

\* The asset keeps its shape, and its disposal ends what is charged.
AssetsInv == AssetsTypeOK /\ NothingAfterLastUse

\* The plan of an asset is whole, its years join up, and nothing is left out.
AssetFigures == PlanIsWhole /\ CarriedForward /\ ReadyMeansCharged
=============================================================================
