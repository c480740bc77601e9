------------------------------ MODULE Returns -------------------------------
(***************************************************************************)
(* The quarterly returns as a chain: each is calculated from the figures of *)
(* its quarter and from what the registered returns before it say was paid, *)
(* left negative or left to compensate (tax_engine.py, modelo130.py, and    *)
(* the readers of filing snapshots in dashboard_service.py).                *)
(*                                                                          *)
(* Quarters count through the years.  Amounts are small integers and 20 %   *)
(* of the net income enters as one number.  A return is calculated at the   *)
(* moment it is registered.                                                 *)
(***************************************************************************)
EXTENDS Integers, Sequences, FiniteSetsExt, TLC

CONSTANTS
    Periods,      \* number of quarters
    YearLength,   \* quarters of a year
    Figures130,   \* <<20 % of the net income, withholdings (both year to date), reduction>>
    Figures303,   \* VAT due minus VAT deductible, of the quarter
    Due303,       \* quarters whose modelo 303 will be determined as due
    Formats,      \* how much of a return a snapshot keeps
    MaxReturns    \* bound: returns registered in all

ASSUME ReturnsAssumption ==
    /\ Periods \in Nat \ {0} /\ YearLength \in Nat \ {0} /\ MaxReturns \in Nat
    /\ Figures130 \subseteq Nat \X Nat \X Nat
    /\ Figures303 \subseteq Int
    /\ Due303 \subseteq 1 .. Periods
    /\ Formats \subseteq {"full", "boxes", "settlement", "result"}

VARIABLES
    closed,       \* closed quarters
    determined,   \* quarters whose 303 obligation is determined as due
    filed130,     \* [quarter -> its registered modelos 130, the newest first]
    filed303      \* [quarter -> its registered modelos 303, the newest first]

returnsVars == <<closed, determined, filed130, filed303>>

Span == 1 .. Periods
Pos(x) == IF x > 0 THEN x ELSE 0
Least(x, y) == IF x < y THEN x ELSE y
FirstOf(q) == ((q - 1) \div YearLength) * YearLength + 1
EarlierInYear(q) == FirstOf(q) .. (q - 1)

\* How many returns of each earlier quarter a calculation had before it.
SawBefore(filed, q) == [j \in 1 .. (q - 1) |-> Len(filed[j])]

-----------------------------------------------------------------------------
(* Modelo 130: cumulative, year to date *)

With130(q) == {j \in EarlierInYear(q) : filed130[j] # <<>>}
Current130(j) == filed130[j][1]

\* Broken variant: negative boxes 07 are added as well.
PreviousPositive_Signed(q) == MapThenSumSet(LAMBDA j : Current130(j).b07, With130(q))

\* Box 05: a quarter without a snapshot counts as nothing paid.
Instalments(quarters) == MapThenSumSet(LAMBDA j : Pos(Current130(j).b07), quarters)
PreviousPositive(q) == Instalments(With130(q))

\* Broken variant: what a quarter already deducted stays available.
CarryAfter_Unused(available, r) == available + Pos(-r.b19)

\* Box 15 may use what earlier quarters left negative and did not use yet.
CarryAfter(available, r) == Pos(available + Pos(-r.b19) - Pos(r.b15))

Carry[q \in Span] ==
    IF q = FirstOf(q) THEN 0
    ELSE IF filed130[q - 1] = <<>> THEN Carry[q - 1]
    ELSE CarryAfter(Carry[q - 1], Current130(q - 1))

Modelo130(q, net, withheld, reduction) ==
    LET paid == PreviousPositive(q)
        b07 == Pos(net) - paid - withheld
        b14 == Pos(b07) - reduction
        b15 == Least(Carry[q], Pos(b14))
    IN  [b04 |-> Pos(net), b06 |-> withheld, b07 |-> b07, b15 |-> b15, b19 |-> b14 - b15,
         saw |-> SawBefore(filed130, q)]

-----------------------------------------------------------------------------
(* Modelo 303: what is left to compensate passes to the next quarter *)

Completeness == <<"full", "boxes", "settlement", "result">>

HasFormat(q, f) == \E i \in 1 .. Len(filed303[q]) : filed303[q][i].format = f

\* Broken variant: the part of the credit that was not applied is left out.
Left_Current(r, f) ==
    CASE f = "full" -> r.carry
      [] f = "boxes" -> r.b72
      [] f = "settlement" -> Pos(r.b110 - r.b78) + Pos(-r.b71)
      [] f = "result" -> Pos(-r.b71)

\* What a snapshot of each format gives: all of it; boxes 87 and 72; boxes
\* 110, 78 and 71; the result alone.
Left(r, f) ==
    CASE f = "full" -> r.carry
      [] f = "boxes" -> r.b87 + r.b72
      [] f = "settlement" -> Pos(r.b110 - r.b78) + Pos(-r.b71)
      [] f = "result" -> Pos(-r.b71)

\* The more complete format is preferred over the newer snapshot.
Compensation(q) ==
    LET f == Completeness[Min({k \in 1 .. 4 : HasFormat(q, Completeness[k])})]
        i == Min({k \in 1 .. Len(filed303[q]) : filed303[q][k].format = f})
    IN  Left(filed303[q][i].form, f)

Opening303(q) == IF q = 1 \/ filed303[q - 1] = <<>> THEN 0 ELSE Compensation(q - 1)

Settlement303(opening, figure, refund) ==
    LET applied == IF refund THEN opening ELSE Least(opening, Pos(figure))
        b71 == figure - applied
        refundable == Pos(-b71)
        b72 == IF refund THEN 0 ELSE refundable
    IN  [figure |-> figure, b110 |-> opening, b78 |-> applied, b87 |-> opening - applied,
         b71 |-> b71, b72 |-> b72, b73 |-> refundable - b72, carry |-> opening - applied + b72]

-----------------------------------------------------------------------------
(* Actions *)

Registered(filed) == MapThenSumSet(LAMBDA q : Len(filed[q]), Span)

Close(q) ==
    /\ q \notin closed
    /\ closed' = closed \cup {q}
    /\ UNCHANGED <<determined, filed130, filed303>>

\* The obligation may be determined after the next quarter was calculated.
Determine(q) ==
    /\ q \in Due303 \ determined
    /\ determined' = determined \cup {q}
    /\ UNCHANGED <<closed, filed130, filed303>>

\* The quarters before it in the year must be closed, registered or not; a
\* snapshot of a filed return needs its own quarter closed as well.
Register130(q, net, withheld, reduction) ==
    /\ Registered(filed130) < MaxReturns
    /\ EarlierInYear(q) \cup {q} \subseteq closed
    /\ filed130' = [filed130 EXCEPT ![q] = <<Modelo130(q, net, withheld, reduction)>> \o @]
    /\ UNCHANGED <<closed, determined, filed303>>

\* Blocked while the quarter before is due and has no snapshot; a refund is
\* for the last quarter of a year that ends negative.
Register303(q, figure, refund, format) ==
    LET r == Settlement303(Opening303(q), figure, refund) IN
    /\ Registered(filed303) < MaxReturns
    /\ q \in closed
    /\ q > 1 /\ filed303[q - 1] = <<>> => q - 1 \notin determined
    /\ refund => q % YearLength = 0 /\ r.b73 > 0
    /\ filed303' = [filed303 EXCEPT ![q] =
            <<[format |-> format, saw |-> SawBefore(filed303, q), form |-> r]>> \o @]
    /\ UNCHANGED <<closed, determined, filed130>>

-----------------------------------------------------------------------------
ReturnsInit ==
    /\ closed = {} /\ determined = {}
    /\ filed130 = [q \in Span |-> <<>>]
    /\ filed303 = [q \in Span |-> <<>>]

ReturnsNext130 ==
    \E q \in Span : Close(q) \/ \E f \in Figures130 : Register130(q, f[1], f[2], f[3])

ReturnsNext303 ==
    \E q \in Span :
        \/ Close(q)
        \/ Determine(q)
        \/ \E f \in Figures303, refund \in BOOLEAN, format \in Formats :
              Register303(q, f, refund, format)

-----------------------------------------------------------------------------
(* Properties *)

ReturnsTypeOK ==
    /\ closed \subseteq Span /\ determined \subseteq Due303
    /\ DOMAIN filed130 = Span /\ DOMAIN filed303 = Span
    /\ \A q \in Span :
          /\ \A i \in 1 .. Len(filed130[q]) :
                LET r == filed130[q][i] IN
                /\ r.b04 \in Nat /\ r.b06 \in Nat /\ r.b15 \in Nat
                /\ {r.b07, r.b19} \subseteq Int
                /\ r.saw \in [1 .. (q - 1) -> Nat]
          /\ \A i \in 1 .. Len(filed303[q]) :
                LET s == filed303[q][i]
                    r == s.form
                IN
                /\ {r.b110, r.b78, r.b87, r.b72, r.b73, r.carry} \subseteq Nat
                /\ r.b71 \in Int /\ s.format \in Formats
                /\ s.saw \in [1 .. (q - 1) -> Nat]

\* Every quarter of the set is registered and no return of it was calculated
\* before a return it depends on was registered or corrected.
InOrder(filed, quarters) ==
    \A q \in quarters :
        /\ filed[q] # <<>>
        /\ \A j \in quarters : j < q => filed[q][1].saw[j] = Len(filed[j])

\* The instalments of a year add up to the tax on its best quarter so far,
\* withholdings discounted: nothing is paid twice, whatever falls below what
\* was already paid, and whichever returns were corrected
\* (_previous_filed_positive, calculate_modelo130).
PaidOnce ==
    \A q \in Span :
        LET year == FirstOf(q) .. q IN
        InOrder(filed130, year) =>
            Instalments(year) = Max({0} \cup {Current130(j).b04 - Current130(j).b06 : j \in year})

\* What returns deducted of earlier ones, and what they left negative.
DeductedIn(quarters) == MapThenSumSet(LAMBDA j : Current130(j).b15, quarters)
NegativeIn(quarters) == MapThenSumSet(LAMBDA j : Pos(-Current130(j).b19), quarters)

\* A negative result of a year is deducted from later quarters at most once
\* (_previous_filed_negative_carry).
CarryUsedOnce ==
    \A q \in Span :
        LET year == FirstOf(q) .. q IN
        InOrder(filed130, year) =>
            DeductedIn(year) <= NegativeIn(EarlierInYear(q))

\* The snapshots of a quarter tell what it left to compensate: the newest
\* says it itself and no older one is preferred to it.
Complete(q) ==
    \/ filed303[q][1].format = "full"
    \/ filed303[q][1].format = "boxes" /\ ~HasFormat(q, "full")

Used(r) == IF r.b73 > 0 THEN Pos(r.figure) ELSE r.b78

\* Credit that quarters earned, and that they used or had refunded.
EarnedIn(quarters) == MapThenSumSet(LAMBDA j : Pos(-filed303[j][1].form.figure), quarters)
SettledIn(quarters) ==
    MapThenSumSet(LAMBDA j : Used(filed303[j][1].form) + filed303[j][1].form.b73, quarters)

\* Credit is neither lost nor counted twice: what the quarters up to q earned
\* is what they used against VAT due, had refunded and leave to the next one,
\* across the years and the corrected returns
\* (_previous_filed_vat_compensation, calculate_modelo303_rows).
CreditConserved ==
    \A q \in Span :
        InOrder(filed303, 1 .. q) /\ (\A j \in 1 .. q : Complete(j)) =>
            EarnedIn(1 .. q) = SettledIn(1 .. q) + Compensation(q)

\* What earlier quarters paid, lost or have to compensate counts exactly once.
ReturnsInv == ReturnsTypeOK /\ PaidOnce /\ CarryUsedOnce /\ CreditConserved
=============================================================================
