---------------------------- MODULE AnnualStatus ----------------------------
(***************************************************************************)
(* May modelo 390 be calculated, and does it then say what the filed       *)
(* quarters said?  The gates of annual_readiness.py compare the snapshots  *)
(* of the filed modelos 303 with the ledger and with one another; the      *)
(* calculation itself (_cmd_calculate, calculate_modelo390) goes through   *)
(* the quarters from the ledger alone.                                     *)
(*                                                                         *)
(* The year begins with its quarters closed: entries are no longer posted  *)
(* or voided, but an acknowledged correction may still attribute them to   *)
(* another quarter, and returns are filed and filed again.                 *)
(***************************************************************************)
EXTENDS TaxForms, Returns, FiniteSets

CONSTANTS
    YearEntries,    \* entries that a closed year may hold
    Corrections,    \* attributions that may be decided on in a closed year
    LastQuarter,    \* that may ask for a refund: the fourth
    Sources,        \* kinds of evidence a snapshot may be
    Slips,          \* by how much a filed box 27 may differ from the ledger
    Former,         \* credit the former year may have left
    MaxFilings      \* bound: snapshots registered

ASSUME AnnualAssumption ==
    /\ YearEntries \subseteq Journal /\ Corrections \subseteq Decisions
    /\ LastQuarter = Max(Working)
    /\ Sources \subseteq {"receipt", "extraction", "calculation", "legacy"}
    /\ Slips \subseteq Int /\ Former \subseteq Nat /\ MaxFilings \in Nat

VARIABLES
    snapshots,      \* quarter, 0 for the last of the former year -> its modelos 303, newest first
    due             \* quarters whose modelo 303 is due

annualVars == <<snapshots, due>>

-----------------------------------------------------------------------------
(* Evidence *)

\* What each kind of snapshot says.
Spoken(source) ==
    {"b27", "b45", "b71"}
        \cup (IF source = "legacy" THEN {} ELSE {"b110", "b78", "b87", "b72", "b73"})
        \cup (IF source \in {"receipt", "calculation"} THEN {"b10", "b12", "carry"} ELSE {})

Says303(s, box) == box \in Spoken(s.source)

Ranks == <<"receipt", "extraction", "calculation", "legacy">>

\* _best_modelo303_evidence: the most reliable kind, then the newest.
Best(list) ==
    LET rank(s) == CHOOSE r \in 1..4 : Ranks[r] = s.source
        best == Min({rank(list[i]) : i \in 1..Len(list)})
    IN  list[Min({i \in 1..Len(list) : rank(list[i]) = best})]

Evidence(q) == Best(snapshots[q])

\* _previous_filed_vat_compensation: the newest that names what is carried,
\* then the newest with boxes 87 and 72, then the newest result.
Carried(list) ==
    LET first(box) == list[Min({i \in 1..Len(list) : Says303(list[i], box)})]
        some(box) == \E i \in 1..Len(list) : Says303(list[i], box)
    IN  IF list = <<>> THEN 0
        ELSE IF some("carry") THEN Pos(first("carry").carry)
        ELSE IF some("b72") THEN Pos(first("b72").b87) + Pos(first("b72").b72)
        ELSE Pos(-list[1].b71)

CarriedInto(q) == Carried(snapshots[q - 1])

-----------------------------------------------------------------------------
(* The calculation *)

Figure(q) == Due(Rows303(q)) - Deductible(Rows303(q))

\* _modelo303_inventory_periods
Listed == [i \in 1..Cardinality(due) |-> CHOOSE q \in due : Cardinality({p \in due : p <= q}) = i]

\* Broken variant: each quarter starts from what was filed before it.
OpeningCredit_Filed(before, q) == CarriedInto(q)

\* The first quarter starts from what was filed, the others from the chain.
OpeningCredit(before, q) == IF before = <<>> THEN CarriedInto(q) ELSE before[Len(before)].carry

Chain(refund) ==
    LET next(before, q) == Append(before, Settlement303(OpeningCredit(before, q), Figure(q),
                                                        refund /\ q = LastQuarter))
        chain[i \in 0..Len(Listed)] == IF i = 0 THEN <<>> ELSE next(chain[i - 1], Listed[i])
    IN  chain[Len(Listed)]

Total(chain, box(_)) == MapThenSumSet(LAMBDA i : box(chain[i]), 1..Len(chain))

\* calculate_modelo390: what is left of the former year's credit, used first, and
\* of the year's own, which the last quarter no longer adds to.
CreditsAfter(chain) ==
    LET after(before, i) ==
            LET ofPrior == Least(before.prior, chain[i].b78)
            IN  [prior |-> before.prior - ofPrior,
                 current |-> before.current - (chain[i].b78 - ofPrior)
                                 + IF i < Len(chain) THEN chain[i].b72 ELSE 0]
        balance[i \in 0..Len(chain)] ==
            IF i = 0 THEN [prior |-> chain[1].b110, current |-> 0]
            ELSE after(balance[i - 1], i)
    IN  balance

Modelo390(chain) ==
    LET n == Len(chain)
        left == CreditsAfter(chain)[n]
        used == chain[1].b110 - left.prior
    IN  [b65 |-> Total(chain, LAMBDA r : r.figure), b85 |-> used,
         b86 |-> Total(chain, LAMBDA r : r.figure) - used,
         b95 |-> Total(chain, LAMBDA r : Pos(r.b71)),
         b97 |-> chain[n].b72, b98 |-> chain[n].b73, b662 |-> left.current,
         closing |-> left.prior + left.current + chain[n].b72]

\* Its own checks of the chain it was given: nothing negative, each quarter
\* opens with what the last one left, and uses and leaves what there is.
Balanced(chain) ==
    \A i \in 1..Len(chain) :
        LET r == chain[i]
            before == CreditsAfter(chain)[i - 1]
        IN  /\ r.b110 >= 0 /\ r.b78 >= 0 /\ r.b87 >= 0 /\ r.b72 >= 0 /\ r.b73 >= 0
            /\ i > 1 => Near(r.b110, chain[i - 1].b87 + chain[i - 1].b72)
            /\ r.b78 - r.b110 <= 2
            /\ r.b72 = 0 \/ r.b73 = 0
            /\ i < Len(chain) => r.b73 = 0
            /\ r.b78 - Least(before.prior, r.b78) - before.current <= 2
            /\ Near(r.b87, before.prior + before.current - r.b78)

-----------------------------------------------------------------------------
(* The gates *)

\* Broken variant: the filed totals are not compared with the ledger.
TotalsMatch_Never(q) == Ready303(q)

\* _assess_quarterly_evidence_gate
TotalsMatch(q) ==
    /\ Ready303(q)
    /\ Near(Evidence(q).b27, Due(Rows303(q))) /\ Near(Evidence(q).b45, Deductible(Rows303(q)))

\* _assess_reverse_charge_gate
ReverseMatches(q) ==
    \A b \in {"b10", "b12"} : Says303(Evidence(q), b) =>
        Near(Evidence(q)[b], Sum("iva", BoxRows(Rows303(q))[b], "vat"))

\* _evidence_carry
CarryOf(s) == IF Says303(s, "carry") THEN s.carry ELSE s.b87 + s.b72

\* Broken variant: that a quarter opens with what the last one left is not
\* looked at.
FollowsOn_Any(i) == TRUE

\* The first quarter of the year follows the former year's evidence, and opens
\* with nothing when there is none; so does a later one that comes first.
FollowsOn(i) ==
    LET s == Evidence(Listed[i])
        before == IF i > 1 THEN <<Evidence(Listed[i - 1])>>
                  ELSE IF Listed[1] = 1 /\ snapshots[0] # <<>> THEN <<Best(snapshots[0])>>
                  ELSE <<>>
    IN  IF before = <<>> \/ ~Says303(before[1], "b72") THEN s.b110 <= 2
        ELSE Near(s.b110, IF i > 1 THEN before[1].b87 + before[1].b72 ELSE CarryOf(before[1]))

\* _assess_compensation_gate
Settles(i) ==
    LET s == Evidence(Listed[i]) IN
    /\ Says303(s, "b72")
    /\ FollowsOn(i)
    /\ s.b78 - s.b110 <= 2 /\ Near(s.b87, Pos(s.b110 - s.b78))
    /\ s.b72 = 0 \/ s.b73 = 0
    /\ s.b73 > 0 => Listed[i] = LastQuarter
    /\ IF s.b71 < 0 THEN Near(s.b72 + s.b73, -s.b71) ELSE s.b72 <= 2 /\ s.b73 <= 2
    /\ Says303(s, "carry") => Near(s.carry, s.b87 + s.b72)

Last == Evidence(Listed[Len(Listed)])

\* _assess_final_settlement_gate
Chosen ==
    IF Last.b71 >= 0 THEN Last.b72 <= 0 /\ Last.b73 <= 0
    ELSE (Last.b72 > 0) # (Last.b73 > 0)
Refunded == Last.b71 < 0 /\ Last.b73 > 0

\* assess_annual_readiness for a modelo 390 that is due, in a closed year
ReadyFor390 ==
    /\ due # {} /\ \A q \in due : snapshots[q] # <<>>
    /\ \A i \in 1..Len(Listed) : Settles(i)
    /\ Chosen
    /\ \A q \in due : TotalsMatch(q) /\ ReverseMatches(q)

-----------------------------------------------------------------------------
(* Actions *)

Filings == MapThenSumSet(LAMBDA q : Len(snapshots[q]), {0} \cup Working)

Filed303(source, opening, refund, b27, b45, b10, b12) ==
    LET r == Settlement303(opening, b27 - b45, refund) IN
    [source |-> source, b27 |-> b27, b45 |-> b45, b10 |-> b10, b12 |-> b12, b110 |-> opening,
     b78 |-> r.b78, b87 |-> r.b87, b71 |-> r.b71, b72 |-> r.b72, b73 |-> r.b73, carry |-> r.carry]

\* A return as it was calculated, or with box 27 corrected by hand.
Return303(q, source, refund, slip) ==
    LET behind == BoxRows(Rows303(q)) IN
    Filed303(source, CarriedInto(q), refund, Due(Rows303(q)) + slip, Deductible(Rows303(q)),
             Sum("iva", behind.b10, "vat"), Sum("iva", behind.b12, "vat"))

FileReturn(q, source, refund, slip) ==
    /\ q \in due /\ Filings < MaxFilings
    /\ q - 1 \in due => snapshots[q - 1] # <<>>
    /\ refund => q = LastQuarter
    /\ Ready303(q)
    /\ LET r == Return303(q, source, refund, slip) IN
       /\ refund => r.b73 > 0
       /\ snapshots' = [snapshots EXCEPT ![q] = <<r>> \o @]
    /\ UNCHANGED due

\* A return of the last quarter of the former year, read from its form.
FileFormer(source, left) ==
    /\ Filings < MaxFilings
    /\ snapshots' = [snapshots EXCEPT ![0] =
            <<Filed303(source, 0, FALSE, 0, left, 0, 0)>> \o @]
    /\ UNCHANGED due

Books == {book \in [Journal -> {0} \cup Working] :
            /\ \A e \in Journal : book[e] # 0 => e \in YearEntries
            /\ Cardinality({e \in YearEntries : book[e] # 0}) <= MaxPosted}

AnnualInit ==
    /\ posted \in Books /\ moved = [e \in Journal |-> Own] /\ doubtful = {}
    /\ snapshots = [q \in 0..4 |-> <<>>]
    /\ due \in SUBSET Working

AnnualNext ==
    \/ /\ \E e \in YearEntries, d \in Corrections : Attribute(e, d)
       /\ UNCHANGED annualVars
    \/ /\ \/ \E q \in Working, source \in Sources, refund \in BOOLEAN, slip \in Slips :
                FileReturn(q, source, refund, slip)
          \/ \E source \in Sources, left \in Former : FileFormer(source, left)
       /\ UNCHANGED formsVars

-----------------------------------------------------------------------------
(* Properties *)

\* The checks of the calculation pass, and what was paid or refunded, and is
\* left to compensate, is the VAT of the year after the credit it began with.
Closes(chain, year) ==
    /\ Balanced(chain) /\ year.b662 >= 0
    /\ year.b86 = year.b95 - year.b97 - year.b98 - year.b662
    /\ year.closing = chain[Len(chain)].carry

\* calculate_modelo390 never refuses the quarters it has just calculated, and
\* the year balances.
YearBalances ==
    (due # {} /\ \A q \in due : Ready303(q)) => Closes(Chain(FALSE), Modelo390(Chain(FALSE)))

\* The gates and the calculation read the same out of the former year.
FormerAgrees ==
    snapshots[0] # <<>> =>
        /\ Says303(Best(snapshots[0]), "b72")
        /\ CarryOf(Best(snapshots[0])) = CarriedInto(1)

\* What modelo 390 says is paid, refunded and carried on is what the filed
\* quarters say, but for the cents that the gates let pass.
SaysWhatWasFiled(year) ==
    LET n == 6 * Len(Listed)
        paid == MapThenSumSet(LAMBDA q : Pos(Evidence(q).b71), due)
    IN  /\ year.b95 - paid \in -n..n
        /\ year.b98 - Last.b73 \in -n..n
        /\ year.closing - (Last.b87 + Last.b72) \in -n..n

\* assess_annual_readiness: when modelo 390 may be calculated, it says what was filed.
ReadyMeansFiled ==
    FormerAgrees /\ ReadyFor390 => SaysWhatWasFiled(Modelo390(Chain(Refunded)))
=============================================================================
