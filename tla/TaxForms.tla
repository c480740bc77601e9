------------------------------ MODULE TaxForms ------------------------------
(***************************************************************************)
(* What the posted entries of a year come to on each tax form: the loader  *)
(* that makes one row of an entry and its treatments (tax_row_loader.py),  *)
(* the calculators of tax_engine.py, and the selection of rows by the date *)
(* each tax gives them.  A form is a function of the book; the book        *)
(* changes by posting, voiding and attributing entries.                    *)
(*                                                                         *)
(* Amounts are cents.  A day is its quarter, 1 to 4, or 5 for the year     *)
(* after.                                                                  *)
(***************************************************************************)
EXTENDS Integers, Sequences, FiniteSetsExt, TLC

CONSTANTS
    Journal,        \* entries that may be posted
    Facts,          \* entry -> kind, amount, party, VAT number, assets linked
    Treatments,     \* entry -> its tax treatments, each with what it says
    Restated,       \* entry -> its amounts under a reviewed attribution
    Decisions,      \* attributions a review may decide on: a quarter for each tax
    Working,        \* quarters with activity
    Threshold,      \* modelo 347: declared above it
    HardRate,       \* provision for expenses hard to justify, percent
    HardCap,        \* and its limit in a year
    MaxPosted       \* bound: entries posted at a time

ASSUME FormsAssumption ==
    /\ Working \subseteq 1..4 /\ Working # {} /\ MaxPosted \in Nat
    /\ Decisions \subseteq [irpf : 0..5, iva : 0..5]
    /\ IsFiniteSet(Journal)
    /\ \A e \in Journal :
          /\ Facts[e].kind \in {"income", "expense"} /\ Facts[e].assets \in Nat
          /\ Facts[e].amount \in Int
          /\ \A k \in {"base", "vat", "irpf", "input", "held"} :
                Restated[e][k] \in Int /\ \A t \in Treatments[e] : k \in DOMAIN t => t[k] \in Int

VARIABLES
    posted,         \* entry -> quarter of its date, 0 while it is not posted
    moved,          \* entry -> quarter each tax attributes it to, 0 for its own
    doubtful        \* entries whose facts changed after their attribution

formsVars == <<posted, moved, doubtful>>

-----------------------------------------------------------------------------
(* One row of an entry and its treatments *)

Says(e, k) == {t[k] : t \in {u \in Treatments[e] : k \in DOMAIN u}}
TaxCodes(e) == Says(e, "code") \ {"unknown"}

ServiceCodes == {"eu_service_expense", "non_eu_service_expense", "import_service_expense",
                 "professional_withholding", "rent_withholding"}

\* Treatments that disagree, and several assets, are refused.
Coherent(e) ==
    /\ Facts[e].assets <= 1 /\ Cardinality(TaxCodes(e)) <= 1
    /\ \A k \in {"base", "vat", "irpf", "input", "held", "good"} : Cardinality(Says(e, k)) <= 1
    /\ ~(TRUE \in Says(e, "good") /\ TaxCodes(e) \cap ServiceCodes # {})

Value(S, none) == IF S = {} THEN none ELSE CHOOSE v \in S : TRUE
TaxCode == [e \in Journal |-> Value(TaxCodes(e), "unknown")]
Kind(e) == Facts[e].kind

\* An asset link stands for an investment until the classification is reviewed.
Investment == [e \in Journal |-> Value(Says(e, "good"), Facts[e].assets = 1)]

Flagged == [irpf |-> {e \in Journal : TRUE \in Says(e, "in130")},
            iva |-> {e \in Journal : TRUE \in Says(e, "in303")}]

OwnAmount ==
    [e \in Journal |-> [k \in {"amount", "base", "vat", "irpf", "input", "held"} |->
        IF k = "amount" THEN Facts[e].amount ELSE Value(Says(e, k), 0)]]

\* Under an attribution a tax takes the amounts that were reviewed with it.
AmountFor(e, tax, k) == IF moved[e][tax] # 0 THEN Restated[e][k] ELSE OwnAmount[e][k]

Loaded == {e \in Journal : posted[e] # 0}
Ambiguous == {e \in Journal : ~Coherent(e)}
Loads == Loaded \cap Ambiguous = {}

-----------------------------------------------------------------------------
(* Which rows a form takes *)

EffectiveDate(e, tax) == IF moved[e][tax] # 0 THEN moved[e][tax] ELSE posted[e]

\* Broken variant: a row counts by its own date and by the attributed one.
Projected_Both(tax, qs) ==
    {e \in Loaded \cap Flagged[tax] : {posted[e], EffectiveDate(e, tax)} \cap qs # {}}

\* project_tax_rows
Projected(tax, qs) ==
    {e \in Loaded \cap Flagged[tax] : EffectiveDate(e, tax) \in qs}

Certain(tax, qs) ==
    Loads /\ \A e \in Projected(tax, qs) \cap doubtful : moved[e][tax] = 0

Sum(tax, T, k) == MapThenSumSet(LAMBDA e : AmountFor(e, tax, k), T)
OwnSum(T, k) == MapThenSumSet(LAMBDA e : OwnAmount[e][k], T)

-----------------------------------------------------------------------------
(* Modelo 303: the boxes of a quarter *)

Of(T, kind, codes) == {e \in T : Kind(e) = kind /\ TaxCode[e] \in codes}
Outputs(T) == Of(T, "income", {"domestic_output", "domestic_output_zero"})
Acquired(T) == Of(T, "expense", {"eu_service_expense", "eu_goods_expense"})
Reversed(T) == Of(T, "expense", {"domestic_reverse_charge_expense", "non_eu_service_expense"})
Inputs(T) == Of(T, "expense", {"domestic_input", "domestic_expense"})
Imports(T) == Of(T, "expense", {"import_goods_expense", "import_service_expense"})
Supplied(T) == Of(T, "income", {"eu_service_income", "eu_goods_income"})
Informed(T) == Supplied(T) \cup Of(T, "income", {"outside_scope", "export"})

\* cents: half up
Hundredth(n) == IF n >= 0 THEN (n + 50) \div 100 ELSE -((50 - n) \div 100)
Near(x, y) == x - y \in -2..2

\* The first rate that gives the VAT up to two cents; -1 for none.
RateOf(e) ==
    LET base == AmountFor(e, "iva", "base")
        vat == AmountFor(e, "iva", "vat")
        fits == {r \in {4, 10, 21} : Near(Hundredth(base * r), vat)}
    IN  IF TaxCode[e] = "domestic_output_zero" THEN IF Near(vat, 0) THEN 0 ELSE -1
        ELSE IF fits = {} THEN -1 ELSE Min(fits)

AtRate(T, r) == {e \in Outputs(T) : RateOf(e) = r}
Deducted(T) == {e \in T : AmountFor(e, "iva", "input") # 0}
Assets303(T) == {e \in Deducted(T) : Investment[e]}
Current303(T) == Deducted(T) \ Assets303(T)

\* Broken variant: the deductible part of a reverse charge is left out.
BoxRows_NoReverse(T) ==
    [b150 |-> AtRate(T, 0), b01 |-> AtRate(T, 4), b04 |-> AtRate(T, 10), b07 |-> AtRate(T, 21),
     b10 |-> Acquired(T), b12 |-> Reversed(T),
     b28 |-> Current303(Inputs(T)), b30 |-> Assets303(Inputs(T)),
     b32 |-> Current303(Imports(T)), b34 |-> Assets303(Imports(T)),
     b36 |-> Current303(Acquired(T)), b38 |-> Assets303(Acquired(T)),
     b59 |-> Supplied(T)]

\* The rows behind each pair of boxes, by the box of the base.
BoxRows(T) ==
    [b150 |-> AtRate(T, 0), b01 |-> AtRate(T, 4), b04 |-> AtRate(T, 10), b07 |-> AtRate(T, 21),
     b10 |-> Acquired(T), b12 |-> Reversed(T),
     b28 |-> Current303(Inputs(T) \cup Reversed(T)), b30 |-> Assets303(Inputs(T) \cup Reversed(T)),
     b32 |-> Current303(Imports(T)), b34 |-> Assets303(Imports(T)),
     b36 |-> Current303(Acquired(T)), b38 |-> Assets303(Acquired(T)),
     b59 |-> Supplied(T)]

DueBoxes == {"b150", "b01", "b04", "b07", "b10", "b12"}
DeductibleBoxes == {"b28", "b30", "b32", "b34", "b36", "b38"}

\* Boxes 27 and 45
BoxSum(behind, boxes, k) == MapThenSumSet(LAMBDA b : Sum("iva", behind[b], k), boxes)
Due(T) == BoxSum(BoxRows(T), DueBoxes, "vat")
Deductible(T) == BoxSum(BoxRows(T), DeductibleBoxes, "input")

\* No OSS number on an acquisition, no unknown, unsupported or misplaced code,
\* and a rate for each output.
Classified(T) ==
    /\ T \subseteq Outputs(T) \cup Acquired(T) \cup Reversed(T) \cup Inputs(T) \cup Imports(T)
                      \cup Informed(T)
    /\ \A e \in Acquired(T) : Facts[e].number # "oss"
    /\ \A e \in Outputs(T) : RateOf(e) # -1

Rows303(q) == Projected("iva", {q})
Ready303(q) == Certain("iva", {q}) /\ Classified(Rows303(q))

-----------------------------------------------------------------------------
(* The other forms *)

\* Modelo 349 keeps the original dates and amounts.
Rows349(q) ==
    {e \in Loaded : posted[e] = q /\ TaxCode[e] \in {"eu_service_income", "eu_service_expense",
                                                  "eu_goods_income", "eu_goods_expense"}}
Ready349(q) == Loads /\ \A e \in Rows349(q) : Facts[e].number \notin {"", "oss"}
Operation(e) == [number |-> Facts[e].number, code |-> TaxCode[e]]

\* Broken variant: the amount of the document instead of the base.
Lines349_Amount(q) ==
    [o \in {Operation(e) : e \in Rows349(q)} |->
        OwnSum({e \in Rows349(q) : Operation(e) = o}, "amount")]

Lines349(q) ==
    [o \in {Operation(e) : e \in Rows349(q)} |->
        OwnSum({e \in Rows349(q) : Operation(e) = o}, "base")]

\* Modelo 347: by party and direction, for the year and its quarters.
Rows347 == {e \in Loaded : TRUE \in Says(e, "in347")}
Group(e) == <<Facts[e].party, Kind(e)>>
Declared(g, qs) == OwnSum({e \in Rows347 : Group(e) = g /\ posted[e] \in qs}, "amount")
Over347(amount) == amount > Threshold
Records347 == {g \in {Group(e) : e \in Rows347} : Over347(Declared(g, 1..4))}

\* Modelos 111 and 190, 115 and 180, 216 and 296
WithholdingTypes == [professional_withholding |-> "professional", rent_withholding |-> "rent",
                     nonresident_income |-> "nonresident"]
WithholdingType(e) ==
    IF TaxCode[e] \in DOMAIN WithholdingTypes THEN WithholdingTypes[TaxCode[e]]
    ELSE IF OwnAmount[e].held # 0 THEN "professional" ELSE ""

\* Broken variant: the quarterly form takes the year to date.
Withheld_YearToDate(type, q) ==
    {e \in Loaded : posted[e] \in 1..q /\ WithholdingType(e) = type}

Withheld(type, q) == {e \in Loaded : posted[e] = q /\ WithholdingType(e) = type}
WithheldInYear(type) == {e \in Loaded : WithholdingType(e) = type}

\* Modelo 130, year to date, and modelo 100 for the year
Turnover(T) ==
    MapThenSumSet(LAMBDA e : IF AmountFor(e, "irpf", "base") # 0 THEN AmountFor(e, "irpf", "base")
                             ELSE AmountFor(e, "irpf", "amount"),
                  {e \in T : Kind(e) = "income"})
Spent(T) == Sum("irpf", {e \in T : Kind(e) = "expense"}, "irpf")
Larger(x, y) == IF x > y THEN x ELSE y
Hard(net) == Min({Hundredth(Larger(net, 0) * HardRate), HardCap})
Income(T) == LET net == Turnover(T) - Spent(T) IN net - Hard(net)

\* Broken variant: the quarter alone.
Income130_Quarter(q) == Income(Projected("irpf", {q}))

Income130(q) == Income(Projected("irpf", 1..q))
Income100 == Income(Projected("irpf", 1..4))

-----------------------------------------------------------------------------
(* Actions *)

Own == [irpf |-> 0, iva |-> 0]

PostEntry(e, q) ==
    /\ posted[e] = 0 /\ Cardinality(Loaded) < MaxPosted
    /\ posted' = [posted EXCEPT ![e] = q]
    /\ UNCHANGED <<moved, doubtful>>

VoidEntry(e) ==
    /\ posted[e] # 0
    /\ posted' = [posted EXCEPT ![e] = 0]
    /\ moved' = [moved EXCEPT ![e] = Own]
    /\ doubtful' = doubtful \ {e}

\* A reviewed attribution, or its withdrawal: Own.
Attribute(e, d) ==
    /\ posted[e] # 0 /\ moved[e] # d
    /\ moved' = [moved EXCEPT ![e] = d]
    /\ doubtful' = doubtful \ {e}
    /\ UNCHANGED posted

\* The facts of an attributed entry change, the tax data of its party, say.
Unsettle(e) ==
    /\ e \notin doubtful /\ posted[e] # 0 /\ moved[e] # Own
    /\ doubtful' = doubtful \cup {e}
    /\ UNCHANGED <<posted, moved>>

FormsInit ==
    /\ posted = [e \in Journal |-> 0]
    /\ moved = [e \in Journal |-> Own]
    /\ doubtful = {}

FormsNext ==
    \E e \in Journal :
        \/ \E q \in Working : PostEntry(e, q)
        \/ VoidEntry(e) \/ Unsettle(e)
        \/ \E d \in Decisions : Attribute(e, d)

-----------------------------------------------------------------------------
(* Properties *)

\* What an entry adds to the VAT of its quarter: what is due on it, less what
\* may be deducted.
VatIsDue(e) ==
    \/ Kind(e) = "income" /\ TaxCode[e] \in {"domestic_output", "domestic_output_zero"}
    \/ Kind(e) = "expense" /\ TaxCode[e] \in {"eu_service_expense", "eu_goods_expense",
                                              "domestic_reverse_charge_expense",
                                              "non_eu_service_expense"}
Effect(e) ==
    (IF VatIsDue(e) THEN AmountFor(e, "iva", "vat") ELSE 0)
        - (IF Kind(e) = "expense" THEN AmountFor(e, "iva", "input") ELSE 0)
RowByRow(q) == MapThenSumSet(Effect, Rows303(q))

\* calculate_modelo303_rows: box 46 is what the rows of the quarter add up to
\* one by one, and no row is in two boxes of one side.
QuarterAddsUp ==
    \A q \in Working : Ready303(q) =>
        LET behind == BoxRows(Rows303(q)) IN
        /\ Due(Rows303(q)) - Deductible(Rows303(q)) = RowByRow(q)
        /\ \A side \in {DueBoxes, DeductibleBoxes} : \A b, c \in side :
              b # c => behind[b] \cap behind[c] = {}

\* The bases that modelo 349 declares under some codes.
Total349(q, codes) ==
    MapThenSumSet(LAMBDA o : Lines349(q)[o], {o \in DOMAIN Lines349(q) : o.code \in codes})

\* Modelos 303 and 349 of a quarter declare the same supplies and acquisitions,
\* unless an entry of it is attributed elsewhere or kept out of modelo 303.
SaysTheSame ==
    \A q \in Working : Ready303(q) /\ Ready349(q) =>
        \/ \E e \in Rows349(q) \cup Rows303(q) : moved[e].iva # 0 \/ e \notin Flagged.iva
        \/ /\ Total349(q, {"eu_service_income", "eu_goods_income"}) =
                 Sum("iva", BoxRows(Rows303(q)).b59, "base")
           /\ Total349(q, {"eu_service_expense", "eu_goods_expense"}) =
                 Sum("iva", BoxRows(Rows303(q)).b10, "base")

HeldByQuarter(type) == MapThenSumSet(LAMBDA q : OwnSum(Withheld(type, q), "held"), 1..4)

\* The four forms of a withholding add up to the annual one: 111 to 190, 115
\* to 180, 216 to 296.
WithheldAddsUp ==
    \A type \in {"professional", "rent", "nonresident"} :
        OwnSum(WithheldInYear(type), "held") = HeldByQuarter(type)

\* Modelo 100 starts from the income that the last modelo 130 ended with.
IncomeAgrees == Loads => Income100 = Income130(4)

\* What the forms of a year say agrees from one form to the other.
FormsInv ==
    /\ posted \in [Journal -> 0..4] /\ moved \in [Journal -> [irpf : 0..5, iva : 0..5]]
    /\ doubtful \subseteq Loaded
    /\ QuarterAddsUp /\ SaysTheSame /\ WithheldAddsUp /\ IncomeAgrees

\* The VAT of every quarter there is, and of those after the year.
EveryQuarter == MapThenSumSet(RowByRow, 1..5)

\* Attributing entries moves VAT from one quarter to another and makes none,
\* where the review keeps the amounts; forms of the original dates stay.
AttributionConserves ==
    posted' = posted =>
        /\ (\A e \in Journal : moved'[e] # moved[e] =>
                \A k \in {"vat", "input"} : Restated[e][k] = OwnAmount[e][k]) =>
              EveryQuarter' = EveryQuarter
        /\ Records347' = Records347
        /\ \A q \in Working : Lines349(q)' = Lines349(q)
=============================================================================
