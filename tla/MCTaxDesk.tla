----------------------------- MODULE MCTaxDesk ------------------------------
(* One row, booked in a quarter or in the annual period of a year of two    *)
(* quarters, with two requests for an adjustment; two of eight entries on   *)
(* the forms of two quarters, and a closed year with a sale and a purchase  *)
(* of equipment; three returns over a year of three quarters; an asset      *)
(* written off in eight units over five quarters of two, entering service   *)
(* in the middle of the first; a case with two clerks; two payments in one  *)
(* quarter; elections over a year of three short months.                    *)
EXTENDS TaxDesk

Symmetry == Permutations(Adjustment) \cup Permutations(Clerk)

Paper(kind, amount, who, number, linked) ==
    [kind |-> kind, amount |-> amount, party |-> who, number |-> number, assets |-> linked]
Sale(code, base, vat) ==
    [code |-> code, base |-> base, vat |-> vat, in130 |-> TRUE, in303 |-> TRUE, in347 |-> TRUE]
Purchase(code, base, vat, input) ==
    [code |-> code, base |-> base, vat |-> vat, irpf |-> base, input |-> input,
     in130 |-> TRUE, in303 |-> TRUE]
MCJournal == 1..8
MCFacts ==
    <<Paper("income", 12100, "a", "", 0), Paper("income", 10500, "b", "FR1", 0),
      Paper("expense", 5000, "b", "FR1", 0), Paper("expense", 12100, "a", "", 1),
      Paper("expense", 3000, "c", "oss", 0), Paper("expense", 12100, "d", "", 0),
      Paper("expense", 4000, "d", "", 0), Paper("income", 55, "a", "", 0)>>
MCTreatments ==
    <<{Sale("domestic_output", 10000, 2100), [code |-> "unknown", held |-> 1500]},
      {Sale("eu_service_income", 10000, 0)},
      {Purchase("eu_service_expense", 5000, 1050, 1050)},
      {Purchase("domestic_expense", 10000, 2100, 2100), [in347 |-> TRUE]},
      {Purchase("eu_service_expense", 3000, 630, 630)},
      {Purchase("rent_withholding", 10000, 0, 0), [held |-> 1900]},
      {Purchase("domestic_reverse_charge_expense", 4000, 840, 840), [good |-> TRUE]},
      {Sale("domestic_output", 50, 5)}>>
MCRestated == OwnAmount
MCAttributed(irpf, iva) == [irpf |-> irpf, iva |-> iva]
MCDecisions == {MCAttributed(0, 0), MCAttributed(2, 2), MCAttributed(0, 5), MCAttributed(5, 0)}
MCCorrections == {MCAttributed(0, 0), MCAttributed(2, 2)}

MCFigures303 == {-2, 1}
MCFigures130 == {<<0, 0, 0>>, <<1, 0, 2>>, <<2, 0, 0>>, <<3, 1, 0>>, <<3, 0, 0>>}
MCElapsed == [q \in 0..5 |-> IF q = 0 THEN 0 ELSE 2 * q - 1]
MCRatios == {<<1, 2>>}
MCGone == {<<5, 4>>, <<9, 7>>}
MCPaidIn == [p \in {1, 2} |-> 1]
MCLength == <<4, 2, 3>>
Tramo(upper, inclusive, min, max) ==
    [upper |-> upper, inclusive |-> inclusive, min |-> min, max |-> max]
MCTables ==
    {<<Tramo(3, TRUE, 1, 2), Tramo(0, FALSE, 2, 3)>>, <<Tramo(3, TRUE, 1, 1), Tramo(0, FALSE, 2, 2)>>}
MCActivities == {<<2, 5>>, <<6, 99>>}
=============================================================================
