------------------------------ MODULE TaxDesk -------------------------------
(***************************************************************************)
(* The tax desk: the parts of the system that each keep tables of their    *)
(* own and meet only in the periods they are filed under.  Which rows      *)
(* count (TaxRows), what they come to on the forms (TaxForms), how         *)
(* modelos 130 and 303 follow from one quarter to the next (Returns), the  *)
(* year they add up to (AnnualStatus), what equipment charges to the books *)
(* (Assets), a case before the AEAT (Cases), modelo 216 (Withholding) and  *)
(* contribution bases (Reta).  As modelled no part reads what another one  *)
(* writes, so interleaving them would add states and no new step: a        *)
(* behaviour works on one part, and the others are idle.                   *)
(***************************************************************************)
EXTENDS TaxRows, AnnualStatus, Assets, Cases, Withholding, Reta

VARIABLE desk     \* the part at work

vars == <<rowsVars, formsVars, annualVars, returnsVars, assetsVars, caseVars, withholdingVars,
          retaVars, desk>>

Idle == "idle"

RowsIdle ==
    /\ row = Idle /\ party = Idle /\ decision = Idle
    /\ adjustment = Idle /\ blocking = Idle /\ period = Idle
FormsIdle == posted = Idle /\ moved = Idle /\ doubtful = Idle
AnnualIdle == snapshots = Idle /\ due = Idle
ReturnsIdle == closed = Idle /\ determined = Idle /\ filed130 = Idle /\ filed303 = Idle
AssetsIdle ==
    /\ today = Idle /\ asset = Idle /\ plan = Idle
    /\ entries = Idle /\ shut = Idle /\ disposal = Idle
CasesIdle == case = Idle /\ trail = Idle /\ attached = Idle /\ clerks = Idle
WithholdingIdle ==
    /\ payee = Idle /\ owned = Idle /\ payments = Idle /\ review = Idle /\ modelo216 = Idle
    /\ settling = Idle /\ marks = Idle /\ closing = Idle /\ filed = Idle
    /\ reviewed = Idle /\ drifted = Idle /\ overtaken = Idle /\ crossed = Idle
RetaIdle ==
    elections = Idle /\ voided = Idle /\ alta = Idle /\ table = Idle /\ entered = Idle

Desks == {"rows", "forms", "annual", "130", "303", "assets", "cases", "withholding", "reta"}

Init ==
    /\ desk \in Desks
    /\ IF desk = "rows" THEN RowsInit ELSE RowsIdle
    /\ CASE desk = "forms" -> FormsInit /\ AnnualIdle
         [] desk = "annual" -> AnnualInit
         [] OTHER -> FormsIdle /\ AnnualIdle
    /\ IF desk \in {"130", "303"} THEN ReturnsInit ELSE ReturnsIdle
    /\ IF desk = "assets" THEN AssetsInit ELSE AssetsIdle
    /\ IF desk = "cases" THEN CasesInit ELSE CasesIdle
    /\ IF desk = "withholding" THEN WithholdingInit ELSE WithholdingIdle
    /\ IF desk = "reta" THEN RetaInit ELSE RetaIdle

Rows ==
    /\ desk = "rows" /\ RowsNext
    /\ UNCHANGED <<formsVars, annualVars, returnsVars, assetsVars, caseVars, withholdingVars,
                   retaVars, desk>>
Forms ==
    /\ desk = "forms" /\ FormsNext
    /\ UNCHANGED <<rowsVars, annualVars, returnsVars, assetsVars, caseVars, withholdingVars,
                   retaVars, desk>>
TheYear ==
    /\ desk = "annual" /\ AnnualNext
    /\ UNCHANGED <<rowsVars, returnsVars, assetsVars, caseVars, withholdingVars, retaVars, desk>>
Renta ==
    /\ desk = "130" /\ ReturnsNext130
    /\ UNCHANGED <<rowsVars, formsVars, annualVars, assetsVars, caseVars, withholdingVars,
                   retaVars, desk>>
Iva ==
    /\ desk = "303" /\ ReturnsNext303
    /\ UNCHANGED <<rowsVars, formsVars, annualVars, assetsVars, caseVars, withholdingVars,
                   retaVars, desk>>
Equipment ==
    /\ desk = "assets" /\ AssetsNext
    /\ UNCHANGED <<rowsVars, formsVars, annualVars, returnsVars, caseVars, withholdingVars,
                   retaVars, desk>>
Case ==
    /\ desk = "cases" /\ CasesNext
    /\ UNCHANGED <<rowsVars, formsVars, annualVars, returnsVars, assetsVars, withholdingVars,
                   retaVars, desk>>
Modelo216 ==
    /\ desk = "withholding" /\ WithholdingNext
    /\ UNCHANGED <<rowsVars, formsVars, annualVars, returnsVars, assetsVars, caseVars, retaVars,
                   desk>>
Contributions ==
    /\ desk = "reta" /\ RetaNext
    /\ UNCHANGED <<rowsVars, formsVars, annualVars, returnsVars, assetsVars, caseVars,
                   withholdingVars, desk>>

Next ==
    \/ Rows \/ Forms \/ TheYear \/ Renta \/ Iva \/ Equipment \/ Case \/ Modelo216 \/ Contributions

Spec == Init /\ [][Next]_vars

-----------------------------------------------------------------------------
(* Properties: those of each part, while it is at work *)

\* From the rows to the returns: each source counts once, as a journal row or as an
\* adjustment (project_tax_rows, adjustment_rows); the forms of a year agree with
\* one another on what it comes to (tax_engine.py); and what earlier returns paid,
\* lost or left to compensate is used once (dashboard_service.py).
RowsHold ==
    /\ desk = "rows" => RowsInv
    /\ desk = "forms" => FormsInv
    /\ desk \in {"130", "303"} => ReturnsInv

\* What is calculated over a year agrees with the returns that were filed
\* (annual_readiness.py).
FiguresAddUp == desk = "annual" => YearBalances /\ ReadyMeansFiled

\* Assets: nothing is charged for an asset after its last use
\* (record_asset_disposal, _recognize), and the books follow its plan
\* (schedule, native_year_summary).
AssetsHold == desk = "assets" => AssetsInv /\ AssetFigures

\* Cases: the status of a case is the one its events lead to
\* (record_aeat_case_status).
CasesHold == desk = "cases" => CasesInv

\* Withholding: payments to a payee who may be non-resident are reviewed before
\* their quarter closes (add_payment, close_period).
WithholdingHold == desk = "withholding" => WithholdingInv

\* Reta: base elections, and what RETA asks back against the bases it was paid
\* on (add_reta_base_election, bracket_check).
RetaHold == desk = "reta" => RetaInv /\ InsideOwesNothing

\* What is settled stays: the figures of a settled quarter and of a closed year
\* (TaxRows), and what a closed quarter charged for an asset (Assets).
ClosedStays ==
    [][/\ desk = "rows" => SettledQuarterStays /\ ClosedYearStays
       /\ desk = "assets" => FrozenQuarter]_vars

\* TaxForms: an attribution moves VAT from one quarter to another and makes none
\* (attach_attributions, project_tax_rows).
AttributionsConserve ==
    [][(desk \in {"forms", "annual"}) => AttributionConserves]_vars
=============================================================================
