------------------------------ MODULE Browser -------------------------------
(***************************************************************************)
(* What a browser waits for: the outcome of a confirmed expense            *)
(* (ExpenseWizard) and the figures of its quarter (Calculation).  As       *)
(* modelled the two share no state; a behaviour is about one of them, and  *)
(* the other starts, and stays, in one state.                              *)
(***************************************************************************)
EXTENDS ExpenseWizard, Calculation

VARIABLE waitsFor

browserVars == <<vars, calculationVars, waitsFor>>

BrowserInit ==
    /\ Init /\ CalculationInit
    /\ waitsFor \in {"expense", "figures"}
    /\ waitsFor = "figures" =>
          source.status = "approved" /\ draft.payload = CHOOSE p \in Payload : TRUE

Expense == waitsFor = "expense" /\ Next /\ UNCHANGED <<calculationVars, waitsFor>>
Figures == waitsFor = "figures" /\ CalculationNext /\ UNCHANGED <<vars, waitsFor>>

BrowserNext == Expense \/ Figures

BrowserSpec == BrowserInit /\ [][BrowserNext]_browserVars

\* Each part's own fairness, in the behaviours that are about it.
BrowserFairSpec ==
    /\ BrowserSpec
    /\ waitsFor = "expense" => Fairness
    /\ waitsFor = "figures" => CalculationFairness
=============================================================================
