---------------------------- MODULE MCConnections ---------------------------
(* One row for the handlers.  For the imports three movements, of which a   *)
(* former workflow recorded the first; two journal rows, of which one fits  *)
(* every movement; payments of the other one ask for a review.  For the      *)
(* history two lines: one that an export leaves out, one that it turns from  *)
(* an operation abroad into one at home of another quarter.                 *)
EXTENDS Connections, TLC

CONSTANTS a, b, t1, p1, p2, i1, i2, j1, j2

MCMovement == {1, 2, 3}
MCExports == {{1, 2, 3}, {2, 3}}
MCLegacy == {1}
MCFits == [m \in MCMovement |-> IF m = 2 THEN {j1} ELSE {j1, j2}]
MCReviewable == {j2}

MCOf == "abroad" :> 1 @@ "moved" :> 2
MCBooks == {1 :> "moved" @@ 2 :> "abroad", 2 :> "moved"}
MCReports == {<< >>, 1 :> "amount", 1 :> "missing"}

ConnectionSymmetry == Permutations({a, b}) \cup Permutations({i1, i2})
=============================================================================
