------------------------------ MODULE MCLedger ------------------------------
(* Small ledgers for TLC: each .cfg picks the rows that exist.              *)
EXTENDS LedgerProperties, TLC

CONSTANTS q1, q2, q3, q4, d1, d2, t1, t2, c1, c2, i1, i2, m216

\* q1 is day 0, every later quarter is day 1.
MCDaysOf == [p \in Period |-> IF p = q1 THEN {0} ELSE {1}]

\* For the questions the calendar has no part in: every quarter holds day 0.
MCOneDay == [p \in Period |-> {0}]

\* Two rows of one kind are alike.
MCRowSymmetry == Permutations(Transaction)

\* i1 is filed under q1, any other issue under q2.
MCIssuePeriod == [i \in Issue |-> IF i = i1 THEN q1 ELSE q2]
MCOnePeriod == [i \in Issue |-> q1]
MCIssueSubject == [i \in Issue |-> IF i = i1 THEN d1 ELSE t1]
=============================================================================
