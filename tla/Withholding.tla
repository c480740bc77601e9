----------------------------- MODULE Withholding ----------------------------
(***************************************************************************)
(* Payments to a foreign professional and modelo 216: recording a payment  *)
(* asks for a review in the quarter it was made, changing what is known of *)
(* the payee asks again for every payment, and a decision on modelo 216    *)
(* settles what its quarter still asks.  One transaction, one payee.       *)
(* Recording commits the payment first and asks afterwards; so does a      *)
(* decision with the issues it settles.  Only a change of what is known of *)
(* the payee is one transaction: the other handlers look at the quarter in *)
(* autocommit before they write, and so does the close itself.             *)
(***************************************************************************)
EXTENDS Naturals

CONSTANTS
    Payment,
    PaidIn,         \* payment -> its quarter
    Legal           \* legal forms that are tried

PaidQuarter == {PaidIn[p] : p \in Payment}

ASSUME WithholdingAssumption ==
    "unknown" \in Legal /\ Legal \subseteq {"unknown", "individual", "entity"}

VARIABLES
    payee,          \* foreign professional or not; legal form
    owned,          \* the transaction names the payee
    payments,       \* payment -> the stage of its handler and the issue that one wants
    review,         \* quarter -> issue code -> none, open, done
    modelo216,      \* quarter -> its determination: absent, unknown, decided
    settling,       \* decided quarters whose issues are not settled yet
    marks,          \* what a person's handler has checked and is about to write
    closing,        \* quarters that a close has found ready and is about to close
    filed,          \* closed quarters
    reviewed,       \* ghost: payments whose question some handler carried through
    drifted,        \* ghost: the payee changed and no payment was asked about
    overtaken,      \* ghost: something changed while a handler was asking
    crossed         \* ghost: quarters whose close another handler overlapped

withholdingVars ==
    <<payee, owned, payments, review, modelo216, settling, marks, closing, filed,
      reviewed, drifted, overtaken, crossed>>

Codes == {"irnr", "form"}
Made == {p \in Payment : payments[p].stage # "absent"}
Asking == {p \in Payment : payments[p].stage \in {"asking", "raising"}}
Mark == [op : {"decide", "withdraw"} \cup Codes, of : PaidQuarter]

\* Whether a payment concerns modelo 216, and what is asked of it.
Concerned(owner, of) == owner /\ of.foreign /\ of.form # "entity"
Code(of) == IF of.form = "individual" THEN "irnr" ELSE "form"

Asked(owner, of, q) == Concerned(owner, of) /\ modelo216[q] # "decided"

Answered(issues) == [c \in Codes |-> IF issues[c] = "open" THEN "done" ELSE issues[c]]

\* A write to quarters that a close has already found ready.
Overlap(quarters) == crossed' = crossed \cup (quarters \cap closing)

-----------------------------------------------------------------------------
(* add_payment *)

RecordPayment(p) ==
    /\ payments[p].stage = "absent"
    /\ payments' = [payments EXCEPT ![p].stage = "recorded"]
    /\ UNCHANGED <<payee, owned, review, modelo216, settling, marks, closing, filed,
                   reviewed, drifted, overtaken, crossed>>

\* The same payment once more: it is found, and asked about again. The handler
\* before this one has ended, or died between two of its steps.
RepeatPayment(p) ==
    /\ payments[p].stage \in {"asking", "raising", "done"}
    /\ payments' = [payments EXCEPT ![p] = [stage |-> "recorded", want |-> "none"]]
    /\ UNCHANGED <<payee, owned, review, modelo216, settling, marks, closing, filed,
                   reviewed, drifted, overtaken, crossed>>

\* Reads the payee and modelo 216.
Ask(p) ==
    LET asked == Asked(owned, payee, PaidIn[p]) IN
    /\ payments[p].stage = "recorded"
    /\ payments' = [payments EXCEPT ![p] =
            IF asked THEN [stage |-> "asking", want |-> Code(payee)]
            ELSE [stage |-> "done", want |-> "none"]]
    /\ reviewed' = IF asked THEN reviewed ELSE reviewed \cup {p}
    /\ UNCHANGED <<payee, owned, review, modelo216, settling, marks, closing, filed,
                   drifted, overtaken, crossed>>

\* Broken variant: the question is raised whatever became of the quarter.
QuarterRefuses_Never(p) == FALSE

QuarterRefuses(p) == PaidIn[p] \in filed

\* add_validation_issue before its write: a closed quarter refuses.
CheckQuarter(p) ==
    /\ payments[p].stage = "asking"
    /\ payments' = [payments EXCEPT ![p] =
            IF QuarterRefuses(p) THEN [stage |-> "done", want |-> "none"]
            ELSE [@ EXCEPT !.stage = "raising"]]
    /\ UNCHANGED <<payee, owned, review, modelo216, settling, marks, closing, filed,
                   reviewed, drifted, overtaken, crossed>>

\* Its write: an issue that was answered opens again.
Raise(p) ==
    /\ payments[p].stage = "raising"
    /\ payments' = [payments EXCEPT ![p] = [stage |-> "done", want |-> "none"]]
    /\ review' = [review EXCEPT ![PaidIn[p]][payments[p].want] = "open"]
    /\ reviewed' = reviewed \cup {p}
    /\ Overlap({PaidIn[p]})
    /\ UNCHANGED <<payee, owned, modelo216, settling, marks, closing, filed, drifted, overtaken>>

-----------------------------------------------------------------------------
(* What is known of the payee *)

Payee(foreign, form) == [foreign |-> foreign, form |-> form]

AskedAgain(of) == {q \in PaidQuarter :
    Asked(owned, of, q) /\ \E p \in Made : PaidIn[p] = q}

\* Broken variant: the issues of the old classification are left as they are.
Refreshed_Kept(of) ==
    [q \in PaidQuarter |->
        IF q \in AskedAgain(of) THEN [review[q] EXCEPT ![Code(of)] = "open"] ELSE review[q]]

\* Answers what was open and asks again, in every quarter with a payment.
Refreshed(of) ==
    IF ~owned \/ Made = {} THEN review
    ELSE [q \in PaidQuarter |->
            IF q \in AskedAgain(of) THEN [Answered(review[q]) EXCEPT ![Code(of)] = "open"]
            ELSE Answered(review[q])]

\* Broken variant: quarters that closed are skipped instead.
Refreshable_Any(of) == TRUE

\* One closed quarter to be asked about again undoes the whole change.
Refreshable(of) == AskedAgain(of) \cap filed = {}

\* update_counterparty_review, set_counterparty_tax_profile: one transaction.
UpdateReview(foreign, form) ==
    LET of == Payee(foreign, form) IN
    /\ payee # of
    /\ Refreshable(of)
    /\ payee' = of
    /\ review' = Refreshed(of)
    /\ drifted' = FALSE
    /\ overtaken' = (overtaken \/ Asking # {})
    /\ Overlap(AskedAgain(of))
    /\ UNCHANGED <<owned, payments, modelo216, settling, marks, closing, filed, reviewed>>

\* upsert_counterparty (intake, sheets) changes country and legal form alone.
Upsert(foreign, form) ==
    /\ payee # Payee(foreign, form)
    /\ payee' = Payee(foreign, form)
    /\ drifted' = (drifted \/ (owned /\ Made # {}))
    /\ overtaken' = (overtaken \/ Asking # {})
    /\ UNCHANGED <<owned, payments, review, modelo216, settling, marks, closing, filed,
                   reviewed, crossed>>

\* The transaction gets its payee.
Assign ==
    /\ ~owned
    /\ owned' = TRUE
    /\ drifted' = (drifted \/ Made # {})
    /\ UNCHANGED <<payee, payments, review, modelo216, settling, marks, closing, filed,
                   reviewed, overtaken, crossed>>

-----------------------------------------------------------------------------
(* The quarter: one person at a time decides on modelo 216 and answers issues *)

\* The quarter, the issue and the obligation are looked at first. A handler that
\* was about to write and is not heard of again has died.
CheckMark(op, q) ==
    /\ q \notin filed
    /\ op \in Codes => review[q][op] = "open"
    /\ op = "withdraw" => modelo216[q] # "unknown"
    /\ marks' = {[op |-> op, of |-> q]}
    /\ UNCHANGED <<payee, owned, payments, review, modelo216, settling, closing, filed,
                   reviewed, drifted, overtaken, crossed>>

\* waive_issue, resolve_issue
Answer(m) ==
    /\ m \in marks /\ m.op \in Codes
    /\ marks' = {}
    /\ review' = [review EXCEPT ![m.of][m.op] = "done"]
    /\ UNCHANGED <<payee, owned, payments, modelo216, settling, closing, filed,
                   reviewed, drifted, overtaken, crossed>>

\* add_obligation, then the issues of the quarter in a commit of their own.
Decide216(m) ==
    /\ m \in marks /\ m.op = "decide"
    /\ marks' = {}
    /\ modelo216' = [modelo216 EXCEPT ![m.of] = "decided"]
    /\ settling' = settling \cup {m.of}
    /\ overtaken' = (overtaken \/ Asking # {})
    /\ UNCHANGED <<payee, owned, payments, review, closing, filed, reviewed, drifted, crossed>>

Settle(q) ==
    /\ q \in settling
    /\ settling' = settling \ {q}
    /\ review' = [review EXCEPT ![q] = Answered(@)]
    /\ UNCHANGED <<payee, owned, payments, modelo216, marks, closing, filed,
                   reviewed, drifted, overtaken, crossed>>

\* The decision is withdrawn: the obligation is unknown again, and blocks.
Undecide(m) ==
    /\ m \in marks /\ m.op = "withdraw"
    /\ marks' = {}
    /\ modelo216' = [modelo216 EXCEPT ![m.of] = "unknown"]
    /\ Overlap({m.of})
    /\ UNCHANGED <<payee, owned, payments, review, settling, closing, filed,
                   reviewed, drifted, overtaken>>

Closable(q) == modelo216[q] # "unknown" /\ \A c \in Codes : review[q][c] # "open"

\* close_period reads; a close that looks again starts afresh.
BeginClose(q) ==
    /\ q \notin filed
    /\ Closable(q)
    /\ closing' = closing \cup {q}
    /\ crossed' = crossed \ {q}
    /\ UNCHANGED <<payee, owned, payments, review, modelo216, settling, marks, filed,
                   reviewed, drifted, overtaken>>

\* Handlers that have passed their check of the quarter, and not written yet.
InFlight(q) ==
    \/ \E p \in Payment : PaidIn[p] = q /\ payments[p].stage = "raising"
    \/ \E m \in marks : m.of = q

\* Its UPDATE looks at nothing again.
EndClose(q) ==
    /\ q \in closing
    /\ closing' = closing \ {q}
    /\ filed' = filed \cup {q}
    /\ crossed' = IF InFlight(q) THEN crossed \cup {q} ELSE crossed
    /\ UNCHANGED <<payee, owned, payments, review, modelo216, settling, marks,
                   reviewed, drifted, overtaken>>

-----------------------------------------------------------------------------

\* Before the first payment; nothing is known of the payee.
WithholdingInit ==
    /\ payee = Payee(FALSE, "unknown") /\ owned = FALSE
    /\ payments = [p \in Payment |-> [stage |-> "absent", want |-> "none"]]
    /\ review = [q \in PaidQuarter |-> [c \in Codes |-> "none"]]
    /\ modelo216 = [q \in PaidQuarter |-> "absent"]
    /\ settling = {} /\ marks = {} /\ closing = {} /\ filed = {}
    /\ reviewed = {} /\ drifted = FALSE /\ overtaken = FALSE /\ crossed = {}

WithholdingNext ==
    \/ \E p \in Payment :
          RecordPayment(p) \/ RepeatPayment(p) \/ Ask(p) \/ CheckQuarter(p) \/ Raise(p)
    \/ \E foreign \in BOOLEAN, form \in Legal : UpdateReview(foreign, form) \/ Upsert(foreign, form)
    \/ Assign
    \/ \E op \in {"decide", "withdraw"} \cup Codes, q \in PaidQuarter : CheckMark(op, q)
    \/ \E m \in marks : Answer(m) \/ Decide216(m) \/ Undecide(m)
    \/ \E q \in PaidQuarter : Settle(q) \/ BeginClose(q) \/ EndClose(q)

-----------------------------------------------------------------------------
(* Properties *)

\* The payee, the payments and the issues keep their shape.
WithholdingTypeOK ==
    /\ payee \in [foreign : BOOLEAN, form : Legal]
    /\ owned \in BOOLEAN
    /\ payments \in [Payment -> [stage : {"absent", "recorded", "asking", "raising", "done"},
                                 want : Codes \cup {"none"}]]
    /\ review \in [PaidQuarter -> [Codes -> {"none", "open", "done"}]]
    /\ modelo216 \in [PaidQuarter -> {"absent", "unknown", "decided"}]
    /\ settling \subseteq PaidQuarter /\ marks \subseteq Mark
    /\ closing \subseteq PaidQuarter /\ filed \subseteq PaidQuarter
    /\ reviewed \subseteq Payment /\ crossed \subseteq PaidQuarter
    /\ drifted \in BOOLEAN /\ overtaken \in BOOLEAN

\* add_payment, update_counterparty_review: a quarter closes, and stays closed,
\* only with modelo 216 decided or the review answered for every payment that some
\* handler asked about, as the payee is classified now; unless a sheet or an
\* intake changed the payee behind the review's back, or another handler's check
\* and write overlapped the close.
ClosedIsReviewed ==
    ~drifted =>
        \A p \in reviewed :
            LET q == PaidIn[p] IN
            q \in filed \ crossed /\ Concerned(owned, payee)
            => modelo216[q] = "decided" \/ review[q][Code(payee)] = "done"

\* _refresh_future_irnr_reviews_for_counterparty: what a quarter still asks is
\* about a payment that was made in it, to a payee so classified.
AsksWhatMatters ==
    ~drifted /\ ~overtaken =>
        \A q \in PaidQuarter, c \in Codes : review[q][c] = "open" =>
            /\ Concerned(owned, payee) /\ c = Code(payee)
            /\ \E p \in Made : PaidIn[p] = q

\* Reviews ask what matters, and a quarter closes only when they are answered.
WithholdingInv == WithholdingTypeOK /\ ClosedIsReviewed /\ AsksWhatMatters
=============================================================================
