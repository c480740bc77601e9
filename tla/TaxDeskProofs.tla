--------------------------- MODULE TaxDeskProofs ----------------------------
(***************************************************************************)
(* The tax desk, for any number of rows, entries, quarters, returns,       *)
(* clerks, payments, elections and assets.  Each part has its own          *)
(* invariant, proved from the part's own actions; the last section puts    *)
(* it under the desk that is at work.  The forms and the returns are sums  *)
(* over finite sets, so a section of their own says what a sum is: what    *)
(* it depends on, and what it is over a union or over parts, whichever     *)
(* order its fold takes.                                                   *)
(***************************************************************************)
EXTENDS TaxDesk, FiniteSetTheorems, WellFoundedInduction, TLAPS

-----------------------------------------------------------------------------
(* Modelo 216 *)

\* What a handler that is asking knows, and what reviews there are: a handler
\* asks about a payee the transaction names; an open issue has its payment.
AskingIsOwned ==
    /\ \A p \in Asking : owned /\ payments[p].want \in Codes
    /\ \A q \in PaidQuarter, c \in Codes :
          review[q][c] = "open" => owned /\ \E p \in Made : PaidIn[p] = q
    /\ reviewed \subseteq Made

\* There is a review of the payee as he is classified now, or a decision that
\* was once taken.
Covered(q) == modelo216[q] # "absent" \/ review[q][Code(payee)] # "none"

\* So it is of every payment that was asked about; a handler that is asking finds
\* it so, or is about to raise that review itself.
ReviewExists ==
    ~drifted /\ Concerned(owned, payee) =>
        /\ \A p \in reviewed : Covered(PaidIn[p])
        /\ \A p \in Asking : Covered(PaidIn[p]) \/ payments[p].want = Code(payee)

\* A quarter that a close found ready, and that nothing crossed since, has its
\* decision, and nothing is asked about it.
FiledIsQuiet ==
    \A q \in (closing \cup filed) \ crossed :
        modelo216[q] # "unknown" /\ \A c \in Codes : review[q][c] # "open"

\* Nothing that was checked before such a close is still to be written.
NoneLate == \A q \in filed \ crossed : ~InFlight(q)

\* Until it is overtaken a handler asks what the payee's classification asks.
AsksForPayee ==
    ~drifted /\ ~overtaken =>
        \A p \in Asking : Concerned(owned, payee) /\ payments[p].want = Code(payee)

WithholdingIInv ==
    /\ WithholdingTypeOK /\ AskingIsOwned /\ FiledIsQuiet /\ NoneLate
    /\ ReviewExists /\ AsksWhatMatters /\ AsksForPayee

\* The steps of WithholdingNext, in the order of the module.
PaymentStep ==
    \E p \in Payment :
        RecordPayment(p) \/ RepeatPayment(p) \/ Ask(p) \/ CheckQuarter(p) \/ Raise(p)
PayeeStep ==
    \/ \E foreign \in BOOLEAN, form \in Legal : UpdateReview(foreign, form) \/ Upsert(foreign, form)
    \/ Assign
MarkStep ==
    \/ \E op \in {"decide", "withdraw"} \cup Codes, q \in PaidQuarter : CheckMark(op, q)
    \/ \E m \in marks : Answer(m) \/ Decide216(m) \/ Undecide(m)
    \/ \E q \in PaidQuarter : Settle(q)
CloseStep == \E q \in PaidQuarter : BeginClose(q) \/ EndClose(q)

LEMMA CodeTyped == ASSUME NEW of PROVE Code(of) \in Codes
BY DEF Code, Codes

LEMMA PaidInTyped == ASSUME NEW p \in Payment PROVE PaidIn[p] \in PaidQuarter
BY DEF PaidQuarter

\* What closed is reviewed because there was a review, or a decision, and a
\* quarter closes with none open.
LEMMA QuietIsReviewed == WithholdingIInv => WithholdingInv
<1> HAVE WithholdingIInv
<1> USE DEF WithholdingIInv
<1> SUFFICES ASSUME WithholdingTypeOK PROVE ClosedIsReviewed
  BY DEF WithholdingInv
<1> SUFFICES ASSUME ~drifted, NEW p \in reviewed, PaidIn[p] \in filed \ crossed,
                    Concerned(owned, payee)
             PROVE  modelo216[PaidIn[p]] = "decided" \/ review[PaidIn[p]][Code(payee)] = "done"
  BY DEF ClosedIsReviewed
<1>0. p \in Payment /\ PaidIn[p] \in PaidQuarter
  BY PaidInTyped DEF WithholdingTypeOK
<1>1. /\ modelo216[PaidIn[p]] \in {"absent", "unknown", "decided"}
      /\ review[PaidIn[p]][Code(payee)] \in {"none", "open", "done"}
  BY <1>0, CodeTyped DEF WithholdingTypeOK
<1>2. modelo216[PaidIn[p]] # "unknown" /\ review[PaidIn[p]][Code(payee)] # "open"
  BY CodeTyped DEF FiledIsQuiet
<1>3. modelo216[PaidIn[p]] # "absent" \/ review[PaidIn[p]][Code(payee)] # "none"
  BY DEF ReviewExists, Covered
<1> QED BY <1>1, <1>2, <1>3

LEMMA WithholdingStart == WithholdingInit => WithholdingIInv
<1> HAVE WithholdingInit
<1>1. WithholdingTypeOK
  BY WithholdingAssumption
     DEF WithholdingAssumption, WithholdingInit, WithholdingTypeOK, Payee, PaidQuarter, Codes
<1>2. FiledIsQuiet /\ NoneLate /\ ReviewExists
  BY DEF WithholdingInit, FiledIsQuiet, NoneLate, ReviewExists, Asking
<1>3. AskingIsOwned /\ AsksWhatMatters /\ AsksForPayee
  BY DEF WithholdingInit, AskingIsOwned, AsksWhatMatters, AsksForPayee, Asking, Codes
<1> QED BY <1>1, <1>2, <1>3 DEF WithholdingIInv

\* add_payment: the commit of the payment, what its review reads, the check of its
\* quarter, the review; and the same payment once more.
LEMMA PaymentKeeps ==
    ASSUME WithholdingIInv, PaymentStep
    PROVE  WithholdingIInv'
<1> PICK p \in Payment :
        RecordPayment(p) \/ RepeatPayment(p) \/ Ask(p) \/ CheckQuarter(p) \/ Raise(p)
  BY DEF PaymentStep
<1>q. PaidIn[p] \in PaidQuarter
  BY PaidInTyped
<1>t. /\ WithholdingTypeOK /\ AskingIsOwned /\ FiledIsQuiet /\ NoneLate
      /\ ReviewExists /\ AsksWhatMatters /\ AsksForPayee
  BY DEF WithholdingIInv
<1>0. UNCHANGED <<payee, owned, modelo216, settling, marks, closing, filed, drifted, overtaken>>
  BY DEF RecordPayment, RepeatPayment, Ask, CheckQuarter, Raise
<1>y. /\ payments \in [Payment -> [stage : {"absent", "recorded", "asking", "raising", "done"},
                                   want : Codes \cup {"none"}]]
      /\ reviewed \subseteq Payment
  BY <1>t DEF WithholdingTypeOK
<1>2. CASE RecordPayment(p) \/ RepeatPayment(p) \/ Ask(p) \/ CheckQuarter(p)
  <2> DEFINE next == payments'[p]
  <2>1. UNCHANGED <<review, crossed>>
    BY <1>2 DEF RecordPayment, RepeatPayment, Ask, CheckQuarter
  <2>2. /\ payments' \in [Payment -> [stage : {"absent", "recorded", "asking", "raising", "done"},
                                      want : Codes \cup {"none"}]]
        /\ \A o \in Payment : o # p => payments'[o] = payments[o]
        /\ next.stage # "absent"
        /\ next.stage \in {"asking", "raising"} =>
              \/ payments[p].stage \in {"asking", "raising"} /\ next.want = payments[p].want
              \/ Asked(owned, payee, PaidIn[p]) /\ next.want = Code(payee)
        /\ next.stage = "raising" => PaidIn[p] \notin filed
    <3>1. CASE RecordPayment(p)  BY <1>y, <3>1 DEF RecordPayment
    <3>2. CASE RepeatPayment(p)  BY <1>y, <3>2 DEF RepeatPayment
    <3>3. CASE Ask(p)  BY <1>y, <3>3, CodeTyped DEF Ask
    <3>4. CASE CheckQuarter(p)  BY <1>y, <3>4 DEF CheckQuarter, QuarterRefuses
    <3> QED BY <1>2, <3>1, <3>2, <3>3, <3>4
  <2>3. \/ reviewed' = reviewed
        \/ reviewed' = reviewed \cup {p} /\ ~Asked(owned, payee, PaidIn[p])
    BY <1>2 DEF RecordPayment, RepeatPayment, Ask, CheckQuarter
  <2>4. Made' = Made \cup {p}
    BY <1>y, <2>2 DEF Made
  <2>5. Asking' \subseteq Asking \cup {p}
    BY <2>2 DEF Asking
  <2>6. WithholdingTypeOK'
    BY <1>t, <1>0, <2>1, <2>2, <2>3 DEF WithholdingTypeOK
  <2>7. AskingIsOwned'
    <3>1. \A o \in Asking' : owned /\ payments'[o].want \in Codes
      BY <1>t, <2>2, CodeTyped DEF AskingIsOwned, Asking, Asked, Concerned
    <3> QED BY <1>t, <1>0, <2>1, <2>3, <2>4, <3>1 DEF AskingIsOwned
  <2>8. FiledIsQuiet'
    BY <1>t, <1>0, <2>1 DEF FiledIsQuiet
  <2>9. NoneLate'
    BY <1>t, <1>0, <2>1, <2>2 DEF NoneLate, InFlight
  <2>10. ReviewExists'
    <3> SUFFICES ASSUME ~drifted, Concerned(owned, payee)
                 PROVE  /\ \A o \in reviewed' : Covered(PaidIn[o])
                        /\ \A o \in Asking' : Covered(PaidIn[o]) \/ payments'[o].want = Code(payee)
      BY <1>0, <2>1 DEF ReviewExists, Covered, Concerned
    <3>1. ~Asked(owned, payee, PaidIn[p]) => Covered(PaidIn[p])
      BY DEF Asked, Covered
    <3>2. \A o \in Asking' : Covered(PaidIn[o]) \/ payments'[o].want = Code(payee)
      BY <1>t, <2>2, <2>5 DEF ReviewExists, Asking
    <3> QED BY <1>t, <2>3, <3>1, <3>2 DEF ReviewExists
  <2>11. AsksWhatMatters'
    BY <1>t, <1>0, <2>1, <2>4 DEF AsksWhatMatters, Concerned
  <2>12. AsksForPayee'
    BY <1>t, <1>0, <2>2 DEF AsksForPayee, Asking, Asked, Concerned
  <2> QED BY <2>6, <2>7, <2>8, <2>9, <2>10, <2>11, <2>12 DEF WithholdingIInv
<1>3. CASE Raise(p)
  <2> USE <1>3 DEF Raise
  <2>0. p \in Asking /\ payments[p].want \in Codes /\ owned
    BY <1>t DEF AskingIsOwned, Asking
  <2>1. /\ \A o \in Payment : o # p => payments'[o] = payments[o]
        /\ payments'[p] = [stage |-> "done", want |-> "none"]
        /\ payments' \in [Payment -> [stage : {"absent", "recorded", "asking", "raising", "done"},
                                      want : Codes \cup {"none"}]]
    BY <1>y
  <2>2. Asking' = Asking \ {p} /\ Made' = Made
    BY <1>y, <2>1 DEF Asking, Made
  <2>r. /\ \A q \in PaidQuarter, c \in Codes :
              review'[q][c] = IF q = PaidIn[p] /\ c = payments[p].want THEN "open" ELSE review[q][c]
        /\ review' \in [PaidQuarter -> [Codes -> {"none", "open", "done"}]]
    BY <1>t, <1>q, <2>0 DEF WithholdingTypeOK
  <2>c. crossed' = crossed \cup ({PaidIn[p]} \cap closing)
    BY DEF Overlap
  <2>3. WithholdingTypeOK'
    BY <1>t, <1>0, <1>q, <2>1, <2>r, <2>c DEF WithholdingTypeOK
  <2>4. AskingIsOwned'
    <3>1. p \in Made
      BY DEF Made
    <3> QED BY <1>t, <1>0, <2>0, <2>1, <2>2, <2>r, <3>1 DEF AskingIsOwned
  <2>5. FiledIsQuiet'
    <3>1. PaidIn[p] \in filed => PaidIn[p] \in crossed
      BY <1>t DEF NoneLate, InFlight
    <3>2. PaidIn[p] \notin (closing' \cup filed') \ crossed'
      BY <1>0, <2>c, <3>1
    <3>3. (closing' \cup filed') \ crossed' \subseteq ((closing \cup filed) \ crossed) \cap PaidQuarter
      BY <1>t, <1>0, <2>c DEF WithholdingTypeOK
    <3> QED BY <1>t, <1>0, <2>r, <3>2, <3>3 DEF FiledIsQuiet
  <2>6. NoneLate'
    BY <1>t, <1>0, <2>1, <2>c DEF NoneLate, InFlight
  <2>7. ReviewExists'
    <3> SUFFICES ASSUME ~drifted, Concerned(owned, payee)
                 PROVE  /\ \A o \in reviewed' : Covered(PaidIn[o])'
                        /\ \A o \in Asking' : Covered(PaidIn[o])' \/ payments'[o].want = Code(payee)
      BY <1>0 DEF ReviewExists, Concerned
    <3>1. \A o \in Payment : Covered(PaidIn[o]) => Covered(PaidIn[o])'
      BY <1>0, <2>r, CodeTyped, PaidInTyped DEF Covered
    <3>2. Covered(PaidIn[p])'
      <4>1. CASE Covered(PaidIn[p])  BY <3>1, <4>1
      <4>2. CASE payments[p].want = Code(payee)
        BY <1>0, <1>q, <2>r, <4>2, CodeTyped DEF Covered
      <4> QED BY <1>t, <2>0, <4>1, <4>2 DEF ReviewExists
    <3> QED BY <1>t, <1>0, <1>y, <2>1, <2>2, <3>1, <3>2 DEF ReviewExists, Asking
  <2>8. AsksWhatMatters'
    <3>1. p \in Made
      BY DEF Made
    <3> QED BY <1>t, <1>0, <2>0, <2>2, <2>r, <3>1 DEF AsksWhatMatters, AsksForPayee, Concerned
  <2>9. AsksForPayee'
    BY <1>t, <1>0, <2>1, <2>2 DEF AsksForPayee, Asking, Concerned
  <2> QED BY <2>3, <2>4, <2>5, <2>6, <2>7, <2>8, <2>9 DEF WithholdingIInv
<1> QED BY <1>2, <1>3

\* What is known of the payee: the review of every payment is asked again, or
\* the change goes behind its back.
LEMMA PayeeKeeps ==
    ASSUME WithholdingIInv, PayeeStep
    PROVE  WithholdingIInv'
<1>t. /\ WithholdingTypeOK /\ AskingIsOwned /\ FiledIsQuiet /\ NoneLate
      /\ ReviewExists /\ AsksWhatMatters /\ AsksForPayee
  BY DEF WithholdingIInv
<1>m. /\ UNCHANGED <<payments, modelo216, settling, marks, closing, filed, reviewed>>
      /\ Made' = Made /\ Asking' = Asking
  BY DEF PayeeStep, UpdateReview, Upsert, Assign, Made, Asking
<1>a. Asking \subseteq Made /\ \A p \in Made : p \in Payment /\ PaidIn[p] \in PaidQuarter
  BY PaidInTyped DEF Asking, Made
<1>1. ASSUME NEW foreign \in BOOLEAN, NEW form \in Legal, UpdateReview(foreign, form)
      PROVE  WithholdingIInv'
  <2> DEFINE of == Payee(foreign, form)
  <2> USE <1>1 DEF UpdateReview
  <2>0. /\ payee' = of /\ owned' = owned /\ drifted' = FALSE
        /\ overtaken' = (overtaken \/ Asking # {})
        /\ crossed' = crossed \cup (AskedAgain(of) \cap closing)
    BY DEF Overlap
  <2>r. ASSUME NEW q \in PaidQuarter, NEW c \in Codes
        PROVE  review'[q][c] =
                 IF ~owned \/ Made = {} THEN review[q][c]
                 ELSE IF q \in AskedAgain(of) /\ c = Code(of) THEN "open"
                 ELSE IF review[q][c] = "open" THEN "done" ELSE review[q][c]
    BY <1>t DEF WithholdingTypeOK, Refreshed, Answered
  <2>k. \A q \in PaidQuarter : q \in AskedAgain(of) <=>
            Concerned(owned, of) /\ modelo216[q] # "decided" /\ \E p \in Made : PaidIn[p] = q
    BY DEF AskedAgain, Asked
  <2>1. WithholdingTypeOK'
    <3>1. payee' \in [foreign : BOOLEAN, form : Legal]
      BY DEF Payee
    <3>2. review' \in [PaidQuarter -> [Codes -> {"none", "open", "done"}]]
      BY <1>t, CodeTyped DEF WithholdingTypeOK, Refreshed, Answered
    <3>3. crossed' \subseteq PaidQuarter
      BY <1>t, <2>0 DEF WithholdingTypeOK
    <3> QED BY <1>t, <1>m, <2>0, <3>1, <3>2, <3>3 DEF WithholdingTypeOK
  <2>2. AskingIsOwned'
    BY <1>t, <1>m, <2>0, <2>r, <2>k DEF AskingIsOwned, Concerned
  <2>3. FiledIsQuiet'
    <3>1. AskedAgain(of) \cap filed = {} /\ filed \subseteq PaidQuarter /\ closing \subseteq PaidQuarter
      BY <1>t DEF Refreshable, WithholdingTypeOK
    <3>2. \A q \in (closing' \cup filed') \ crossed' :
              q \in (closing \cup filed) \ crossed /\ q \in PaidQuarter /\ q \notin AskedAgain(of)
      BY <1>m, <2>0, <3>1
    <3> QED BY <1>t, <1>m, <2>r, <3>2 DEF FiledIsQuiet
  <2>l. NoneLate'
    BY <1>t, <1>m, <2>0 DEF NoneLate, InFlight
  <2>4. ReviewExists'
    <3> SUFFICES ASSUME NEW p \in Made, Concerned(owned, of), modelo216[PaidIn[p]] = "absent"
                 PROVE  review'[PaidIn[p]][Code(of)] # "none"
      BY <1>t, <1>m, <1>a, <2>0 DEF ReviewExists, Covered, AskingIsOwned
    <3>1. PaidIn[p] \in AskedAgain(of) /\ owned
      BY <1>a, <2>k DEF Concerned
    <3> QED BY <1>a, <2>r, <3>1, CodeTyped
  <2>5. AsksWhatMatters'
    <3> SUFFICES ASSUME NEW q \in PaidQuarter, NEW c \in Codes, review'[q][c] = "open"
                 PROVE  /\ Concerned(owned, of) /\ c = Code(of)
                        /\ \E p \in Made : PaidIn[p] = q
      BY <1>m, <2>0 DEF AsksWhatMatters
    <3>1. owned /\ Made # {}
      BY <1>t, <2>r DEF AskingIsOwned
    <3>2. q \in AskedAgain(of) /\ c = Code(of)
      BY <2>r, <3>1
    <3> QED BY <2>k, <3>2
  <2>6. AsksForPayee'
    BY <1>m, <2>0 DEF AsksForPayee
  <2> QED BY <2>1, <2>2, <2>3, <2>l, <2>4, <2>5, <2>6 DEF WithholdingIInv
<1>2. ASSUME NEW foreign \in BOOLEAN, NEW form \in Legal, Upsert(foreign, form)
      PROVE  WithholdingIInv'
  <2> USE <1>2 DEF Upsert
  <2>0. /\ UNCHANGED <<owned, review, crossed>>
        /\ drifted' = (drifted \/ (owned /\ Made # {})) /\ overtaken' = (overtaken \/ Asking # {})
    OBVIOUS
  <2>1. WithholdingTypeOK'
    BY <1>t, <1>m DEF WithholdingTypeOK, Payee
  <2>2. AskingIsOwned' /\ FiledIsQuiet' /\ NoneLate'
    BY <1>t, <1>m, <2>0 DEF AskingIsOwned, FiledIsQuiet, NoneLate, InFlight
  <2>3. ReviewExists'
    <3> SUFFICES ASSUME ~drifted', Concerned(owned, payee')
                 PROVE  reviewed = {} /\ Asking = {}
      BY <1>m, <2>0 DEF ReviewExists
    <3>1. Made = {}
      BY <2>0 DEF Concerned
    <3> QED BY <1>t, <1>a, <3>1 DEF AskingIsOwned
  <2>4. AsksWhatMatters'
    BY <1>t, <1>m, <2>0 DEF AsksWhatMatters, AskingIsOwned
  <2>5. AsksForPayee'
    BY <1>m, <2>0 DEF AsksForPayee
  <2> QED BY <2>1, <2>2, <2>3, <2>4, <2>5 DEF WithholdingIInv
<1>3. CASE Assign
  <2> USE <1>3 DEF Assign
  <2>0. /\ UNCHANGED <<payee, review, overtaken, crossed>>
        /\ ~owned /\ owned' = TRUE /\ drifted' = (drifted \/ Made # {})
    OBVIOUS
  <2>a. Asking = {}
    BY <1>t, <2>0 DEF AskingIsOwned
  <2>1. WithholdingTypeOK'
    BY <1>t, <1>m, <2>0 DEF WithholdingTypeOK
  <2>2. AskingIsOwned' /\ FiledIsQuiet' /\ NoneLate'
    BY <1>t, <1>m, <2>0 DEF AskingIsOwned, FiledIsQuiet, NoneLate, InFlight
  <2>3. ReviewExists'
    BY <1>t, <1>m, <2>0, <2>a DEF ReviewExists, AskingIsOwned
  <2>4. AsksWhatMatters'
    BY <1>t, <1>m, <2>0 DEF AsksWhatMatters, AskingIsOwned
  <2>5. AsksForPayee'
    BY <1>m, <2>0, <2>a DEF AsksForPayee
  <2> QED BY <2>1, <2>2, <2>3, <2>4, <2>5 DEF WithholdingIInv
<1> QED BY <1>1, <1>2, <1>3 DEF PayeeStep

\* The decision on modelo 216 and the answers: what was checked, then written.
LEMMA MarkKeeps ==
    ASSUME WithholdingIInv, MarkStep
    PROVE  WithholdingIInv'
<1>t. /\ WithholdingTypeOK /\ AskingIsOwned /\ FiledIsQuiet /\ NoneLate
      /\ ReviewExists /\ AsksWhatMatters /\ AsksForPayee
  BY DEF WithholdingIInv
<1>y. /\ review \in [PaidQuarter -> [Codes -> {"none", "open", "done"}]]
      /\ modelo216 \in [PaidQuarter -> {"absent", "unknown", "decided"}]
      /\ marks \subseteq Mark /\ settling \subseteq PaidQuarter
      /\ \A m \in marks : m.of \in PaidQuarter
  BY <1>t DEF WithholdingTypeOK, Mark
<1>m. /\ UNCHANGED <<payee, owned, payments, closing, filed, reviewed, drifted>>
      /\ Made' = Made /\ Asking' = Asking
  BY DEF MarkStep, CheckMark, Answer, Decide216, Undecide, Settle, Made, Asking
<1>o. overtaken' = overtaken \/ overtaken' = (overtaken \/ Asking # {})
  BY DEF MarkStep, CheckMark, Answer, Decide216, Undecide, Settle
<1> DEFINE Quietens ==
              /\ \A r \in PaidQuarter, c \in Codes :
                    review'[r][c] = review[r][c] \/ review'[r][c] = "done"
              /\ review' \in [PaidQuarter -> [Codes -> {"none", "open", "done"}]]
<1>r. Quietens
  <2>1. CASE review' = review
    BY <1>y, <2>1
  <2>2. ASSUME NEW q \in PaidQuarter, review' = [review EXCEPT ![q] = Answered(@)]
        PROVE  Quietens
    BY <1>y, <2>2 DEF Answered
  <2>3. ASSUME NEW m \in marks, m.op \in Codes, review' = [review EXCEPT ![m.of][m.op] = "done"]
        PROVE  Quietens
    BY <1>y, <2>3
  <2> QED
    BY <2>1, <2>2, <2>3 DEF MarkStep, CheckMark, Answer, Decide216, Undecide, Settle
<1> DEFINE Decides ==
              /\ modelo216' \in [PaidQuarter -> {"absent", "unknown", "decided"}]
              /\ crossed \subseteq crossed' /\ crossed' \subseteq crossed \cup PaidQuarter
              /\ \A r \in PaidQuarter :
                    \/ modelo216'[r] = modelo216[r] \/ modelo216'[r] = "decided"
                    \/ /\ modelo216'[r] = "unknown"
                       /\ r \in closing \cup filed => r \in crossed'
<1>d. Decides
  <2>1. CASE modelo216' = modelo216 /\ crossed' = crossed
    BY <1>y, <2>1
  <2>2. ASSUME NEW m \in marks, Decide216(m)
        PROVE  Decides
    BY <1>y, <2>2 DEF Decide216
  <2>3. ASSUME NEW m \in marks, Undecide(m)
        PROVE  Decides
    <3>1. m.of \in filed => m.of \in crossed
      BY <1>t, <2>3 DEF NoneLate, InFlight
    <3> QED BY <1>y, <2>3, <3>1 DEF Undecide, Overlap
  <2> QED BY <2>1, <2>2, <2>3 DEF MarkStep, CheckMark, Answer, Settle
<1>k. /\ marks' \subseteq Mark
      /\ \A m \in marks' : m \in marks \/ m.of \notin filed
  <2>1. ASSUME NEW op \in {"decide", "withdraw"} \cup Codes, NEW q \in PaidQuarter, CheckMark(op, q)
        PROVE  /\ marks' \subseteq Mark
               /\ \A m \in marks' : m \in marks \/ m.of \notin filed
    BY <2>1 DEF CheckMark, Mark
  <2> QED BY <1>y, <2>1 DEF MarkStep, Answer, Decide216, Undecide, Settle
<1> HIDE DEF Quietens, Decides
<1>1. WithholdingTypeOK'
  <2>1. settling' \subseteq PaidQuarter
    <3>1. ASSUME NEW m \in marks, settling' = settling \cup {m.of}
          PROVE  settling' \subseteq PaidQuarter
      BY <1>y, <3>1
    <3>2. ASSUME NEW q, settling' = settling \ {q}
          PROVE  settling' \subseteq PaidQuarter
      BY <1>y, <3>2
    <3>3. CASE settling' = settling
      BY <1>y, <3>3
    <3> QED
      BY <3>1, <3>2, <3>3 DEF MarkStep, CheckMark, Answer, Decide216, Undecide, Settle
  <2> QED BY <1>t, <1>m, <1>o, <1>r, <1>d, <1>k, <2>1 DEF WithholdingTypeOK, Quietens, Decides
<1>2. AskingIsOwned'
  BY <1>t, <1>m, <1>r DEF AskingIsOwned, Quietens
<1>3. FiledIsQuiet'
  <2> SUFFICES ASSUME NEW q \in (closing \cup filed) \ crossed'
               PROVE  modelo216'[q] # "unknown" /\ \A c \in Codes : review'[q][c] # "open"
    BY <1>m DEF FiledIsQuiet
  <2>1. q \in PaidQuarter /\ q \in (closing \cup filed) \ crossed
    BY <1>t, <1>d DEF WithholdingTypeOK, Decides
  <2>2. modelo216[q] # "unknown" /\ \A c \in Codes : review[q][c] # "open"
    BY <1>t, <2>1 DEF FiledIsQuiet
  <2> QED BY <1>r, <1>d, <2>1, <2>2 DEF Quietens, Decides
<1>4. NoneLate'
  BY <1>t, <1>m, <1>d, <1>k DEF NoneLate, InFlight, Decides
<1>5. ReviewExists'
  <2> SUFFICES ASSUME ~drifted, Concerned(owned, payee)
               PROVE  /\ \A p \in reviewed : Covered(PaidIn[p])'
                      /\ \A p \in Asking : Covered(PaidIn[p])' \/ payments[p].want = Code(payee)
    BY <1>m DEF ReviewExists, Concerned
  <2>1. \A p \in Payment : Covered(PaidIn[p]) => Covered(PaidIn[p])'
    <3> SUFFICES ASSUME NEW q \in PaidQuarter, Covered(q) PROVE Covered(q)'
      BY PaidInTyped
    <3>1. Code(payee)' = Code(payee)
      BY <1>m DEF Code
    <3>2. modelo216[q] # "absent" => modelo216'[q] # "absent"
      BY <1>d DEF Decides
    <3>3. review[q][Code(payee)] # "none" => review'[q][Code(payee)] # "none"
      BY <1>r, CodeTyped DEF Quietens
    <3> QED BY <3>1, <3>2, <3>3 DEF Covered
  <2>2. reviewed \subseteq Payment /\ Asking \subseteq Payment
    BY <1>t DEF WithholdingTypeOK, Asking
  <2> QED BY <1>t, <2>1, <2>2 DEF ReviewExists
<1>6. AsksWhatMatters'
  <2> SUFFICES ASSUME ~drifted, ~overtaken, NEW r \in PaidQuarter, NEW c \in Codes, review'[r][c] = "open"
               PROVE  /\ Concerned(owned, payee) /\ c = Code(payee)
                      /\ \E p \in Made : PaidIn[p] = r
    BY <1>m, <1>o DEF AsksWhatMatters
  <2> QED BY <1>t, <1>r DEF AsksWhatMatters, Quietens
<1>7. AsksForPayee'
  BY <1>t, <1>m, <1>o DEF AsksForPayee
<1> QED BY <1>1, <1>2, <1>3, <1>4, <1>5, <1>6, <1>7 DEF WithholdingIInv

\* The close: what it reads, and the UPDATE.
LEMMA CloseKeeps ==
    ASSUME WithholdingIInv, CloseStep
    PROVE  WithholdingIInv'
<1>t. /\ WithholdingTypeOK /\ AskingIsOwned /\ FiledIsQuiet /\ NoneLate
      /\ ReviewExists /\ AsksWhatMatters /\ AsksForPayee
  BY DEF WithholdingIInv
<1>m. /\ UNCHANGED <<payee, owned, payments, review, modelo216, settling, marks,
                     reviewed, drifted, overtaken>>
      /\ Made' = Made /\ Asking' = Asking
  BY DEF CloseStep, BeginClose, EndClose, Made, Asking
<1>1. WithholdingTypeOK'
  BY <1>t, <1>m DEF WithholdingTypeOK, CloseStep, BeginClose, EndClose
<1>2. AskingIsOwned'
  BY <1>t, <1>m DEF AskingIsOwned
<1>3. FiledIsQuiet' /\ NoneLate'
  <2>1. ASSUME NEW q \in PaidQuarter, BeginClose(q)
        PROVE  FiledIsQuiet' /\ NoneLate'
    BY <1>t, <1>m, <2>1 DEF BeginClose, Closable, FiledIsQuiet, NoneLate, InFlight
  <2>2. ASSUME NEW q \in PaidQuarter, EndClose(q)
        PROVE  FiledIsQuiet' /\ NoneLate'
    BY <1>t, <1>m, <2>2 DEF EndClose, FiledIsQuiet, NoneLate, InFlight
  <2> QED BY <2>1, <2>2 DEF CloseStep
<1>4. ReviewExists'
  BY <1>t, <1>m DEF ReviewExists, Covered, Concerned
<1>5. AsksWhatMatters' /\ AsksForPayee'
  BY <1>t, <1>m DEF AsksWhatMatters, AsksForPayee, Concerned
<1> QED BY <1>1, <1>2, <1>3, <1>4, <1>5 DEF WithholdingIInv

LEMMA WithholdingStep == WithholdingIInv /\ WithholdingNext => WithholdingIInv'
<1> SUFFICES ASSUME WithholdingIInv, WithholdingNext PROVE WithholdingIInv'
  OBVIOUS
<1>1. PaymentStep \/ PayeeStep \/ MarkStep \/ CloseStep
  BY DEF WithholdingNext, PaymentStep, PayeeStep, MarkStep, CloseStep
<1> QED BY <1>1, PaymentKeeps, PayeeKeeps, MarkKeeps, CloseKeeps

LEMMA WithholdingStutter == WithholdingIInv /\ UNCHANGED withholdingVars => WithholdingIInv'
BY DEF WithholdingIInv, withholdingVars, WithholdingTypeOK, AskingIsOwned, FiledIsQuiet, NoneLate,
       InFlight, ReviewExists, Covered, AsksWhatMatters, AsksForPayee, Made, Asking

-----------------------------------------------------------------------------
(* Cases before the AEAT *)

\* What a clerk has read of the case is old or still true: the row version tells
\* which, and the status he moves from is one the case has taken.
ClerkKnows ==
    \A c \in Clerk :
        clerks[c].busy =>
            /\ clerks[c].version <= case.version
            /\ clerks[c].version = case.version => clerks[c].current = case.status
            /\ \/ clerks[c].status = clerks[c].current
               \/ Follows(clerks[c].current, clerks[c].status)
            /\ \E j \in Moved : trail[j].status = clerks[c].current

CasesIInv ==
    /\ CasesInv
    /\ Len(trail) <= MaxEvents
    /\ ClerkKnows

LEMMA MovedIsFinite ==
    ASSUME CasesTypeOK
    PROVE  /\ Moved \subseteq 1..Len(trail) /\ IsFiniteSet(Moved)
           /\ Cardinality(Moved) \in Nat /\ Cardinality(Moved) <= Len(trail)
<1>1. Len(trail) \in Nat
  BY DEF CasesTypeOK
<1>2. Moved \in SUBSET (1..Len(trail))
  BY DEF Moved
<1>3. IsFiniteSet(1..Len(trail)) /\ Cardinality(1..Len(trail)) = Len(trail)
  BY <1>1, FS_Interval
<1> QED BY <1>2, <1>3, FS_Subset, FS_CardinalityType

\* An event that joins the trail leaves the others where they are.
LEMMA TrailGrows ==
    ASSUME CasesTypeOK, NEW status \in CaseStatus, NEW ref \in Reference \cup {"opening"},
           NEW moves \in BOOLEAN, trail' = Append(trail, CaseEvent(status, ref, moves))
    PROVE  LET last == Len(trail) + 1 IN
           /\ trail' \in Seq([status : CaseStatus, ref : Reference \cup {"opening"}, moved : BOOLEAN])
           /\ Len(trail') = last /\ trail'[last].status = status
           /\ \A i \in 1..Len(trail) : trail'[i] = trail[i]
           /\ Moved' = IF moves THEN Moved \cup {last} ELSE Moved
<1> DEFINE last == Len(trail) + 1
<1>1. /\ trail \in Seq([status : CaseStatus, ref : Reference \cup {"opening"}, moved : BOOLEAN])
      /\ CaseEvent(status, ref, moves)
            \in [status : CaseStatus, ref : Reference \cup {"opening"}, moved : BOOLEAN]
  BY DEF CasesTypeOK, CaseEvent
<1>2. /\ trail' \in Seq([status : CaseStatus, ref : Reference \cup {"opening"}, moved : BOOLEAN])
      /\ Len(trail') = last /\ trail'[last] = CaseEvent(status, ref, moves)
      /\ \A i \in 1..Len(trail) : trail'[i] = trail[i]
  BY <1>1
<1>3. trail'[last].status = status /\ trail'[last].moved = moves
  BY <1>2 DEF CaseEvent
<1>4. Moved' = {i \in 1..last : trail'[i].moved}
  BY <1>2 DEF Moved
<1>5. 1..last = (1..Len(trail)) \cup {last} /\ last \notin 1..Len(trail)
  BY <1>1
<1>6. Moved' = IF moves THEN Moved \cup {last} ELSE Moved
  BY <1>2, <1>3, <1>4, <1>5 DEF Moved
<1> QED BY <1>2, <1>3, <1>6

\* An event keeps the course legal: it moves the case to a status that follows
\* the one it is in, or repeats a status the case has taken.
LEMMA EventKeeps ==
    ASSUME CasesInv, Len(trail) < MaxEvents,
           NEW status \in CaseStatus, NEW ref \in Reference \cup {"opening"}, NEW moves \in BOOLEAN,
           trail' = Append(trail, CaseEvent(status, ref, moves)),
           IF moves
           THEN /\ Follows(case.status, status)
                /\ case' = [status |-> status, version |-> case.version + 1]
           ELSE case' = case /\ \E j \in Moved : trail[j].status = status
    PROVE  /\ CourseIsLegal' /\ EventsHappened' /\ Len(trail') <= MaxEvents
           /\ trail' \in Seq([status : CaseStatus, ref : Reference \cup {"opening"}, moved : BOOLEAN])
           /\ case' \in [status : CaseStatus, version : 1..MaxEvents]
<1> DEFINE last == Len(trail) + 1
<1>t. CasesTypeOK /\ CourseIsLegal /\ EventsHappened
  BY DEF CasesInv
<1>n. Len(trail) \in Nat /\ MaxEvents \in Nat
  BY <1>t, CasesAssumption DEF CasesTypeOK, CasesAssumption
<1>m. /\ Moved \subseteq 1..Len(trail) /\ IsFiniteSet(Moved)
      /\ Cardinality(Moved) \in Nat /\ Cardinality(Moved) <= Len(trail)
  BY <1>t, MovedIsFinite
<1>g. /\ trail' \in Seq([status : CaseStatus, ref : Reference \cup {"opening"}, moved : BOOLEAN])
      /\ Len(trail') = last /\ trail'[last].status = status
      /\ \A i \in 1..Len(trail) : trail'[i] = trail[i]
      /\ Moved' = IF moves THEN Moved \cup {last} ELSE Moved
  BY <1>t, TrailGrows
<1>k. \A j \in Moved : trail'[j] = trail[j] /\ j \in 1..Len(trail) /\ j < last
  BY <1>g, <1>m, <1>n
<1>1. Len(trail') <= MaxEvents
  BY <1>g, <1>n
<1>2. EventsHappened'
  <2> SUFFICES ASSUME NEW i \in 1..Len(trail')
               PROVE  \E j \in Moved' : j <= i /\ trail'[j].status = trail'[i].status
    BY DEF EventsHappened
  <2>1. CASE i \in 1..Len(trail)
    <3> PICK j \in Moved : j <= i /\ trail[j].status = trail[i].status
      BY <1>t, <2>1 DEF EventsHappened
    <3> QED BY <1>g, <1>k, <2>1
  <2>2. CASE i = last
    BY <1>g, <1>k, <1>n, <2>2
  <2>3. i \in 1..Len(trail) \/ i = last
    <3>1. Len(trail') = last
      BY <1>g
    <3>2. i \in 1..last
      BY <3>1
    <3> QED BY <1>n, <3>2
  <2> QED BY <2>1, <2>2, <2>3
<1>3. CourseIsLegal' /\ case' \in [status : CaseStatus, version : 1..MaxEvents]
  <2>1. CASE ~moves
    <3>1. case' = case /\ Moved' = Moved
      BY <1>g, <2>1
    <3> QED BY <1>t, <1>k, <3>1 DEF CourseIsLegal, CasesTypeOK
  <2>2. CASE moves
    <3>0. /\ Moved' = Moved \cup {last} /\ Follows(case.status, status)
          /\ case' = [status |-> status, version |-> case.version + 1]
      BY <1>g, <2>2
    <3>1. case.version = Cardinality(Moved) /\ case'.version = Cardinality(Moved')
      <4>1. last \notin Moved
        BY <1>k, <1>n
      <4>2. Cardinality(Moved \cup {last}) = Cardinality(Moved) + 1
        BY <1>m, <4>1, FS_AddElement
      <4> QED BY <1>t, <3>0, <4>2 DEF CourseIsLegal
    <3>2. PICK m \in Moved : (\A j \in Moved : j <= m) /\ trail[m].status = case.status
      BY <1>t DEF CourseIsLegal
    <3>3. ASSUME NEW i \in Moved', NEW j \in Moved', i < j,
                 \A k \in Moved' : ~(i < k /\ k < j)
          PROVE  Follows(trail'[i].status, trail'[j].status)
      <4>1. CASE j = last
        <5>1. i \in Moved
          BY <3>0, <3>3, <4>1, <1>n
        <5>2. i = m
          BY <3>0, <3>2, <3>3, <4>1, <5>1, <1>k
        <5> QED BY <1>g, <1>k, <3>0, <3>2, <4>1, <5>2
      <4>2. CASE j # last
        <5>1. i \in Moved /\ j \in Moved
          BY <3>0, <3>3, <4>2, <1>k, <1>n
        <5>2. Follows(trail[i].status, trail[j].status)
          BY <1>t, <3>0, <3>3, <5>1 DEF CourseIsLegal
        <5> QED BY <1>k, <5>1, <5>2
      <4> QED BY <4>1, <4>2
    <3>4. \E i \in Moved' : (\A j \in Moved' : j <= i) /\ trail'[i].status = case'.status
      <4> SUFFICES /\ last \in Moved' /\ \A j \in Moved' : j <= last
                   /\ trail'[last].status = case'.status
        OBVIOUS
      <4> QED BY <1>g, <1>k, <1>n, <3>0
    <3>5. case' \in [status : CaseStatus, version : 1..MaxEvents]
      BY <1>m, <1>n, <3>0, <3>1
    <3> QED BY <3>1, <3>3, <3>4, <3>5 DEF CourseIsLegal
  <2> QED BY <2>1, <2>2
<1> QED BY <1>g, <1>1, <1>2, <1>3

LEMMA CasesStart == CasesInit => CasesIInv
<1> SUFFICES ASSUME NEW status \in CaseStatus, case = [status |-> status, version |-> 1],
                    trail = <<CaseEvent(status, "opening", TRUE)>>, attached = {},
                    clerks = [c \in Clerk |-> AtRest]
             PROVE  CasesIInv
  BY DEF CasesInit
<1>1. Len(trail) = 1 /\ trail[1] = CaseEvent(status, "opening", TRUE) /\ MaxEvents \in Nat \ {0}
  BY CasesAssumption DEF CasesAssumption
<1>2. Moved = {1}
  BY <1>1 DEF Moved, CaseEvent
<1>3. CasesTypeOK
  BY <1>1 DEF CasesTypeOK, CaseEvent, AtRest, CaseStatus
<1>4. CourseIsLegal
  <2>1. Cardinality(Moved) = 1
    BY <1>2, FS_Singleton
  <2> QED BY <1>1, <1>2, <2>1 DEF CourseIsLegal, CaseEvent
<1>5. EventsHappened
  <2> SUFFICES ASSUME NEW i \in 1..Len(trail)
               PROVE  \E j \in Moved : j <= i /\ trail[j].status = trail[i].status
    BY DEF EventsHappened
  <2>1. i = 1
    BY <1>1
  <2> QED BY <1>2, <2>1
<1>6. ClerkKnows
  BY DEF ClerkKnows, AtRest
<1> QED BY <1>1, <1>3, <1>4, <1>5, <1>6 DEF CasesIInv, CasesInv

\* Who is reading keeps what he knows when an event joins the trail.
LEMMA ClerkStillKnows ==
    ASSUME CasesIInv, NEW c \in Clerk, clerks[c].busy,
           /\ case' = case \/ case'.version = case.version + 1
           /\ \A j \in Moved : j \in Moved' /\ trail'[j] = trail[j]
    PROVE  /\ clerks[c].version <= case'.version
           /\ clerks[c].version = case'.version => clerks[c].current = case'.status
           /\ \/ clerks[c].status = clerks[c].current
              \/ Follows(clerks[c].current, clerks[c].status)
           /\ \E j \in Moved' : trail'[j].status = clerks[c].current
<1>1. clerks[c].version \in Nat /\ case.version \in Nat
  BY CasesAssumption DEF CasesIInv, CasesInv, CasesTypeOK, CasesAssumption
<1>2. /\ clerks[c].version <= case.version
      /\ clerks[c].version = case.version => clerks[c].current = case.status
      /\ \/ clerks[c].status = clerks[c].current
         \/ Follows(clerks[c].current, clerks[c].status)
      /\ \E j \in Moved : trail[j].status = clerks[c].current
  BY DEF CasesIInv, ClerkKnows
<1> QED BY <1>1, <1>2

LEMMA CasesStep == CasesIInv /\ CasesNext => CasesIInv'
<1> SUFFICES ASSUME CasesIInv, CasesNext
             PROVE  CasesIInv'
  OBVIOUS
<1>t. CasesInv /\ CasesTypeOK /\ CourseIsLegal /\ EventsHappened /\ ClerkKnows /\ Len(trail) <= MaxEvents
  BY DEF CasesIInv, CasesInv
<1>m. /\ Moved \subseteq 1..Len(trail) /\ Len(trail) \in Nat
  BY <1>t DEF CasesTypeOK, Moved
<1>s. \E j \in Moved : trail[j].status = case.status
  BY <1>t DEF CourseIsLegal
<1>1. ASSUME UNCHANGED <<case, trail, attached>>,
             NEW c \in Clerk,
             \/ clerks' = [clerks EXCEPT ![c] = AtRest]
             \/ \E status \in CaseStatus, ref \in Reference, version \in 1..case.version :
                   ReadCase(c, status, ref, version)
      PROVE  CasesIInv'
  <2>0. /\ Moved' = Moved
        /\ \A o \in Clerk : o # c => clerks'[o] = clerks[o]
    BY <1>1, <1>t DEF Moved, CasesTypeOK, ReadCase
  <2>1. clerks' \in [Clerk -> [busy : BOOLEAN, status : CaseStatus, ref : Reference \cup {"opening"},
                               current : CaseStatus, version : Nat]]
    <3>0. clerks \in [Clerk -> [busy : BOOLEAN, status : CaseStatus, ref : Reference \cup {"opening"},
                                current : CaseStatus, version : Nat]] /\ case.status \in CaseStatus
      BY <1>t DEF CasesTypeOK
    <3>1. CASE clerks' = [clerks EXCEPT ![c] = AtRest]
      BY <3>0, <3>1 DEF AtRest, CaseStatus
    <3>2. ASSUME NEW status \in CaseStatus, NEW ref \in Reference, NEW version \in 1..case.version,
                 ReadCase(c, status, ref, version)
          PROVE  clerks' \in [Clerk -> [busy : BOOLEAN, status : CaseStatus,
                                       ref : Reference \cup {"opening"},
                                       current : CaseStatus, version : Nat]]
      <4>1. version \in Nat
        BY <1>t, CasesAssumption DEF CasesTypeOK, CasesAssumption
      <4> QED BY <3>0, <3>2, <4>1 DEF ReadCase
    <3> QED BY <1>1, <3>1, <3>2
  <2>2. clerks'[c].busy =>
            /\ clerks'[c].version <= case.version
            /\ clerks'[c].version = case.version => clerks'[c].current = case.status
            /\ clerks'[c].status = clerks'[c].current \/ Follows(clerks'[c].current, clerks'[c].status)
            /\ \E j \in Moved : trail[j].status = clerks'[c].current
    BY <1>1, <1>t, <1>s DEF CasesTypeOK, AtRest, ReadCase, CaseAllows
  <2>3. ClerkKnows'
    BY <1>1, <1>t, <2>0, <2>2 DEF ClerkKnows
  <2> QED BY <1>1, <1>t, <2>0, <2>1, <2>3
          DEF CasesIInv, CasesInv, CasesTypeOK, CourseIsLegal, EventsHappened
<1>2. ASSUME NEW scan \in Scan, NEW status \in CaseStatus, NEW ref \in Reference, NEW version,
             Attach(scan, status, ref, version)
      PROVE  CasesIInv'
  <2> DEFINE moves == status # case.status
  <2>1. /\ moves \in BOOLEAN /\ Len(trail) < MaxEvents
        /\ trail' = Append(trail, CaseEvent(status, ref, moves))
        /\ IF moves
           THEN /\ Follows(case.status, status)
                /\ case' = [status |-> status, version |-> case.version + 1]
           ELSE case' = case /\ \E j \in Moved : trail[j].status = status
    BY <1>2, <1>s DEF Attach, CaseAllows
  <2>2. /\ CourseIsLegal' /\ EventsHappened' /\ Len(trail') <= MaxEvents
        /\ trail' \in Seq([status : CaseStatus, ref : Reference \cup {"opening"}, moved : BOOLEAN])
        /\ case' \in [status : CaseStatus, version : 1..MaxEvents]
    BY <2>1, <1>t, EventKeeps
  <2>3. \A j \in Moved : j \in Moved' /\ trail'[j] = trail[j]
    BY <2>1, <1>t, <1>m, TrailGrows
  <2>4. clerks' = clerks /\ attached' \subseteq Scan
    BY <1>2, <1>t DEF Attach, CasesTypeOK
  <2>5. ClerkKnows'
    <3>1. case' = case \/ case'.version = case.version + 1
      BY <2>1
    <3> SUFFICES ASSUME NEW o \in Clerk, clerks[o].busy
                 PROVE  /\ clerks[o].version <= case'.version
                        /\ clerks[o].version = case'.version => clerks[o].current = case'.status
                        /\ \/ clerks[o].status = clerks[o].current
                           \/ Follows(clerks[o].current, clerks[o].status)
                        /\ \E j \in Moved' : trail'[j].status = clerks[o].current
      BY <2>4 DEF ClerkKnows
    <3> QED BY <2>3, <3>1, ClerkStillKnows
  <2> QED BY <1>t, <2>2, <2>4, <2>5 DEF CasesIInv, CasesInv, CasesTypeOK
<1>3. ASSUME NEW c \in Clerk, WriteCase(c), ~UNCHANGED <<case, trail>>
      PROVE  CasesIInv'
  <2> DEFINE h == clerks[c]
             moves == Moves(h)
  <2>0. /\ h.busy /\ ~Refused(h) /\ Len(trail) < MaxEvents
        /\ clerks' = [clerks EXCEPT ![c] = AtRest] /\ attached' = attached
        /\ case' = IF moves THEN [status |-> h.status, version |-> case.version + 1] ELSE case
        /\ trail' = Append(trail, CaseEvent(h.status, h.ref, moves))
    BY <1>3 DEF WriteCase
  <2>h. h.status \in CaseStatus /\ h.ref \in Reference \cup {"opening"}
    BY <1>t DEF CasesTypeOK
  <2>k. /\ h.version = case.version => h.current = case.status
        /\ h.status = h.current \/ Follows(h.current, h.status)
        /\ \E j \in Moved : trail[j].status = h.current
    BY <1>t, <2>0 DEF ClerkKnows
  <2>1. /\ moves \in BOOLEAN
        /\ IF moves
           THEN /\ Follows(case.status, h.status)
                /\ case' = [status |-> h.status, version |-> case.version + 1]
           ELSE case' = case /\ \E j \in Moved : trail[j].status = h.status
    BY <2>0, <2>k DEF Moves, Unmoved, Refused, Outdated
  <2>2. /\ CourseIsLegal' /\ EventsHappened' /\ Len(trail') <= MaxEvents
        /\ trail' \in Seq([status : CaseStatus, ref : Reference \cup {"opening"}, moved : BOOLEAN])
        /\ case' \in [status : CaseStatus, version : 1..MaxEvents]
    BY <2>0, <2>h, <2>1, <1>t, EventKeeps
  <2>3. \A j \in Moved : j \in Moved' /\ trail'[j] = trail[j]
    BY <2>0, <2>h, <2>1, <1>t, <1>m, TrailGrows
  <2>4. /\ clerks' \in [Clerk -> [busy : BOOLEAN, status : CaseStatus, ref : Reference \cup {"opening"},
                                  current : CaseStatus, version : Nat]]
        /\ ~clerks'[c].busy /\ \A o \in Clerk : o # c => clerks'[o] = clerks[o]
    BY <2>0, <1>t DEF CasesTypeOK, AtRest, CaseStatus
  <2>5. ClerkKnows'
    <3> SUFFICES ASSUME NEW o \in Clerk, clerks'[o].busy
                 PROVE  /\ clerks[o].version <= case'.version
                        /\ clerks[o].version = case'.version => clerks[o].current = case'.status
                        /\ \/ clerks[o].status = clerks[o].current
                           \/ Follows(clerks[o].current, clerks[o].status)
                        /\ \E j \in Moved' : trail'[j].status = clerks[o].current
      BY <2>4 DEF ClerkKnows
    <3>1. clerks[o].busy
      BY <2>4
    <3>2. case' = case \/ case'.version = case.version + 1
      BY <2>1
    <3> QED BY <2>3, <3>1, <3>2, ClerkStillKnows
  <2> QED BY <1>t, <2>0, <2>2, <2>4, <2>5 DEF CasesIInv, CasesInv, CasesTypeOK
<1> QED
  <2>1. ASSUME NEW c \in Clerk, WriteCase(c)
        PROVE  CasesIInv'
    BY <1>1, <1>3, <2>1 DEF WriteCase
  <2>2. ASSUME NEW c \in Clerk, GiveUp(c)
        PROVE  CasesIInv'
    BY <1>1, <2>2 DEF GiveUp
  <2>3. ASSUME NEW c \in Clerk, NEW status \in CaseStatus, NEW ref \in Reference,
               NEW version \in 1..case.version, ReadCase(c, status, ref, version)
        PROVE  CasesIInv'
    <3>1. UNCHANGED <<case, trail, attached>>
      BY <2>3 DEF ReadCase
    <3> QED BY <1>1, <2>3, <3>1
  <2> QED BY <1>2, <2>1, <2>2, <2>3 DEF CasesNext

LEMMA CasesStutter == CasesIInv /\ UNCHANGED caseVars => CasesIInv'
BY DEF CasesIInv, caseVars, CasesInv, CasesTypeOK, CourseIsLegal, EventsHappened, ClerkKnows, Moved

-----------------------------------------------------------------------------
(* Which rows count *)

\* At most one adjustment of a source is active, as its unique index demands.
OneActive ==
    \A a, b \in Adjustment :
        Active(a) /\ Active(b) /\ adjustment[a].source = adjustment[b].source => a = b

RowsIInv == RowsTypeOK /\ OneActive

\* What is outside the journal is no line of it; what is outside has one adjustment.
LEMMA OneActiveCountsOnce == RowsIInv => RowsInv
<1> HAVE RowsIInv
<1>1. RowsTypeOK /\ OneActive
  BY DEF RowsIInv
<1> SUFFICES ASSUME ~AnnualBlocked, NEW line \in AnnualLines, NEW other \in AnnualLines,
                    line[1] = other[1]
             PROVE  line = other
  BY <1>1 DEF RowsInv, AnnualCountsOnce
<1>2. ASSUME NEW l \in AnnualLines
      PROVE  \/ \E t \in Row : Counted(t) /\ l = <<t, Amount(t)>>
             \/ \E a \in Adjustment : /\ Active(a) /\ Outside(adjustment[a].source)
                                      /\ l = <<adjustment[a].source, <<"adjusted", a>>>>
  BY <1>2 DEF AnnualLines, AnnualBlocked, AdjustmentBlocked
<1>3. ASSUME NEW t, Counted(t), Outside(t)
      PROVE  FALSE
  BY <1>3 DEF Counted, Outside
<1>4. CASE \E t \in Row : Counted(t) /\ line = <<t, Amount(t)>>
  <2> PICK t \in Row : Counted(t) /\ line = <<t, Amount(t)>>
    BY <1>4
  <2>1. CASE \E r \in Row : Counted(r) /\ other = <<r, Amount(r)>>
    BY <2>1
  <2>2. CASE \E a \in Adjustment : /\ Active(a) /\ Outside(adjustment[a].source)
                                   /\ other = <<adjustment[a].source, <<"adjusted", a>>>>
    BY <1>3, <2>2
  <2> QED BY <1>2, <2>1, <2>2
<1>5. CASE \E a \in Adjustment : /\ Active(a) /\ Outside(adjustment[a].source)
                                 /\ line = <<adjustment[a].source, <<"adjusted", a>>>>
  <2> PICK a \in Adjustment : /\ Active(a) /\ Outside(adjustment[a].source)
                              /\ line = <<adjustment[a].source, <<"adjusted", a>>>>
    BY <1>5
  <2>1. CASE \E r \in Row : Counted(r) /\ other = <<r, Amount(r)>>
    BY <1>3, <2>1
  <2>2. CASE \E b \in Adjustment : /\ Active(b) /\ Outside(adjustment[b].source)
                                   /\ other = <<adjustment[b].source, <<"adjusted", b>>>>
    BY <1>1, <2>2 DEF OneActive
  <2> QED BY <1>2, <2>1, <2>2
<1> QED BY <1>2, <1>4, <1>5

LEMMA RowsStart == RowsInit => RowsIInv
BY TaxRowsAssumption
   DEF TaxRowsAssumption, RowsInit, RowsIInv, RowsTypeOK, OneActive, Active, NoAdjustment, NoDecision,
       JournalRow, Quarter, Annual

\* The journal underneath: rows keep their shape, and nothing else changes.
JournalStep ==
    \E t \in Row :
        \/ Post(t) \/ Void(t) \/ Reclassify(t)
        \/ \E f \in 0 .. MaxFacts : Revalue(t, f)

\* Who can change what is counted: a row of the journal changes alone, and only
\* while the period it is booked in is open.
LEMMA JournalChanges ==
    ASSUME RowsTypeOK, JournalStep
    PROVE  /\ UNCHANGED <<party, decision, adjustment, blocking, period>>
           /\ row' \in [Row -> JournalRow]
           /\ \A t \in Row : row'[t] # row[t] => Mutable(t)
<1> PICK t \in Row : \/ Post(t) \/ Void(t) \/ Reclassify(t)
                     \/ \E f \in 0 .. MaxFacts : Revalue(t, f)
  BY DEF JournalStep
<1>1. row \in [Row -> JournalRow]
  BY DEF RowsTypeOK
<1>2. Mutable(t) /\ \E r \in JournalRow : SetRow(t, r)
  BY <1>1 DEF Post, Void, Reclassify, Revalue, JournalRow
<1> QED BY <1>1, <1>2 DEF SetRow

\* The decisions a row may carry.
Decided ==
    [revision : 1 .. MaxRevision, quarter : 0 .. Quarters,
     seen : (0 .. MaxFacts) \X {0, 1} \X BOOLEAN, corrects : BOOLEAN]

LEMMA RevisionTyped ==
    ASSUME RowsTypeOK, NEW t \in Row
    PROVE  decision[t].revision \in 0 .. MaxRevision
<1>1. decision[t] = NoDecision \/ decision[t] \in Decided
  BY DEF RowsTypeOK, Decided
<1>2. CASE decision[t] = NoDecision
  BY <1>2, TaxRowsAssumption DEF TaxRowsAssumption, NoDecision
<1>3. CASE decision[t] \in Decided
  BY <1>3 DEF Decided
<1> QED BY <1>1, <1>2, <1>3

LEMMA RowsStep == RowsIInv /\ RowsNext => RowsIInv'
<1> SUFFICES ASSUME RowsIInv, RowsNext
             PROVE  RowsIInv'
  OBVIOUS
<1>t. RowsTypeOK /\ OneActive
  BY DEF RowsIInv
<1>1. CASE JournalStep
  BY <1>t, <1>1, JournalChanges DEF RowsIInv, RowsTypeOK, OneActive, Active
<1>2. ASSUME NEW t \in Row, NEW q \in 0 .. Quarters, NEW corrects \in BOOLEAN,
             ApplyAttribution(t, q, corrects)
      PROVE  RowsIInv'
  <2>1. UNCHANGED <<row, party, adjustment, blocking, period>>
    BY <1>2 DEF ApplyAttribution
  <2>2. Source(t) \in (0 .. MaxFacts) \X {0, 1} \X BOOLEAN
    BY <1>t DEF RowsTypeOK, Source, JournalRow
  <2>3. decision[t].revision \in 0 .. MaxRevision
    BY <1>t, RevisionTyped
  <2>4. decision' \in [Row -> {NoDecision} \cup Decided]
    <3>1. [revision |-> decision[t].revision + 1, quarter |-> q, seen |-> Source(t),
           corrects |-> corrects] \in Decided
      BY <1>2, <2>2, <2>3, TaxRowsAssumption DEF TaxRowsAssumption, ApplyAttribution, Decided
    <3>2. decision \in [Row -> {NoDecision} \cup Decided]
      BY <1>t DEF RowsTypeOK, Decided
    <3> QED BY <1>2, <3>1, <3>2 DEF ApplyAttribution
  <2> QED BY <1>t, <2>1, <2>4 DEF Decided, RowsIInv, RowsTypeOK, OneActive, Active
<1>3. ASSUME NEW t \in Row, ToggleIssue(t)
      PROVE  RowsIInv'
  BY <1>t, <1>3 DEF ToggleIssue, RowsIInv, RowsTypeOK, OneActive, Active
<1>4. CASE ChangeParty
  BY <1>t, <1>4 DEF ChangeParty, RowsIInv, RowsTypeOK, OneActive, Active
<1>5. ASSUME NEW a \in Adjustment, NEW t \in Row, NEW grade \in {"verified", "provisional"},
             RecordAdjustment(a, t, grade)
      PROVE  RowsIInv'
  BY <1>t, <1>5 DEF RecordAdjustment, Recorded, RowsIInv, RowsTypeOK, OneActive, Active, JournalRow
<1>6. ASSUME NEW a \in Adjustment, VoidAdjustment(a)
      PROVE  RowsIInv'
  BY <1>t, <1>6 DEF VoidAdjustment, RowsIInv, RowsTypeOK, OneActive, Active, Withdrawn
<1>7. ASSUME NEW p \in 0 .. Quarters, FilePeriod(p) \/ ClosePeriod(p)
      PROVE  RowsIInv'
  BY <1>t, <1>7 DEF FilePeriod, ClosePeriod, RowsIInv, RowsTypeOK, OneActive, Active
<1> QED BY <1>1, <1>2, <1>3, <1>4, <1>5, <1>6, <1>7 DEF RowsNext, RowStep, JournalStep

LEMMA RowsStutter == RowsIInv /\ UNCHANGED rowsVars => RowsIInv'
BY DEF RowsIInv, rowsVars, RowsTypeOK, OneActive, Active

\* A row and its decision are all a line of the figures is made of.
LEMMA LineOfItsRow ==
    ASSUME NEW t \in Row, row'[t] = row[t], decision'[t] = decision[t]
    PROVE  /\ Counted(t)' = Counted(t) /\ Effective(t)' = Effective(t) /\ Amount(t)' = Amount(t)
BY DEF Counted, Effective, Amount, Attributed

\* What a step may do to a row and to its decision.
LEMMA WhatRowsChange ==
    ASSUME RowsTypeOK, RowsNext
    PROVE  \/ /\ \A t \in Row : row'[t] # row[t] => Mutable(t)
              /\ UNCHANGED <<decision, adjustment, period>>
           \/ /\ row' = row /\ adjustment' = adjustment
              /\ \E t \in Row, q \in 0 .. Quarters, corrects \in BOOLEAN :
                    /\ ApplyAttribution(t, q, corrects)
                    /\ decision'[t] # decision[t] /\ decision'[t].corrects = corrects
                    /\ \A r \in Row : r # t => decision'[r] = decision[r]
           \/ UNCHANGED <<row, decision>> /\ (adjustment' = adjustment \/ period[Annual] # "closed")
<1>1. CASE JournalStep
  BY <1>1, JournalChanges
<1>2. ASSUME NEW t \in Row, NEW q \in 0 .. Quarters, NEW corrects \in BOOLEAN,
             ApplyAttribution(t, q, corrects)
      PROVE  /\ row' = row /\ adjustment' = adjustment
             /\ decision'[t] # decision[t] /\ decision'[t].corrects = corrects
             /\ \A r \in Row : r # t => decision'[r] = decision[r]
  <2>1. decision[t].revision \in Nat
    BY RevisionTyped, TaxRowsAssumption DEF TaxRowsAssumption
  <2>2. decision'[t].revision = decision[t].revision + 1
    BY <1>2 DEF ApplyAttribution, RowsTypeOK
  <2> QED BY <1>2, <2>1, <2>2 DEF ApplyAttribution, RowsTypeOK
<1>3. CASE \/ ChangeParty \/ \E t \in Row : ToggleIssue(t)
           \/ \E p \in 0 .. Quarters : FilePeriod(p) \/ ClosePeriod(p)
  BY <1>3 DEF ChangeParty, ToggleIssue, FilePeriod, ClosePeriod
<1>4. CASE \E a \in Adjustment :
             \/ \E t \in Row, grade \in {"verified", "provisional"} : RecordAdjustment(a, t, grade)
             \/ VoidAdjustment(a)
  BY <1>4 DEF RecordAdjustment, VoidAdjustment
<1> QED BY <1>1, <1>2, <1>3, <1>4 DEF RowsNext, RowStep, JournalStep

\* The quarters a decision touches hold the one its row counts in, before and after.
LEMMA TouchesItsQuarters ==
    ASSUME RowsTypeOK, NEW t \in Row, NEW q \in 0 .. Quarters, NEW corrects \in BOOLEAN,
           ApplyAttribution(t, q, corrects)
    PROVE  Effective(t) \in Touched(t, q) /\ Effective(t)' \in Touched(t, q)
<1>1. row' = row /\ decision'[t].quarter = q
  BY DEF ApplyAttribution, RowsTypeOK
<1> QED BY <1>1 DEF Effective, Attributed, Touched, Affected

LEMMA SettledFigures == RowsTypeOK /\ RowsNext => SettledQuarterStays
<1> SUFFICES ASSUME RowsTypeOK, RowsNext, NEW q \in Quarter, Settled(q),
                    NEW line \in (Recognized(q) \cup Recognized(q)')
                                   \ (Recognized(q) \cap Recognized(q)')
             PROVE  \/ Acknowledged(line[1])
                    \/ row'[line[1]] # row[line[1]] /\ Mutable(line[1])
  BY DEF SettledQuarterStays
<1>1. PICK t \in Row : /\ line[1] = t
                       /\ \/ Counted(t) /\ Effective(t) = q /\ line = <<t, Amount(t)>>
                          \/ Counted(t)' /\ Effective(t)' = q /\ line = <<t, Amount(t)'>>
  BY DEF Recognized
<1>2. row'[t] # row[t] \/ decision'[t] # decision[t]
  <2> SUFFICES ASSUME row'[t] = row[t], decision'[t] = decision[t]
               PROVE  FALSE
    OBVIOUS
  <2>1. Counted(t)' = Counted(t) /\ Effective(t)' = Effective(t) /\ Amount(t)' = Amount(t)
    BY LineOfItsRow
  <2>2. line \in Recognized(q) /\ line \in Recognized(q)'
    BY <1>1, <2>1 DEF Recognized
  <2> QED BY <2>2
<1>3. CASE /\ \A r \in Row : row'[r] # row[r] => Mutable(r)
           /\ decision' = decision
  BY <1>1, <1>2, <1>3
<1>4. ASSUME row' = row, NEW r \in Row, NEW p \in 0 .. Quarters, NEW corrects \in BOOLEAN,
             ApplyAttribution(r, p, corrects),
             decision'[r] # decision[r], decision'[r].corrects = corrects,
             \A o \in Row : o # r => decision'[o] = decision[o]
      PROVE  Acknowledged(line[1])
  <2>1. r = t
    BY <1>2, <1>4
  <2>2. q \in Touched(t, p)
    BY <1>1, <1>4, <2>1, TouchesItsQuarters
  <2>3. corrects
    BY <1>4, <2>1, <2>2 DEF ApplyAttribution
  <2> QED BY <1>1, <1>4, <2>1, <2>3 DEF Acknowledged
<1> QED BY <1>2, <1>3, <1>4, WhatRowsChange

LEMMA ClosedYearFigures == RowsTypeOK /\ RowsNext => ClosedYearStays
<1> SUFFICES ASSUME RowsTypeOK, RowsNext, \A p \in 0 .. Quarters : period[p] = "closed"
             PROVE  AnnualLines' = AnnualLines \/ \E t \in Row : Acknowledged(t)
  BY DEF ClosedYearStays
<1>1. \A t \in Row : ~Mutable(t)
  BY DEF RowsTypeOK, JournalRow, Mutable
<1>2. period[Annual] = "closed"
  BY TaxRowsAssumption DEF TaxRowsAssumption, Annual
<1>3. ASSUME \A t \in Row : row'[t] = row[t] /\ decision'[t] = decision[t], adjustment' = adjustment
      PROVE  AnnualLines' = AnnualLines
  <2>1. \A t \in Row : Counted(t)' = Counted(t) /\ Amount(t)' = Amount(t)
    BY <1>3, LineOfItsRow
  <2>2. {<<t, Amount(t)>> : t \in {r \in Row : Counted(r)}}'
          = {<<t, Amount(t)>> : t \in {r \in Row : Counted(r)}}
    BY <2>1
  <2>3. {<<adjustment[a].source, <<"adjusted", a>>>> : a \in {b \in Adjustment : Active(b)}}'
          = {<<adjustment[a].source, <<"adjusted", a>>>> : a \in {b \in Adjustment : Active(b)}}
    BY <1>3 DEF Active
  <2> QED BY <2>2, <2>3 DEF AnnualLines
<1>4. ASSUME NEW t \in Row, NEW q \in 0 .. Quarters, NEW corrects \in BOOLEAN,
             ApplyAttribution(t, q, corrects), decision'[t] # decision[t],
             decision'[t].corrects = corrects
      PROVE  Acknowledged(t)
  <2>1. Settled(Annual) /\ row[t].quarter \in Touched(t, q)
    BY <1>2 DEF Settled, Touched, Affected
  <2> QED BY <1>4, <2>1 DEF ApplyAttribution, Acknowledged
<1> QED BY <1>1, <1>2, <1>3, <1>4, WhatRowsChange

-----------------------------------------------------------------------------
(* Equipment *)

\* Before its purchase an asset has no rows.
AbsentIsEmpty ==
    asset.status = "absent" => \A q \in AssetQuarter : entries[q] = NoEntry

AssetsIInv == AssetsInv /\ AbsentIsEmpty

Shares == Ratios \cup {<<1, 1>>}
PlanOf == [method : {"none", "immediate", "linear"}, ratio : Shares,
           asOf : 0..AssetQuarters, prior : Nat, current : Nat]

\* A basis is rounded to whole units, and so is what the books should have charged.
LEMMA BasisTyped ==
    ASSUME NEW ratio \in Shares
    PROVE  BusinessBasis(ratio) \in Nat
<1>1. ratio[1] \in Nat /\ ratio[2] \in Nat /\ ratio[2] > 0 /\ Basis \in Nat
  BY AssetsAssumption DEF AssetsAssumption, Shares
<1>2. Basis * ratio[1] \in Nat
  BY <1>1
<1>3. ASSUME NEW n \in Nat, NEW d \in Nat, d > 0
      PROVE  n \div d \in Nat
  BY <1>3
<1>4. 2 * (Basis * ratio[1]) + ratio[2] \in Nat /\ 2 * ratio[2] \in Nat /\ 2 * ratio[2] > 0
  BY <1>1, <1>2
<1> QED BY <1>3, <1>4 DEF BusinessBasis, HalfUp

LEMMA TargetTyped ==
    ASSUME NEW p \in PlanOf, NEW q \in 0..AssetQuarters
    PROVE  Target(p, q) \in Int
<1>1. Opening(p) \in Int /\ p.asOf \in 0..AssetQuarters /\ p.ratio \in Shares
  BY DEF PlanOf, Opening
<1>2. Life \in Nat \ {0} /\ Elapsed[q] \in Int /\ Elapsed[p.asOf] \in Int
  BY <1>1, AssetsAssumption DEF AssetsAssumption
<1>3. BusinessBasis(p.ratio) \in Int
  BY <1>1, BasisTyped
<1> DEFINE n == Opening(p) * Life + BusinessBasis(p.ratio) * (Elapsed[q] - Elapsed[p.asOf])
<1>4. n \in Int
  BY <1>1, <1>2, <1>3
<1>5. HalfUp(n, Life) \in Int
  BY <1>2, <1>4 DEF HalfUp
<1> QED BY <1>1, <1>3, <1>5 DEF Target, Smaller

\* A planned row is dated in its quarter and is not in the books; where nothing
\* is planned there is no row.
LEMMA ScheduleRows ==
    ASSUME NEW p \in PlanOf, NEW q \in AssetQuarter
    PROVE  LET e == Schedule(p)[q] IN
           /\ e \in Entry /\ e.tx = "none" /\ ~e.books
           /\ Exists(e) => QuarterOf(e.on) = q /\ e.on <= 2 * q
           /\ ~Exists(e) => e = NoEntry
<1> DEFINE e == Schedule(p)[q]
<1>q. q \in Nat /\ q > 0 /\ q <= AssetQuarters /\ AssetQuarters \in Nat
      /\ q \in 0..AssetQuarters /\ q - 1 \in 0..AssetQuarters
  BY AssetsAssumption DEF AssetsAssumption, AssetQuarter
<1>1. CASE e = NoEntry
  BY <1>1, <1>q DEF NoEntry, Entry, Exists, Day
<1>2. CASE q = 1 /\ e = [NoEntry EXCEPT !.amount = BusinessBasis(p.ratio), !.on = 1]
  <2>1. BusinessBasis(p.ratio) \in Nat
    BY BasisTyped DEF PlanOf
  <2>2. e = [amount |-> BusinessBasis(p.ratio), on |-> 1, tx |-> "none", books |-> FALSE]
    BY <1>2 DEF NoEntry
  <2>3. 1 \in Day /\ QuarterOf(1) = 1
    BY <1>q DEF Day, QuarterOf
  <2>4. e \in Entry /\ e.tx = "none" /\ ~e.books /\ e.on = 1
    BY <2>1, <2>2, <2>3 DEF Entry
  <2> QED BY <1>2, <2>3, <2>4 DEF Exists
<1>3. CASE /\ Target(p, q) > Target(p, q - 1)
           /\ e = [NoEntry EXCEPT !.amount = Target(p, q) - Target(p, q - 1), !.on = 2 * q]
  <2>1. Target(p, q) - Target(p, q - 1) \in Nat
    BY <1>q, <1>3, TargetTyped
  <2>2. e = [amount |-> Target(p, q) - Target(p, q - 1), on |-> 2 * q, tx |-> "none", books |-> FALSE]
    BY <1>3 DEF NoEntry
  <2>3. 2 * q \in Day /\ 2 * q # 0 /\ QuarterOf(2 * q) = q
    BY <1>q DEF Day, QuarterOf
  <2> QED BY <1>q, <2>1, <2>2, <2>3 DEF Entry, Exists
<1> QED BY <1>1, <1>2, <1>3 DEF Schedule, AssetQuarter

LEMMA AssetsStart == AssetsInit => AssetsIInv
<1> SUFFICES ASSUME AssetsInit
             PROVE  AssetsIInv
  OBVIOUS
<1>n. AssetQuarters \in Nat \ {0, 1}
  BY AssetsAssumption DEF AssetsAssumption
<1>0. plan = NoPlan /\ shut = {} /\ disposal = NotDisposed
  BY DEF AssetsInit
<1>1. /\ plan \in PlanOf /\ disposal \in Day \X Day /\ 0 \in Day /\ 1 \in Day /\ 4 \in Day
      /\ NoEntry \in Entry /\ ~Exists(NoEntry) /\ NoEntry.tx = "none" /\ NoEntry.books = FALSE
  BY <1>0, <1>n DEF PlanOf, Shares, NoPlan, NotDisposed, Day, NoEntry, Entry, Exists
<1>2. CASE /\ today = 1
           /\ asset = [status |-> "absent", ratio |-> <<1, 1>>]
           /\ entries = [q \in AssetQuarter |-> NoEntry]
  BY <1>0, <1>1, <1>2 DEF AssetsIInv, AssetsInv, AssetsTypeOK, NothingAfterLastUse, AbsentIsEmpty, PlanOf,
                          Shares
<1>3. ASSUME NEW r \in Ratios, NEW old \in SUBSET {1, 2}, today = 4,
             asset = [status |-> "posted", ratio |-> r],
             entries = [q \in AssetQuarter |->
                IF q \in old THEN [amount |-> 1, on |-> 2 * q, tx |-> "posted", books |-> TRUE]
                ELSE NoEntry]
      PROVE  AssetsIInv
  <2>1. \A q \in AssetQuarter : q \in Nat /\ q > 0 /\ 2 * q \in Day /\ QuarterOf(2 * q) = q
    BY <1>n DEF AssetQuarter, Day, QuarterOf
  <2>2. \A q \in AssetQuarter : /\ entries[q] \in Entry
                                /\ entries[q].books <=> entries[q].tx # "none"
                                /\ Exists(entries[q]) => QuarterOf(entries[q].on) = q
    BY <1>1, <1>3, <2>1 DEF Entry
  <2>3. entries \in [AssetQuarter -> Entry]
    BY <1>3, <2>2
  <2> QED BY <1>0, <1>1, <1>3, <2>2, <2>3
          DEF AssetsIInv, AssetsInv, AssetsTypeOK, NothingAfterLastUse, AbsentIsEmpty, PlanOf, Shares
<1> QED BY <1>2, <1>3 DEF AssetsInit

\* What a step does to the rows: it books, voids or plans one where its quarter
\* is open, and books none after the last use.
RowsMoved ==
    /\ entries' \in [AssetQuarter -> Entry]
    /\ \A q \in AssetQuarter :
          LET old == entries[q]
              new == entries'[q]
          IN  /\ new # old => TakesRows(q) /\ asset'.status # "absent"
              /\ new.books <=> new.tx # "none"
              /\ Exists(new) => QuarterOf(new.on) = q
              /\ Depreciated(new) =>
                    \/ StillUsed(new)
                    \/ Depreciated(old) /\ new.on = old.on

LEMMA FirstPlan ==
    ASSUME NEW method \in {"immediate", "linear"}, NEW r \in Shares
    PROVE  [NoPlan EXCEPT !.method = method, !.ratio = r] \in PlanOf
<1>1. NoPlan \in PlanOf
  BY AssetsAssumption DEF AssetsAssumption, PlanOf, NoPlan, Shares
<1> QED BY <1>1 DEF PlanOf

LEMMA AcquireMoves ==
    ASSUME AssetsIInv, NEW method \in {"immediate", "linear"}, NEW r \in Ratios, Acquire(method, r)
    PROVE  plan' \in PlanOf /\ asset' = [status |-> "posted", ratio |-> r] /\ RowsMoved
<1> DEFINE p == [NoPlan EXCEPT !.method = method, !.ratio = r]
           rows == Schedule(p)
           owing == {q \in AssetQuarter : Exists(rows[q]) /\ rows[q].on <= today}
<1>1. p \in PlanOf
  BY FirstPlan DEF Shares
<1>2. /\ asset.status = "absent" /\ RowsAllowed(p)
      /\ asset' = [status |-> "posted", ratio |-> r] /\ plan' = p
      /\ entries' = [q \in AssetQuarter |->
                IF q \in owing THEN [rows[q] EXCEPT !.tx = "posted", !.books = TRUE] ELSE rows[q]]
  BY DEF Acquire
<1>3. ASSUME NEW q \in AssetQuarter
      PROVE  /\ entries'[q] \in Entry
             /\ entries'[q] # entries[q] => TakesRows(q)
             /\ entries'[q].books <=> entries'[q].tx # "none"
             /\ Exists(entries'[q]) => QuarterOf(entries'[q].on) = q
             /\ Depreciated(entries'[q]) => StillUsed(entries'[q])
  <2>1. /\ rows[q] \in Entry /\ rows[q].tx = "none" /\ ~rows[q].books
        /\ Exists(rows[q]) => QuarterOf(rows[q].on) = q /\ rows[q].on <= 2 * q
        /\ ~Exists(rows[q]) => rows[q] = NoEntry
    BY <1>1, ScheduleRows
  <2>2. entries[q] = NoEntry
    BY <1>2 DEF AssetsIInv, AbsentIsEmpty
  <2>3. Exists(rows[q]) => RowAllowed(q)
    BY <1>2 DEF RowsAllowed
  <2>4. CASE q \in owing
    <3>1. entries'[q] = [rows[q] EXCEPT !.tx = "posted", !.books = TRUE]
      BY <1>2, <2>4
    <3>2. /\ entries'[q].on = rows[q].on /\ entries'[q].tx = "posted" /\ entries'[q].books = TRUE
          /\ entries'[q] \in Entry
      BY <2>1, <3>1 DEF Entry
    <3>3. TakesRows(q) /\ (disposal = NotDisposed \/ 2 * q <= disposal[2])
      BY <2>3, <2>4 DEF RowAllowed
    <3>4. disposal = NotDisposed \/ rows[q].on <= disposal[2]
      <4>1. disposal[2] \in Int
        <5>1. disposal \in Day \X Day
          BY DEF AssetsIInv, AssetsInv, AssetsTypeOK
        <5> QED BY <5>1, AssetsAssumption DEF AssetsAssumption, Day
      <4>3. rows[q].on \in Int /\ 2 * q \in Int
        <5>1. rows[q].on \in Day
          BY <2>1 DEF Entry
        <5> QED BY <5>1, AssetsAssumption DEF AssetsAssumption, Day, AssetQuarter
      <4>2. rows[q].on <= 2 * q
        BY <2>1, <2>4
      <4> QED BY <3>3, <4>1, <4>2, <4>3
    <3> QED BY <2>1, <2>4, <3>2, <3>3, <3>4 DEF Exists, StillUsed
  <2>5. CASE q \notin owing
    <3>1. entries'[q] = rows[q]
      BY <1>2, <2>5
    <3> QED BY <2>1, <2>2, <2>3, <3>1 DEF RowAllowed, Depreciated
  <2> QED BY <2>4, <2>5
<1>4. entries' \in [AssetQuarter -> Entry]
  BY <1>2, <1>3
<1> QED BY <1>1, <1>2, <1>3, <1>4 DEF RowsMoved

LEMMA ContinueMoves ==
    ASSUME AssetsIInv, NEW asOf \in AssetQuarter, NEW prior \in Balances, NEW current \in Balances,
           Continue(asOf, prior, current)
    PROVE  plan' \in PlanOf /\ asset' = asset /\ RowsMoved
<1> DEFINE p == [method |-> "linear", ratio |-> asset.ratio,
                 asOf |-> asOf, prior |-> prior, current |-> current]
           rows == Schedule(p)
<1>t. AssetsTypeOK
  BY DEF AssetsIInv, AssetsInv
<1>1. p \in PlanOf
  BY <1>t, AssetsAssumption DEF AssetsAssumption, AssetsTypeOK, PlanOf, Shares, AssetQuarter
<1>2. /\ asset.status # "absent" /\ RowsAllowed(p) /\ plan' = p /\ asset' = asset
      /\ entries' = [q \in AssetQuarter |-> IF Exists(rows[q]) THEN rows[q] ELSE entries[q]]
  BY DEF Continue
<1>3. ASSUME NEW q \in AssetQuarter
      PROVE  /\ entries'[q] \in Entry
             /\ entries'[q] # entries[q] => TakesRows(q)
             /\ entries'[q].books <=> entries'[q].tx # "none"
             /\ Exists(entries'[q]) => QuarterOf(entries'[q].on) = q
             /\ Depreciated(entries'[q]) => entries'[q] = entries[q]
  <2>1. CASE Exists(rows[q])
    <3>1. /\ rows[q] \in Entry /\ rows[q].tx = "none" /\ ~rows[q].books
          /\ QuarterOf(rows[q].on) = q
      BY <1>1, <2>1, ScheduleRows
    <3> QED BY <1>2, <2>1, <3>1 DEF RowsAllowed, RowAllowed, Depreciated
  <2>2. CASE ~Exists(rows[q])
    <3>1. entries'[q] = entries[q]
      BY <1>2, <2>2
    <3>2. /\ entries[q] \in Entry
          /\ entries[q].books <=> entries[q].tx # "none"
          /\ Exists(entries[q]) => QuarterOf(entries[q].on) = q
      BY <1>t DEF AssetsTypeOK
    <3> QED BY <3>1, <3>2
  <2> QED BY <2>1, <2>2
<1>4. entries' \in [AssetQuarter -> Entry]
  BY <1>2, <1>3
<1> QED BY <1>1, <1>2, <1>3, <1>4 DEF RowsMoved

LEMMA RecognitionMoves ==
    ASSUME AssetsIInv, NEW q \in AssetQuarter, Recognize(q) \/ VoidRecognition(q)
    PROVE  plan' = plan /\ asset' = asset /\ RowsMoved
<1>t. AssetsTypeOK /\ AbsentIsEmpty
  BY DEF AssetsIInv, AssetsInv
<1>e. entries \in [AssetQuarter -> Entry] /\ entries[q] \in Entry
  BY <1>t DEF AssetsTypeOK
<1>1. /\ TakesRows(q) /\ asset.status # "absent" /\ plan' = plan /\ asset' = asset
  BY <1>t DEF Recognize, VoidRecognition, AbsentIsEmpty, NoEntry, Depreciated
<1>2. /\ entries' \in [AssetQuarter -> Entry]
      /\ \A r \in AssetQuarter : r # q => entries'[r] = entries[r]
  BY <1>e DEF Recognize, VoidRecognition, Entry
<1>3. /\ entries'[q].on = entries[q].on /\ entries'[q].books /\ entries'[q].tx # "none"
      /\ Depreciated(entries'[q]) => StillUsed(entries[q])
  <2>1. CASE Recognize(q)
    <3>1. /\ entries'[q] = [entries[q] EXCEPT !.tx = "posted", !.books = TRUE]
          /\ StillUsed(entries[q])
      BY <1>e, <2>1 DEF Recognize
    <3> QED BY <1>e, <3>1 DEF Entry
  <2>2. CASE VoidRecognition(q)
    <3>1. entries'[q] = [entries[q] EXCEPT !.tx = "void"] /\ entries[q].books
      BY <1>t, <1>e, <2>2 DEF VoidRecognition, Depreciated, AssetsTypeOK
    <3>2. entries'[q].tx = "void" /\ entries'[q].on = entries[q].on /\ entries'[q].books
      BY <1>e, <3>1 DEF Entry
    <3> QED BY <3>2 DEF Depreciated
  <2> QED BY <2>1, <2>2
<1>4. ASSUME NEW r \in AssetQuarter
      PROVE  /\ entries'[r] # entries[r] => TakesRows(r)
             /\ entries'[r].books <=> entries'[r].tx # "none"
             /\ Exists(entries'[r]) => QuarterOf(entries'[r].on) = r
             /\ Depreciated(entries'[r]) =>
                  \/ StillUsed(entries'[r])
                  \/ Depreciated(entries[r]) /\ entries'[r].on = entries[r].on
  <2>1. /\ entries[r].books <=> entries[r].tx # "none"
        /\ Exists(entries[r]) => QuarterOf(entries[r].on) = r
    BY <1>t DEF AssetsTypeOK
  <2>2. CASE r # q
    BY <1>2, <2>1, <2>2
  <2>3. CASE r = q
    BY <1>1, <1>3, <2>1, <2>3 DEF Exists, StillUsed
  <2> QED BY <2>2, <2>3
<1> QED BY <1>1, <1>2, <1>4 DEF RowsMoved

\* The steps that leave the rows alone.
OtherAssetStep ==
    \/ \E r \in Ratios : EditProfile(r)
    \/ \E q \in AssetQuarter : CloseQuarter(q)
    \/ VoidAcquisition \/ Tick

LEMMA WhatAssetsChange ==
    ASSUME AssetsIInv, AssetsNext
    PROVE  \/ /\ plan' \in PlanOf /\ RowsMoved /\ UNCHANGED <<today, shut, disposal>>
              /\ asset' \in [status : {"posted", "void"}, ratio : Shares] \/ asset' = asset
           \/ OtherAssetStep
           \/ \E gone \in Gone : RecordDisposal(gone[1], gone[2])
<1>1. ASSUME NEW method \in {"immediate", "linear"}, NEW r \in Ratios, Acquire(method, r)
      PROVE  /\ plan' \in PlanOf /\ RowsMoved /\ UNCHANGED <<today, shut, disposal>>
             /\ asset' \in [status : {"posted", "void"}, ratio : Shares]
  BY <1>1, AcquireMoves DEF Acquire, Shares
<1>2. ASSUME NEW asOf \in AssetQuarter, NEW prior \in Balances, NEW current \in Balances,
             Continue(asOf, prior, current)
      PROVE  plan' \in PlanOf /\ RowsMoved /\ UNCHANGED <<today, shut, disposal>> /\ asset' = asset
  BY <1>2, ContinueMoves DEF Continue
<1>3. ASSUME NEW q \in AssetQuarter, Recognize(q) \/ VoidRecognition(q)
      PROVE  plan' \in PlanOf /\ RowsMoved /\ UNCHANGED <<today, shut, disposal>> /\ asset' = asset
  <2>1. plan \in PlanOf
    BY DEF AssetsIInv, AssetsInv, AssetsTypeOK, PlanOf, Shares
  <2> QED BY <1>3, <2>1, RecognitionMoves DEF Recognize, VoidRecognition
<1> QED BY <1>1, <1>2, <1>3 DEF AssetsNext, OtherAssetStep

LEMMA AssetsStep == AssetsIInv /\ AssetsNext => AssetsIInv'
<1> SUFFICES ASSUME AssetsIInv, AssetsNext
             PROVE  AssetsIInv'
  OBVIOUS
<1>t. AssetsTypeOK /\ NothingAfterLastUse /\ AbsentIsEmpty
  BY DEF AssetsIInv, AssetsInv
<1>1. CASE /\ plan' \in PlanOf /\ RowsMoved /\ UNCHANGED <<today, shut, disposal>>
           /\ asset' \in [status : {"posted", "void"}, ratio : Shares] \/ asset' = asset
  <2>1. AssetsTypeOK'
    BY <1>t, <1>1 DEF RowsMoved, AssetsTypeOK, PlanOf, Shares
  <2>2. NothingAfterLastUse'
    BY <1>t, <1>1 DEF RowsMoved, NothingAfterLastUse, StillUsed
  <2>3. AbsentIsEmpty'
    BY <1>t, <1>1 DEF RowsMoved, AbsentIsEmpty
  <2> QED BY <2>1, <2>2, <2>3 DEF AssetsIInv, AssetsInv
<1>2. CASE OtherAssetStep
  <2>1. UNCHANGED <<plan, entries, disposal>> /\ (asset'.status = "absent" => asset.status = "absent")
    BY <1>2, <1>t DEF OtherAssetStep, EditProfile, CloseQuarter, VoidAcquisition, Tick, AssetsTypeOK
  <2>2. asset' \in [status : {"absent", "posted", "void"}, ratio : Shares]
    BY <1>2, <1>t DEF OtherAssetStep, EditProfile, CloseQuarter, VoidAcquisition, Tick, AssetsTypeOK, Shares
  <2>3. today' \in Day /\ shut' \subseteq AssetQuarter
    BY <1>2, <1>t, AssetsAssumption
       DEF AssetsAssumption, OtherAssetStep, EditProfile, CloseQuarter, VoidAcquisition, Tick, AssetsTypeOK,
           Day
  <2> QED BY <1>t, <2>1, <2>2, <2>3
          DEF AssetsIInv, AssetsInv, AssetsTypeOK, NothingAfterLastUse, AbsentIsEmpty, Shares
<1>3. ASSUME NEW gone \in Gone, RecordDisposal(gone[1], gone[2])
      PROVE  AssetsIInv'
  <2>1. /\ UNCHANGED <<today, asset, plan, entries, shut>> /\ disposal' = <<gone[1], gone[2]>>
        /\ \A q \in AssetQuarter : entries[q].books => entries[q].on <= gone[2]
    BY <1>3 DEF RecordDisposal, Disposable
  <2>2. disposal' \in Day \X Day /\ disposal'[2] = gone[2]
    BY <2>1, AssetsAssumption DEF AssetsAssumption
  <2>3. NothingAfterLastUse'
    <3>1. \A q \in AssetQuarter : Depreciated(entries[q]) => entries[q].books
      BY <1>t DEF Depreciated, AssetsTypeOK
    <3> QED BY <2>1, <2>2, <3>1 DEF NothingAfterLastUse, Depreciated
  <2> QED BY <1>t, <2>1, <2>2, <2>3 DEF AssetsIInv, AssetsInv, AssetsTypeOK, AbsentIsEmpty
<1> QED BY <1>1, <1>2, <1>3, WhatAssetsChange

LEMMA AssetsStutter == AssetsIInv /\ UNCHANGED assetsVars => AssetsIInv'
BY DEF AssetsIInv, assetsVars, AssetsInv, AssetsTypeOK, NothingAfterLastUse, AbsentIsEmpty

LEMMA ClosedQuarterRows == AssetsIInv /\ AssetsNext => FrozenQuarter
<1> SUFFICES ASSUME AssetsIInv, AssetsNext, NEW q \in shut
             PROVE  entries'[q] = entries[q]
  BY DEF FrozenQuarter
<1>1. q \in AssetQuarter /\ ~TakesRows(q)
  BY DEF AssetsIInv, AssetsInv, AssetsTypeOK, TakesRows
<1>2. CASE RowsMoved
  BY <1>1, <1>2 DEF RowsMoved
<1>3. CASE entries' = entries
  BY <1>3
<1> QED BY <1>2, <1>3, WhatAssetsChange
        DEF OtherAssetStep, EditProfile, CloseQuarter, VoidAcquisition, Tick, RecordDisposal

-----------------------------------------------------------------------------
(* Contribution bases *)

\* After the end of the year every month is locked, so what is locked in and
\* what is owed are the same sum.
LEMMA YearEndLocks == LockedInAtYearEnd
<1>1. Len(Length) \in Nat
  BY RetaAssumption DEF RetaAssumption
<1>2. LockedUntil(Len(Length) + 1) = Len(Length)
  BY <1>1 DEF LockedUntil
<1> QED BY <1>2 DEF LockedInAtYearEnd, BracketCheck, Paid, Floor

LEMMA RetaStart == RetaInit => RetaInv
<1> HAVE RetaInit
<1>1. RetaTypeOK /\ ChangesOnLegalDays
  BY RetaAssumption DEF RetaAssumption, RetaInit, RetaTypeOK, ChangesOnLegalDays
<1> QED BY <1>1, YearEndLocks DEF RetaInv

LEMMA RetaStep == RetaInv /\ RetaNext => RetaInv'
<1> SUFFICES ASSUME RetaInv, RetaNext
             PROVE  RetaTypeOK' /\ ChangesOnLegalDays'
  <2>1. LockedInAtYearEnd'
    BY YearEndLocks, PTL
  <2> QED BY <2>1 DEF RetaInv
<1>t. RetaTypeOK /\ ChangesOnLegalDays
  BY DEF RetaInv
<1>i. \A e \in elections : e.from \in Int
  BY <1>t DEF RetaTypeOK, Election, YearDay
<1>1. ASSUME NEW d \in YearDay, NEW base \in Bases \cup {0}, Elect(d, base)
      PROVE  RetaTypeOK' /\ ChangesOnLegalDays'
  <2> DEFINE new == [from |-> d, base |-> base]
  <2>1. /\ elections' = elections \cup {new} /\ entered' = entered + 1 /\ entered < MaxElections
        /\ UNCHANGED <<voided, alta, table>> /\ new.from = d /\ d \in Int
    BY <1>1 DEF Elect, YearDay
  <2>2. \A e \in elections : e.from < d
    BY <1>1 DEF Elect, MayStart
  <2>3. RetaTypeOK'
    <3>1. new \in Election
      BY DEF Election
    <3>2. \A e, f \in elections' : e.from = f.from => e = f
      BY <1>t, <1>i, <2>1, <2>2 DEF RetaTypeOK
    <3>3. entered' \in 0..MaxElections
      BY <1>t, <2>1, RetaAssumption DEF RetaAssumption, RetaTypeOK
    <3> QED BY <1>t, <2>1, <3>1, <3>2, <3>3 DEF RetaTypeOK
  <2>4. ChangesOnLegalDays'
    <3> SUFFICES ASSUME NEW e \in elections', NEW f \in elections', e.from < f.from,
                        \A g \in elections' : ~(e.from < g.from /\ g.from < f.from)
                 PROVE  \/ Plana(e) \/ ChangeDay(f.from)
                        \/ \E a \in alta : a[1] = f.from
                        \/ \E v \in voided : e.from < v /\ v < f.from
      BY <2>1 DEF ChangesOnLegalDays
    <3>1. e \in elections
      BY <1>i, <2>1, <2>2
    <3>2. CASE f \in elections
      BY <1>t, <2>1, <3>1, <3>2 DEF ChangesOnLegalDays
    <3>3. CASE f = new
      <4>1. \A g \in elections : g.from <= e.from
        BY <1>i, <2>1, <2>2, <3>1, <3>3
      <4>2. Plana(e) \/ ChangeDay(d) \/ \E a \in alta : a[1] = d
        BY <1>1, <3>1, <4>1 DEF Elect, MayStart
      <4> QED BY <2>1, <3>3, <4>2
    <3> QED BY <2>1, <3>2, <3>3
  <2> QED BY <2>3, <2>4
<1>2. ASSUME NEW void \in elections, VoidElection(void)
      PROVE  RetaTypeOK' /\ ChangesOnLegalDays'
  <2>1. /\ elections' = elections \ {void} /\ voided' = voided \cup {void.from}
        /\ UNCHANGED <<alta, table, entered>>
    BY <1>2 DEF VoidElection
  <2>2. RetaTypeOK'
    BY <1>t, <2>1 DEF RetaTypeOK, Election
  <2>3. ChangesOnLegalDays'
    <3> SUFFICES ASSUME NEW e \in elections', NEW f \in elections', e.from < f.from,
                        \A g \in elections' : ~(e.from < g.from /\ g.from < f.from)
                 PROVE  \/ Plana(e) \/ ChangeDay(f.from)
                        \/ \E a \in alta : a[1] = f.from
                        \/ \E v \in voided' : e.from < v /\ v < f.from
      BY <2>1 DEF ChangesOnLegalDays
    <3>1. CASE e.from < void.from /\ void.from < f.from
      BY <2>1, <3>1
    <3>2. CASE ~(e.from < void.from /\ void.from < f.from)
      BY <1>t, <2>1, <3>2 DEF ChangesOnLegalDays
    <3> QED BY <3>1, <3>2
  <2> QED BY <2>2, <2>3
<1>3. ASSUME NEW a \in Activities, AddActivity(a)
      PROVE  RetaTypeOK' /\ ChangesOnLegalDays'
  BY <1>t, <1>3 DEF AddActivity, RetaTypeOK, ChangesOnLegalDays
<1>4. ASSUME NEW t \in Tables, ImportTable(t)
      PROVE  RetaTypeOK' /\ ChangesOnLegalDays'
  BY <1>t, <1>4 DEF ImportTable, RetaTypeOK, ChangesOnLegalDays
<1> QED BY <1>1, <1>2, <1>3, <1>4 DEF RetaNext

LEMMA RetaStutter == RetaInv /\ UNCHANGED retaVars => RetaInv'
<1> SUFFICES ASSUME RetaInv, UNCHANGED retaVars
             PROVE  RetaInv'
  OBVIOUS
<1>1. LockedInAtYearEnd'
  BY YearEndLocks, PTL
<1>2. RetaTypeOK' /\ ChangesOnLegalDays'
  BY DEF RetaInv, retaVars, RetaTypeOK, ChangesOnLegalDays
<1> QED BY <1>1, <1>2 DEF RetaInv

-----------------------------------------------------------------------------
(* Sums over finite sets *)

LEMMA LeastNatural ==
    ASSUME NEW S \in SUBSET Nat, S # {}
    PROVE  \E x \in S : \A y \in S : x =< y
<1> DEFINE R == {ss \in Nat \X Nat : ss[1] < ss[2]}
<1>1. IsWellFoundedOn(R, Nat)
  BY NatLessThanWellFounded DEF OpToRel
<1>2. PICK x \in S : \A y \in S : ~ (<<y, x>> \in R)
  BY <1>1, WFMin
<1>3. ASSUME NEW y \in S PROVE x =< y
  <2>1. <<y, x>> \in Nat \X Nat /\ ~(<<y, x>> \in R)
    BY <1>2
  <2>2. <<y, x>>[1] = y /\ <<y, x>>[2] = x /\ ~(y < x)
    BY <2>1
  <2> QED BY <2>2
<1> QED BY <1>2, <1>3

Some(s) == CHOOSE x \in s : TRUE
Rest(s) == s \ {Some(s)}
Parts(S, n) == {s \in SUBSET S : Cardinality(s) =< n}

\* What the fold makes of a set, given what it made of the smaller ones.
Folded(g, f, s) == IF s = {} THEN 0 ELSE g[Some(s)] + f[Rest(s)]
Adds(g, f, S, n) == f = [s \in Parts(S, n) |-> Folded(g, f, s)]
Adding(g, f, S) == f = [s \in SUBSET S |-> Folded(g, f, s)]
SumOf(g, S) == MapThenSumSet(LAMBDA x : g[x], S)

LEMMA RestIsSmaller ==
    ASSUME NEW s, IsFiniteSet(s), s # {}
    PROVE  /\ Some(s) \in s /\ IsFiniteSet(Rest(s)) /\ Rest(s) \subseteq s
           /\ Cardinality(s) \in Nat /\ Cardinality(Rest(s)) \in Nat
           /\ Cardinality(Rest(s)) = Cardinality(s) - 1
<1>1. Some(s) \in s
  BY DEF Some
<1> QED BY <1>1, FS_RemoveElement, FS_CardinalityType DEF Rest

LEMMA FoldExists ==
    ASSUME NEW S, IsFiniteSet(S), NEW g
    PROVE  \A n \in Nat : \E f : Adds(g, f, S, n)
<1> DEFINE Bad == {n \in Nat : ~ \E f : Adds(g, f, S, n)}
<1> SUFFICES ASSUME Bad # {} PROVE FALSE
  OBVIOUS
<1>1. PICK n \in Bad : \A k \in Bad : n =< k
  BY LeastNatural
<1>s. ASSUME NEW s \in SUBSET S PROVE IsFiniteSet(s) /\ Cardinality(s) \in Nat
  BY FS_Subset, FS_CardinalityType
<1>2. n # 0
  <2> SUFFICES ASSUME n = 0 PROVE FALSE
    OBVIOUS
  <2>1. \A s \in Parts(S, 0) : s = {}
    BY <1>s, FS_EmptySet DEF Parts
  <2>2. Adds(g, [s \in Parts(S, 0) |-> 0], S, 0)
    BY <2>1 DEF Adds, Folded
  <2> QED BY <1>1, <2>2
<1>3. n - 1 \in Nat /\ n - 1 < n
  BY <1>1, <1>2
<1>4. PICK f : Adds(g, f, S, n - 1)
  BY <1>1, <1>3
<1> DEFINE h == [s \in Parts(S, n) |-> Folded(g, f, s)]
<1>5. ASSUME NEW s \in Parts(S, n) PROVE h[s] = Folded(g, h, s)
  <2>1. CASE s = {}
    BY <2>1 DEF Folded
  <2>2. CASE s # {}
    <3>1. Rest(s) \in Parts(S, n - 1) /\ Rest(s) \in Parts(S, n)
      <4>1. s \in SUBSET S /\ IsFiniteSet(s) /\ Cardinality(s) =< n
        BY <1>s DEF Parts
      <4>2. Rest(s) \in SUBSET S /\ Cardinality(Rest(s)) =< n - 1 /\ Cardinality(Rest(s)) =< n
        BY <4>1, <2>2, RestIsSmaller, <1>1
      <4> QED BY <4>2 DEF Parts
    <3>2. f[Rest(s)] = h[Rest(s)]
      <4>1. f[Rest(s)] = Folded(g, f, Rest(s))
        BY <1>4, <3>1, Zenon DEF Adds
      <4> QED BY <3>1, <4>1
    <3>3. h[s] = Folded(g, f, s)
      OBVIOUS
    <3> HIDE DEF h
    <3> QED BY <3>2, <3>3 DEF Folded
  <2> QED BY <2>1, <2>2
<1>6. h = [s \in Parts(S, n) |-> Folded(g, h, s)]
  <2>1. h = [s \in Parts(S, n) |-> h[s]]
    OBVIOUS
  <2> HIDE DEF h
  <2> QED BY <1>5, <2>1
<1>7. Adds(g, h, S, n)
  <2> HIDE DEF h
  <2> QED BY <1>6 DEF Adds
<1> QED BY <1>1, <1>7

\* The fold of a set is a function that does what its definition says.
LEMMA SumFolds ==
    ASSUME NEW S, IsFiniteSet(S), NEW g
    PROVE  \E f : Adding(g, f, S) /\ SumOf(g, S) = f[S]
<1>1. Cardinality(S) \in Nat
  BY FS_CardinalityType
<1>2. Parts(S, Cardinality(S)) = SUBSET S
  <2>1. \A s \in SUBSET S : Cardinality(s) =< Cardinality(S)
    BY FS_Subset
  <2> QED BY <2>1 DEF Parts
<1>3. \E f : f = [s \in SUBSET S |-> Folded(g, f, s)]
  <2>1. PICK f : Adds(g, f, S, Cardinality(S))
    BY <1>1, FoldExists
  <2>2. f = [s \in Parts(S, Cardinality(S)) |-> Folded(g, f, s)]
    BY <2>1 DEF Adds
  <2>3. f = [s \in SUBSET S |-> Folded(g, f, s)]
    BY <1>2, <2>2, Zenon
  <2> QED BY <2>3
<1> DEFINE it == CHOOSE f : f = [s \in SUBSET S |-> Folded(g, f, s)]
<1>4. it = [s \in SUBSET S |-> Folded(g, it, s)]
  BY <1>3
<1>5. SumOf(g, S) = it[S]
  BY DEF SumOf, MapThenSumSet, MapThenFoldSet, Folded, Some, Rest
<1> QED BY <1>4, <1>5 DEF Adding

\* Two such functions agree where both are defined and what they add agrees.
LEMMA FoldsAgree ==
    ASSUME NEW S, NEW T \in SUBSET S, IsFiniteSet(S), NEW g, NEW h, NEW e, NEW f,
           Adding(g, e, S), Adding(h, f, T),
           \A x \in T : g[x] = h[x]
    PROVE  \A s \in SUBSET T : e[s] = f[s]
<1> DEFINE Bad == {n \in Nat : \E s \in SUBSET T : Cardinality(s) = n /\ e[s] # f[s]}
<1>s. ASSUME NEW s \in SUBSET T
      PROVE  IsFiniteSet(s) /\ Cardinality(s) \in Nat /\ s \in SUBSET S /\ s \in SUBSET T
  BY FS_Subset, FS_CardinalityType
<1> SUFFICES ASSUME Bad # {} PROVE FALSE
  BY <1>s
<1>1. PICK n \in Bad : \A k \in Bad : n =< k
  BY LeastNatural
<1>2. PICK s \in SUBSET T : Cardinality(s) = n /\ e[s] # f[s]
  BY <1>1
<1>3. e[s] = Folded(g, e, s) /\ f[s] = Folded(h, f, s)
  BY <1>s, Zenon DEF Adding
<1>4. s # {}
  BY <1>2, <1>3 DEF Folded
<1>5. /\ Some(s) \in s /\ Rest(s) \in SUBSET T
      /\ Cardinality(Rest(s)) = n - 1 /\ Cardinality(Rest(s)) \in Nat
  BY <1>s, <1>2, <1>4, RestIsSmaller
<1>6. e[Rest(s)] = f[Rest(s)]
  BY <1>1, <1>5
<1>7. g[Some(s)] = h[Some(s)]
  BY <1>5
<1> QED BY <1>2, <1>3, <1>4, <1>6, <1>7 DEF Folded

\* A sum depends on what is added alone.
LEMMA SumsAgree ==
    ASSUME NEW S, IsFiniteSet(S), NEW g, NEW h, \A x \in S : g[x] = h[x]
    PROVE  SumOf(g, S) = SumOf(h, S)
<1>1. PICK e : Adding(g, e, S) /\ SumOf(g, S) = e[S]
  BY SumFolds
<1>2. PICK f : Adding(h, f, S) /\ SumOf(h, S) = f[S]
  BY SumFolds
<1>3. \A s \in SUBSET S : e[s] = f[s]
  <2>1. S \in SUBSET S
    OBVIOUS
  <2> QED BY <1>1, <1>2, <2>1, FoldsAgree
<1> QED BY <1>1, <1>2, <1>3

LEMMA SumOfNone == ASSUME NEW g PROVE SumOf(g, {}) = 0
<1>1. PICK f : Adding(g, f, {}) /\ SumOf(g, {}) = f[{}]
  BY SumFolds, FS_EmptySet
<1>2. f[{}] = Folded(g, f, {})
  BY <1>1, Zenon DEF Adding
<1> QED BY <1>1, <1>2 DEF Folded

LEMMA SumOfRest ==
    ASSUME NEW S, IsFiniteSet(S), S # {}, NEW g
    PROVE  SumOf(g, S) = g[Some(S)] + SumOf(g, Rest(S))
<1>0. IsFiniteSet(Rest(S)) /\ Rest(S) \subseteq S
  BY RestIsSmaller
<1>1. PICK e : Adding(g, e, S) /\ SumOf(g, S) = e[S]
  BY SumFolds
<1>2. PICK f : Adding(g, f, Rest(S)) /\ SumOf(g, Rest(S)) = f[Rest(S)]
  BY <1>0, SumFolds
<1>3. e[Rest(S)] = f[Rest(S)]
  <2>1. Rest(S) \in SUBSET S /\ \A x \in Rest(S) : g[x] = g[x]
    BY <1>0
  <2>2. \A s \in SUBSET Rest(S) : e[s] = f[s]
    <3> DEFINE R == Rest(S)
    <3>0. PICK h : h = g
      OBVIOUS
    <3>1. R \in SUBSET S /\ Adding(h, f, R) /\ \A x \in R : g[x] = h[x]
      BY <1>2, <2>1, <3>0
    <3> HIDE DEF R
    <3>2. \A s \in SUBSET R : e[s] = f[s]
      BY <1>1, <3>1, FoldsAgree
    <3> QED BY <3>2 DEF R
  <2> QED BY <2>2
<1>4. e[S] = Folded(g, e, S)
  <2>1. S \in SUBSET S
    OBVIOUS
  <2> QED BY <1>1, <2>1, Zenon DEF Adding
<1> QED BY <1>1, <1>2, <1>3, <1>4 DEF Folded

Counts(g, S) == \A x \in S : g[x] \in Int

LEMMA SumIsInt ==
    ASSUME NEW S, IsFiniteSet(S), NEW g, Counts(g, S)
    PROVE  SumOf(g, S) \in Int
<1> DEFINE Bad == {n \in Nat : \E s \in SUBSET S : Cardinality(s) = n /\ SumOf(g, s) \notin Int}
<1>s. ASSUME NEW s \in SUBSET S PROVE IsFiniteSet(s) /\ Cardinality(s) \in Nat
  BY FS_Subset, FS_CardinalityType
<1> SUFFICES ASSUME Bad # {} PROVE FALSE
  BY <1>s
<1>1. PICK n \in Bad : \A k \in Bad : n =< k
  BY LeastNatural
<1>2. PICK s \in SUBSET S : Cardinality(s) = n /\ SumOf(g, s) \notin Int
  BY <1>1
<1>3. s # {}
  BY <1>2, SumOfNone
<1>4. /\ Some(s) \in S /\ Rest(s) \in SUBSET S
      /\ Cardinality(Rest(s)) = n - 1 /\ Cardinality(Rest(s)) \in Nat
  BY <1>s, <1>2, <1>3, RestIsSmaller
<1>5. SumOf(g, Rest(s)) \in Int
  BY <1>1, <1>4
<1>6. SumOf(g, s) = g[Some(s)] + SumOf(g, Rest(s))
  BY <1>s, <1>3, SumOfRest
<1> QED BY <1>2, <1>4, <1>5, <1>6 DEF Counts

\* In whichever order: the sum with one more.
LEMMA SumWithOne ==
    ASSUME NEW S, IsFiniteSet(S), NEW g, Counts(g, S), NEW x \in S
    PROVE  SumOf(g, S) = SumOf(g, S \ {x}) + g[x]
<1> DEFINE Bad == {n \in Nat : \E s \in SUBSET S : \E y \in s :
                     Cardinality(s) = n /\ SumOf(g, s) # SumOf(g, s \ {y}) + g[y]}
<1>s. ASSUME NEW s \in SUBSET S
      PROVE  IsFiniteSet(s) /\ Cardinality(s) \in Nat /\ SumOf(g, s) \in Int
  BY FS_Subset, FS_CardinalityType, SumIsInt DEF Counts
<1>i. \A y \in S : g[y] \in Int
  BY DEF Counts
<1> SUFFICES ASSUME Bad # {} PROVE FALSE
  BY <1>s
<1>1. PICK n \in Bad : \A k \in Bad : n =< k
  BY LeastNatural
<1>2. PICK s \in SUBSET S :
        \E y \in s : Cardinality(s) = n /\ SumOf(g, s) # SumOf(g, s \ {y}) + g[y]
  BY <1>1
<1>y. PICK y \in s : Cardinality(s) = n /\ SumOf(g, s) # SumOf(g, s \ {y}) + g[y]
  BY <1>2
<1>3. s # {} /\ y \in S
  BY <1>y
<1> DEFINE z == Some(s)
           r == Rest(s)
<1>4. z \in s /\ r \in SUBSET S /\ r = s \ {z} /\ Cardinality(r) = n - 1 /\ Cardinality(r) \in Nat
  BY <1>s, <1>y, <1>3, RestIsSmaller DEF Rest
<1>5. SumOf(g, s) = g[z] + SumOf(g, r)
  BY <1>s, <1>3, SumOfRest
<1> HIDE DEF z, r
<1>r. SumOf(g, r) \in Int /\ z \in S /\ g[z] \in Int /\ g[y] \in Int
  BY <1>3, <1>4, <1>s, <1>i
<1>6. z # y
  <2> SUFFICES ASSUME z = y PROVE FALSE
    OBVIOUS
  <2>1. s \ {y} = r
    BY <1>4
  <2>2. SumOf(g, s) = SumOf(g, s \ {y}) + g[y]
    <3>1. SumOf(g, s \ {y}) = SumOf(g, r) /\ g[y] = g[z]
      BY <2>1
    <3> QED BY <1>5, <1>r, <3>1
  <2> QED BY <1>y, <2>2
<1>7. y \in r /\ z \in s \ {y}
  BY <1>y, <1>4, <1>6
<1>8. SumOf(g, r) = SumOf(g, r \ {y}) + g[y]
  <2>1. n - 1 \notin Bad
    BY <1>1, <1>4
  <2>2. \A t \in SUBSET S : \A u \in t : Cardinality(t) = n - 1 => SumOf(g, t) = SumOf(g, t \ {u}) + g[u]
    BY <1>4, <2>1
  <2> QED BY <1>4, <1>7, <2>2
<1>9. SumOf(g, s \ {y}) = SumOf(g, (s \ {y}) \ {z}) + g[z]
  <2>1. s \ {y} \in SUBSET S /\ Cardinality(s \ {y}) = n - 1
    BY <1>s, <1>2, FS_RemoveElement
  <2>2. n - 1 \in Nat
    BY <1>4
  <2>3. n - 1 \notin Bad
    BY <1>1, <1>4
  <2>4. \A t \in SUBSET S : \A u \in t : Cardinality(t) = n - 1 => SumOf(g, t) = SumOf(g, t \ {u}) + g[u]
    BY <2>2, <2>3
  <2> QED BY <1>7, <2>1, <2>4
<1>10. (s \ {y}) \ {z} = r \ {y}
  BY <1>4
<1>11. SumOf(g, r \ {y}) \in Int
  BY <1>s, <1>4
<1>12. SumOf(g, s \ {y}) = SumOf(g, r \ {y}) + g[z]
  BY <1>9, <1>10
<1>13. SumOf(g, s) = SumOf(g, s \ {y}) + g[y]
  BY <1>5, <1>8, <1>11, <1>12, <1>r
<1> QED BY <1>y, <1>13

\* What holds of nothing and stays true with one more holds of a finite set.
LEMMA OneByOne ==
    ASSUME NEW S, IsFiniteSet(S), NEW Good \in SUBSET SUBSET S, {} \in Good,
           \A T \in Good : \A x \in S \ T : T \cup {x} \in Good
    PROVE  S \in Good
<1> DEFINE Bad == {n \in Nat : \E s \in SUBSET S : Cardinality(s) = n /\ s \notin Good}
<1>s. ASSUME NEW s \in SUBSET S PROVE IsFiniteSet(s) /\ Cardinality(s) \in Nat
  BY FS_Subset, FS_CardinalityType
<1> SUFFICES ASSUME Bad # {} PROVE FALSE
  BY <1>s
<1>1. PICK n \in Bad : \A k \in Bad : n =< k
  BY LeastNatural
<1>2. PICK s \in SUBSET S : Cardinality(s) = n /\ s \notin Good
  BY <1>1
<1>3. s # {}
  BY <1>2
<1>4. /\ Some(s) \in s /\ Rest(s) \in SUBSET S /\ s = Rest(s) \cup {Some(s)}
      /\ Some(s) \in S \ Rest(s)
      /\ Cardinality(Rest(s)) = n - 1 /\ Cardinality(Rest(s)) \in Nat
  BY <1>s, <1>2, <1>3, RestIsSmaller DEF Rest
<1>5. Rest(s) \in Good
  BY <1>1, <1>4
<1> QED BY <1>2, <1>4, <1>5

LEMMA SumWithOneMore ==
    ASSUME NEW S, IsFiniteSet(S), NEW g, NEW x, x \notin S, Counts(g, S \cup {x})
    PROVE  SumOf(g, S \cup {x}) = SumOf(g, S) + g[x]
<1>1. IsFiniteSet(S \cup {x}) /\ (S \cup {x}) \ {x} = S /\ x \in S \cup {x}
  BY FS_AddElement
<1>2. SumOf(g, S \cup {x}) = SumOf(g, (S \cup {x}) \ {x}) + g[x]
  BY <1>1, SumWithOne
<1> QED BY <1>1, <1>2

LEMMA SumOfUnion ==
    ASSUME NEW S, NEW T, IsFiniteSet(S), IsFiniteSet(T), S \cap T = {}, NEW g, Counts(g, S \cup T)
    PROVE  SumOf(g, S \cup T) = SumOf(g, S) + SumOf(g, T)
<1> DEFINE Good == {A \in SUBSET T : SumOf(g, S \cup A) = SumOf(g, S) + SumOf(g, A)}
<1>s. SumOf(g, S) \in Int
  BY SumIsInt DEF Counts
<1>1. {} \in Good
  <2>1. S \cup {} = S
    OBVIOUS
  <2> QED BY <1>s, <2>1, SumOfNone
<1>2. ASSUME NEW A \in Good, NEW x \in T \ A PROVE A \cup {x} \in Good
  <2>1. IsFiniteSet(A) /\ IsFiniteSet(S \cup A)
    BY FS_Subset, FS_Union
  <2>2. Counts(g, A \cup {x}) /\ Counts(g, (S \cup A) \cup {x}) /\ Counts(g, A) /\ g[x] \in Int
    BY DEF Counts
  <2>3. SumOf(g, A \cup {x}) = SumOf(g, A) + g[x]
    BY <2>1, <2>2, SumWithOneMore
  <2>4. SumOf(g, (S \cup A) \cup {x}) = SumOf(g, S \cup A) + g[x]
    <3>1. x \notin S \cup A
      OBVIOUS
    <3> QED BY <2>1, <2>2, <3>1, SumWithOneMore
  <2>5. (S \cup A) \cup {x} = S \cup (A \cup {x})
    OBVIOUS
  <2>6. SumOf(g, A) \in Int
    BY <2>1, <2>2, SumIsInt
  <2>7. SumOf(g, S \cup A) = SumOf(g, S) + SumOf(g, A)
    OBVIOUS
  <2>8. SumOf(g, S \cup (A \cup {x})) = SumOf(g, S) + SumOf(g, A \cup {x})
    <3>1. g[x] \in Int /\ SumOf(g, S \cup (A \cup {x})) = SumOf(g, (S \cup A) \cup {x})
      BY <2>2, <2>5
    <3> HIDE DEF Good
    <3> QED BY <1>s, <2>3, <2>4, <2>6, <2>7, <3>1
  <2> QED BY <2>8
<1>3. T \in Good
  <2> HIDE DEF Good
  <2>1. Good \in SUBSET SUBSET T
    BY DEF Good
  <2> QED BY <1>1, <1>2, <2>1, OneByOne
<1> QED BY <1>3

\* The sums of the parts of a set add up to the sum of the set.
LEMMA SumOfParts ==
    ASSUME NEW K, IsFiniteSet(K), NEW S, IsFiniteSet(S), NEW P \in [K -> SUBSET S],
           \A k, l \in K : k # l => P[k] \cap P[l] = {},
           NEW g, Counts(g, S)
    PROVE  SumOf([k \in K |-> SumOf(g, P[k])], K) = SumOf(g, UNION {P[k] : k \in K})
<1> DEFINE sums == [k \in K |-> SumOf(g, P[k])]
           All(A) == UNION {P[k] : k \in A}
           Good == {A \in SUBSET K : SumOf(sums, A) = SumOf(g, All(A))}
<1>c. ASSUME NEW T \in SUBSET S PROVE IsFiniteSet(T) /\ Counts(g, T) /\ SumOf(g, T) \in Int
  BY FS_Subset, SumIsInt DEF Counts
<1>1. {} \in Good
  <2>1. All({}) = {}
    OBVIOUS
  <2>2. SumOf(sums, {}) = 0 /\ SumOf(g, {}) = 0
    BY SumOfNone
  <2> QED BY <2>1, <2>2
<1>2. ASSUME NEW A \in Good, NEW x \in K \ A PROVE A \cup {x} \in Good
  <2>1. IsFiniteSet(A) /\ All(A) \in SUBSET S /\ P[x] \in SUBSET S
    BY FS_Subset
  <2>2. Counts(sums, A \cup {x}) /\ sums[x] = SumOf(g, P[x])
    BY <1>c DEF Counts
  <2>3. SumOf(sums, A \cup {x}) = SumOf(sums, A) + SumOf(g, P[x])
    <3>1. SumOf(sums, A \cup {x}) = SumOf(sums, A) + sums[x]
      <4> HIDE DEF sums
      <4> QED BY <2>1, <2>2, SumWithOneMore
    <3> QED BY <2>2, <3>1
  <2>4. All(A) \cap P[x] = {} /\ All(A \cup {x}) = All(A) \cup P[x]
    OBVIOUS
  <2>5. SumOf(g, All(A) \cup P[x]) = SumOf(g, All(A)) + SumOf(g, P[x])
    <3>1. IsFiniteSet(All(A)) /\ IsFiniteSet(P[x]) /\ Counts(g, All(A) \cup P[x])
      BY <1>c, <2>1
    <3> HIDE DEF All
    <3> QED BY <2>4, <3>1, SumOfUnion
  <2> HIDE DEF All, sums
  <2>6. SumOf(sums, A) = SumOf(g, All(A))
    OBVIOUS
  <2>7. SumOf(sums, A \cup {x}) = SumOf(g, All(A \cup {x}))
    BY <2>3, <2>4, <2>5, <2>6
  <2> QED BY <2>7
<1>3. K \in Good
  <2>1. Good \in SUBSET SUBSET K
    OBVIOUS
  <2> HIDE DEF Good
  <2> QED BY <1>1, <1>2, <2>1, OneByOne
<1> QED BY <1>3


LEMMA SumOfZeros ==
    ASSUME NEW S, IsFiniteSet(S), NEW g, \A x \in S : g[x] = 0
    PROVE  SumOf(g, S) = 0
<1> DEFINE Good == {A \in SUBSET S : SumOf(g, A) = 0}
<1>1. {} \in Good
  BY SumOfNone
<1>2. ASSUME NEW A \in Good, NEW x \in S \ A PROVE A \cup {x} \in Good
  <2>1. IsFiniteSet(A) /\ Counts(g, A \cup {x}) /\ g[x] = 0
    BY FS_Subset DEF Counts
  <2>2. SumOf(g, A \cup {x}) = SumOf(g, A) + g[x]
    BY <2>1, SumWithOneMore
  <2> QED BY <2>1, <2>2
<1>3. Good \in SUBSET SUBSET S
  OBVIOUS
<1> HIDE DEF Good
<1>4. S \in Good
  BY <1>1, <1>2, <1>3, OneByOne
<1> QED BY <1>4 DEF Good

LEMMA SumsAdd ==
    ASSUME NEW S, IsFiniteSet(S), NEW f, NEW g, NEW h, Counts(g, S), Counts(h, S),
           \A x \in S : f[x] = g[x] + h[x]
    PROVE  SumOf(f, S) = SumOf(g, S) + SumOf(h, S)
<1> DEFINE Good == {A \in SUBSET S : SumOf(f, A) = SumOf(g, A) + SumOf(h, A)}
<1>1. {} \in Good
  BY SumOfNone
<1>2. ASSUME NEW A \in Good, NEW x \in S \ A PROVE A \cup {x} \in Good
  <2>1. /\ IsFiniteSet(A) /\ Counts(f, A \cup {x}) /\ Counts(g, A \cup {x}) /\ Counts(h, A \cup {x})
        /\ Counts(g, A) /\ Counts(h, A)
        /\ g[x] \in Int /\ h[x] \in Int /\ f[x] = g[x] + h[x]
    BY FS_Subset DEF Counts
  <2>2. SumOf(f, A \cup {x}) = SumOf(f, A) + f[x]
    <3>1. IsFiniteSet(A) /\ x \notin A /\ Counts(f, A \cup {x})
      BY <2>1
    <3> HIDE DEF Good
    <3> QED BY <3>1, SumWithOneMore
  <2>3. SumOf(g, A \cup {x}) = SumOf(g, A) + g[x]
    <3>1. IsFiniteSet(A) /\ x \notin A /\ Counts(g, A \cup {x})
      BY <2>1
    <3> HIDE DEF Good
    <3> QED BY <3>1, SumWithOneMore
  <2>4. SumOf(h, A \cup {x}) = SumOf(h, A) + h[x]
    <3>1. IsFiniteSet(A) /\ x \notin A /\ Counts(h, A \cup {x})
      BY <2>1
    <3> HIDE DEF Good
    <3> QED BY <3>1, SumWithOneMore
  <2>5. SumOf(g, A) \in Int /\ SumOf(h, A) \in Int
    BY <2>1, SumIsInt
  <2>6. SumOf(f, A) = SumOf(g, A) + SumOf(h, A)
    OBVIOUS
  <2>7. SumOf(f, A \cup {x}) = SumOf(g, A \cup {x}) + SumOf(h, A \cup {x})
    <3> HIDE DEF Good
    <3> QED BY <2>1, <2>2, <2>3, <2>4, <2>5, <2>6
  <2> QED BY <2>7
<1>3. Good \in SUBSET SUBSET S
  OBVIOUS
<1> HIDE DEF Good
<1>4. S \in Good
  BY <1>1, <1>2, <1>3, OneByOne
<1> QED BY <1>4 DEF Good

LEMMA SumAtMost ==
    ASSUME NEW S, IsFiniteSet(S), NEW g, NEW h, Counts(g, S), Counts(h, S),
           \A x \in S : g[x] <= h[x]
    PROVE  SumOf(g, S) <= SumOf(h, S)
<1> DEFINE Good == {A \in SUBSET S : SumOf(g, A) <= SumOf(h, A)}
<1>1. {} \in Good
  BY SumOfNone
<1>2. ASSUME NEW A \in Good, NEW x \in S \ A PROVE A \cup {x} \in Good
  <2>1. /\ IsFiniteSet(A) /\ Counts(g, A \cup {x}) /\ Counts(h, A \cup {x})
        /\ Counts(g, A) /\ Counts(h, A)
        /\ g[x] \in Int /\ h[x] \in Int /\ g[x] <= h[x]
    BY FS_Subset DEF Counts
  <2>3. SumOf(g, A \cup {x}) = SumOf(g, A) + g[x]
    <3>1. IsFiniteSet(A) /\ x \notin A /\ Counts(g, A \cup {x})
      BY <2>1
    <3> HIDE DEF Good
    <3> QED BY <3>1, SumWithOneMore
  <2>4. SumOf(h, A \cup {x}) = SumOf(h, A) + h[x]
    <3>1. IsFiniteSet(A) /\ x \notin A /\ Counts(h, A \cup {x})
      BY <2>1
    <3> HIDE DEF Good
    <3> QED BY <3>1, SumWithOneMore
  <2>5. SumOf(g, A) \in Int /\ SumOf(h, A) \in Int
    BY <2>1, SumIsInt
  <2>6. SumOf(g, A) <= SumOf(h, A)
    OBVIOUS
  <2>7. SumOf(g, A \cup {x}) <= SumOf(h, A \cup {x})
    <3> HIDE DEF Good
    <3> QED BY <2>1, <2>3, <2>4, <2>5, <2>6
  <2> QED BY <2>7
<1>3. Good \in SUBSET SUBSET S
  OBVIOUS
<1> HIDE DEF Good
<1>4. S \in Good
  BY <1>1, <1>2, <1>3, OneByOne
<1> QED BY <1>4 DEF Good

LEMMA SumScaled ==
    ASSUME NEW S, IsFiniteSet(S), NEW f, NEW g, NEW c \in Int, Counts(g, S),
           \A x \in S : f[x] = c * g[x]
    PROVE  SumOf(f, S) = c * SumOf(g, S)
<1> DEFINE Good == {A \in SUBSET S : SumOf(f, A) = c * SumOf(g, A)}
<1>1. {} \in Good
  BY SumOfNone
<1>2. ASSUME NEW A \in Good, NEW x \in S \ A PROVE A \cup {x} \in Good
  <2>1. /\ IsFiniteSet(A) /\ Counts(f, A \cup {x}) /\ Counts(g, A \cup {x})
        /\ Counts(g, A) /\ g[x] \in Int /\ f[x] = c * g[x]
    BY FS_Subset DEF Counts
  <2>2. SumOf(f, A \cup {x}) = SumOf(f, A) + f[x]
    <3>1. IsFiniteSet(A) /\ x \notin A /\ Counts(f, A \cup {x})
      BY <2>1
    <3> HIDE DEF Good
    <3> QED BY <3>1, SumWithOneMore
  <2>3. SumOf(g, A \cup {x}) = SumOf(g, A) + g[x]
    <3>1. IsFiniteSet(A) /\ x \notin A /\ Counts(g, A \cup {x})
      BY <2>1
    <3> HIDE DEF Good
    <3> QED BY <3>1, SumWithOneMore
  <2>5. SumOf(g, A) \in Int
    BY <2>1, SumIsInt
  <2>6. SumOf(f, A) = c * SumOf(g, A)
    OBVIOUS
  <2>7. SumOf(f, A \cup {x}) = c * SumOf(g, A \cup {x})
    <3> HIDE DEF Good
    <3>1. c * (SumOf(g, A) + g[x]) = c * SumOf(g, A) + c * g[x]
      BY <2>1, <2>5
    <3> QED BY <2>1, <2>2, <2>3, <2>6, <3>1
  <2> QED BY <2>7
<1>3. Good \in SUBSET SUBSET S
  OBVIOUS
<1> HIDE DEF Good
<1>4. S \in Good
  BY <1>1, <1>2, <1>3, OneByOne
<1> QED BY <1>4 DEF Good

-----------------------------------------------------------------------------
(* The forms: entries and their quarters *)

FormsTyped ==
    /\ posted \in [Journal -> 0..4] /\ moved \in [Journal -> [irpf : 0..5, iva : 0..5]]
    /\ doubtful \subseteq Loaded

LEMMA FormsConstants ==
    /\ IsFiniteSet(Journal) /\ Working \subseteq 1..4
    /\ Decisions \subseteq [irpf : 0..5, iva : 0..5]
    /\ Own \in [irpf : 0..5, iva : 0..5]
BY FormsAssumption DEF FormsAssumption, Own

LEMMA AttributeTyped ==
    ASSUME FormsTyped, NEW e \in Journal, NEW d \in Decisions, Attribute(e, d)
    PROVE  FormsTyped'
BY FormsConstants DEF FormsTyped, Attribute, Loaded

LEMMA FormsStart == FormsInit => FormsTyped
BY FormsConstants DEF FormsInit, FormsTyped, Loaded

LEMMA FormsStep == FormsTyped /\ FormsNext => FormsTyped'
<1> SUFFICES ASSUME FormsTyped, NEW e \in Journal,
                    \/ \E q \in Working : PostEntry(e, q)
                    \/ VoidEntry(e) \/ Unsettle(e)
                    \/ \E d \in Decisions : Attribute(e, d)
             PROVE  FormsTyped'
  BY DEF FormsNext
<1>1. ASSUME NEW q \in Working, PostEntry(e, q) PROVE FormsTyped'
  BY <1>1, FormsConstants DEF FormsTyped, PostEntry, Loaded
<1>2. CASE VoidEntry(e)
  BY <1>2, FormsConstants DEF FormsTyped, VoidEntry, Loaded
<1>3. CASE Unsettle(e)
  BY <1>3, FormsConstants DEF FormsTyped, Unsettle, Loaded
<1> QED BY <1>1, <1>2, <1>3, AttributeTyped

LEMMA AnnualStart == AnnualInit => FormsTyped
<1> SUFFICES ASSUME AnnualInit PROVE FormsTyped
  OBVIOUS
<1>1. posted \in [Journal -> 0..4]
  <2>1. posted \in [Journal -> {0} \cup Working]
    BY DEF AnnualInit, Books
  <2>2. {0} \cup Working \subseteq 0..4
    BY FormsConstants
  <2> QED BY <2>1, <2>2
<1> QED BY <1>1, FormsConstants DEF AnnualInit, FormsTyped, Loaded

LEMMA AnnualStep == FormsTyped /\ AnnualNext => FormsTyped'
<1> SUFFICES ASSUME FormsTyped, AnnualNext PROVE FormsTyped'
  OBVIOUS
<1>1. CASE \E e \in YearEntries, d \in Corrections : Attribute(e, d)
  BY <1>1, AttributeTyped, AnnualAssumption DEF AnnualAssumption
<1>2. CASE UNCHANGED formsVars
  BY <1>2 DEF formsVars, FormsTyped, Loaded
<1> QED BY <1>1, <1>2 DEF AnnualNext

LEMMA FormsStutter == FormsTyped /\ UNCHANGED formsVars => FormsTyped'
BY DEF FormsTyped, formsVars, Loaded

\* What an entry comes to, and the entries that come to it.
EffectOf == [e \in Journal |-> Effect(e)]
VatRows == Loaded \cap Flagged.iva

LEMMA EffectIsInt ==
    ASSUME FormsTyped, NEW e \in Journal
    PROVE  Effect(e) \in Int
<1>1. ASSUME NEW k \in {"vat", "input"} PROVE AmountFor(e, "iva", k) \in Int
  <2>1. Restated[e][k] \in Int
    BY FormsAssumption DEF FormsAssumption
  <2>2. OwnAmount[e][k] \in Int
    <3>1. Value(Says(e, k), 0) \in Int
      BY FormsAssumption DEF FormsAssumption, Value, Says
    <3>2. OwnAmount[e][k] = Value(Says(e, k), 0)
      BY DEF OwnAmount
    <3> QED BY <3>1, <3>2
  <2> QED BY <2>1, <2>2 DEF AmountFor
<1> QED BY <1>1 DEF Effect

LEMMA RowByRowIs ==
    ASSUME NEW q
    PROVE  RowByRow(q) = SumOf(EffectOf, Rows303(q))
<1> DEFINE T == Rows303(q)
           own == [e \in T |-> Effect(e)]
<1>1. RowByRow(q) = SumOf(own, T)
  <2> HIDE DEF T
  <2>1. RowByRow(q) = MapThenSumSet(Effect, T)
    BY DEF RowByRow, T
  <2>2. MapThenSumSet(Effect, T) = SumOf([e \in T |-> Effect(e)], T)
    BY DEF MapThenSumSet, MapThenFoldSet, SumOf
  <2> QED BY <2>1, <2>2
<1>2. T \subseteq Journal /\ IsFiniteSet(T)
  BY FS_Subset, FormsConstants DEF Rows303, Projected, Loaded
<1>3. \A e \in T : own[e] = EffectOf[e]
  BY <1>2 DEF EffectOf
<1> HIDE DEF own
<1>4. SumOf(own, T) = SumOf(EffectOf, T)
  BY <1>2, <1>3, SumsAgree
<1> QED BY <1>1, <1>4

LEMMA EveryQuarterIs == FormsTyped => EveryQuarter = SumOf(EffectOf, VatRows)
<1> SUFFICES ASSUME FormsTyped PROVE EveryQuarter = SumOf(EffectOf, VatRows)
  OBVIOUS
<1> DEFINE P == [q \in 1..5 |-> Rows303(q)]
           sums == [q \in 1..5 |-> SumOf(EffectOf, P[q])]
<1>1. ASSUME NEW q \in 1..5 PROVE RowByRow(q) = sums[q]
  BY RowByRowIs
<1>2. EveryQuarter = SumOf(sums, 1..5)
  <2>1. MapThenSumSet(RowByRow, 1..5) = SumOf([q \in 1..5 |-> RowByRow(q)], 1..5)
    BY DEF MapThenSumSet, MapThenFoldSet, SumOf
  <2>2. [q \in 1..5 |-> RowByRow(q)] = sums
    BY <1>1
  <2> QED BY <2>1, <2>2 DEF EveryQuarter
<1>3. UNION {P[q] : q \in 1..5} = VatRows /\ P \in [1..5 -> SUBSET VatRows]
  <2>1. ASSUME NEW e \in Loaded PROVE EffectiveDate(e, "iva") \in 1..5
    BY DEF FormsTyped, EffectiveDate, Loaded
  <2>2. Flagged["iva"] = Flagged.iva
    OBVIOUS
  <2>3. \A q \in 1..5 : P[q] = {e \in VatRows : EffectiveDate(e, "iva") = q}
    BY DEF Rows303, Projected, VatRows
  <2>4. \A e \in VatRows : EffectiveDate(e, "iva") \in 1..5
    BY <2>1 DEF VatRows
  <2> HIDE DEF P
  <2>5. UNION {P[q] : q \in 1..5} = VatRows
    BY <2>3, <2>4
  <2>6. P \in [1..5 -> SUBSET VatRows]
    <3>1. P = [q \in 1..5 |-> P[q]]
      BY DEF P
    <3> QED BY <2>3, <3>1
  <2> QED BY <2>5, <2>6
<1>4. \A q, r \in 1..5 : q # r => P[q] \cap P[r] = {}
  BY DEF Rows303, Projected
<1>5. IsFiniteSet(1..5) /\ IsFiniteSet(VatRows) /\ Counts(EffectOf, VatRows)
  <2>1. VatRows \subseteq Journal
    BY DEF VatRows, Loaded
  <2>2. Counts(EffectOf, VatRows)
    BY <2>1, EffectIsInt DEF Counts, EffectOf
  <2>3. IsFiniteSet(VatRows)
    BY <2>1, FS_Subset, FormsConstants
  <2>4. IsFiniteSet(1..5)
    <3>1. PICK a \in Int, b \in Int : a = 1 /\ b = 5
      OBVIOUS
    <3>2. IsFiniteSet(a..b)
      BY FS_Interval
    <3> QED BY <3>1, <3>2, Zenon
  <2> QED BY <2>2, <2>3, <2>4
<1>6. SumOf(sums, 1..5) = SumOf(EffectOf, UNION {P[q] : q \in 1..5})
  <2> HIDE DEF P
  <2> QED BY <1>3, <1>4, <1>5, SumOfParts
<1> QED BY <1>2, <1>3, <1>6

LEMMA Conserves == FormsTyped /\ FormsTyped' => AttributionConserves
<1> SUFFICES ASSUME FormsTyped, FormsTyped', posted' = posted
             PROVE  /\ (\A e \in Journal : moved'[e] # moved[e] =>
                            \A k \in {"vat", "input"} : Restated[e][k] = OwnAmount[e][k]) =>
                          EveryQuarter' = EveryQuarter
                    /\ Records347' = Records347
                    /\ \A q \in Working : Lines349(q)' = Lines349(q)
  BY DEF AttributionConserves
<1>1. Loaded' = Loaded
  BY DEF Loaded
<1>2. ASSUME \A e \in Journal : moved'[e] # moved[e] =>
                 \A k \in {"vat", "input"} : Restated[e][k] = OwnAmount[e][k]
      PROVE  EveryQuarter' = EveryQuarter
  <2>1. ASSUME NEW e \in Journal PROVE Effect(e)' = Effect(e)
    BY <1>2 DEF Effect, AmountFor
  <2>2. EffectOf' = EffectOf
    BY <2>1 DEF EffectOf
  <2>3. VatRows' = VatRows
    BY <1>1 DEF VatRows, Flagged
  <2>4. EveryQuarter = SumOf(EffectOf, VatRows)
    BY EveryQuarterIs
  <2>5. (EveryQuarter = SumOf(EffectOf, VatRows))'
    BY EveryQuarterIs, PTL
  <2> QED BY <2>2, <2>3, <2>4, <2>5
<1>3. Records347' = Records347
  <2>1. Rows347' = Rows347
    BY <1>1 DEF Rows347
  <2>2. ASSUME NEW g, NEW qs PROVE Declared(g, qs)' = Declared(g, qs)
    BY <2>1 DEF Declared
  <2> QED BY <2>1, <2>2 DEF Records347
<1>4. ASSUME NEW q \in Working PROVE Lines349(q)' = Lines349(q)
  <2>1. Rows349(q)' = Rows349(q)
    BY <1>1 DEF Rows349
  <2> QED BY <2>1 DEF Lines349
<1> QED BY <1>2, <1>3, <1>4

-----------------------------------------------------------------------------
(* The boxes of modelo 303 *)

AmountsOf(k) == [e \in Journal |-> AmountFor(e, "iva", k)]

LEMMA AmountsAreInt ==
    ASSUME NEW e \in Journal, NEW k \in {"base", "vat", "input", "held"}
    PROVE  AmountFor(e, "iva", k) \in Int /\ OwnAmount[e][k] \in Int
<1>1. Restated[e][k] \in Int
  BY FormsAssumption DEF FormsAssumption
<1>2. OwnAmount[e][k] \in Int
  <2>1. Value(Says(e, k), 0) \in Int
    BY FormsAssumption DEF FormsAssumption, Value, Says
  <2>2. OwnAmount[e][k] = Value(Says(e, k), 0)
    BY DEF OwnAmount
  <2> QED BY <2>1, <2>2
<1> QED BY <1>1, <1>2 DEF AmountFor

LEMMA SumIs ==
    ASSUME NEW T \in SUBSET Journal, NEW k \in {"base", "vat", "input"}
    PROVE  Sum("iva", T, k) = SumOf(AmountsOf(k), T)
<1> DEFINE own == [e \in T |-> AmountFor(e, "iva", k)]
<1>1. Sum("iva", T, k) = SumOf(own, T)
  BY DEF Sum, MapThenSumSet, MapThenFoldSet, SumOf
<1>2. IsFiniteSet(T) /\ \A e \in T : own[e] = AmountsOf(k)[e]
  BY FS_Subset, FormsConstants DEF AmountsOf
<1> HIDE DEF own
<1>3. SumOf(own, T) = SumOf(AmountsOf(k), T)
  BY <1>2, SumsAgree
<1> QED BY <1>1, <1>3

LEMMA RateKnown == ASSUME NEW e PROVE RateOf(e) \in {-1, 0, 4, 10, 21}
<1>1. ASSUME NEW S \in SUBSET {4, 10, 21}, S # {} PROVE Min(S) \in {4, 10, 21}
  <2>1. \E x \in S : \A y \in S : x <= y
    <3>1. CASE 4 \in S
      BY <3>1
    <3>2. CASE 4 \notin S /\ 10 \in S
      BY <3>2
    <3>3. CASE 4 \notin S /\ 10 \notin S
      <4>1. 21 \in S /\ \A y \in S : y = 21
        BY <1>1, <3>3
      <4> QED BY <4>1
    <3> QED BY <3>1, <3>2, <3>3
  <2> QED BY <2>1 DEF Min
<1> QED BY <1>1 DEF RateOf

\* Which box a row goes to, on the side of what is due and of what is deducted.
DueRows(T) == Outputs(T) \cup Acquired(T) \cup Reversed(T)
DueBox(e) ==
    IF Kind(e) = "income"
    THEN IF RateOf(e) = 0 THEN "b150" ELSE IF RateOf(e) = 4 THEN "b01"
         ELSE IF RateOf(e) = 10 THEN "b04" ELSE "b07"
    ELSE IF TaxCode[e] \in {"eu_service_expense", "eu_goods_expense"} THEN "b10" ELSE "b12"

InputRows(T) == Inputs(T) \cup Reversed(T) \cup Imports(T) \cup Acquired(T)
DeductibleRows(T) == {e \in InputRows(T) : AmountFor(e, "iva", "input") # 0}
DeductibleBox(e) ==
    IF TaxCode[e] \in {"eu_service_expense", "eu_goods_expense"}
    THEN IF Investment[e] THEN "b38" ELSE "b36"
    ELSE IF TaxCode[e] \in {"import_goods_expense", "import_service_expense"}
    THEN IF Investment[e] THEN "b34" ELSE "b32"
    ELSE IF Investment[e] THEN "b30" ELSE "b28"

LEMMA KindsAndCodes ==
    ASSUME NEW T \in SUBSET Journal
    PROVE  /\ \A e \in Outputs(T) : Kind(e) = "income"
           /\ \A e \in Acquired(T) : Kind(e) # "income" /\ TaxCode[e] \in {"eu_service_expense", "eu_goods_expense"}
           /\ \A e \in Reversed(T) : Kind(e) # "income" /\ TaxCode[e] \notin {"eu_service_expense", "eu_goods_expense"}
           /\ \A e \in Reversed(T) : TaxCode[e] \notin {"import_goods_expense", "import_service_expense"}
           /\ \A e \in Inputs(T) : TaxCode[e] \notin {"eu_service_expense", "eu_goods_expense"}
           /\ \A e \in Inputs(T) : TaxCode[e] \notin {"import_goods_expense", "import_service_expense"}
           /\ \A e \in Imports(T) : TaxCode[e] \notin {"eu_service_expense", "eu_goods_expense"}
           /\ \A e \in Imports(T) : TaxCode[e] \in {"import_goods_expense", "import_service_expense"}
           /\ Outputs(T) \subseteq T /\ Acquired(T) \subseteq T /\ Reversed(T) \subseteq T
           /\ Inputs(T) \subseteq T /\ Imports(T) \subseteq T
BY DEF Outputs, Acquired, Reversed, Inputs, Imports, Of

LEMMA DueByBox ==
    ASSUME NEW T \in SUBSET Journal, Classified(T)
    PROVE  \A b \in DueBoxes : BoxRows(T)[b] = {e \in DueRows(T) : DueBox(e) = b}
<1> DEFINE R == BoxRows(T)
<1>1. /\ R["b150"] = AtRate(T, 0) /\ R["b01"] = AtRate(T, 4)
      /\ R["b04"] = AtRate(T, 10) /\ R["b07"] = AtRate(T, 21)
      /\ R["b10"] = Acquired(T) /\ R["b12"] = Reversed(T)
  BY DEF BoxRows
<1>2. \A e \in Outputs(T) : RateOf(e) \in {0, 4, 10, 21}
  BY RateKnown DEF Classified
<1> HIDE DEF R
<1>3. /\ AtRate(T, 0) = {e \in DueRows(T) : DueBox(e) = "b150"}
      /\ AtRate(T, 4) = {e \in DueRows(T) : DueBox(e) = "b01"}
      /\ AtRate(T, 10) = {e \in DueRows(T) : DueBox(e) = "b04"}
      /\ AtRate(T, 21) = {e \in DueRows(T) : DueBox(e) = "b07"}
  BY <1>2, KindsAndCodes DEF AtRate, DueRows, DueBox
<1>4. /\ Acquired(T) = {e \in DueRows(T) : DueBox(e) = "b10"}
      /\ Reversed(T) = {e \in DueRows(T) : DueBox(e) = "b12"}
  BY KindsAndCodes DEF DueRows, DueBox
<1> QED BY <1>1, <1>3, <1>4 DEF DueBoxes, R

LEMMA DeductibleByBox ==
    ASSUME NEW T \in SUBSET Journal
    PROVE  \A b \in DeductibleBoxes :
              BoxRows(T)[b] = {e \in DeductibleRows(T) : DeductibleBox(e) = b}
<1> DEFINE R == BoxRows(T)
<1>1. /\ R["b28"] = Current303(Inputs(T) \cup Reversed(T))
      /\ R["b30"] = Assets303(Inputs(T) \cup Reversed(T))
      /\ R["b32"] = Current303(Imports(T)) /\ R["b34"] = Assets303(Imports(T))
      /\ R["b36"] = Current303(Acquired(T)) /\ R["b38"] = Assets303(Acquired(T))
  BY DEF BoxRows
<1> HIDE DEF R
<1>2. /\ Current303(Inputs(T) \cup Reversed(T)) = {e \in DeductibleRows(T) : DeductibleBox(e) = "b28"}
      /\ Assets303(Inputs(T) \cup Reversed(T)) = {e \in DeductibleRows(T) : DeductibleBox(e) = "b30"}
  BY KindsAndCodes DEF Current303, Assets303, Deducted, DeductibleRows, InputRows, DeductibleBox
<1>3. /\ Current303(Imports(T)) = {e \in DeductibleRows(T) : DeductibleBox(e) = "b32"}
      /\ Assets303(Imports(T)) = {e \in DeductibleRows(T) : DeductibleBox(e) = "b34"}
  BY KindsAndCodes DEF Current303, Assets303, Deducted, DeductibleRows, InputRows, DeductibleBox
<1>4. /\ Current303(Acquired(T)) = {e \in DeductibleRows(T) : DeductibleBox(e) = "b36"}
      /\ Assets303(Acquired(T)) = {e \in DeductibleRows(T) : DeductibleBox(e) = "b38"}
  BY KindsAndCodes DEF Current303, Assets303, Deducted, DeductibleRows, InputRows, DeductibleBox
<1> QED BY <1>1, <1>2, <1>3, <1>4 DEF DeductibleBoxes, R

LEMMA BoxesSum ==
    ASSUME NEW R, NEW B, NEW k
    PROVE  BoxSum(R, B, k) = SumOf([b \in B |-> Sum("iva", R[b], k)], B)
BY DEF BoxSum, MapThenSumSet, MapThenFoldSet, SumOf

\* Boxes that sort the rows of one side add up to that side.
LEMMA SideAddsUp ==
    ASSUME NEW B, IsFiniteSet(B), NEW T \in SUBSET Journal, NEW S \in SUBSET T,
           NEW box, NEW k \in {"base", "vat", "input"},
           \A b \in B : BoxRows(T)[b] = {e \in S : box[e] = b},
           \A e \in S : box[e] \in B
    PROVE  BoxSum(BoxRows(T), B, k) = SumOf(AmountsOf(k), S)
<1> DEFINE R == BoxRows(T)
           P == [b \in B |-> R[b]]
           sums == [b \in B |-> SumOf(AmountsOf(k), P[b])]
<1>1. ASSUME NEW b \in B PROVE Sum("iva", R[b], k) = sums[b]
  <2>1. R[b] \in SUBSET Journal
    OBVIOUS
  <2> HIDE DEF R
  <2>2. Sum("iva", R[b], k) = SumOf(AmountsOf(k), R[b])
    BY <2>1, SumIs
  <2> QED BY <2>2
<1>2. BoxSum(R, B, k) = SumOf(sums, B)
  <2> HIDE DEF R
  <2>1. BoxSum(R, B, k) = SumOf([b \in B |-> Sum("iva", R[b], k)], B)
    BY BoxesSum
  <2>2. [b \in B |-> Sum("iva", R[b], k)] = sums
    BY <1>1
  <2> QED BY <2>1, <2>2
<1>3. /\ P \in [B -> SUBSET S] /\ UNION {P[b] : b \in B} = S
      /\ \A b, c \in B : b # c => P[b] \cap P[c] = {}
  OBVIOUS
<1>4. IsFiniteSet(S) /\ Counts(AmountsOf(k), S)
  BY FS_Subset, FormsConstants, AmountsAreInt DEF Counts, AmountsOf
<1>5. SumOf(sums, B) = SumOf(AmountsOf(k), UNION {P[b] : b \in B})
  <2> HIDE DEF P
  <2> QED BY <1>3, <1>4, SumOfParts
<1> QED BY <1>2, <1>3, <1>5

LEMMA FormBoxesAddUp ==
    ASSUME NEW T \in SUBSET Journal, Classified(T)
    PROVE  /\ Due(T) = SumOf(AmountsOf("vat"), DueRows(T))
           /\ Deductible(T) = SumOf(AmountsOf("input"), DeductibleRows(T))
<1>1. DueRows(T) \in SUBSET T /\ DeductibleRows(T) \in SUBSET T
  BY KindsAndCodes DEF DueRows, DeductibleRows, InputRows
<1>2. IsFiniteSet(DueBoxes) /\ IsFiniteSet(DeductibleBoxes)
  <2>1. \A a, b, c, d, e, f : IsFiniteSet({a, b, c, d, e, f})
    <3> SUFFICES ASSUME NEW a, NEW b, NEW c, NEW d, NEW e, NEW f
                 PROVE  IsFiniteSet({a, b, c, d, e, f})
      OBVIOUS
    <3>0. \A S : IsFiniteSet(S) => \A x : IsFiniteSet(S \cup {x})
      BY FS_AddElement
    <3>1. IsFiniteSet(((((({} \cup {a}) \cup {b}) \cup {c}) \cup {d}) \cup {e}) \cup {f})
      BY FS_EmptySet, <3>0, Zenon
    <3>2. {a, b, c, d, e, f} = ((((({} \cup {a}) \cup {b}) \cup {c}) \cup {d}) \cup {e}) \cup {f}
      OBVIOUS
    <3> QED BY <3>1, <3>2
  <2> QED BY <2>1 DEF DueBoxes, DeductibleBoxes
<1> DEFINE dueOf == [e \in Journal |-> DueBox(e)]
           deductOf == [e \in Journal |-> DeductibleBox(e)]
<1>3. Due(T) = SumOf(AmountsOf("vat"), DueRows(T))
  <2>1. \A b \in DueBoxes : BoxRows(T)[b] = {e \in DueRows(T) : dueOf[e] = b}
    BY <1>1, DueByBox
  <2>2. \A e \in DueRows(T) : dueOf[e] \in DueBoxes
    BY <1>1 DEF DueBoxes, DueBox
  <2> HIDE DEF dueOf
  <2>3. BoxSum(BoxRows(T), DueBoxes, "vat") = SumOf(AmountsOf("vat"), DueRows(T))
    BY <1>1, <1>2, <2>1, <2>2, SideAddsUp
  <2> QED BY <2>3 DEF Due
<1>4. Deductible(T) = SumOf(AmountsOf("input"), DeductibleRows(T))
  <2>1. \A b \in DeductibleBoxes : BoxRows(T)[b] = {e \in DeductibleRows(T) : deductOf[e] = b}
    BY <1>1, DeductibleByBox
  <2>2. \A e \in DeductibleRows(T) : deductOf[e] \in DeductibleBoxes
    BY <1>1 DEF DeductibleBoxes, DeductibleBox
  <2> HIDE DEF deductOf
  <2>3. BoxSum(BoxRows(T), DeductibleBoxes, "input") = SumOf(AmountsOf("input"), DeductibleRows(T))
    BY <1>1, <1>2, <2>1, <2>2, SideAddsUp
  <2> QED BY <2>3 DEF Deductible
<1> QED BY <1>3, <1>4

\* A sum over some is the sum over all of them, nothing counted for the others.
LEMMA SumOfSome ==
    ASSUME NEW T, IsFiniteSet(T), NEW S \in SUBSET T, NEW g, NEW h, Counts(g, S),
           \A x \in T : h[x] = IF x \in S THEN g[x] ELSE 0
    PROVE  SumOf(g, S) = SumOf(h, T) /\ Counts(h, T)
<1>1. IsFiniteSet(S) /\ IsFiniteSet(T \ S) /\ S \cap (T \ S) = {} /\ S \cup (T \ S) = T
  BY FS_Subset
<1>2. Counts(h, S \cup (T \ S)) /\ Counts(h, T)
  BY DEF Counts
<1>3. SumOf(h, S \cup (T \ S)) = SumOf(h, S) + SumOf(h, T \ S)
  BY <1>1, <1>2, SumOfUnion
<1>4. SumOf(h, T \ S) = 0
  BY <1>1, SumOfZeros
<1>5. SumOf(g, S) = SumOf(h, S)
  BY <1>1, SumsAgree
<1>6. SumOf(g, S) \in Int
  BY <1>1, SumIsInt
<1>7. SumOf(h, S \cup (T \ S)) = SumOf(h, T)
  BY <1>1
<1>8. SumOf(g, S) = SumOf(h, T)
  BY <1>3, <1>4, <1>5, <1>6, <1>7
<1> QED BY <1>2, <1>8

LEMMA QuarterSums == FormsTyped => QuarterAddsUp
<1> SUFFICES ASSUME FormsTyped, NEW q \in Working, Ready303(q)
             PROVE  LET behind == BoxRows(Rows303(q)) IN
                    /\ Due(Rows303(q)) - Deductible(Rows303(q)) = RowByRow(q)
                    /\ \A side \in {DueBoxes, DeductibleBoxes} : \A b, c \in side :
                          b # c => behind[b] \cap behind[c] = {}
  BY DEF QuarterAddsUp
<1> DEFINE T == Rows303(q)
<1>1. T \in SUBSET Journal /\ IsFiniteSet(T) /\ Classified(T)
  BY FS_Subset, FormsConstants DEF Ready303, Rows303, Projected, Loaded
<1>2. RowByRow(q) = SumOf(EffectOf, T)
  BY RowByRowIs
<1> HIDE DEF T
<1> DEFINE vat == [e \in T |-> IF e \in DueRows(T) THEN AmountsOf("vat")[e] ELSE 0]
           input == [e \in T |-> IF e \in DeductibleRows(T) THEN AmountsOf("input")[e] ELSE 0]
<1>3. /\ DueRows(T) \in SUBSET T /\ DeductibleRows(T) \in SUBSET T
      /\ Counts(AmountsOf("vat"), DueRows(T)) /\ Counts(AmountsOf("input"), DeductibleRows(T))
  BY <1>1, KindsAndCodes, AmountsAreInt
     DEF DueRows, DeductibleRows, InputRows, Counts, AmountsOf
<1>4. SumOf(AmountsOf("vat"), DueRows(T)) = SumOf(vat, T) /\ Counts(vat, T)
  <2>1. \A e \in T : vat[e] = IF e \in DueRows(T) THEN AmountsOf("vat")[e] ELSE 0
    OBVIOUS
  <2> HIDE DEF vat
  <2> QED BY <1>1, <1>3, <2>1, SumOfSome
<1>5. SumOf(AmountsOf("input"), DeductibleRows(T)) = SumOf(input, T) /\ Counts(input, T)
  <2>1. \A e \in T : input[e] = IF e \in DeductibleRows(T) THEN AmountsOf("input")[e] ELSE 0
    OBVIOUS
  <2> HIDE DEF input
  <2> QED BY <1>1, <1>3, <2>1, SumOfSome
<1>6. ASSUME NEW e \in T PROVE vat[e] = EffectOf[e] + input[e]
  <2>1. /\ e \in Outputs(T) \cup Acquired(T) \cup Reversed(T) \cup Inputs(T) \cup Imports(T)
                      \cup Informed(T)
        /\ Kind(e) \in {"income", "expense"} /\ e \in Journal
    BY <1>1, FormsAssumption DEF Classified, FormsAssumption, Kind
  <2>2. /\ AmountFor(e, "iva", "vat") \in Int /\ AmountFor(e, "iva", "input") \in Int
        /\ AmountsOf("vat")[e] = AmountFor(e, "iva", "vat")
        /\ AmountsOf("input")[e] = AmountFor(e, "iva", "input")
        /\ EffectOf[e] = Effect(e)
    BY <2>1, AmountsAreInt DEF AmountsOf, EffectOf
  <2>3. e \in DueRows(T) <=> VatIsDue(e)
    BY <2>1 DEF DueRows, Outputs, Acquired, Reversed, Of, VatIsDue
  <2>4. e \in DeductibleRows(T) <=> Kind(e) = "expense" /\ AmountFor(e, "iva", "input") # 0
    BY <2>1 DEF DeductibleRows, InputRows, Inputs, Imports, Outputs, Acquired, Reversed, Informed, Supplied, Of
  <2> QED BY <2>2, <2>3, <2>4 DEF Effect
<1>7. Counts(EffectOf, T) /\ SumOf(EffectOf, T) \in Int
  <2>1. Counts(EffectOf, T)
    BY <1>1, EffectIsInt DEF Counts, EffectOf
  <2> QED BY <1>1, <2>1, SumIsInt
<1>8. SumOf(vat, T) = SumOf(EffectOf, T) + SumOf(input, T) /\ SumOf(input, T) \in Int
  <2> HIDE DEF vat, input
  <2> QED BY <1>1, <1>4, <1>5, <1>6, <1>7, SumsAdd, SumIsInt
<1>9. Due(T) - Deductible(T) = SumOf(EffectOf, T)
  <2> HIDE DEF vat, input
  <2> QED BY <1>1, <1>4, <1>5, <1>7, <1>8, FormBoxesAddUp
<1>10. ASSUME NEW side \in {DueBoxes, DeductibleBoxes}, NEW b \in side, NEW c \in side, b # c
       PROVE  BoxRows(T)[b] \cap BoxRows(T)[c] = {}
  BY <1>1, <1>10, DueByBox, DeductibleByBox
<1> QED BY <1>2, <1>9, <1>10 DEF T

-----------------------------------------------------------------------------
(* One form and another *)

OwnAmounts(k) == [e \in Journal |-> OwnAmount[e][k]]

LEMMA OwnSumIs ==
    ASSUME NEW T \in SUBSET Journal, NEW k
    PROVE  OwnSum(T, k) = SumOf(OwnAmounts(k), T)
<1> DEFINE own == [e \in T |-> OwnAmount[e][k]]
<1>1. OwnSum(T, k) = SumOf(own, T)
  BY DEF OwnSum, MapThenSumSet, MapThenFoldSet, SumOf
<1>2. IsFiniteSet(T) /\ \A e \in T : own[e] = OwnAmounts(k)[e]
  BY FS_Subset, FormsConstants DEF OwnAmounts
<1> HIDE DEF own
<1>3. SumOf(own, T) = SumOf(OwnAmounts(k), T)
  BY <1>2, SumsAgree
<1> QED BY <1>1, <1>3

LEMMA TotalSums ==
    ASSUME NEW q, NEW codes
    PROVE  Total349(q, codes) =
              SumOf([o \in {p \in DOMAIN Lines349(q) : p.code \in codes} |-> Lines349(q)[o]],
                    {p \in DOMAIN Lines349(q) : p.code \in codes})
BY DEF Total349, MapThenSumSet, MapThenFoldSet, SumOf

\* Modelo 349 declares the bases of its rows under those codes, whoever they
\* are from.
LEMMA TotalIs ==
    ASSUME NEW q, NEW codes
    PROVE  Total349(q, codes) = SumOf(OwnAmounts("base"), {e \in Rows349(q) : TaxCode[e] \in codes})
<1> DEFINE T == Rows349(q)
           K == {o \in DOMAIN Lines349(q) : o.code \in codes}
           P == [o \in K |-> {e \in T : Operation(e) = o}]
           S == {e \in T : TaxCode[e] \in codes}
           sums == [o \in K |-> SumOf(OwnAmounts("base"), P[o])]
<1>1. T \in SUBSET Journal /\ IsFiniteSet(T) /\ S \in SUBSET Journal /\ IsFiniteSet(S)
  BY FS_Subset, FormsConstants DEF Rows349, Loaded
<1>2. DOMAIN Lines349(q) = {Operation(e) : e \in T}
  BY DEF Lines349
<1>3. IsFiniteSet(K)
  <2>1. IsFiniteSet({Operation(e) : e \in T})
    <3> DEFINE O == {Operation(e) : e \in T}
               f == [e \in T |-> Operation(e)]
    <3>1. f \in Surjection(T, O)
      BY DEF Surjection
    <3> HIDE DEF f, O, T
    <3>2. IsFiniteSet(O)
      BY <1>1, <3>1, FS_Surjection
    <3> QED BY <3>2 DEF O
  <2> QED BY <1>2, <2>1, FS_Subset
<1>4. ASSUME NEW o \in K PROVE Lines349(q)[o] = sums[o]
  <2>1. Lines349(q)[o] = OwnSum({e \in T : Operation(e) = o}, "base")
    BY <1>2 DEF Lines349
  <2>2. P[o] \in SUBSET Journal
    BY <1>1
  <2> HIDE DEF T
  <2> QED BY <2>1, <2>2, OwnSumIs
<1>5. Total349(q, codes) = SumOf(sums, K)
  <2>1. [o \in K |-> Lines349(q)[o]] = sums
    BY <1>4
  <2> QED BY <2>1, TotalSums
<1>6. UNION {P[o] : o \in K} = S /\ P \in [K -> SUBSET S]
  <2>1. \A e \in T : Operation(e) \in DOMAIN Lines349(q) /\ Operation(e).code = TaxCode[e]
    BY <1>2 DEF Operation
  <2>2. \A o \in K : P[o] \in SUBSET S
    BY <2>1
  <2>3. \A e \in S : Operation(e) \in K /\ e \in P[Operation(e)]
    BY <2>1
  <2> QED BY <2>2, <2>3
<1>7. \A o, p \in K : o # p => P[o] \cap P[p] = {}
  OBVIOUS
<1>8. Counts(OwnAmounts("base"), S)
  BY <1>1, AmountsAreInt DEF Counts, OwnAmounts
<1>9. SumOf(sums, K) = SumOf(OwnAmounts("base"), S)
  <2> HIDE DEF P, K, S
  <2>1. SumOf(sums, K) = SumOf(OwnAmounts("base"), UNION {P[o] : o \in K})
    BY <1>1, <1>3, <1>6, <1>7, <1>8, SumOfParts
  <2> QED BY <1>6, <2>1
<1> QED BY <1>5, <1>9

LEMMA FormsSayTheSame == SaysTheSame
<1> SUFFICES ASSUME NEW q \in Working, Ready303(q),
                    \A e \in Rows349(q) \cup Rows303(q) : moved[e].iva = 0 /\ e \in Flagged.iva
             PROVE  /\ Total349(q, {"eu_service_income", "eu_goods_income"}) =
                         Sum("iva", BoxRows(Rows303(q)).b59, "base")
                    /\ Total349(q, {"eu_service_expense", "eu_goods_expense"}) =
                         Sum("iva", BoxRows(Rows303(q)).b10, "base")
  BY DEF SaysTheSame
<1> DEFINE T == Rows303(q)
<1>1. T \in SUBSET Journal /\ Rows349(q) \in SUBSET Journal
  BY DEF Rows303, Projected, Rows349, Loaded
<1>2. BoxRows(T).b59 = Supplied(T) /\ BoxRows(T).b10 = Acquired(T)
  BY DEF BoxRows
<1>3. \A e \in Journal :
         e \in T <=> e \in Loaded /\ e \in Flagged.iva /\ EffectiveDate(e, "iva") = q
  <2>1. Flagged["iva"] = Flagged.iva
    OBVIOUS
  <2> QED BY <2>1 DEF Rows303, Projected
<1>4. ASSUME NEW e \in T PROVE posted[e] = q /\ e \in Loaded
  <2>1. moved[e].iva = 0
    OBVIOUS
  <2>2. moved[e]["iva"] = moved[e].iva
    OBVIOUS
  <2> HIDE DEF T
  <2> QED BY <1>1, <1>3, <2>1, <2>2 DEF EffectiveDate
<1>5. ASSUME NEW e \in Rows349(q) PROVE e \in T
  <2>1. e \in Journal /\ e \in Loaded /\ posted[e] = q
    BY DEF Rows349, Loaded
  <2>2. moved[e].iva = 0 /\ e \in Flagged.iva /\ moved[e]["iva"] = moved[e].iva
    OBVIOUS
  <2> HIDE DEF T
  <2> QED BY <1>3, <2>1, <2>2 DEF EffectiveDate
<1>6. Classified(T)
  BY DEF Ready303
<1>7. ASSUME NEW S \in SUBSET T PROVE Sum("iva", S, "base") = SumOf(OwnAmounts("base"), S)
  <2>1. Sum("iva", S, "base") = SumOf(AmountsOf("base"), S) /\ S \in SUBSET Journal /\ IsFiniteSet(S)
    <3>1. S \in SUBSET Journal /\ IsFiniteSet(S)
      BY <1>1, FS_Subset, FormsConstants
    <3>2. "base" \in {"base", "vat", "input"}
      OBVIOUS
    <3> QED BY <3>1, <3>2, SumIs
  <2>2. \A e \in S : AmountsOf("base")[e] = OwnAmounts("base")[e]
    <3>1. ASSUME NEW e \in S PROVE moved[e]["iva"] = 0
      <4>1. moved[e].iva = 0
        OBVIOUS
      <4> QED BY <4>1
    <3> QED BY <2>1, <3>1 DEF AmountsOf, OwnAmounts, AmountFor
  <2> QED BY <2>1, <2>2, SumsAgree
<1> HIDE DEF T
<1>8. Supplied(T) = {e \in Rows349(q) : TaxCode[e] \in {"eu_service_income", "eu_goods_income"}}
  <2>1. ASSUME NEW e \in Supplied(T)
        PROVE  e \in Rows349(q) /\ TaxCode[e] \in {"eu_service_income", "eu_goods_income"}
    BY <1>4 DEF Supplied, Of, Rows349
  <2>2. ASSUME NEW e \in Rows349(q), TaxCode[e] \in {"eu_service_income", "eu_goods_income"}
        PROVE  e \in Supplied(T)
    BY <1>5, <1>6, <2>2 DEF Classified, Outputs, Acquired, Reversed, Inputs, Imports, Informed, Supplied, Of
  <2> QED BY <2>1, <2>2
<1>9. Acquired(T) = {e \in Rows349(q) : TaxCode[e] \in {"eu_service_expense", "eu_goods_expense"}}
  <2>1. ASSUME NEW e \in Acquired(T)
        PROVE  e \in Rows349(q) /\ TaxCode[e] \in {"eu_service_expense", "eu_goods_expense"}
    BY <1>4 DEF Acquired, Of, Rows349
  <2>2. ASSUME NEW e \in Rows349(q), TaxCode[e] \in {"eu_service_expense", "eu_goods_expense"}
        PROVE  e \in Acquired(T)
    BY <1>5, <1>6, <2>2 DEF Classified, Outputs, Acquired, Reversed, Inputs, Imports, Informed, Supplied, Of
  <2> QED BY <2>1, <2>2
<1>10. Supplied(T) \in SUBSET T /\ Acquired(T) \in SUBSET T
  BY DEF Supplied, Acquired, Of
<1>11. Total349(q, {"eu_service_income", "eu_goods_income"}) = Sum("iva", Supplied(T), "base")
  BY <1>7, <1>8, <1>10, TotalIs
<1>12. Total349(q, {"eu_service_expense", "eu_goods_expense"}) = Sum("iva", Acquired(T), "base")
  BY <1>7, <1>9, <1>10, TotalIs
<1> QED BY <1>2, <1>11, <1>12 DEF T

LEMMA HeldSums ==
    ASSUME NEW type
    PROVE  HeldByQuarter(type) = SumOf([q \in 1..4 |-> OwnSum(Withheld(type, q), "held")], 1..4)
BY DEF HeldByQuarter, MapThenSumSet, MapThenFoldSet, SumOf

LEMMA WithholdingsAddUp == FormsTyped => WithheldAddsUp
<1> SUFFICES ASSUME FormsTyped, NEW type
             PROVE  OwnSum(WithheldInYear(type), "held") = HeldByQuarter(type)
  BY DEF WithheldAddsUp
<1> DEFINE S == WithheldInYear(type)
           P == [q \in 1..4 |-> Withheld(type, q)]
           sums == [q \in 1..4 |-> SumOf(OwnAmounts("held"), P[q])]
<1>1. S \in SUBSET Journal /\ IsFiniteSet(S) /\ Counts(OwnAmounts("held"), S)
  <2>1. S \in SUBSET Journal
    BY DEF WithheldInYear, Loaded
  <2> HIDE DEF S
  <2>2. IsFiniteSet(S)
    BY <2>1, FS_Subset, FormsConstants
  <2>3. Counts(OwnAmounts("held"), S)
    BY <2>1, AmountsAreInt DEF Counts, OwnAmounts
  <2> QED BY <2>1, <2>2, <2>3
<1>2. P \in [1..4 -> SUBSET S] /\ UNION {P[q] : q \in 1..4} = S
  <2>1. \A e \in S : posted[e] \in 1..4
    BY DEF FormsTyped, WithheldInYear, Loaded
  <2>2. \A q \in 1..4 : P[q] = {e \in S : posted[e] = q}
    BY DEF Withheld, WithheldInYear
  <2>3. P = [q \in 1..4 |-> P[q]]
    OBVIOUS
  <2> HIDE DEF P, S
  <2>4. \A q \in 1..4 : P[q] \in SUBSET S
    BY <2>2
  <2>5. UNION {P[q] : q \in 1..4} = S
    BY <2>1, <2>2
  <2> QED BY <2>3, <2>4, <2>5
<1>3. \A q, r \in 1..4 : q # r => P[q] \cap P[r] = {}
  BY DEF Withheld
<1>4. HeldByQuarter(type) = SumOf(sums, 1..4)
  <2>1. ASSUME NEW q \in 1..4 PROVE OwnSum(Withheld(type, q), "held") = sums[q]
    <3>1. Withheld(type, q) \in SUBSET Journal
      BY DEF Withheld, Loaded
    <3> QED BY <3>1, OwnSumIs
  <2>2. [q \in 1..4 |-> OwnSum(Withheld(type, q), "held")] = sums
    BY <2>1
  <2> QED BY <2>2, HeldSums
<1>5. IsFiniteSet(1..4)
  <2>1. PICK a \in Int, b \in Int : a = 1 /\ b = 4
    OBVIOUS
  <2>2. IsFiniteSet(a..b)
    BY FS_Interval
  <2> QED BY <2>1, <2>2, Zenon
<1>6. SumOf(sums, 1..4) = SumOf(OwnAmounts("held"), S)
  <2> HIDE DEF P, S
  <2>1. SumOf(sums, 1..4) = SumOf(OwnAmounts("held"), UNION {P[q] : q \in 1..4})
    BY <1>1, <1>2, <1>3, <1>5, SumOfParts
  <2> QED BY <1>2, <2>1
<1>7. OwnSum(S, "held") = SumOf(OwnAmounts("held"), S)
  <2> HIDE DEF S
  <2> QED BY <1>1, OwnSumIs
<1> QED BY <1>4, <1>6, <1>7

LEMMA FormsHold == FormsTyped => FormsInv
BY QuarterSums, FormsSayTheSame, WithholdingsAddUp DEF FormsInv, FormsTyped, IncomeAgrees, Income100, Income130

-----------------------------------------------------------------------------
(* The returns: quarters of a year *)

LEMMA ReturnsConstants ==
    /\ Periods \in Nat /\ Periods > 0 /\ YearLength \in Nat /\ YearLength > 0 /\ MaxReturns \in Nat
    /\ Figures130 \subseteq Nat \X Nat \X Nat /\ Figures303 \subseteq Int
    /\ Due303 \subseteq Span
    /\ Formats \subseteq {"full", "boxes", "settlement", "result"}
BY ReturnsAssumption DEF ReturnsAssumption, Span

LEMMA Dividing ==
    ASSUME NEW n \in Nat, NEW d \in Nat, d > 0
    PROVE  /\ n \div d \in Nat /\ (n \div d) * d \in Nat
           /\ (n \div d) * d <= n /\ n < (n \div d) * d + d
OBVIOUS

\* A division is told by its bounds.
LEMMA DividesAs ==
    ASSUME NEW n \in Nat, NEW d \in Nat, d > 0, NEW k \in Nat, k * d <= n, n < k * d + d
    PROVE  n \div d = k
<1>1. PICK m \in Nat : m = n \div d
  BY Dividing
<1>2. m * d <= n /\ n < m * d + d /\ m * d \in Nat /\ k * d \in Nat
  BY <1>1, Dividing
<1>3. ~(m < k)
  <2> SUFFICES ASSUME m < k PROVE FALSE
    OBVIOUS
  <2>1. PICK e \in Nat : k = m + 1 + e
    <3>1. k - m - 1 \in Nat /\ k = m + 1 + (k - m - 1)
      OBVIOUS
    <3> QED BY <3>1
  <2>2. k * d = m * d + d + e * d /\ e * d \in Nat
    BY <2>1
  <2> QED BY <1>2, <2>2
<1>4. ~(k < m)
  <2> SUFFICES ASSUME k < m PROVE FALSE
    OBVIOUS
  <2>1. PICK e \in Nat : m = k + 1 + e
    <3>1. m - k - 1 \in Nat /\ m = k + 1 + (m - k - 1)
      OBVIOUS
    <3> QED BY <3>1
  <2>2. m * d = k * d + d + e * d /\ e * d \in Nat
    BY <2>1
  <2> QED BY <1>2, <2>2
<1> QED BY <1>1, <1>3, <1>4

LEMMA FirstOfYear ==
    ASSUME NEW q \in Span
    PROVE  /\ FirstOf(q) \in 1..q /\ q \in Nat
           /\ \A j \in FirstOf(q)..q : FirstOf(j) = FirstOf(q) /\ j \in Span
<1>0. q \in Nat /\ q > 0 /\ q - 1 \in Nat
  BY ReturnsConstants DEF Span
<1>1. PICK k \in Nat : k = (q - 1) \div YearLength
  BY <1>0, Dividing, ReturnsConstants
<1>2. k * YearLength \in Nat /\ k * YearLength <= q - 1 /\ q - 1 < k * YearLength + YearLength
  BY <1>0, <1>1, Dividing, ReturnsConstants
<1>3. PICK b \in Nat : b = k * YearLength
  BY <1>2
<1>4. FirstOf(q) = b + 1
  BY <1>1, <1>3 DEF FirstOf
<1>5. b <= q - 1 /\ q - 1 < b + YearLength
  BY <1>2, <1>3
<1>6. ASSUME NEW j \in FirstOf(q)..q PROVE FirstOf(j) = FirstOf(q) /\ j \in Span
  <2>1. j \in Int /\ b + 1 <= j /\ j <= q
    BY <1>4
  <2>2. j - 1 \in Nat /\ b <= j - 1 /\ j - 1 < b + YearLength
    BY <1>0, <1>5, <2>1, ReturnsConstants
  <2>3. (j - 1) \div YearLength = k
    BY <1>3, <2>2, DividesAs, ReturnsConstants
  <2>4. FirstOf(j) = k * YearLength + 1
    BY <2>3 DEF FirstOf
  <2>5. j \in Span
    BY <1>0, <2>1, ReturnsConstants DEF Span
  <2> QED BY <1>3, <1>4, <2>4, <2>5, Zenon
<1> QED BY <1>0, <1>4, <1>5, <1>6

-----------------------------------------------------------------------------
(* Intervals *)

\* What begins somewhere and goes on one further reaches the end.
LEMMA StepByStep ==
    ASSUME NEW a \in Nat, NEW b \in Nat, NEW Good, a \in Good,
           \A n \in a..(b - 1) : n \in Good => n + 1 \in Good
    PROVE  \A n \in a..b : n \in Good
<1> DEFINE Bad == {n \in Nat : n \in a..b /\ n \notin Good}
<1> SUFFICES ASSUME Bad # {} PROVE FALSE
  OBVIOUS
<1>1. PICK n \in Bad : \A k \in Bad : n =< k
  BY LeastNatural
<1>2. n # a /\ n - 1 \in Nat /\ n - 1 \in a..(b - 1)
  OBVIOUS
<1>3. n - 1 \in Good
  BY <1>1, <1>2
<1> QED BY <1>2, <1>3

LEMMA SumOfInterval ==
    ASSUME NEW a \in Nat, NEW b \in Nat, NEW g
    PROVE  /\ IsFiniteSet(a..b)
           /\ a <= b /\ Counts(g, a..b) => SumOf(g, a..b) = SumOf(g, a..(b - 1)) + g[b]
           /\ SumOf(g, a..(a - 1)) = 0
<1>1. a..(a - 1) = {}
  OBVIOUS
<1>2. IsFiniteSet(a..b)
  BY FS_Interval
<1>3. ASSUME a <= b, Counts(g, a..b) PROVE SumOf(g, a..b) = SumOf(g, a..(b - 1)) + g[b]
  <2>1. b \in a..b /\ (a..b) \ {b} = a..(b - 1)
    BY <1>3
  <2>2. SumOf(g, a..b) = SumOf(g, (a..b) \ {b}) + g[b]
    BY <1>2, <1>3, <2>1, SumWithOne
  <2> QED BY <2>1, <2>2
<1> QED BY <1>1, <1>2, <1>3, SumOfNone

LEMMA MaxIs ==
    ASSUME NEW S \in SUBSET Int, NEW m \in S, \A y \in S : y <= m
    PROVE  Max(S) = m
<1>1. \E x \in S : \A y \in S : x >= y
  OBVIOUS
<1>2. Max(S) \in S /\ \A y \in S : Max(S) >= y
  BY <1>1 DEF Max
<1>3. PICK x : x = Max(S)
  OBVIOUS
<1>4. x \in Int /\ x >= m /\ x <= m /\ m \in Int
  BY <1>2, <1>3
<1> QED BY <1>3, <1>4

LEMMA MinIs ==
    ASSUME NEW S \in SUBSET Nat, S # {}
    PROVE  Min(S) \in S /\ \A y \in S : Min(S) <= y
BY LeastNatural DEF Min

LEMMA SpanIsFinite == IsFiniteSet(Span)
BY FS_Interval, ReturnsConstants DEF Span

LEMMA PosNat == \A x \in Int : Pos(x) \in Nat /\ (x >= 0 => Pos(x) = x) /\ (x <= 0 => Pos(x) = 0)
BY DEF Pos

-----------------------------------------------------------------------------
(* Modelo 130 *)

Return130(q) == [b04 : Nat, b06 : Nat, b07 : Int, b15 : Nat, b19 : Int, saw : [1..(q - 1) -> Nat]]
Shape130 == DOMAIN filed130 = Span /\ \A q \in Span : filed130[q] \in Seq(Return130(q))

\* A return tells what it would tell now, unless one it depends on came later.
Told130(q) ==
    /\ \A j \in 1..(q - 1) : Current130(q).saw[j] <= Len(filed130[j])
    /\ (\A j \in EarlierInYear(q) : Current130(q).saw[j] = Len(filed130[j])) =>
          /\ Current130(q).b07 = Current130(q).b04 - PreviousPositive(q) - Current130(q).b06
          /\ Current130(q).b15 <= Carry[q]
Inv130 == Shape130 /\ \A q \in Span : filed130[q] # <<>> => Told130(q)

LEMMA NewestIs ==
    ASSUME Shape130, NEW q \in Span, filed130[q] # <<>>
    PROVE  /\ Current130(q) \in Return130(q)
           /\ Current130(q).b04 \in Nat /\ Current130(q).b06 \in Nat /\ Current130(q).b07 \in Int
           /\ Current130(q).b15 \in Nat /\ Current130(q).b19 \in Int
           /\ Current130(q).saw \in [1..(q - 1) -> Nat]
<1>1. Current130(q) \in Return130(q)
  BY DEF Shape130, Current130
<1> QED BY <1>1 DEF Return130

Paid130 == [j \in Span |-> Pos(Current130(j).b07)]
Used130 == [j \in Span |-> Current130(j).b15]
Lost130 == [j \in Span |-> Pos(-Current130(j).b19)]

LEMMA Sums130 ==
    \A T \in SUBSET Span :
       /\ Instalments(T) = SumOf(Paid130, T)
       /\ DeductedIn(T) = SumOf(Used130, T)
       /\ NegativeIn(T) = SumOf(Lost130, T)
<1> SUFFICES ASSUME NEW T \in SUBSET Span
             PROVE  /\ Instalments(T) = SumOf(Paid130, T)
                    /\ DeductedIn(T) = SumOf(Used130, T)
                    /\ NegativeIn(T) = SumOf(Lost130, T)
  OBVIOUS
<1> DEFINE paid == [j \in T |-> Pos(Current130(j).b07)]
           used == [j \in T |-> Current130(j).b15]
           lost == [j \in T |-> Pos(-Current130(j).b19)]
<1>1. /\ Instalments(T) = SumOf(paid, T) /\ DeductedIn(T) = SumOf(used, T)
      /\ NegativeIn(T) = SumOf(lost, T)
  BY DEF Instalments, DeductedIn, NegativeIn, MapThenSumSet, MapThenFoldSet, SumOf
<1>2. IsFiniteSet(T)
  BY SpanIsFinite, FS_Subset
<1>3. \A j \in T : paid[j] = Paid130[j] /\ used[j] = Used130[j] /\ lost[j] = Lost130[j]
  BY DEF Paid130, Used130, Lost130
<1> HIDE DEF paid, used, lost
<1> QED BY <1>1, <1>2, <1>3, SumsAgree

PreviousSums == \A q \in Span : PreviousPositive(q) = SumOf(Paid130, With130(q))

LEMMA PreviousIs == PreviousSums
<1> SUFFICES ASSUME NEW q \in Span PROVE PreviousPositive(q) = SumOf(Paid130, With130(q))
  BY DEF PreviousSums
<1>1. With130(q) \in SUBSET Span
  BY FirstOfYear, ReturnsConstants DEF With130, EarlierInYear, Span
<1> QED BY <1>1, Sums130 DEF PreviousPositive

\* What a quarter has to deduct, given what the others have.
CarryStep(f, q) ==
    IF q = FirstOf(q) THEN 0
    ELSE IF filed130[q - 1] = <<>> THEN f[q - 1]
    ELSE CarryAfter(f[q - 1], Current130(q - 1))

LEMMA CarryExists == \A n \in 0..Periods : \E f : f = [q \in 1..n |-> CarryStep(f, q)]
<1> DEFINE Good == {n \in Nat : \E f : f = [q \in 1..n |-> CarryStep(f, q)]}
<1>1. 0 \in Good
  <2>1. [q \in 1..0 |-> 0] = [q \in 1..0 |-> CarryStep([p \in 1..0 |-> 0], q)]
    OBVIOUS
  <2> QED BY <2>1
<1>2. ASSUME NEW n \in 0..(Periods - 1), n \in Good PROVE n + 1 \in Good
  <2>0. n \in Nat /\ n + 1 \in Span
    BY ReturnsConstants DEF Span
  <2>1. PICK f : f = [q \in 1..n |-> CarryStep(f, q)]
    BY <1>2
  <2> DEFINE h == [q \in 1..(n + 1) |-> CarryStep(f, q)]
  <2>2. ASSUME NEW q \in 1..(n + 1) PROVE h[q] = CarryStep(h, q)
    <3>1. CASE q = FirstOf(q)
      BY <3>1 DEF CarryStep
    <3>2. CASE q # FirstOf(q)
      <4>0. q \in Span
        BY <2>0, ReturnsConstants DEF Span
      <4>1. FirstOf(q) \in 1..q
        BY <4>0, FirstOfYear
      <4>2. q - 1 \in 1..n /\ q - 1 \in 1..(n + 1)
        BY <2>0, <3>2, <4>1
      <4>3. f[q - 1] = CarryStep(f, q - 1)
        BY <2>1, <4>2, Zenon
      <4>4. h[q - 1] = f[q - 1]
        BY <4>2, <4>3
      <4>5. h[q] = CarryStep(f, q)
        OBVIOUS
      <4> HIDE DEF h
      <4> QED BY <4>4, <4>5 DEF CarryStep
    <3> QED BY <3>1, <3>2
  <2>3. h = [q \in 1..(n + 1) |-> CarryStep(h, q)]
    <3>1. h = [q \in 1..(n + 1) |-> h[q]]
      OBVIOUS
    <3> HIDE DEF h
    <3> QED BY <2>2, <3>1
  <2>4. \E g : g = [q \in 1..(n + 1) |-> CarryStep(g, q)]
    <3> HIDE DEF h
    <3> QED BY <2>3
  <2> QED BY <2>0, <2>4
<1>3. Periods \in Nat /\ 0 \in Nat
  BY ReturnsConstants
<1> HIDE DEF Good
<1>4. \A n \in 0..Periods : n \in Good
  BY <1>1, <1>2, <1>3, StepByStep
<1> QED BY <1>4 DEF Good

CarryFollows == \A q \in Span : Carry[q] = CarryStep(Carry, q)

LEMMA CarryIs == CarryFollows
<1>1. \E f : f = [q \in Span |-> CarryStep(f, q)]
  <2>1. Periods \in 0..Periods
    BY ReturnsConstants
  <2> QED BY <2>1, CarryExists DEF Span
<1>2. Carry = [q \in Span |-> CarryStep(Carry, q)]
  BY <1>1 DEF Carry, CarryStep
<1>3. \A q \in Span : Carry[q] = CarryStep(Carry, q)
  BY <1>2, Zenon
<1> QED BY <1>3 DEF CarryFollows

LEMMA CarryIsNat == Shape130 => \A q \in Span : Carry[q] \in Nat
<1> SUFFICES ASSUME Shape130, NEW q \in Span PROVE Carry[q] \in Nat
  OBVIOUS
<1> DEFINE Good == {n \in Nat : Carry[n] \in Nat}
<1>0. /\ q \in Nat /\ FirstOf(q) \in 1..q /\ FirstOf(q) \in Nat
      /\ \A j \in FirstOf(q)..q : FirstOf(j) = FirstOf(q) /\ j \in Span
  BY FirstOfYear
<1>1. FirstOf(q) \in Good
  <2>1. Carry[FirstOf(q)] = CarryStep(Carry, FirstOf(q)) /\ FirstOf(FirstOf(q)) = FirstOf(q)
    BY <1>0, CarryIs DEF CarryFollows
  <2> QED BY <1>0, <2>1 DEF CarryStep
<1>2. ASSUME NEW n \in FirstOf(q)..(q - 1), n \in Good PROVE n + 1 \in Good
  <2>1. n \in Nat /\ n + 1 \in FirstOf(q)..q /\ n \in FirstOf(q)..q /\ (n + 1) - 1 = n
    BY <1>0
  <2>2. n \in Span /\ n + 1 \in Span
    BY <1>0, <2>1
  <2>3. Carry[n + 1] = CarryStep(Carry, n + 1)
    BY <2>2, CarryIs DEF CarryFollows
  <2>4. filed130[n] # <<>> => CarryAfter(Carry[n], Current130(n)) \in Nat
    <3> SUFFICES ASSUME filed130[n] # <<>> PROVE CarryAfter(Carry[n], Current130(n)) \in Nat
      OBVIOUS
    <3>1. Current130(n).b15 \in Nat /\ Current130(n).b19 \in Int
      BY <2>2, NewestIs
    <3>2. PICK c \in Nat : c = Carry[n]
      BY <1>2
    <3>3. Pos(-Current130(n).b19) \in Nat /\ Pos(Current130(n).b15) \in Nat
      BY <3>1, PosNat
    <3> QED BY <3>2, <3>3, PosNat DEF CarryAfter
  <2> QED BY <1>2, <2>1, <2>3, <2>4 DEF CarryStep
<1> HIDE DEF Good
<1>3. \A n \in FirstOf(q)..q : n \in Good
  BY <1>0, <1>1, <1>2, StepByStep
<1> QED BY <1>0, <1>3 DEF Good

LEMMA PreviousIsInt == Shape130 => \A q \in Span : PreviousPositive(q) \in Int
<1> SUFFICES ASSUME Shape130, NEW q \in Span PROVE PreviousPositive(q) \in Int
  OBVIOUS
<1>1. With130(q) \in SUBSET Span /\ IsFiniteSet(With130(q))
  <2>1. With130(q) \in SUBSET Span
    BY FirstOfYear, ReturnsConstants DEF With130, EarlierInYear, Span
  <2> QED BY <2>1, SpanIsFinite, FS_Subset
<1>2. Counts(Paid130, With130(q))
  BY <1>1, NewestIs, PosNat DEF Counts, Paid130, With130
<1> QED BY <1>1, <1>2, SumIsInt, PreviousIs DEF PreviousSums

\* What a return is calculated from: the year before it.
LEMMA Untouched130 ==
    ASSUME NEW q \in Span, \A j \in EarlierInYear(q) : filed130'[j] = filed130[j]
    PROVE  PreviousPositive(q)' = PreviousPositive(q) /\ Carry'[q] = Carry[q]
<1>0. /\ q \in Nat /\ FirstOf(q) \in 1..q /\ FirstOf(q) \in Nat
      /\ \A j \in FirstOf(q)..q : FirstOf(j) = FirstOf(q) /\ j \in Span
  BY FirstOfYear
<1>1. PreviousPositive(q)' = PreviousPositive(q)
  <2>1. PreviousSums'
    BY PreviousIs, PTL
  <2>2. With130(q)' = With130(q)
    BY DEF With130
  <2>3. With130(q) \in SUBSET Span /\ IsFiniteSet(With130(q))
    <3>1. With130(q) \in SUBSET Span
      BY <1>0 DEF With130, EarlierInYear
    <3> QED BY <3>1, SpanIsFinite, FS_Subset
  <2>4. \A j \in With130(q) : Paid130'[j] = Paid130[j]
    BY <2>3 DEF With130, Paid130, Current130
  <2>5. SumOf(Paid130', With130(q)) = SumOf(Paid130, With130(q))
    BY <2>3, <2>4, SumsAgree
  <2>6. PreviousPositive(q)' = SumOf(Paid130', With130(q)')
    BY <2>1 DEF PreviousSums
  <2> QED BY <2>2, <2>5, <2>6, PreviousIs DEF PreviousSums
<1>2. Carry'[q] = Carry[q]
  <2> DEFINE Good == {n \in Nat : Carry'[n] = Carry[n]}
  <2>1. CarryFollows'
    BY CarryIs, PTL
  <2>2. FirstOf(q) \in Good
    <3>1. FirstOf(q) \in Span /\ FirstOf(FirstOf(q)) = FirstOf(q)
      BY <1>0
    <3>2. Carry[FirstOf(q)] = 0
      BY <3>1, CarryIs DEF CarryStep, CarryFollows
    <3>3. Carry'[FirstOf(q)] = 0
      BY <2>1, <3>1 DEF CarryStep, CarryFollows
    <3> QED BY <1>0, <3>2, <3>3
  <2>3. ASSUME NEW n \in FirstOf(q)..(q - 1), n \in Good PROVE n + 1 \in Good
    <3>1. /\ n \in Nat /\ n + 1 \in FirstOf(q)..q /\ n \in FirstOf(q)..q /\ (n + 1) - 1 = n
          /\ n \in EarlierInYear(q)
      BY <1>0 DEF EarlierInYear
    <3>2. n \in Span /\ n + 1 \in Span
      BY <1>0, <3>1
    <3>3. Carry[n + 1] = CarryStep(Carry, n + 1)
      BY <3>2, CarryIs DEF CarryFollows
    <3>4. Carry'[n + 1] = CarryStep(Carry, n + 1)'
      BY <2>1, <3>2 DEF CarryFollows
    <3>5. CarryStep(Carry, n + 1)' = CarryStep(Carry, n + 1)
      BY <2>3, <3>1 DEF CarryStep, Current130, CarryAfter
    <3>6. n + 1 \in Nat
      BY <3>1
    <3> QED BY <3>3, <3>4, <3>5, <3>6
  <2> HIDE DEF Good
  <2>4. \A n \in FirstOf(q)..q : n \in Good
    BY <1>0, <2>2, <2>3, StepByStep
  <2> QED BY <1>0, <2>4 DEF Good
<1> QED BY <1>1, <1>2

\* A return before the others of its quarter.
LEMMA OneMore ==
    ASSUME NEW T, NEW s \in Seq(T), NEW x \in T
    PROVE  /\ <<x>> \o s \in Seq(T) /\ Len(<<x>> \o s) = Len(s) + 1
           /\ (<<x>> \o s)[1] = x /\ Len(s) \in Nat
OBVIOUS

LEMMA Calculated130 ==
    ASSUME Shape130, NEW q \in Span, NEW net \in Nat, NEW withheld \in Nat, NEW reduction \in Nat
    PROVE  LET r == Modelo130(q, net, withheld, reduction) IN
           /\ r \in Return130(q)
           /\ \A j \in 1..(q - 1) : r.saw[j] = Len(filed130[j])
           /\ r.b07 = r.b04 - PreviousPositive(q) - r.b06
           /\ r.b15 <= Carry[q]
<1> DEFINE r == Modelo130(q, net, withheld, reduction)
<1>1. PreviousPositive(q) \in Int /\ Carry[q] \in Nat
  BY PreviousIsInt, CarryIsNat
<1>2. \A j \in 1..(q - 1) : Len(filed130[j]) \in Nat
  <2>1. \A j \in 1..(q - 1) : j \in Span
    BY ReturnsConstants DEF Span
  <2> QED BY <2>1 DEF Shape130
<1>3. r.saw \in [1..(q - 1) -> Nat] /\ \A j \in 1..(q - 1) : r.saw[j] = Len(filed130[j])
  BY <1>2 DEF Modelo130, SawBefore
<1>4. /\ r.b04 \in Nat /\ r.b06 \in Nat /\ r.b07 \in Int /\ r.b15 \in Nat /\ r.b19 \in Int
      /\ r.b07 = r.b04 - PreviousPositive(q) - r.b06 /\ r.b15 <= Carry[q]
  BY <1>1 DEF Modelo130, Pos, Least
<1>5. r = [b04 |-> r.b04, b06 |-> r.b06, b07 |-> r.b07, b15 |-> r.b15, b19 |-> r.b19, saw |-> r.saw]
  BY DEF Modelo130
<1> HIDE DEF r
<1>6. r \in Return130(q)
  BY <1>3, <1>4, <1>5 DEF Return130
<1> QED BY <1>3, <1>4, <1>6 DEF r

\* Registering a modelo 130 leaves the returns of the other quarters as they are.
LEMMA Registers130 ==
    ASSUME Inv130, NEW p \in Span, NEW net \in Nat, NEW withheld \in Nat, NEW reduction \in Nat,
           Register130(p, net, withheld, reduction)
    PROVE  Inv130'
<1> DEFINE r == Modelo130(p, net, withheld, reduction)
<1>1. Shape130 /\ filed130' = [filed130 EXCEPT ![p] = <<r>> \o @]
  BY DEF Inv130, Register130
<1>2. /\ r \in Return130(p)
      /\ \A j \in 1..(p - 1) : r.saw[j] = Len(filed130[j])
      /\ r.b07 = r.b04 - PreviousPositive(p) - r.b06
      /\ r.b15 <= Carry[p]
  BY <1>1, Calculated130
<1> HIDE DEF r
<1>3. /\ filed130'[p] \in Seq(Return130(p)) /\ Len(filed130'[p]) = Len(filed130[p]) + 1
      /\ filed130'[p][1] = r /\ Len(filed130[p]) \in Nat
      /\ \A q \in Span : q # p => filed130'[q] = filed130[q]
      /\ DOMAIN filed130' = Span
  <2>1. filed130'[p] = <<r>> \o filed130[p] /\ filed130[p] \in Seq(Return130(p))
    BY <1>1 DEF Shape130
  <2> QED BY <1>1, <1>2, <2>1, OneMore DEF Shape130
<1>4. Shape130'
  <2> SUFFICES ASSUME NEW q \in Span PROVE filed130'[q] \in Seq(Return130(q))
    BY <1>3 DEF Shape130, Return130
  <2> QED BY <1>1, <1>3 DEF Shape130
<1>5. ASSUME NEW q \in Span, filed130'[q] # <<>> PROVE Told130(q)'
  <2>0. /\ q \in Nat /\ FirstOf(q) \in 1..q
        /\ \A j \in 1..(q - 1) : j \in Span /\ j # q /\ Len(filed130[j]) \in Nat
        /\ \A j \in EarlierInYear(q) : j \in 1..(q - 1)
    <3>1. q \in Nat /\ FirstOf(q) \in 1..q
      BY FirstOfYear
    <3>2. \A j \in 1..(q - 1) : j \in Span /\ j # q
      BY <3>1, ReturnsConstants DEF Span
    <3> QED BY <1>1, <3>1, <3>2 DEF Shape130, EarlierInYear
  <2>1. CASE q = p
    <3>1. \A j \in EarlierInYear(q) : filed130'[j] = filed130[j]
      BY <1>3, <2>0, <2>1
    <3>2. PreviousPositive(q)' = PreviousPositive(q) /\ Carry'[q] = Carry[q]
      BY <3>1, Untouched130
    <3>3. \A j \in 1..(q - 1) : r.saw[j] <= Len(filed130'[j])
      BY <1>2, <1>3, <2>0, <2>1
    <3> QED BY <1>2, <1>3, <2>1, <3>2, <3>3 DEF Told130, Current130
  <2>2. CASE q # p
    <3>1. filed130'[q] = filed130[q] /\ filed130[q] # <<>> /\ Current130(q)' = Current130(q)
      BY <1>3, <1>5, <2>2 DEF Current130
    <3>2. Told130(q)
      BY <3>1 DEF Inv130
    <3>3. Current130(q).saw \in [1..(q - 1) -> Nat]
      BY <1>1, <3>1, NewestIs
    <3>4. ASSUME NEW j \in 1..(q - 1)
          PROVE  /\ Current130(q).saw[j] <= Len(filed130'[j])
                 /\ j = p => Current130(q).saw[j] < Len(filed130'[j])
                 /\ j # p => filed130'[j] = filed130[j]
      <4>1. Current130(q).saw[j] <= Len(filed130[j]) /\ Current130(q).saw[j] \in Nat
        BY <3>2, <3>3 DEF Told130
      <4> QED BY <1>3, <2>0, <4>1
    <3>5. CASE p \in EarlierInYear(q)
      <4>1. p \in 1..(q - 1) /\ Current130(q).saw[p] # Len(filed130'[p])
        BY <1>3, <2>0, <3>3, <3>4, <3>5
      <4> QED BY <3>1, <3>4, <3>5, <4>1 DEF Told130
    <3>6. CASE p \notin EarlierInYear(q)
      <4>1. \A j \in EarlierInYear(q) : filed130'[j] = filed130[j]
        BY <2>0, <3>4, <3>6
      <4>2. PreviousPositive(q)' = PreviousPositive(q) /\ Carry'[q] = Carry[q]
        BY <4>1, Untouched130
      <4> QED BY <3>1, <3>2, <3>4, <4>1, <4>2 DEF Told130
    <3> QED BY <3>5, <3>6
  <2> QED BY <2>1, <2>2
<1>6. (\A q \in Span : filed130[q] # <<>> => Told130(q))'
  BY <1>5
<1> QED BY <1>4, <1>6 DEF Inv130

LEMMA Kept130 == Inv130 /\ UNCHANGED filed130 => Inv130'
<1> SUFFICES ASSUME Inv130, UNCHANGED filed130 PROVE Inv130'
  OBVIOUS
<1>1. Shape130'
  BY DEF Inv130, Shape130, Return130
<1>2. ASSUME NEW q \in Span, filed130'[q] # <<>> PROVE Told130(q)'
  <2>1. PreviousPositive(q)' = PreviousPositive(q) /\ Carry'[q] = Carry[q]
    BY Untouched130
  <2>2. Told130(q) /\ Current130(q)' = Current130(q)
    BY <1>2 DEF Inv130, Current130
  <2> QED BY <2>1, <2>2 DEF Told130
<1>3. (\A q \in Span : filed130[q] # <<>> => Told130(q))'
  BY <1>2
<1> QED BY <1>1, <1>3 DEF Inv130

\* Returns in order tell what follows from one another.
Settled130(year) ==
    \A j \in year :
        /\ filed130[j] # <<>>
        /\ PreviousPositive(j) = SumOf(Paid130, FirstOf(j)..(j - 1))
        /\ Current130(j).b07 = Current130(j).b04 - PreviousPositive(j) - Current130(j).b06
        /\ Current130(j).b15 <= Carry[j]

LEMMA InOrderSettled ==
    ASSUME Inv130, NEW q \in Span, InOrder(filed130, FirstOf(q)..q)
    PROVE  Settled130(FirstOf(q)..q)
<1>0. /\ q \in Nat /\ FirstOf(q) \in 1..q /\ FirstOf(q) \in Nat
      /\ \A j \in FirstOf(q)..q : FirstOf(j) = FirstOf(q) /\ j \in Span
  BY FirstOfYear
<1> SUFFICES ASSUME NEW j \in FirstOf(q)..q
             PROVE  /\ filed130[j] # <<>>
                    /\ PreviousPositive(j) = SumOf(Paid130, FirstOf(j)..(j - 1))
                    /\ Current130(j).b07 = Current130(j).b04 - PreviousPositive(j) - Current130(j).b06
                    /\ Current130(j).b15 <= Carry[j]
  BY DEF Settled130
<1>1. j \in Span /\ filed130[j] # <<>> /\ FirstOf(j) = FirstOf(q)
  BY <1>0 DEF InOrder
<1>2. \A i \in EarlierInYear(j) : i \in FirstOf(q)..q /\ i < j
  BY <1>0, <1>1 DEF EarlierInYear
<1>3. \A i \in EarlierInYear(j) : filed130[i] # <<>> /\ Current130(j).saw[i] = Len(filed130[i])
  BY <1>2 DEF InOrder, Current130
<1>4. With130(j) = FirstOf(j)..(j - 1)
  BY <1>3 DEF With130, EarlierInYear
<1>5. PreviousPositive(j) = SumOf(Paid130, FirstOf(j)..(j - 1))
  BY <1>1, <1>4, PreviousIs DEF PreviousSums
<1> QED BY <1>1, <1>3, <1>5 DEF Inv130, Told130

LEMMA InstalmentsAddUp == Inv130 => PaidOnce
<1> SUFFICES ASSUME Inv130, NEW q \in Span, InOrder(filed130, FirstOf(q)..q)
             PROVE  Instalments(FirstOf(q)..q) =
                      Max({0} \cup {Current130(j).b04 - Current130(j).b06 : j \in FirstOf(q)..q})
  BY DEF PaidOnce
<1> DEFINE a == FirstOf(q)
           taxed(j) == Current130(j).b04 - Current130(j).b06
           paid(n) == SumOf(Paid130, a..n)
           MostComplete(n) ==
              /\ paid(n) \in Int /\ paid(n) >= 0 /\ \A j \in a..n : taxed(j) <= paid(n)
              /\ paid(n) = 0 \/ \E j \in a..n : paid(n) = taxed(j)
           Good == {n \in Nat : MostComplete(n)}
<1>0. /\ q \in Nat /\ a \in 1..q /\ a \in Nat /\ a - 1 \in Nat
      /\ \A j \in a..q : FirstOf(j) = a /\ j \in Span
  BY FirstOfYear
<1>1. Settled130(a..q)
  BY InOrderSettled
<1>2. ASSUME NEW j \in a..q
      PROVE  /\ taxed(j) \in Int /\ Paid130[j] \in Nat
             /\ Paid130[j] = Pos(taxed(j) - paid(j - 1))
             /\ paid(j - 1) \in Int
  <2>1. j \in Span /\ filed130[j] # <<>> /\ FirstOf(j) = a
    BY <1>0, <1>1 DEF Settled130
  <2>2. Current130(j).b04 \in Nat /\ Current130(j).b06 \in Nat /\ Current130(j).b07 \in Int
    BY <2>1, NewestIs DEF Inv130
  <2>3. /\ PreviousPositive(j) = paid(j - 1) /\ PreviousPositive(j) \in Int
        /\ Current130(j).b07 = Current130(j).b04 - PreviousPositive(j) - Current130(j).b06
    BY <1>1, <2>1, PreviousIsInt DEF Settled130, Inv130
  <2>4. Current130(j).b07 = taxed(j) - paid(j - 1) /\ paid(j - 1) \in Int /\ taxed(j) \in Int
    BY <2>2, <2>3
  <2>5. Paid130[j] = Pos(Current130(j).b07)
    BY <2>1 DEF Paid130
  <2> QED BY <2>2, <2>4, <2>5, PosNat
<1> HIDE DEF a
<1>3. a - 1 \in Good
  <2>1. a..(a - 1) = {}
    BY <1>0
  <2>2. paid(a - 1) = 0
    BY <1>0, SumOfInterval
  <2> QED BY <1>0, <2>1, <2>2
<1>4. ASSUME NEW n \in (a - 1)..(q - 1), n \in Good PROVE n + 1 \in Good
  <2>1. n + 1 \in a..q /\ n + 1 \in Nat /\ (n + 1) - 1 = n /\ a <= n + 1 /\ n \in Int
    BY <1>0
  <2>2. Counts(Paid130, a..(n + 1))
    <3>1. \A j \in a..(n + 1) : j \in a..q
      BY <1>0, <2>1
    <3> QED BY <1>2, <3>1 DEF Counts
  <2>3. paid(n + 1) = paid(n) + Paid130[n + 1]
    <3>1. SumOf(Paid130, a..(n + 1)) = SumOf(Paid130, a..((n + 1) - 1)) + Paid130[n + 1]
      BY <1>0, <2>1, <2>2, SumOfInterval
    <3> QED BY <2>1, <3>1
  <2>4. PICK x \in Int : x = paid(n)
    BY <1>4
  <2>5. PICK y \in Int : y = taxed(n + 1)
    BY <1>2, <2>1
  <2>6. Paid130[n + 1] = Pos(y - x)
    <3>1. Paid130[n + 1] = Pos(taxed(n + 1) - paid((n + 1) - 1))
      BY <1>2, <2>1
    <3> QED BY <2>1, <2>4, <2>5, <3>1
  <2>7. paid(n + 1) = IF y > x THEN y ELSE x
    BY <2>3, <2>4, <2>6 DEF Pos
  <2>8. \A j \in a..(n + 1) : j \in a..n \/ j = n + 1
    BY <2>1
  <2>9. /\ x >= 0 /\ \A j \in a..n : taxed(j) <= x
        /\ x = 0 \/ \E j \in a..n : x = taxed(j)
    BY <1>4, <2>4
  <2>10. \A j \in a..n : taxed(j) \in Int /\ j \in a..(n + 1)
    BY <1>0, <1>2, <2>1
  <2> HIDE DEF taxed, paid
  <2>11. paid(n + 1) \in Int /\ paid(n + 1) >= 0
    BY <2>7, <2>9
  <2>12. \A j \in a..(n + 1) : taxed(j) <= paid(n + 1)
    BY <2>5, <2>7, <2>8, <2>9, <2>10
  <2>13. paid(n + 1) = 0 \/ \E j \in a..(n + 1) : paid(n + 1) = taxed(j)
    <3>1. n + 1 \in a..(n + 1)
      BY <1>0, <2>1
    <3> QED BY <2>5, <2>7, <2>9, <2>10, <3>1
  <2> QED BY <2>1, <2>11, <2>12, <2>13
<1>5. MostComplete(q)
  <2>1. q \in (a - 1)..q
    BY <1>0
  <2> HIDE DEF Good
  <2>2. q \in Good
    BY <1>0, <1>3, <1>4, <2>1, StepByStep
  <2> QED BY <2>2 DEF Good
<1>6. Instalments(a..q) = paid(q)
  BY <1>0, Sums130
<1>7. Max({0} \cup {taxed(j) : j \in a..q}) = paid(q)
  <2> DEFINE S == {0} \cup {taxed(j) : j \in a..q}
             m == paid(q)
  <2>1. m \in S /\ S \in SUBSET Int /\ \A y \in S : y <= m
    BY <1>2, <1>5
  <2> HIDE DEF S, m
  <2>2. Max(S) = m
    BY <2>1, MaxIs
  <2> QED BY <2>2 DEF S, m
<1> QED BY <1>6, <1>7 DEF a

LEMMA NegativesUsedOnce == Inv130 => CarryUsedOnce
<1> SUFFICES ASSUME Inv130, NEW q \in Span, InOrder(filed130, FirstOf(q)..q)
             PROVE  DeductedIn(FirstOf(q)..q) <= NegativeIn(EarlierInYear(q))
  BY DEF CarryUsedOnce
<1> DEFINE a == FirstOf(q)
           used(n) == SumOf(Used130, a..(n - 1))
           lost(n) == SumOf(Lost130, a..(n - 1))
           Good == {n \in Nat : used(n) \in Int /\ used(n) + Carry[n] = lost(n)}
<1>0. /\ q \in Nat /\ a \in 1..q /\ a \in Nat
      /\ \A j \in a..q : FirstOf(j) = a /\ j \in Span
  BY FirstOfYear
<1>1. Settled130(a..q)
  BY InOrderSettled
<1>2. ASSUME NEW j \in a..q
      PROVE  /\ j \in Span /\ filed130[j] # <<>> /\ Carry[j] \in Nat
             /\ Used130[j] = Current130(j).b15 /\ Used130[j] \in Nat /\ Used130[j] <= Carry[j]
             /\ Lost130[j] = Pos(-Current130(j).b19) /\ Lost130[j] \in Nat
  <2>1. j \in Span /\ filed130[j] # <<>> /\ Carry[j] \in Nat /\ Current130(j).b15 <= Carry[j]
    BY <1>0, <1>1, CarryIsNat DEF Settled130, Inv130
  <2>2. Current130(j).b15 \in Nat /\ Current130(j).b19 \in Int
    BY <2>1, NewestIs DEF Inv130
  <2> QED BY <2>1, <2>2, PosNat DEF Used130, Lost130
<1>c. Counts(Used130, a..q) /\ Counts(Lost130, a..q)
  BY <1>2 DEF Counts
<1> HIDE DEF a
<1>3. a \in Good
  <2>1. used(a) = 0 /\ lost(a) = 0
    BY <1>0, SumOfInterval
  <2>2. Carry[a] = 0
    <3>1. a \in Span /\ FirstOf(a) = a
      BY <1>0
    <3> QED BY <3>1, CarryIs DEF CarryFollows, CarryStep
  <2> QED BY <1>0, <2>1, <2>2
<1>s. ASSUME NEW n \in a..q
      PROVE  /\ SumOf(Used130, a..n) = used(n) + Used130[n]
             /\ SumOf(Lost130, a..n) = lost(n) + Lost130[n]
  <2>1. Counts(Used130, a..n) /\ Counts(Lost130, a..n) /\ n \in Nat /\ a <= n
    BY <1>0, <1>2 DEF Counts
  <2> QED BY <1>0, <2>1, SumOfInterval
<1>4. ASSUME NEW n \in a..(q - 1), n \in Good PROVE n + 1 \in Good
  <2>1. n \in a..q /\ n + 1 \in a..q /\ n + 1 \in Nat /\ (n + 1) - 1 = n /\ n + 1 # a
    BY <1>0
  <2>2. used(n + 1) = used(n) + Used130[n] /\ lost(n + 1) = lost(n) + Lost130[n]
    BY <1>s, <2>1
  <2>3. Carry[n + 1] = CarryAfter(Carry[n], Current130(n))
    <3>1. Carry[n + 1] = CarryStep(Carry, n + 1)
      BY <1>2, <2>1, CarryIs DEF CarryFollows
    <3>2. n + 1 # FirstOf(n + 1) /\ filed130[(n + 1) - 1] # <<>>
      BY <1>0, <1>2, <2>1
    <3> QED BY <2>1, <3>1, <3>2 DEF CarryStep
  <2>4. PICK c \in Nat, u \in Nat, l \in Nat :
           c = Carry[n] /\ u = Used130[n] /\ l = Lost130[n] /\ u <= c
    BY <1>2, <2>1
  <2>5. Carry[n + 1] = c + l - u
    <3>1. Pos(Current130(n).b15) = u /\ Pos(-Current130(n).b19) = l
      BY <1>2, <2>1, <2>4, PosNat
    <3>2. Carry[n + 1] = Pos(c + l - u)
      BY <2>3, <2>4, <3>1 DEF CarryAfter
    <3> QED BY <2>4, <3>2, PosNat
  <2>6. PICK x \in Int : x = used(n)
    BY <1>4
  <2>7. x + c = lost(n)
    BY <1>4, <2>4, <2>6
  <2> HIDE DEF used, lost
  <2>8. used(n + 1) = x + u /\ lost(n + 1) = x + c + l
    BY <2>2, <2>4, <2>6, <2>7
  <2> QED BY <2>1, <2>5, <2>8
<1>5. used(q) \in Int /\ used(q) + Carry[q] = lost(q)
  <2>1. q \in a..q
    BY <1>0
  <2> HIDE DEF Good
  <2>2. q \in Good
    BY <1>0, <1>3, <1>4, <2>1, StepByStep
  <2> QED BY <2>2 DEF Good
<1>6. DeductedIn(a..q) = used(q) + Used130[q] /\ NegativeIn(a..(q - 1)) = lost(q)
  <2>1. q \in a..q /\ a..q \in SUBSET Span /\ a..(q - 1) \in SUBSET Span
    BY <1>0
  <2> QED BY <1>s, <2>1, Sums130
<1>7. Used130[q] \in Nat /\ Used130[q] <= Carry[q] /\ Carry[q] \in Nat
  BY <1>0, <1>2
<1> HIDE DEF used, lost
<1>8. DeductedIn(a..q) <= NegativeIn(a..(q - 1))
  BY <1>5, <1>6, <1>7
<1> QED BY <1>8 DEF a, EarlierInYear

-----------------------------------------------------------------------------
(* Modelo 303 *)

\* A return, and its snapshot with the returns that its calculation had before it.
Form303 ==
    {r \in [figure : Int, b110 : Nat, b78 : Nat, b87 : Nat, b71 : Int, b72 : Nat, b73 : Nat,
            carry : Nat] :
        /\ r.carry = r.b87 + r.b72
        /\ Pos(-r.figure) + r.b110 = Used(r) + r.b73 + r.carry}
Snapshot303(q) == [format : Formats, saw : [1..(q - 1) -> Nat], form : Form303]
Shape303 == DOMAIN filed303 = Span /\ \A q \in Span : filed303[q] \in Seq(Snapshot303(q))

Newest(q) == filed303[q][1]

\* A return opens with what the one before it leaves now, unless that came later.
Told303(q) ==
    /\ \A j \in 1..(q - 1) : Newest(q).saw[j] <= Len(filed303[j])
    /\ (\A j \in 1..(q - 1) : Newest(q).saw[j] = Len(filed303[j])) =>
          Newest(q).form.b110 = Opening303(q)
Inv303 == Shape303 /\ \A q \in Span : filed303[q] # <<>> => Told303(q)

LEMMA FieldsOf303 ==
    ASSUME NEW r \in Form303
    PROVE  /\ r.figure \in Int /\ r.b71 \in Int
           /\ r.b110 \in Nat /\ r.b78 \in Nat /\ r.b87 \in Nat /\ r.b72 \in Nat /\ r.b73 \in Nat
           /\ r.carry \in Nat
           /\ r.carry = r.b87 + r.b72
           /\ Pos(-r.figure) + r.b110 = Used(r) + r.b73 + r.carry
<1> DEFINE R == [figure : Int, b110 : Nat, b78 : Nat, b87 : Nat, b71 : Int, b72 : Nat, b73 : Nat,
                 carry : Nat]
<1>1. /\ r \in R /\ r.carry = r.b87 + r.b72
      /\ Pos(-r.figure) + r.b110 = Used(r) + r.b73 + r.carry
  BY DEF Form303
<1> QED BY <1>1

LEMMA SnapshotHas ==
    ASSUME NEW q, NEW s \in Snapshot303(q)
    PROVE  s.format \in Formats /\ s.saw \in [1..(q - 1) -> Nat] /\ s.form \in Form303
BY DEF Snapshot303

LEMMA LeftIsNat ==
    ASSUME NEW r \in Form303, NEW f \in {"full", "boxes", "settlement", "result"}
    PROVE  Left(r, f) \in Nat
<1>1. /\ r.b71 \in Int /\ r.b110 \in Nat /\ r.b78 \in Nat /\ r.b87 \in Nat /\ r.b72 \in Nat
      /\ r.carry \in Nat
  BY FieldsOf303
<1>2. Pos(-r.b71) \in Nat /\ Pos(r.b110 - r.b78) \in Nat
  BY <1>1, PosNat
<1> QED BY <1>1, <1>2 DEF Left

\* The snapshots that a compensation is read from: of the most complete format,
\* the newest.
Found(q) == {k \in 1..4 : HasFormat(q, Completeness[k])}
OfFormat(q, f) == {i \in 1..Len(filed303[q]) : filed303[q][i].format = f}

LEMMA CompensationReads ==
    ASSUME Shape303, NEW q \in Span, filed303[q] # <<>>
    PROVE  \E k \in Found(q) : \E i \in OfFormat(q, Completeness[k]) :
              /\ \A l \in Found(q) : k <= l
              /\ \A j \in OfFormat(q, Completeness[k]) : i <= j
              /\ Compensation(q) = Left(filed303[q][i].form, Completeness[k])
              /\ Compensation(q) \in Nat
<1>1. filed303[q] \in Seq(Snapshot303(q)) /\ Len(filed303[q]) \in Nat /\ 1 \in 1..Len(filed303[q])
  BY DEF Shape303
<1>2. \A i \in 1..Len(filed303[q]) : /\ filed303[q][i] \in Snapshot303(q) /\ filed303[q][i].format \in Formats
                                      /\ filed303[q][i].form \in Form303
  <2>1. \A i \in 1..Len(filed303[q]) : filed303[q][i] \in Snapshot303(q)
    BY <1>1
  <2> QED BY <2>1, SnapshotHas
<1>3. /\ Completeness[1] = "full" /\ Completeness[2] = "boxes" /\ Completeness[3] = "settlement"
      /\ Completeness[4] = "result"
  BY DEF Completeness
<1>4. Found(q) # {} /\ Found(q) \in SUBSET Nat
  <2>1. filed303[q][1].format \in {"full", "boxes", "settlement", "result"}
    BY <1>1, <1>2, ReturnsConstants
  <2>2. PICK k \in 1..4 : filed303[q][1].format = Completeness[k]
    BY <1>3, <2>1
  <2> QED BY <1>1, <2>2 DEF Found, HasFormat
<1> DEFINE k == Min(Found(q))
           f == Completeness[k]
           i == Min(OfFormat(q, f))
<1>5. k \in Found(q) /\ \A l \in Found(q) : k <= l
  BY <1>4, MinIs
<1>6. OfFormat(q, f) # {} /\ OfFormat(q, f) \in SUBSET Nat
  <2>1. HasFormat(q, f)
    BY <1>5 DEF Found
  <2> HIDE DEF f
  <2> QED BY <1>1, <2>1 DEF HasFormat, OfFormat
<1>7. i \in OfFormat(q, f) /\ \A j \in OfFormat(q, f) : i <= j
  BY <1>6, MinIs
<1>8. Compensation(q) = Left(filed303[q][i].form, f)
  BY DEF Compensation, Found, OfFormat
<1> HIDE DEF k, i
<1>9. filed303[q][i].form \in Form303
  BY <1>2, <1>7 DEF OfFormat
<1>10. f \in {"full", "boxes", "settlement", "result"}
  <2>1. k \in 1..4
    BY <1>5 DEF Found
  <2> QED BY <1>3, <2>1
<1>11. Compensation(q) \in Nat
  BY <1>8, <1>9, <1>10, LeftIsNat
<1> QED BY <1>5, <1>7, <1>8, <1>11

\* Where the newest snapshot is preferred, what it leaves to compensate is read.
LEMMA CompleteReads ==
    ASSUME Shape303, NEW q \in Span, filed303[q] # <<>>, Complete(q)
    PROVE  Compensation(q) = Newest(q).form.carry
<1>1. filed303[q] \in Seq(Snapshot303(q)) /\ 1 \in 1..Len(filed303[q]) /\ Len(filed303[q]) \in Nat
  BY DEF Shape303
<1>2. Newest(q).form.carry = Newest(q).form.b87 + Newest(q).form.b72
  <2>1. Newest(q) \in Snapshot303(q)
    BY <1>1 DEF Newest
  <2> QED BY <2>1, SnapshotHas, FieldsOf303
<1>3. /\ Completeness[1] = "full" /\ Completeness[2] = "boxes" /\ Completeness[3] = "settlement"
      /\ Completeness[4] = "result"
  BY DEF Completeness
<1>4. PICK k \in Found(q), i \in Nat :
         /\ i \in OfFormat(q, Completeness[k])
         /\ \A l \in Found(q) : k <= l
         /\ \A j \in OfFormat(q, Completeness[k]) : i <= j
         /\ Compensation(q) = Left(filed303[q][i].form, Completeness[k])
  <2>1. \A f : OfFormat(q, f) \in SUBSET Nat
    BY <1>1 DEF OfFormat
  <2> QED BY <2>1, CompensationReads
<1>k. k \in 1..4 /\ HasFormat(q, Completeness[k])
  BY DEF Found
<1>5. CASE Newest(q).format = "full"
  <2>1. 1 \in Found(q)
    BY <1>1, <1>3, <1>5 DEF Found, HasFormat, Newest
  <2>2. k = 1
    BY <1>4, <1>k, <2>1
  <2>3. 1 \in OfFormat(q, "full")
    BY <1>1, <1>5 DEF OfFormat, Newest
  <2>4. i = 1
    BY <1>1, <1>3, <1>4, <2>2, <2>3 DEF OfFormat
  <2> QED BY <1>3, <1>4, <2>2, <2>4 DEF Left, Newest
<1>6. CASE Newest(q).format = "boxes" /\ ~HasFormat(q, "full")
  <2>1. 2 \in Found(q) /\ 1 \notin Found(q)
    BY <1>1, <1>3, <1>6 DEF Found, HasFormat, Newest
  <2>2. k = 2
    <3>1. k <= 2 /\ k # 1
      BY <1>4, <2>1
    <3> QED BY <1>k, <3>1
  <2>3. 1 \in OfFormat(q, "boxes")
    BY <1>1, <1>6 DEF OfFormat, Newest
  <2>4. i = 1
    BY <1>1, <1>3, <1>4, <2>2, <2>3 DEF OfFormat
  <2>5. Compensation(q) = Left(Newest(q).form, "boxes")
    BY <1>3, <1>4, <2>2, <2>4 DEF Newest
  <2> QED BY <1>2, <2>5 DEF Left
<1> QED BY <1>5, <1>6 DEF Complete, Newest

LEMMA OpeningIsNat == Shape303 => \A q \in Span : Opening303(q) \in Nat
<1> SUFFICES ASSUME Shape303, NEW q \in Span PROVE Opening303(q) \in Nat
  OBVIOUS
<1>1. CASE q = 1 \/ filed303[q - 1] = <<>>
  BY <1>1 DEF Opening303
<1>2. CASE ~(q = 1 \/ filed303[q - 1] = <<>>)
  <2>1. q - 1 \in Span
    BY <1>2, ReturnsConstants DEF Span
  <2>2. Compensation(q - 1) \in Nat
    BY <1>2, <2>1, CompensationReads
  <2> QED BY <1>2, <2>2 DEF Opening303
<1> QED BY <1>1, <1>2

LEMMA Calculated303 ==
    ASSUME Shape303, NEW q \in Span, NEW figure \in Int, NEW refund \in BOOLEAN,
           refund => Settlement303(Opening303(q), figure, refund).b73 > 0
    PROVE  /\ Settlement303(Opening303(q), figure, refund) \in Form303
           /\ Settlement303(Opening303(q), figure, refund).b110 = Opening303(q)
<1> DEFINE s == Settlement303(Opening303(q), figure, refund)
<1>1. PICK o \in Nat : o = Opening303(q)
  BY OpeningIsNat
<1>3. /\ s.figure = figure /\ s.b110 = o
      /\ s.b78 = IF refund THEN o ELSE Least(o, Pos(figure))
      /\ s.b87 = o - s.b78 /\ s.b71 = figure - s.b78
      /\ s.b72 = IF refund THEN 0 ELSE Pos(-s.b71)
      /\ s.b73 = Pos(-s.b71) - s.b72
      /\ s.carry = s.b87 + s.b72
      /\ refund => s.b73 > 0
  BY <1>1 DEF Settlement303
<1>4. s = [figure |-> s.figure, b110 |-> s.b110, b78 |-> s.b78, b87 |-> s.b87, b71 |-> s.b71,
           b72 |-> s.b72, b73 |-> s.b73, carry |-> s.carry]
  BY DEF Settlement303
<1> HIDE DEF s
<1>5. s.b78 \in Nat /\ s.b78 <= o
  BY <1>3 DEF Least, Pos
<1>6. s.b87 \in Nat /\ s.b71 \in Int /\ -s.b71 = s.b78 - figure
  BY <1>3, <1>5
<1>7. Pos(-s.b71) \in Nat
  BY <1>6, PosNat
<1>8. s.b72 \in Nat /\ s.b73 \in Nat /\ s.carry \in Nat
  BY <1>3, <1>6, <1>7
<1>9. Pos(-s.figure) + s.b110 = Used(s) + s.b73 + s.carry
  <2>1. CASE refund
    <3>1. s.b78 = o /\ s.b87 = 0 /\ s.b72 = 0 /\ s.carry = 0 /\ s.b71 = figure - o /\ s.b73 > 0
          /\ s.b73 = Pos(-s.b71)
      BY <1>3, <1>7, <2>1
    <3>2. s.b73 = o - figure
      BY <3>1 DEF Pos
    <3> QED BY <1>3, <3>1, <3>2 DEF Used, Pos
  <2>2. CASE ~refund
    <3>1. /\ s.b78 = Least(o, Pos(figure)) /\ s.b87 = o - s.b78
          /\ s.b72 = Pos(s.b78 - figure) /\ s.carry = s.b87 + s.b72
      BY <1>3, <1>6, <2>2
    <3>2. s.b73 = 0
      BY <1>3, <1>7, <2>2
    <3>3. Used(s) = s.b78
      BY <3>2 DEF Used
    <3> QED BY <1>3, <3>1, <3>2, <3>3 DEF Least, Pos
  <2> QED BY <2>1, <2>2
<1>10. s \in Form303
  <2>1. s \in [figure : Int, b110 : Nat, b78 : Nat, b87 : Nat, b71 : Int, b72 : Nat, b73 : Nat,
               carry : Nat]
    BY <1>3, <1>4, <1>5, <1>6, <1>8
  <2> QED BY <1>3, <1>9, <2>1 DEF Form303
<1> QED BY <1>1, <1>3, <1>10 DEF s

\* What a return opens with: the returns of the quarter before it.
LEMMA Untouched303 ==
    ASSUME NEW q \in Span, q > 1 => filed303'[q - 1] = filed303[q - 1]
    PROVE  Opening303(q)' = Opening303(q)
<1>1. CASE q = 1
  BY <1>1 DEF Opening303
<1>2. CASE q # 1
  <2>1. filed303'[q - 1] = filed303[q - 1]
    BY <1>2, ReturnsConstants DEF Span
  <2>2. Compensation(q - 1)' = Compensation(q - 1)
    BY <2>1 DEF Compensation, HasFormat
  <2> QED BY <2>1, <2>2 DEF Opening303
<1> QED BY <1>1, <1>2

LEMMA Registers303 ==
    ASSUME Inv303, NEW p \in Span, NEW figure \in Int, NEW refund \in BOOLEAN, NEW format \in Formats,
           Register303(p, figure, refund, format)
    PROVE  Inv303'
<1> DEFINE form == Settlement303(Opening303(p), figure, refund)
           r == [format |-> format, saw |-> SawBefore(filed303, p), form |-> form]
<1>1. /\ Shape303 /\ filed303' = [filed303 EXCEPT ![p] = <<r>> \o @]
      /\ refund => form.b73 > 0
  BY DEF Inv303, Register303
<1>2. /\ r \in Snapshot303(p) /\ r.form.b110 = Opening303(p)
      /\ \A j \in 1..(p - 1) : r.saw[j] = Len(filed303[j])
  <2>1. form \in Form303 /\ form.b110 = Opening303(p)
    BY <1>1, Calculated303
  <2>2. \A j \in 1..(p - 1) : Len(filed303[j]) \in Nat
    <3>1. \A j \in 1..(p - 1) : j \in Span
      BY ReturnsConstants DEF Span
    <3> QED BY <1>1, <3>1 DEF Shape303
  <2>3. SawBefore(filed303, p) \in [1..(p - 1) -> Nat]
    BY <2>2 DEF SawBefore
  <2> HIDE DEF form
  <2>4. r \in Snapshot303(p)
    BY <2>1, <2>3 DEF Snapshot303
  <2> QED BY <2>1, <2>4 DEF SawBefore
<1> HIDE DEF r
<1>3. /\ filed303'[p] \in Seq(Snapshot303(p)) /\ Len(filed303'[p]) = Len(filed303[p]) + 1
      /\ filed303'[p][1] = r /\ Len(filed303[p]) \in Nat
      /\ \A q \in Span : q # p => filed303'[q] = filed303[q]
      /\ DOMAIN filed303' = Span
  <2>1. filed303'[p] = <<r>> \o filed303[p] /\ filed303[p] \in Seq(Snapshot303(p))
    BY <1>1 DEF Shape303
  <2> QED BY <1>1, <1>2, <2>1, OneMore DEF Shape303
<1>4. Shape303'
  <2> SUFFICES ASSUME NEW q \in Span PROVE filed303'[q] \in Seq(Snapshot303(q))
    BY <1>3 DEF Shape303, Snapshot303, Form303, Used
  <2> QED BY <1>1, <1>3 DEF Shape303
<1>5. ASSUME NEW q \in Span, filed303'[q] # <<>> PROVE Told303(q)'
  <2>0. q \in Nat /\ \A j \in 1..(q - 1) : j \in Span /\ j # q /\ Len(filed303[j]) \in Nat
    <3>1. q \in Nat /\ \A j \in 1..(q - 1) : j \in Span /\ j # q
      BY ReturnsConstants DEF Span
    <3> QED BY <1>1, <3>1 DEF Shape303
  <2>1. CASE q = p
    <3>1. Opening303(q)' = Opening303(q)
      <4>1. q > 1 => filed303'[q - 1] = filed303[q - 1]
        <5>1. q > 1 => q - 1 \in 1..(q - 1)
          BY <2>0
        <5> QED BY <1>3, <2>0, <2>1, <5>1
      <4> QED BY <4>1, Untouched303
    <3>2. \A j \in 1..(q - 1) : r.saw[j] <= Len(filed303'[j])
      BY <1>2, <1>3, <2>0, <2>1
    <3> QED BY <1>2, <1>3, <2>1, <3>1, <3>2 DEF Told303, Newest
  <2>2. CASE q # p
    <3>1. filed303'[q] = filed303[q] /\ filed303[q] # <<>> /\ Newest(q)' = Newest(q)
      BY <1>3, <1>5, <2>2 DEF Newest
    <3>2. Told303(q)
      BY <3>1 DEF Inv303
    <3>3. Newest(q).saw \in [1..(q - 1) -> Nat]
      <4>1. Newest(q) \in Snapshot303(q)
        BY <1>1, <3>1 DEF Shape303, Newest
      <4> QED BY <4>1, SnapshotHas
    <3>4. ASSUME NEW j \in 1..(q - 1)
          PROVE  /\ Newest(q).saw[j] <= Len(filed303'[j])
                 /\ j = p => Newest(q).saw[j] < Len(filed303'[j])
                 /\ j # p => filed303'[j] = filed303[j]
      <4>1. Newest(q).saw[j] <= Len(filed303[j]) /\ Newest(q).saw[j] \in Nat
        BY <3>2, <3>3 DEF Told303
      <4> QED BY <1>3, <2>0, <4>1
    <3>5. CASE p \in 1..(q - 1)
      <4>1. Newest(q).saw[p] # Len(filed303'[p])
        BY <1>3, <2>0, <3>3, <3>4, <3>5
      <4> QED BY <3>1, <3>4, <3>5, <4>1 DEF Told303
    <3>6. CASE p \notin 1..(q - 1)
      <4>1. \A j \in 1..(q - 1) : filed303'[j] = filed303[j]
        BY <2>0, <3>4, <3>6
      <4>2. Opening303(q)' = Opening303(q)
        <5>1. q > 1 => q - 1 \in 1..(q - 1)
          BY <2>0
        <5> QED BY <4>1, <5>1, Untouched303
      <4> QED BY <3>1, <3>2, <3>4, <4>1, <4>2 DEF Told303
    <3> QED BY <3>5, <3>6
  <2> QED BY <2>1, <2>2
<1>6. (\A q \in Span : filed303[q] # <<>> => Told303(q))'
  BY <1>5
<1> QED BY <1>4, <1>6 DEF Inv303

LEMMA Kept303 == Inv303 /\ UNCHANGED filed303 => Inv303'
<1> SUFFICES ASSUME Inv303, UNCHANGED filed303 PROVE Inv303'
  OBVIOUS
<1>1. Shape303'
  BY DEF Inv303, Shape303, Snapshot303, Form303, Used
<1>2. ASSUME NEW q \in Span, filed303'[q] # <<>> PROVE Told303(q)'
  <2>1. Opening303(q)' = Opening303(q)
    BY Untouched303
  <2>2. Told303(q) /\ Newest(q)' = Newest(q)
    BY <1>2 DEF Inv303, Newest
  <2> QED BY <2>1, <2>2 DEF Told303
<1>3. (\A q \in Span : filed303[q] # <<>> => Told303(q))'
  BY <1>2
<1> QED BY <1>1, <1>3 DEF Inv303

Earned303 == [j \in Span |-> Pos(-filed303[j][1].form.figure)]
Settles303 == [j \in Span |-> Used(filed303[j][1].form) + filed303[j][1].form.b73]

LEMMA Sums303 ==
    ASSUME NEW T \in SUBSET Span
    PROVE  EarnedIn(T) = SumOf(Earned303, T) /\ SettledIn(T) = SumOf(Settles303, T)
<1> DEFINE earned == [j \in T |-> Pos(-filed303[j][1].form.figure)]
           settles == [j \in T |-> Used(filed303[j][1].form) + filed303[j][1].form.b73]
<1>1. EarnedIn(T) = SumOf(earned, T) /\ SettledIn(T) = SumOf(settles, T)
  BY DEF EarnedIn, SettledIn, MapThenSumSet, MapThenFoldSet, SumOf
<1>2. IsFiniteSet(T)
  BY SpanIsFinite, FS_Subset
<1>3. \A j \in T : earned[j] = Earned303[j] /\ settles[j] = Settles303[j]
  BY DEF Earned303, Settles303
<1> HIDE DEF earned, settles
<1> QED BY <1>1, <1>2, <1>3, SumsAgree

LEMMA CreditIsConserved == Inv303 => CreditConserved
<1> SUFFICES ASSUME Inv303, NEW q \in Span, InOrder(filed303, 1..q), \A j \in 1..q : Complete(j)
             PROVE  EarnedIn(1..q) = SettledIn(1..q) + Compensation(q)
  BY DEF CreditConserved
<1> DEFINE earned(n) == SumOf(Earned303, 1..n)
           settled(n) == SumOf(Settles303, 1..n)
           left(n) == IF n = 0 THEN 0 ELSE Newest(n).form.carry
           Good == {n \in Nat : settled(n) \in Int /\ left(n) \in Nat /\ earned(n) = settled(n) + left(n)}
<1>0. q \in Nat /\ q > 0 /\ 1..q \in SUBSET Span
  BY ReturnsConstants DEF Span
<1>1. ASSUME NEW j \in 1..q
      PROVE  /\ Earned303[j] \in Int /\ Settles303[j] \in Int /\ left(j) \in Nat
             /\ Earned303[j] + left(j - 1) = Settles303[j] + left(j)
  <2>1. j \in Span /\ filed303[j] # <<>> /\ \A i \in 1..(j - 1) : Newest(j).saw[i] = Len(filed303[i])
    <3>1. j \in Span /\ \A i \in 1..(j - 1) : i \in 1..q /\ i < j
      BY <1>0
    <3> QED BY <3>1 DEF InOrder, Newest
  <2>2. Newest(j).form.b110 = Opening303(j) /\ Newest(j) \in Snapshot303(j)
    BY <2>1 DEF Inv303, Told303, Shape303, Newest
  <2> DEFINE r == Newest(j).form
  <2>3. /\ r.figure \in Int /\ r.b73 \in Nat /\ r.b78 \in Nat /\ r.carry \in Nat /\ r.b110 \in Nat
        /\ Pos(-r.figure) + r.b110 = Used(r) + r.b73 + r.carry
    <3>1. r \in Form303
      BY <2>2, SnapshotHas
    <3> HIDE DEF r
    <3> QED BY <3>1, FieldsOf303
  <2>4. Opening303(j) = left(j - 1)
    <3>1. CASE j = 1
      BY <3>1 DEF Opening303
    <3>2. CASE j # 1
      <4>1. j - 1 \in 1..q /\ j - 1 # 0 /\ j - 1 \in Span
        BY <1>0, <3>2
      <4>2. filed303[j - 1] # <<>> /\ Complete(j - 1)
        BY <4>1 DEF InOrder
      <4>3. Compensation(j - 1) = Newest(j - 1).form.carry
        BY <4>1, <4>2, CompleteReads DEF Inv303
      <4> QED BY <3>2, <4>1, <4>2, <4>3 DEF Opening303
    <3> QED BY <3>1, <3>2
  <2>5. /\ Earned303[j] = Pos(-r.figure) /\ Settles303[j] = Used(r) + r.b73
        /\ left(j) = r.carry
    BY <1>0, <2>1 DEF Earned303, Settles303, Newest
  <2> HIDE DEF r, left
  <2>6. Pos(-r.figure) \in Nat /\ Used(r) \in Nat
    BY <2>3, PosNat DEF Used
  <2> QED BY <2>2, <2>3, <2>4, <2>5, <2>6 DEF r
<1>2. 0 \in Good
  <2>1. 1..0 = {}
    OBVIOUS
  <2>2. earned(0) = 0 /\ settled(0) = 0
    BY <2>1, SumOfNone
  <2> QED BY <2>2
<1>3. ASSUME NEW n \in 0..(q - 1), n \in Good PROVE n + 1 \in Good
  <2>1. n + 1 \in 1..q /\ n + 1 \in Nat /\ (n + 1) - 1 = n /\ 1 <= n + 1
    BY <1>0
  <2>2. Counts(Earned303, 1..(n + 1)) /\ Counts(Settles303, 1..(n + 1))
    <3>1. \A j \in 1..(n + 1) : j \in 1..q
      BY <1>0, <2>1
    <3> QED BY <1>1, <3>1 DEF Counts
  <2>3. earned(n + 1) = earned(n) + Earned303[n + 1] /\ settled(n + 1) = settled(n) + Settles303[n + 1]
    <3>1. 1 \in Nat
      OBVIOUS
    <3>2. earned(n + 1) = SumOf(Earned303, 1..((n + 1) - 1)) + Earned303[n + 1]
      BY <2>1, <2>2, <3>1, SumOfInterval
    <3>3. settled(n + 1) = SumOf(Settles303, 1..((n + 1) - 1)) + Settles303[n + 1]
      BY <2>1, <2>2, <3>1, SumOfInterval
    <3> QED BY <2>1, <3>2, <3>3
  <2>4. /\ Earned303[n + 1] \in Int /\ Settles303[n + 1] \in Int /\ left(n + 1) \in Nat
        /\ Earned303[n + 1] + left(n) = Settles303[n + 1] + left(n + 1)
    <3>1. Earned303[n + 1] + left((n + 1) - 1) = Settles303[n + 1] + left(n + 1)
      BY <1>1, <2>1
    <3>2. Earned303[n + 1] \in Int /\ Settles303[n + 1] \in Int /\ left(n + 1) \in Nat
      BY <1>1, <2>1
    <3> HIDE DEF left
    <3> QED BY <2>1, <3>1, <3>2
  <2>5. settled(n) \in Int /\ left(n) \in Nat /\ earned(n) = settled(n) + left(n)
    BY <1>3
  <2> HIDE DEF left, earned, settled
  <2> QED BY <2>1, <2>3, <2>4, <2>5
<1>4. earned(q) = settled(q) + left(q)
  <2>1. q \in 0..q /\ 0 \in Nat
    BY <1>0
  <2> HIDE DEF Good
  <2>2. q \in Good
    BY <1>0, <1>2, <1>3, <2>1, StepByStep
  <2> QED BY <2>2 DEF Good
<1>5. Compensation(q) = left(q)
  <2>1. q \in 1..q /\ q # 0
    BY <1>0
  <2>2. filed303[q] # <<>> /\ Complete(q)
    BY <2>1 DEF InOrder
  <2> QED BY <2>1, <2>2, CompleteReads DEF Inv303
<1>6. EarnedIn(1..q) = earned(q) /\ SettledIn(1..q) = settled(q)
  BY <1>0, Sums303
<1> QED BY <1>4, <1>5, <1>6

-----------------------------------------------------------------------------
(* Both modelos *)

ReturnsIInv ==
    closed \subseteq Span /\ determined \subseteq Due303 /\ Inv130 /\ Inv303

LEMMA ReturnsStart == ReturnsInit => ReturnsIInv
BY DEF ReturnsInit, ReturnsIInv, Inv130, Inv303, Shape130, Shape303

LEMMA ReturnsStep == ReturnsIInv /\ (ReturnsNext130 \/ ReturnsNext303) => ReturnsIInv'
<1> SUFFICES ASSUME ReturnsIInv, NEW q \in Span,
                    \/ Close(q)
                    \/ Determine(q)
                    \/ \E f \in Figures130 : Register130(q, f[1], f[2], f[3])
                    \/ \E f \in Figures303, refund \in BOOLEAN, format \in Formats :
                          Register303(q, f, refund, format)
             PROVE  ReturnsIInv'
  BY DEF ReturnsNext130, ReturnsNext303
<1>1. CASE Close(q)
  BY <1>1, Kept130, Kept303 DEF Close, ReturnsIInv
<1>2. CASE Determine(q)
  BY <1>2, Kept130, Kept303 DEF Determine, ReturnsIInv
<1>3. ASSUME NEW f \in Figures130, Register130(q, f[1], f[2], f[3]) PROVE ReturnsIInv'
  <2>1. f[1] \in Nat /\ f[2] \in Nat /\ f[3] \in Nat
    BY ReturnsConstants
  <2>2. Inv130'
    BY <1>3, <2>1, Registers130 DEF ReturnsIInv
  <2> QED BY <1>3, <2>2, Kept303 DEF Register130, ReturnsIInv
<1>4. ASSUME NEW f \in Figures303, NEW refund \in BOOLEAN, NEW format \in Formats,
             Register303(q, f, refund, format)
      PROVE  ReturnsIInv'
  <2>1. f \in Int
    BY ReturnsConstants
  <2>2. Inv303'
    BY <1>4, <2>1, Registers303 DEF ReturnsIInv
  <2> QED BY <1>4, <2>2, Kept130 DEF Register303, ReturnsIInv
<1> QED BY <1>1, <1>2, <1>3, <1>4

LEMMA ReturnsStutter == ReturnsIInv /\ UNCHANGED returnsVars => ReturnsIInv'
BY Kept130, Kept303 DEF ReturnsIInv, returnsVars

LEMMA ReturnsTyped == ReturnsIInv => ReturnsTypeOK
<1> SUFFICES ASSUME ReturnsIInv PROVE ReturnsTypeOK
  OBVIOUS
<1>1. ASSUME NEW q \in Span, NEW i \in 1..Len(filed130[q])
      PROVE  /\ filed130[q][i].b04 \in Nat /\ filed130[q][i].b06 \in Nat /\ filed130[q][i].b15 \in Nat
             /\ filed130[q][i].b07 \in Int /\ filed130[q][i].b19 \in Int
             /\ filed130[q][i].saw \in [1..(q - 1) -> Nat]
  <2>1. filed130[q][i] \in Return130(q)
    BY DEF ReturnsIInv, Inv130, Shape130
  <2> QED BY <2>1 DEF Return130
<1>2. ASSUME NEW q \in Span, NEW i \in 1..Len(filed303[q])
      PROVE  /\ filed303[q][i].format \in Formats /\ filed303[q][i].saw \in [1..(q - 1) -> Nat]
             /\ filed303[q][i].form \in Form303
  <2>1. filed303[q][i] \in Snapshot303(q)
    BY DEF ReturnsIInv, Inv303, Shape303
  <2> QED BY <2>1, SnapshotHas
<1>3. ASSUME NEW r \in Form303
      PROVE  {r.b110, r.b78, r.b87, r.b72, r.b73, r.carry} \subseteq Nat /\ r.b71 \in Int
  BY FieldsOf303
<1>4. /\ closed \subseteq Span /\ determined \subseteq Due303
      /\ DOMAIN filed130 = Span /\ DOMAIN filed303 = Span
  BY DEF ReturnsIInv, Inv130, Inv303, Shape130, Shape303
<1> QED BY <1>1, <1>2, <1>3, <1>4 DEF ReturnsTypeOK

LEMMA ReturnsHold == ReturnsIInv => ReturnsInv
BY ReturnsTyped, InstalmentsAddUp, NegativesUsedOnce, CreditIsConserved DEF ReturnsIInv, ReturnsInv

-----------------------------------------------------------------------------
(* The plan of an asset: its instalments telescope *)

\* A row without a date says nothing; the rows after the opening balance are
\* those of the plan, recognized or not.
BooksFollowPlan ==
    /\ \A q \in AssetQuarter : ~Exists(entries[q]) => entries[q].amount = 0
    /\ plan # NoPlan =>
          /\ Plannable(plan)
          /\ \/ plan.method = "linear"
             \/ plan.method = "immediate" /\ plan.asOf = 0 /\ Opening(plan) = 0
          /\ \A q \in AssetQuarter : q > plan.asOf =>
                /\ entries[q].amount = Schedule(plan)[q].amount
                /\ entries[q].on = Schedule(plan)[q].on

LEMMA PlanStart == AssetsInit => BooksFollowPlan
<1> SUFFICES ASSUME AssetsInit PROVE BooksFollowPlan
  OBVIOUS
<1>1. plan = NoPlan
  BY DEF AssetsInit
<1>2. ASSUME NEW q \in AssetQuarter, ~Exists(entries[q]) PROVE entries[q].amount = 0
  <2>1. CASE entries[q] = NoEntry
    BY <2>1 DEF NoEntry
  <2>2. CASE entries[q] = [amount |-> 1, on |-> 2 * q, tx |-> "posted", books |-> TRUE]
    <3>1. 2 * q # 0
      BY AssetsAssumption DEF AssetsAssumption, AssetQuarter
    <3> QED BY <1>2, <2>2, <3>1 DEF Exists
  <2> QED BY <2>1, <2>2 DEF AssetsInit
<1> QED BY <1>1, <1>2 DEF BooksFollowPlan

LEMMA PlanStep == AssetsIInv /\ BooksFollowPlan /\ AssetsNext => BooksFollowPlan'
<1> SUFFICES ASSUME AssetsIInv, BooksFollowPlan, AssetsNext PROVE BooksFollowPlan'
  OBVIOUS
<1>t. entries \in [AssetQuarter -> Entry]
  BY DEF AssetsIInv, AssetsInv, AssetsTypeOK
<1>1. ASSUME NEW method \in {"immediate", "linear"}, NEW r \in Ratios, Acquire(method, r)
      PROVE  BooksFollowPlan'
  <2> DEFINE p == [NoPlan EXCEPT !.method = method, !.ratio = r]
             rows == Schedule(p)
             owing == {q \in AssetQuarter : Exists(rows[q]) /\ rows[q].on <= today}
  <2>1. /\ Plannable(p) /\ plan' = p
        /\ entries' = [q \in AssetQuarter |->
                IF q \in owing THEN [rows[q] EXCEPT !.tx = "posted", !.books = TRUE] ELSE rows[q]]
    BY <1>1 DEF Acquire
  <2>2. p \in PlanOf
    BY FirstPlan DEF Shares
  <2>3. p.method = method /\ p.asOf = 0 /\ Opening(p) = 0
    BY DEF NoPlan, Opening
  <2>4. ASSUME NEW q \in AssetQuarter
        PROVE  /\ entries'[q].amount = rows[q].amount /\ entries'[q].on = rows[q].on
               /\ rows[q].on = 0 => rows[q].amount = 0
    <3>1. rows[q] \in Entry /\ (~Exists(rows[q]) => rows[q] = NoEntry)
      BY <2>2, ScheduleRows
    <3>2. CASE q \in owing
      <4>1. entries'[q] = [rows[q] EXCEPT !.tx = "posted", !.books = TRUE]
        BY <2>1, <3>2
      <4> QED BY <3>1, <4>1 DEF Entry, Exists, NoEntry
    <3>3. CASE q \notin owing
      <4>1. entries'[q] = rows[q]
        BY <2>1, <3>3
      <4> QED BY <3>1, <4>1 DEF Exists, NoEntry
    <3> QED BY <3>2, <3>3
  <2> HIDE DEF p
  <2>5. \A q \in AssetQuarter : ~Exists(entries'[q]) => entries'[q].amount = 0
    BY <2>4 DEF Exists
  <2>6. Plannable(plan') /\ Opening(plan') = 0 /\ plan'.method = method /\ plan'.asOf = 0
    BY <2>1, <2>3
  <2>7. \A q \in AssetQuarter : entries'[q].amount = Schedule(plan')[q].amount
                                /\ entries'[q].on = Schedule(plan')[q].on
    BY <2>1, <2>4
  <2>8. (\A q \in AssetQuarter : ~Exists(entries[q]) => entries[q].amount = 0)'
    BY <2>5 DEF Exists
  <2> QED BY <2>6, <2>7, <2>8 DEF BooksFollowPlan, Plannable, Opening
<1>2. ASSUME NEW asOf \in AssetQuarter, NEW prior \in Balances, NEW current \in Balances,
             Continue(asOf, prior, current)
      PROVE  BooksFollowPlan'
  <2> DEFINE p == [method |-> "linear", ratio |-> asset.ratio,
                   asOf |-> asOf, prior |-> prior, current |-> current]
             rows == Schedule(p)
  <2>1. /\ Plannable(p) /\ plan' = p
        /\ entries' = [q \in AssetQuarter |-> IF Exists(rows[q]) THEN rows[q] ELSE entries[q]]
        /\ \A q \in AssetQuarter : Exists(entries[q]) => q <= asOf
    BY <1>2 DEF Continue, Unplanned
  <2>2. p \in PlanOf
    BY AssetsAssumption DEF AssetsIInv, AssetsInv, AssetsAssumption, AssetsTypeOK, PlanOf, Shares, AssetQuarter
  <2>3. p.method = "linear" /\ p.asOf = asOf
    OBVIOUS
  <2>4. ASSUME NEW q \in AssetQuarter
        PROVE  /\ entries'[q].on = 0 => entries'[q].amount = 0
               /\ q > asOf => entries'[q].amount = rows[q].amount /\ entries'[q].on = rows[q].on
    <3>1. rows[q] \in Entry /\ (~Exists(rows[q]) => rows[q] = NoEntry)
      BY <2>2, ScheduleRows
    <3>2. CASE Exists(rows[q])
      <4>1. entries'[q] = rows[q]
        BY <2>1, <3>2
      <4> QED BY <3>2, <4>1 DEF Exists
    <3>3. CASE ~Exists(rows[q])
      <4>1. entries'[q] = entries[q] /\ rows[q].on = 0 /\ rows[q].amount = 0
        BY <2>1, <3>1, <3>3 DEF NoEntry
      <4>2. entries[q].on = 0 => entries[q].amount = 0
        BY DEF BooksFollowPlan, Exists
      <4>3. q > asOf => entries[q].on = 0
        BY <2>1, AssetsAssumption DEF Exists, AssetsAssumption, AssetQuarter
      <4> QED BY <4>1, <4>2, <4>3
    <3> QED BY <3>2, <3>3
  <2> HIDE DEF p
  <2>5. Plannable(plan') /\ plan'.method = "linear" /\ plan'.asOf = asOf
    BY <2>1, <2>3
  <2>6. \A q \in AssetQuarter : q > plan'.asOf =>
            /\ entries'[q].amount = Schedule(plan')[q].amount
            /\ entries'[q].on = Schedule(plan')[q].on
    BY <2>1, <2>4, <2>5
  <2>7. (\A q \in AssetQuarter : ~Exists(entries[q]) => entries[q].amount = 0)'
    BY <2>4 DEF Exists
  <2> QED BY <2>5, <2>6, <2>7 DEF BooksFollowPlan, Plannable
<1>3. ASSUME NEW q \in AssetQuarter, Recognize(q) \/ VoidRecognition(q)
      PROVE  BooksFollowPlan'
  <2>1. plan' = plan
    BY <1>3 DEF Recognize, VoidRecognition
  <2>2. ASSUME NEW r \in AssetQuarter
        PROVE  entries'[r].amount = entries[r].amount /\ entries'[r].on = entries[r].on
    BY <1>3, <1>t DEF Recognize, VoidRecognition, Entry
  <2> QED BY <2>1, <2>2 DEF BooksFollowPlan, Exists
<1>4. CASE UNCHANGED <<plan, entries>>
  BY <1>4 DEF BooksFollowPlan
<1> QED BY <1>1, <1>2, <1>3, <1>4
        DEF AssetsNext, EditProfile, CloseQuarter, VoidAcquisition, RecordDisposal, Tick

LEMMA PlanStutter == BooksFollowPlan /\ UNCHANGED assetsVars => BooksFollowPlan'
BY DEF BooksFollowPlan, assetsVars

LEMMA DivisionGrows ==
    ASSUME NEW m \in Nat, NEW n \in Nat, m <= n, NEW d \in Nat, d > 0
    PROVE  m \div d <= n \div d
<1>1. PICK k \in Nat : k = m \div d
  BY Dividing
<1>2. PICK l \in Nat : l = n \div d
  BY Dividing
<1>3. /\ k * d \in Nat /\ k * d <= m /\ m < k * d + d
      /\ l * d \in Nat /\ l * d <= n /\ n < l * d + d
  BY <1>1, <1>2, Dividing
<1>4. ~(l < k)
  <2> SUFFICES ASSUME l < k PROVE FALSE
    OBVIOUS
  <2>1. PICK i \in Nat : k = l + 1 + i
    <3>1. k - l - 1 \in Nat /\ k = l + 1 + (k - l - 1)
      OBVIOUS
    <3> QED BY <3>1
  <2>2. k * d = l * d + d + i * d /\ i * d \in Nat
    BY <2>1
  <2> QED BY <1>3, <2>2
<1> QED BY <1>1, <1>2, <1>4

LEMMA RoundsWhole ==
    ASSUME NEW n \in Nat, NEW d \in Nat, d > 0
    PROVE  HalfUp(n * d, d) = n
<1>1. PICK k : k = n * d
  OBVIOUS
<1>2. k \in Nat /\ n * (2 * d) = 2 * k
  BY <1>1
<1>3. 2 * k + d \in Nat /\ 2 * d \in Nat /\ 2 * d > 0
  BY <1>2
<1>4. (2 * k + d) \div (2 * d) = n
  <2>1. n * (2 * d) <= 2 * k + d /\ 2 * k + d < n * (2 * d) + 2 * d
    BY <1>2
  <2> QED BY <1>3, <2>1, DividesAs
<1> QED BY <1>1, <1>4 DEF HalfUp

LEMMA RoundingGrows ==
    ASSUME NEW m \in Nat, NEW n \in Nat, m <= n, NEW d \in Nat, d > 0
    PROVE  HalfUp(m, d) <= HalfUp(n, d)
<1>1. 2 * m + d \in Nat /\ 2 * n + d \in Nat /\ 2 * m + d <= 2 * n + d /\ 2 * d \in Nat /\ 2 * d > 0
  OBVIOUS
<1> QED BY <1>1, DivisionGrows DEF HalfUp

LEMMA ElapsedGrows ==
    ASSUME NEW q \in 0..AssetQuarters, NEW r \in 0..AssetQuarters, q <= r
    PROVE  Elapsed[q] \in Nat /\ Elapsed[r] \in Nat /\ Elapsed[q] <= Elapsed[r]
<1>1. /\ AssetQuarters \in Nat /\ Elapsed \in [0..AssetQuarters -> Nat]
      /\ \A n \in AssetQuarter : Elapsed[n - 1] < Elapsed[n]
  BY AssetsAssumption DEF AssetsAssumption
<1> DEFINE Good == {n \in q..r : Elapsed[q] <= Elapsed[n]}
<1>2. q \in Good
  BY <1>1
<1>3. \A n \in q..(r - 1) : n \in Good => n + 1 \in Good
  <2> SUFFICES ASSUME NEW n \in q..(r - 1), n \in Good PROVE n + 1 \in Good
    OBVIOUS
  <2>1. n + 1 \in AssetQuarter /\ (n + 1) - 1 = n /\ n \in 0..AssetQuarters /\ n + 1 \in 0..AssetQuarters
        /\ n + 1 \in q..r
    BY <1>1 DEF AssetQuarter
  <2>2. Elapsed[n] < Elapsed[n + 1]
    BY <1>1, <2>1
  <2> QED BY <1>1, <2>1, <2>2
<1>4. \A n \in q..r : n \in Good
  <2>1. q \in Nat /\ r \in Nat
    BY <1>1
  <2> HIDE DEF Good
  <2> QED BY <1>2, <1>3, <2>1, StepByStep
<1> QED BY <1>1, <1>4

\* What a plan should have charged begins with its opening balance and grows.
LEMMA TargetGrows ==
    ASSUME NEW p \in PlanOf, Opening(p) <= BusinessBasis(p.ratio)
    PROVE  /\ Target(p, p.asOf) = Opening(p)
           /\ \A q, r \in 0..AssetQuarters : q <= r => Target(p, q) <= Target(p, r)
<1>1. /\ Opening(p) \in Nat /\ p.asOf \in 0..AssetQuarters /\ BusinessBasis(p.ratio) \in Nat
      /\ Life \in Nat /\ Life > 0 /\ AssetQuarters \in Nat
  BY BasisTyped, AssetsAssumption DEF PlanOf, Opening, AssetsAssumption
<1> DEFINE Units(q) == BusinessBasis(p.ratio) * (Elapsed[q] - Elapsed[p.asOf])
           Raw(q) == HalfUp(Opening(p) * Life + Units(q), Life)
<1>o. Opening(p) * Life \in Nat
  BY <1>1
<1>2. ASSUME NEW q \in 0..AssetQuarters, NEW r \in 0..AssetQuarters, p.asOf <= q, q <= r
      PROVE  Units(q) \in Nat /\ Units(q) <= Units(r)
  <2>1. PICK k \in Nat : k = Elapsed[q] - Elapsed[p.asOf]
    BY <1>1, <1>2, ElapsedGrows
  <2>2. PICK l \in Nat : l = Elapsed[r] - Elapsed[q]
    BY <1>2, ElapsedGrows
  <2>3. Elapsed[r] - Elapsed[p.asOf] = k + l
    BY <1>1, <1>2, <2>1, <2>2, ElapsedGrows
  <2>4. BusinessBasis(p.ratio) * k \in Nat /\ BusinessBasis(p.ratio) * l \in Nat
        /\ BusinessBasis(p.ratio) * (k + l) = BusinessBasis(p.ratio) * k + BusinessBasis(p.ratio) * l
    BY <1>1
  <2> QED BY <2>1, <2>3, <2>4
<1>3. ASSUME NEW q \in 0..AssetQuarters, p.asOf <= q
      PROVE  Target(p, q) = Smaller(BusinessBasis(p.ratio), Raw(q))
  BY <1>1, <1>3 DEF Target
<1>4. ASSUME NEW q \in 0..AssetQuarters, NEW r \in 0..AssetQuarters, p.asOf <= q, q <= r
      PROVE  Target(p, q) <= Target(p, r)
  <2>1. p.asOf <= r
    BY <1>1, <1>4
  <2>2. Units(q) \in Nat /\ Units(r) \in Nat /\ Units(q) <= Units(r)
    BY <1>2, <1>4, <2>1
  <2> HIDE DEF Units
  <2>3. Opening(p) * Life + Units(q) \in Nat /\ Opening(p) * Life + Units(r) \in Nat
        /\ Opening(p) * Life + Units(q) <= Opening(p) * Life + Units(r)
    BY <1>o, <2>2
  <2>4. Raw(q) <= Raw(r)
    BY <1>1, <2>3, RoundingGrows
  <2>5. Raw(q) \in Int /\ Raw(r) \in Int
    BY <1>1, <2>3 DEF HalfUp
  <2> HIDE DEF Raw
  <2>6. Target(p, q) = Smaller(BusinessBasis(p.ratio), Raw(q))
        /\ Target(p, r) = Smaller(BusinessBasis(p.ratio), Raw(r))
    BY <1>3, <1>4, <2>1 DEF Raw
  <2> QED BY <1>1, <2>4, <2>5, <2>6 DEF Smaller
<1>5. Target(p, p.asOf) = Opening(p)
  <2>1. Elapsed[p.asOf] \in Nat
    BY <1>1, ElapsedGrows
  <2>2. Units(p.asOf) = 0
    BY <1>1, <2>1
  <2>3. Raw(p.asOf) = Opening(p)
    BY <1>1, <1>o, <2>2, RoundsWhole
  <2> QED BY <1>1, <1>3, <2>3 DEF Smaller
<1>6. ASSUME NEW q \in 0..AssetQuarters, NEW r \in 0..AssetQuarters, q <= r
      PROVE  Target(p, q) <= Target(p, r)
  <2>1. CASE p.asOf <= q
    BY <1>4, <1>6, <2>1
  <2>2. CASE q < p.asOf
    <3>1. Target(p, q) = Opening(p)
      BY <2>2 DEF Target
    <3>2. CASE r < p.asOf
      <4>1. Target(p, r) = Opening(p)
        BY <3>2 DEF Target
      <4> QED BY <1>1, <3>1, <4>1
    <3>3. CASE p.asOf <= r
      BY <1>1, <1>4, <1>5, <3>1, <3>3
    <3> QED BY <1>1, <3>2, <3>3
  <2> QED BY <1>1, <2>1, <2>2
<1> QED BY <1>5, <1>6

AmountsOfRows == [q \in AssetQuarter |-> entries[q].amount]

LEMMA AmountsSum ==
    ASSUME AssetsTypeOK, NEW Q \in SUBSET AssetQuarter
    PROVE  /\ Amounts(Q) = SumOf(AmountsOfRows, Q) /\ Amounts(Q) \in Nat
           /\ IsFiniteSet(Q) /\ Counts(AmountsOfRows, Q)
<1>1. IsFiniteSet(Q)
  <2>1. 1 \in Int /\ AssetQuarters \in Int
    BY AssetsAssumption DEF AssetsAssumption
  <2>2. IsFiniteSet(AssetQuarter)
    BY <2>1, FS_Interval DEF AssetQuarter
  <2> QED BY <2>2, FS_Subset
<1>2. Amounts(Q) = SumOf([q \in Q |-> entries[q].amount], Q)
  BY DEF Amounts, MapThenSumSet, MapThenFoldSet, SumOf
<1>3. SumOf([q \in Q |-> entries[q].amount], Q) = SumOf(AmountsOfRows, Q)
  <2>1. \A q \in Q : [x \in Q |-> entries[x].amount][q] = AmountsOfRows[q]
    BY DEF AmountsOfRows
  <2> QED BY <1>1, <2>1, SumsAgree
<1>4. Counts(AmountsOfRows, Q) /\ \A q \in Q : AmountsOfRows[q] >= 0
  BY DEF AssetsTypeOK, Entry, Counts, AmountsOfRows
<1>5. SumOf(AmountsOfRows, Q) \in Int /\ 0 <= SumOf(AmountsOfRows, Q)
  <2> DEFINE none == [q \in Q |-> 0]
  <2>1. SumOf(none, Q) = 0
    BY <1>1, SumOfZeros
  <2>2. Counts(none, Q) /\ \A q \in Q : none[q] <= AmountsOfRows[q]
    BY <1>4 DEF Counts
  <2> HIDE DEF none
  <2>3. SumOf(none, Q) <= SumOf(AmountsOfRows, Q)
    BY <1>1, <1>4, <2>2, SumAtMost
  <2> QED BY <1>1, <1>4, <2>1, <2>3, SumIsInt
<1> QED BY <1>1, <1>2, <1>3, <1>4, <1>5

\* The dates of rows: those of the opening balance come first.
LEMMA RowDates ==
    ASSUME AssetsTypeOK, NEW q \in AssetQuarter, Exists(entries[q])
    PROVE  entries[q].on \in Nat /\ entries[q].on <= 2 * q /\ entries[q].on > 2 * (q - 1)
<1>1. entries[q].on \in Nat /\ QuarterOf(entries[q].on) = q /\ q \in Nat
  BY AssetsAssumption DEF AssetsTypeOK, Entry, Day, AssetsAssumption, AssetQuarter
<1> QED BY <1>1 DEF QuarterOf

\* Up to any quarter after the opening balance, the rows of the plan come to what
\* should have been charged by then.
LEMMA PlanTelescopes ==
    ASSUME AssetsTypeOK, BooksFollowPlan, plan # NoPlan, plan.method = "linear",
           NEW r \in plan.asOf..AssetQuarters
    PROVE  Opening(plan) + SumOf(AmountsOfRows, (plan.asOf + 1)..r) = Target(plan, r)
<1>1. /\ plan \in PlanOf /\ Plannable(plan) /\ Opening(plan) <= BusinessBasis(plan.ratio)
      /\ plan.asOf \in Nat /\ plan.asOf <= AssetQuarters /\ AssetQuarters \in Nat /\ r \in Nat
      /\ Opening(plan) \in Nat
  BY AssetsAssumption DEF AssetsTypeOK, PlanOf, Shares, BooksFollowPlan, Plannable, AssetsAssumption, Opening
<1>2. ASSUME NEW q \in AssetQuarter, q > plan.asOf
      PROVE  AmountsOfRows[q] = Target(plan, q) - Target(plan, q - 1)
  <2>1. q \in 0..AssetQuarters /\ q - 1 \in 0..AssetQuarters /\ q - 1 <= q
    BY <1>1 DEF AssetQuarter
  <2>2. Target(plan, q - 1) <= Target(plan, q)
    BY <1>1, <2>1, TargetGrows
  <2>3. Target(plan, q) \in Int /\ Target(plan, q - 1) \in Int
    BY <1>1, <2>1, TargetTyped
  <2>4. entries[q].amount = Schedule(plan)[q].amount
    BY <1>2 DEF BooksFollowPlan
  <2>5. CASE Target(plan, q) > Target(plan, q - 1)
    <3>1. Schedule(plan)[q] = [NoEntry EXCEPT !.amount = Target(plan, q) - Target(plan, q - 1), !.on = 2 * q]
      BY <2>5 DEF Schedule
    <3> QED BY <2>4, <3>1 DEF NoEntry, AmountsOfRows
  <2>6. CASE ~(Target(plan, q) > Target(plan, q - 1))
    <3>1. Schedule(plan)[q] = NoEntry
      BY <2>6 DEF Schedule
    <3> QED BY <2>2, <2>3, <2>4, <2>6, <3>1 DEF NoEntry, AmountsOfRows
  <2> QED BY <2>5, <2>6
<1> DEFINE Until(n) == SumOf(AmountsOfRows, (plan.asOf + 1)..n)
           Good == {n \in plan.asOf..r : Opening(plan) + Until(n) = Target(plan, n)}
<1>3. plan.asOf \in Good
  <2>1. Until(plan.asOf) = 0
    <3>1. (plan.asOf + 1)..plan.asOf = {}
      BY <1>1
    <3> QED BY <3>1, SumOfNone
  <2>2. Target(plan, plan.asOf) = Opening(plan)
    BY <1>1, TargetGrows
  <2> HIDE DEF Until
  <2> QED BY <1>1, <2>1, <2>2
<1>4. \A n \in plan.asOf..(r - 1) : n \in Good => n + 1 \in Good
  <2> SUFFICES ASSUME NEW n \in plan.asOf..(r - 1), n \in Good PROVE n + 1 \in Good
    OBVIOUS
  <2>1. /\ n + 1 \in AssetQuarter /\ n + 1 > plan.asOf /\ (n + 1) - 1 = n /\ n + 1 \in plan.asOf..r
        /\ n \in 0..AssetQuarters /\ n + 1 \in 0..AssetQuarters /\ n + 1 \in Nat /\ plan.asOf + 1 \in Nat
        /\ plan.asOf + 1 <= n + 1
    BY <1>1 DEF AssetQuarter
  <2>2. (plan.asOf + 1)..(n + 1) \subseteq AssetQuarter
    BY <1>1, <2>1 DEF AssetQuarter
  <2>3. Counts(AmountsOfRows, (plan.asOf + 1)..(n + 1)) /\ IsFiniteSet((plan.asOf + 1)..n)
        /\ Counts(AmountsOfRows, (plan.asOf + 1)..n)
    <3>1. (plan.asOf + 1)..n \subseteq AssetQuarter
      BY <1>1, <2>1 DEF AssetQuarter
    <3> QED BY <2>2, <3>1, AmountsSum
  <2>4. Until(n + 1) = Until(n) + AmountsOfRows[n + 1]
    BY <2>1, <2>3, SumOfInterval
  <2>5. Until(n) \in Int
    BY <2>3, SumIsInt
  <2> HIDE DEF Until
  <2>6. AmountsOfRows[n + 1] = Target(plan, n + 1) - Target(plan, n)
    BY <1>2, <2>1
  <2>7. Target(plan, n + 1) \in Int /\ Target(plan, n) \in Int
    BY <1>1, <2>1, TargetTyped
  <2>8. Opening(plan) + Until(n) = Target(plan, n)
    OBVIOUS
  <2> QED BY <1>1, <2>1, <2>4, <2>5, <2>6, <2>7, <2>8
<1>5. \A n \in plan.asOf..r : n \in Good
  <2> HIDE DEF Good
  <2> QED BY <1>1, <1>3, <1>4, StepByStep
<1> QED BY <1>1, <1>5

\* What counts for nothing may be left out of a sum.
LEMMA NothingElseCounts ==
    ASSUME NEW S, IsFiniteSet(S), NEW g, Counts(g, S), NEW T \in SUBSET S, \A x \in S \ T : g[x] = 0
    PROVE  SumOf(g, T) = SumOf(g, S)
<1>1. IsFiniteSet(T) /\ IsFiniteSet(S \ T) /\ T \cap (S \ T) = {} /\ T \cup (S \ T) = S
  BY FS_Subset
<1>2. SumOf(g, S) = SumOf(g, T) + SumOf(g, S \ T)
  BY <1>1, SumOfUnion
<1>3. SumOf(g, S \ T) = 0
  BY <1>1, SumOfZeros
<1>4. SumOf(g, T) \in Int
  BY <1>1, SumIsInt DEF Counts
<1> QED BY <1>2, <1>3, <1>4

LEMMA PlansAreWhole == AssetsTypeOK /\ BooksFollowPlan => PlanIsWhole
<1> SUFFICES ASSUME AssetsTypeOK, BooksFollowPlan, plan # NoPlan PROVE PlanIsWhole
  BY DEF PlanIsWhole
<1> DEFINE planned == {q \in AssetQuarter : Exists(entries[q]) /\ entries[q].on > 2 * plan.asOf}
<1>1. /\ plan \in PlanOf /\ Plannable(plan) /\ plan.asOf \in Nat /\ plan.asOf <= AssetQuarters
      /\ AssetQuarters \in Nat /\ AssetQuarters > 1
      /\ BusinessBasis(plan.ratio) \in Nat /\ BusinessBasis(plan.ratio) > 0
  BY BasisTyped, AssetsAssumption
     DEF AssetsTypeOK, PlanOf, Shares, BooksFollowPlan, Plannable, AssetsAssumption
<1>2. ASSUME NEW q \in AssetQuarter
      PROVE  /\ q \in planned <=> q > plan.asOf /\ Exists(entries[q])
             /\ q \in Nat
  <2>1. q \in Nat
    BY <1>1 DEF AssetQuarter
  <2>2. Exists(entries[q]) => entries[q].on \in Nat /\ entries[q].on <= 2 * q /\ entries[q].on > 2 * (q - 1)
    BY RowDates
  <2> QED BY <1>1, <2>1, <2>2
<1>3. CASE plan.method = "immediate"
  <2>1. plan.asOf = 0 /\ Opening(plan) = 0
    BY <1>3 DEF BooksFollowPlan
  <2>2. ASSUME NEW q \in AssetQuarter
        PROVE  /\ q = 1 => entries[q].amount = BusinessBasis(plan.ratio) /\ Exists(entries[q])
               /\ q # 1 => ~Exists(entries[q])
    <3>1. q > plan.asOf
      BY <1>2, <2>1 DEF AssetQuarter
    <3>2. entries[q].amount = Schedule(plan)[q].amount /\ entries[q].on = Schedule(plan)[q].on
      BY <3>1 DEF BooksFollowPlan
    <3> QED BY <1>3, <3>2 DEF Schedule, NoEntry, Exists
  <2>3. planned = {1}
    <3>1. 1 \in AssetQuarter
      BY <1>1 DEF AssetQuarter
    <3>2. 1 > plan.asOf
      BY <2>1
    <3>3. 1 \in planned
      BY <1>2, <2>2, <3>1, <3>2
    <3>4. \A q \in planned : q = 1
      BY <2>2
    <3> QED BY <3>3, <3>4
  <2> HIDE DEF planned
  <2>4. Amounts({1}) = BusinessBasis(plan.ratio)
    <3>1. {1} \in SUBSET AssetQuarter /\ AmountsOfRows[1] = BusinessBasis(plan.ratio)
      BY <1>1, <2>2 DEF AssetQuarter, AmountsOfRows
    <3>2. Amounts({1}) = SumOf(AmountsOfRows, {1}) /\ Counts(AmountsOfRows, {} \cup {1})
      BY <3>1, AmountsSum
    <3>3. SumOf(AmountsOfRows, {} \cup {1}) = SumOf(AmountsOfRows, {}) + AmountsOfRows[1]
      BY <3>2, FS_EmptySet, SumWithOneMore
    <3>4. {} \cup {1} = {1}
      OBVIOUS
    <3> QED BY <1>1, <3>1, <3>2, <3>3, <3>4, SumOfNone
  <2>5. \A q \in planned : entries[q].amount > 0
    <3>1. 1 \in AssetQuarter
      BY <1>1 DEF AssetQuarter
    <3> QED BY <1>1, <2>2, <2>3, <3>1
  <2> QED BY <1>1, <2>1, <2>3, <2>4, <2>5 DEF PlanIsWhole, planned
<1>4. CASE plan.method = "linear"
  <2>1. Target(plan, AssetQuarters) = BusinessBasis(plan.ratio)
    <3>1. Target(plan, AssetQuarters) >= BusinessBasis(plan.ratio)
      BY <1>1, <1>4 DEF Plannable
    <3>2. Target(plan, AssetQuarters) \in Int /\ AssetQuarters \in 0..AssetQuarters
      BY <1>1, TargetTyped
    <3>3. Target(plan, AssetQuarters) <= BusinessBasis(plan.ratio)
      <4>1. ~(AssetQuarters < plan.asOf)
        BY <1>1
      <4> DEFINE raw == HalfUp(Opening(plan) * Life
                        + BusinessBasis(plan.ratio) * (Elapsed[AssetQuarters] - Elapsed[plan.asOf]), Life)
      <4>2. Target(plan, AssetQuarters) = Smaller(BusinessBasis(plan.ratio), raw)
        BY <4>1 DEF Target
      <4>3. raw \in Int
        <5>1. /\ Life \in Nat \ {0} /\ Opening(plan) \in Nat
              /\ Elapsed[AssetQuarters] \in Int /\ Elapsed[plan.asOf] \in Int
          BY <1>1, AssetsAssumption DEF AssetsAssumption, PlanOf, Opening
        <5> DEFINE n == Opening(plan) * Life
                    + BusinessBasis(plan.ratio) * (Elapsed[AssetQuarters] - Elapsed[plan.asOf])
        <5>2. n \in Int
          BY <1>1, <5>1
        <5> HIDE DEF n
        <5>3. HalfUp(n, Life) \in Int
          BY <5>1, <5>2 DEF HalfUp
        <5> QED BY <5>3 DEF n
      <4> HIDE DEF raw
      <4> QED BY <1>1, <4>2, <4>3 DEF Smaller
    <3> QED BY <1>1, <3>1, <3>2, <3>3
  <2> DEFINE after == (plan.asOf + 1)..AssetQuarters
  <2>2. after \in SUBSET AssetQuarter
    BY <1>1 DEF AssetQuarter
  <2>3. planned = {q \in after : Exists(entries[q])}
    BY <1>1, <1>2 DEF AssetQuarter
  <2>4. IsFiniteSet(after) /\ Counts(AmountsOfRows, after)
    BY <2>2, AmountsSum
  <2>5. \A q \in after : ~Exists(entries[q]) => AmountsOfRows[q] = 0
    BY <2>2 DEF BooksFollowPlan, AmountsOfRows
  <2>6. SumOf(AmountsOfRows, planned) = SumOf(AmountsOfRows, after)
    <3>1. planned \subseteq after /\ \A q \in after \ planned : AmountsOfRows[q] = 0
      BY <2>3, <2>5
    <3> HIDE DEF planned, after
    <3> QED BY <2>4, <3>1, NothingElseCounts
  <2>7. Opening(plan) + SumOf(AmountsOfRows, after) = Target(plan, AssetQuarters)
    <3>1. AssetQuarters \in plan.asOf..AssetQuarters
      BY <1>1
    <3> QED BY <1>4, <3>1, PlanTelescopes
  <2>8. Amounts(planned) = SumOf(AmountsOfRows, planned)
    BY AmountsSum
  <2>9. \A q \in planned : entries[q].amount > 0
    <3> SUFFICES ASSUME NEW q \in planned PROVE entries[q].amount > 0
      OBVIOUS
    <3>1. q \in AssetQuarter /\ q > plan.asOf /\ Exists(entries[q])
      BY <1>2
    <3>2. entries[q].amount = Schedule(plan)[q].amount /\ entries[q].on = Schedule(plan)[q].on
      BY <3>1 DEF BooksFollowPlan
    <3>3. Schedule(plan)[q] # NoEntry
      BY <3>1, <3>2 DEF NoEntry, Exists
    <3>4. /\ Target(plan, q) > Target(plan, q - 1)
          /\ Schedule(plan)[q].amount = Target(plan, q) - Target(plan, q - 1)
      BY <1>4, <3>1, <3>3 DEF Schedule, NoEntry
    <3>5. Target(plan, q) \in Int /\ Target(plan, q - 1) \in Int
      <4>1. q \in 0..AssetQuarters /\ q - 1 \in 0..AssetQuarters
        BY <1>1, <3>1 DEF AssetQuarter
      <4> QED BY <1>1, <4>1, TargetTyped
    <3> QED BY <3>2, <3>4, <3>5
  <2> QED BY <2>1, <2>6, <2>7, <2>8, <2>9 DEF PlanIsWhole
<1> QED BY <1>3, <1>4 DEF BooksFollowPlan

LEMMA ProductGrows ==
    ASSUME NEW m \in Nat, NEW n \in Nat, m <= n, NEW d \in Nat
    PROVE  m * d \in Nat /\ n * d \in Nat /\ m * d <= n * d
<1>1. PICK i \in Nat : n = m + i
  <2>1. n - m \in Nat /\ n = m + (n - m)
    OBVIOUS
  <2> QED BY <2>1
<1>2. n * d = m * d + i * d /\ i * d \in Nat /\ m * d \in Nat
  BY <1>1
<1> QED BY <1>2

\* The quarters of a year and of those before it.
LEMMA QuartersOfYears ==
    ASSUME NEW q \in Nat, NEW y \in Nat
    PROVE  /\ YearOf(q) \in Int /\ (q > 0 => YearOf(q) \in Nat) /\ (q = 0 => YearOf(q) = 0)
           /\ y * AssetYear \in Nat /\ YearEnd(y) = 2 * (y * AssetYear)
           /\ q > 0 => (YearOf(q) <= y <=> q <= y * AssetYear)
<1>1. AssetYear \in Nat /\ AssetYear > 0
  BY AssetsAssumption DEF AssetsAssumption
<1>2. PICK l \in Nat : l = y * AssetYear
  BY <1>1
<1>3. YearEnd(y) = 2 * l
  BY <1>1, <1>2 DEF YearEnd
<1>4. CASE q > 0
  <2>1. q - 1 \in Nat
    BY <1>4
  <2>2. PICK k \in Nat : k = (q - 1) \div AssetYear
    BY <1>1, <2>1, Dividing
  <2>3. k * AssetYear \in Nat /\ k * AssetYear <= q - 1 /\ q - 1 < k * AssetYear + AssetYear
    BY <1>1, <2>1, <2>2, Dividing
  <2>4. (k + 1) * AssetYear = k * AssetYear + AssetYear
    BY <1>1
  <2>5. YearOf(q) = k + 1
    BY <2>2 DEF YearOf
  <2>6. ASSUME k + 1 <= y PROVE q <= l
    <3>1. (k + 1) * AssetYear <= y * AssetYear
      BY <1>1, <2>6, ProductGrows
    <3> QED BY <1>1, <1>2, <2>3, <2>4, <3>1
  <2>7. ASSUME ~(k + 1 <= y) PROVE ~(q <= l)
    <3>1. y * AssetYear <= k * AssetYear
      BY <1>1, <2>7, ProductGrows
    <3> QED BY <1>1, <1>2, <2>3, <3>1
  <2> QED BY <1>2, <1>3, <1>4, <2>5, <2>6, <2>7
<1>5. CASE q = 0
  <2>1. (0 - 1) \div AssetYear = -1
    BY <1>1
  <2> QED BY <1>2, <1>3, <1>5, <2>1 DEF YearOf
<1> QED BY <1>4, <1>5

\* What a plan takes over was charged by the end of a year that is summarized.
LEMMA OpeningIsCarried ==
    ASSUME AssetsTypeOK, NEW y \in Nat, Summarized(YearEnd(y))
    PROVE  /\ OpeningIn(y).prior + OpeningIn(y).current = Opening(plan)
           /\ OpeningIn(y + 1).prior = Opening(plan)
           /\ OpeningIn(y).prior \in Nat /\ OpeningIn(y).current \in Nat
           /\ plan.asOf < y * AssetYear
<1>1. plan.asOf \in Nat /\ plan.prior \in Nat /\ plan.current \in Nat
  BY AssetsAssumption DEF AssetsTypeOK, AssetsAssumption
<1>2. plan.asOf < y * AssetYear /\ y * AssetYear \in Nat
  BY <1>1, QuartersOfYears DEF Summarized
<1>3. YearOf(plan.asOf) \in Int /\ YearOf(plan.asOf) <= y
  BY <1>1, <1>2, QuartersOfYears
<1>4. y + 1 > YearOf(plan.asOf)
  BY <1>3
<1> HIDE DEF YearOf
<1>5. OpeningIn(y + 1).prior = plan.prior + plan.current
  BY <1>4 DEF OpeningIn
<1>6. CASE y = YearOf(plan.asOf)
  <2>1. OpeningIn(y).prior = plan.prior + 0 /\ OpeningIn(y).current = plan.current
    BY <1>3, <1>6 DEF OpeningIn
  <2> QED BY <1>1, <1>2, <1>5, <2>1 DEF Opening
<1>7. CASE y > YearOf(plan.asOf)
  <2>1. OpeningIn(y).prior = plan.prior + plan.current /\ OpeningIn(y).current = 0
    BY <1>3, <1>7 DEF OpeningIn
  <2> QED BY <1>1, <1>2, <1>5, <2>1 DEF Opening
<1> QED BY <1>3, <1>6, <1>7

ChargedBy(y) == {q \in AssetQuarter : YearOf(q) <= y /\ Charged(q, YearEnd(y))}

\* The rows charged in a year and before it, whether read at its end or a year
\* later: a charge is dated in its year, and a disposal undoes none.
LEMMA ChargesStay ==
    ASSUME AssetsTypeOK, NothingAfterLastUse, NEW y \in Nat
    PROVE  /\ ChargedIn(0..(y - 1), YearEnd(y)) + ChargedIn({y}, YearEnd(y)) = Amounts(ChargedBy(y))
           /\ ChargedIn(0..y, YearEnd(y + 1)) = Amounts(ChargedBy(y))
           /\ ChargedIn(0..(y - 1), YearEnd(y)) \in Nat /\ ChargedIn({y}, YearEnd(y)) \in Nat
<1> DEFINE A == {q \in AssetQuarter : YearOf(q) \in 0..y /\ Charged(q, YearEnd(y + 1))}
           B == {q \in AssetQuarter : YearOf(q) \in 0..(y - 1) /\ Charged(q, YearEnd(y))}
           C == {q \in AssetQuarter : YearOf(q) \in {y} /\ Charged(q, YearEnd(y))}
           D == ChargedBy(y)
<1>1. ASSUME NEW q \in AssetQuarter PROVE q \in Nat /\ q > 0 /\ YearOf(q) \in Nat
  <2>1. q \in Nat /\ q > 0
    BY AssetsAssumption DEF AssetsAssumption, AssetQuarter
  <2> QED BY <2>1, QuartersOfYears
<1>2. ASSUME NEW q \in AssetQuarter, YearOf(q) <= y
      PROVE  Charged(q, YearEnd(y + 1)) <=> Charged(q, YearEnd(y))
  <2>1. q <= y * AssetYear /\ q <= (y + 1) * AssetYear /\ y * AssetYear \in Nat
        /\ (y + 1) * AssetYear \in Nat
    <3>1. YearOf(q) <= y + 1
      BY <1>1, <1>2
    <3> QED BY <1>1, <1>2, <3>1, QuartersOfYears
  <2>2. YearEnd(y) = 2 * (y * AssetYear) /\ YearEnd(y + 1) = 2 * ((y + 1) * AssetYear)
    <3>1. y + 1 \in Nat
      OBVIOUS
    <3> QED BY <1>1, <3>1, QuartersOfYears
  <2>3. Exists(entries[q]) => entries[q].on \in Nat /\ entries[q].on <= 2 * q
    BY RowDates
  <2>4. Exists(entries[q]) => entries[q].on <= YearEnd(y) /\ entries[q].on <= YearEnd(y + 1)
    BY <1>1, <2>1, <2>2, <2>3
  <2>5. ASSUME Depreciated(entries[q]) PROVE ~Late(entries[q], YearEnd(y)) /\ ~Late(entries[q], YearEnd(y + 1))
    <3>1. disposal # NotDisposed => entries[q].on <= disposal[2]
      BY <2>5 DEF NothingAfterLastUse
    <3>2. entries[q].on \in Int /\ disposal[2] \in Int
      BY AssetsAssumption DEF AssetsTypeOK, Entry, Day, AssetsAssumption
    <3> QED BY <3>1, <3>2 DEF Late
  <2> QED BY <2>4, <2>5 DEF Charged
<1>3. A = D /\ B \cup C = D /\ B \cap C = {}
  BY <1>1, <1>2 DEF ChargedBy
<1>4. B \in SUBSET AssetQuarter /\ C \in SUBSET AssetQuarter /\ D \in SUBSET AssetQuarter
  BY DEF ChargedBy
<1>5. ChargedIn(0..y, YearEnd(y + 1)) = Amounts(A) /\ ChargedIn(0..(y - 1), YearEnd(y)) = Amounts(B)
      /\ ChargedIn({y}, YearEnd(y)) = Amounts(C)
  BY DEF ChargedIn
<1> HIDE DEF A, B, C, D
<1>6. Amounts(D) = Amounts(B) + Amounts(C)
  <2>1. IsFiniteSet(B) /\ IsFiniteSet(C) /\ Counts(AmountsOfRows, B \cup C)
    BY <1>3, <1>4, AmountsSum
  <2>2. SumOf(AmountsOfRows, B \cup C) = SumOf(AmountsOfRows, B) + SumOf(AmountsOfRows, C)
    BY <1>3, <2>1, SumOfUnion
  <2> QED BY <1>3, <1>4, <2>2, AmountsSum
<1>7. Amounts(B) \in Nat /\ Amounts(C) \in Nat
  BY <1>4, AmountsSum
<1> QED BY <1>3, <1>5, <1>6, <1>7 DEF D

LEMMA YearsJoin == AssetsTypeOK /\ NothingAfterLastUse => CarriedForward
<1> SUFFICES ASSUME AssetsTypeOK, NothingAfterLastUse, NEW y \in Year, Summarized(YearEnd(y))
             PROVE  Summary(y + 1, YearEnd(y + 1)).prior
                      = Summary(y, YearEnd(y)).prior + Summary(y, YearEnd(y)).current
  BY DEF CarriedForward
<1>1. y \in Nat
  <2>1. PICK q \in AssetQuarter : y = YearOf(q)
    BY DEF Year, YearOf
  <2>2. q \in Nat /\ q > 0
    BY AssetsAssumption DEF AssetsAssumption, AssetQuarter
  <2> QED BY <2>1, <2>2, QuartersOfYears
<1>2. (y + 1) - 1 = y
  BY <1>1
<1>3. Summary(y + 1, YearEnd(y + 1)).prior = OpeningIn(y + 1).prior + ChargedIn(0..y, YearEnd(y + 1))
  BY <1>2 DEF Summary
<1>4. /\ Summary(y, YearEnd(y)).prior = OpeningIn(y).prior + ChargedIn(0..(y - 1), YearEnd(y))
      /\ Summary(y, YearEnd(y)).current = OpeningIn(y).current + ChargedIn({y}, YearEnd(y))
  BY DEF Summary
<1>5. ChargedIn(0..(y - 1), YearEnd(y)) + ChargedIn({y}, YearEnd(y)) = ChargedIn(0..y, YearEnd(y + 1))
      /\ ChargedIn(0..(y - 1), YearEnd(y)) \in Nat /\ ChargedIn({y}, YearEnd(y)) \in Nat
  BY <1>1, ChargesStay
<1>6. /\ OpeningIn(y).prior + OpeningIn(y).current = OpeningIn(y + 1).prior
      /\ OpeningIn(y).prior \in Nat /\ OpeningIn(y).current \in Nat
  BY <1>1, OpeningIsCarried
<1> QED BY <1>3, <1>4, <1>5, <1>6

LEMMA NothingLeftOut == AssetsTypeOK /\ NothingAfterLastUse /\ BooksFollowPlan => ReadyMeansCharged
<1> SUFFICES ASSUME AssetsTypeOK, NothingAfterLastUse, BooksFollowPlan, NEW y \in Year,
                    plan.method = "linear", Summarized(YearEnd(y)), disposal = NotDisposed,
                    \A z \in 1..y : Summarized(YearEnd(z)) => ~Summary(z, YearEnd(z)).pending
             PROVE  Summary(y, YearEnd(y)).prior + Summary(y, YearEnd(y)).current
                      = Target(plan, Smaller(y * AssetYear, AssetQuarters))
  BY DEF ReadyMeansCharged
<1>1. y \in Nat /\ AssetQuarters \in Nat /\ plan.asOf \in Nat /\ plan.asOf <= AssetQuarters
      /\ Opening(plan) \in Nat /\ plan # NoPlan /\ y * AssetYear \in Nat
  <2>1. PICK q \in AssetQuarter : y = YearOf(q)
    BY DEF Year, YearOf
  <2>2. q \in Nat /\ q > 0
    BY AssetsAssumption DEF AssetsAssumption, AssetQuarter
  <2>3. y \in Nat
    BY <2>1, <2>2, QuartersOfYears
  <2>4. y * AssetYear \in Nat
    BY <2>3, QuartersOfYears
  <2> QED BY <2>3, <2>4, AssetsAssumption DEF AssetsAssumption, AssetsTypeOK, Opening, Summarized
<1> DEFINE r == Smaller(y * AssetYear, AssetQuarters)
           D == ChargedBy(y)
           after == (plan.asOf + 1)..r
<1>2. plan.asOf < y * AssetYear
  BY <1>1, OpeningIsCarried
<1>3. r \in plan.asOf..AssetQuarters /\ after \in SUBSET AssetQuarter
  BY <1>1, <1>2 DEF Smaller, AssetQuarter
<1>4. ASSUME NEW q \in AssetQuarter
      PROVE  q \in Nat /\ q > 0 /\ YearOf(q) \in Nat /\ (YearOf(q) <= y <=> q <= y * AssetYear)
             /\ q <= AssetQuarters
  <2>1. q \in Nat /\ q > 0 /\ q <= AssetQuarters
    BY AssetsAssumption DEF AssetsAssumption, AssetQuarter
  <2> QED BY <1>1, <2>1, QuartersOfYears
<1>5. ASSUME NEW q \in D PROVE q \in after
  <2>1. q \in AssetQuarter /\ YearOf(q) <= y /\ Charged(q, YearEnd(y))
    BY DEF ChargedBy
  <2>2. Exists(entries[q]) /\ (plan.asOf > 0 => entries[q].on > 2 * plan.asOf)
    BY <2>1 DEF Charged
  <2>3. entries[q].on \in Nat /\ entries[q].on <= 2 * q
    BY <2>1, <2>2, RowDates
  <2>4. q > plan.asOf
    BY <1>1, <1>4, <2>1, <2>2, <2>3
  <2> QED BY <1>1, <1>4, <2>1, <2>4 DEF Smaller
<1>6. ASSUME NEW q \in after, q \notin D PROVE AmountsOfRows[q] = 0
  <2>1. q \in AssetQuarter /\ q > plan.asOf /\ q <= y * AssetYear
    BY <1>1, <1>3 DEF Smaller
  <2>2. YearOf(q) <= y
    BY <1>4, <2>1
  <2>3. CASE ~Exists(entries[q])
    BY <2>1, <2>3 DEF BooksFollowPlan, AmountsOfRows
  <2>4. CASE Exists(entries[q])
    <3> DEFINE z == YearOf(q)
    <3>1. z \in 1..y
      <4>1. YearOf(q) # 0
        <5>1. 0 * AssetYear = 0
          BY AssetsAssumption DEF AssetsAssumption
        <5>2. YearOf(q) <= 0 <=> q <= 0 * AssetYear
          BY <1>4, <2>1, QuartersOfYears
        <5> QED BY <1>4, <2>1, <5>1, <5>2
      <4> QED BY <1>1, <1>4, <2>1, <2>2, <4>1
    <3>2. z \in Nat /\ q <= z * AssetYear /\ z * AssetYear \in Nat /\ YearEnd(z) = 2 * (z * AssetYear)
      BY <1>4, <2>1, QuartersOfYears
    <3>3. entries[q].on \in Nat /\ entries[q].on <= 2 * q /\ entries[q].on > 2 * (q - 1)
      BY <2>1, <2>4, RowDates
    <3>4. Summarized(YearEnd(z))
      BY <1>1, <1>4, <2>1, <3>2 DEF Summarized
    <3> HIDE DEF z
    <3>5. ~Summary(z, YearEnd(z)).pending
      BY <3>1, <3>4
    <3>6. ~PendingRow(q, z, YearEnd(z))
      BY <2>1, <3>5 DEF Summary
    <3>7. /\ plan.asOf > 0 => entries[q].on > 2 * plan.asOf
          /\ ~Late(entries[q], YearEnd(z)) /\ ~Late(entries[q], YearEnd(y))
          /\ entries[q].on <= YearEnd(z)
      BY <1>1, <1>4, <2>1, <3>2, <3>3 DEF Late
    <3>8. Depreciated(entries[q])
      BY <2>4, <3>6, <3>7 DEF PendingRow, z
    <3>9. entries[q].on <= YearEnd(y)
      <4>1. YearEnd(y) = 2 * (y * AssetYear)
        BY <1>1, QuartersOfYears
      <4> QED BY <1>1, <1>4, <2>1, <3>3, <4>1
    <3>10. Charged(q, YearEnd(y))
      BY <2>4, <3>7, <3>8, <3>9 DEF Charged
    <3> QED BY <1>6, <2>1, <2>2, <3>10 DEF ChargedBy
  <2> QED BY <2>3, <2>4
<1>7. IsFiniteSet(after) /\ Counts(AmountsOfRows, after)
  BY <1>3, AmountsSum
<1>8. SumOf(AmountsOfRows, D) = SumOf(AmountsOfRows, after)
  <2>1. D \in SUBSET after /\ \A q \in after \ D : AmountsOfRows[q] = 0
    BY <1>5, <1>6
  <2> HIDE DEF D, after
  <2> QED BY <1>7, <2>1, NothingElseCounts
<1>9. Opening(plan) + SumOf(AmountsOfRows, after) = Target(plan, r)
  BY <1>1, <1>3, PlanTelescopes
<1>10. Amounts(D) = SumOf(AmountsOfRows, D)
  <2>1. D \in SUBSET AssetQuarter
    BY DEF ChargedBy
  <2> QED BY <2>1, AmountsSum
<1>11. Summary(y, YearEnd(y)).prior + Summary(y, YearEnd(y)).current = Opening(plan) + Amounts(D)
  <2>1. /\ Summary(y, YearEnd(y)).prior = OpeningIn(y).prior + ChargedIn(0..(y - 1), YearEnd(y))
        /\ Summary(y, YearEnd(y)).current = OpeningIn(y).current + ChargedIn({y}, YearEnd(y))
    BY DEF Summary
  <2>2. /\ ChargedIn(0..(y - 1), YearEnd(y)) + ChargedIn({y}, YearEnd(y)) = Amounts(D)
        /\ ChargedIn(0..(y - 1), YearEnd(y)) \in Nat /\ ChargedIn({y}, YearEnd(y)) \in Nat
    BY <1>1, ChargesStay
  <2>3. /\ OpeningIn(y).prior + OpeningIn(y).current = Opening(plan)
        /\ OpeningIn(y).prior \in Nat /\ OpeningIn(y).current \in Nat
    BY <1>1, OpeningIsCarried
  <2> QED BY <2>1, <2>2, <2>3
<1> QED BY <1>8, <1>9, <1>10, <1>11

LEMMA AssetFiguresHold == AssetsIInv /\ BooksFollowPlan => AssetFigures
BY PlansAreWhole, YearsJoin, NothingLeftOut DEF AssetsIInv, AssetsInv, AssetFigures

-----------------------------------------------------------------------------
(* What a year of contributions comes to *)

LEMMA RetaConstants ==
    /\ Len(Length) \in Nat /\ Len(Length) > 0
    /\ \A m \in Month : Length[m] \in Nat /\ Length[m] > 0 /\ Scale % Length[m] = 0
    /\ Thirty \in Nat /\ Thirty > 0 /\ Scale \in Nat /\ Scale % Thirty = 0
BY RetaAssumption DEF RetaAssumption, Month

LEMMA BeginsTyped == \A m \in 1..(Len(Length) + 1) : Begins[m] \in Int
<1> SUFFICES ASSUME NEW m \in 1..(Len(Length) + 1) PROVE Begins[m] \in Int
  OBVIOUS
<1> DEFINE before == 1..(m - 1)
           lengths == [i \in before |-> Length[i]]
<1>1. IsFiniteSet(before) /\ m \in Int
  BY FS_Interval, RetaConstants
<1>2. Counts(lengths, before)
  BY RetaConstants DEF Counts, Month
<1>3. MapThenSumSet(LAMBDA i : Length[i], before) = SumOf(lengths, before)
  BY DEF MapThenSumSet, MapThenFoldSet, SumOf
<1>4. Begins[m] = 1 + MapThenSumSet(LAMBDA i : Length[i], before)
  BY DEF Begins
<1> HIDE DEF before, lengths
<1>5. SumOf(lengths, before) \in Int
  BY <1>1, <1>2, SumIsInt
<1> QED BY <1>3, <1>4, <1>5

LEMMA BasedIsFinite ==
    ASSUME NEW m \in Month
    PROVE  IsFiniteSet(Based(m)) /\ Cardinality(Based(m)) \in Nat /\ Based(m) \subseteq Int
<1>1. Begins[m] \in Int /\ Begins[m + 1] \in Int
  BY BeginsTyped, RetaConstants DEF Month
<1>2. IsFiniteSet(DaysOf(m)) /\ DaysOf(m) \subseteq Int
  <2>1. PICK a \in Int : a = Begins[m]
    BY <1>1
  <2>2. PICK b \in Int : b = Begins[m + 1] - 1
    BY <1>1
  <2>3. DaysOf(m) = a..b
    BY <2>1, <2>2 DEF DaysOf
  <2>4. IsFiniteSet(a..b)
    BY FS_Interval
  <2>5. a..b \subseteq Int
    OBVIOUS
  <2> QED BY <2>3, <2>4, <2>5
<1>3. Based(m) \subseteq DaysOf(m)
  BY DEF Based
<1> QED BY <1>2, <1>3, FS_Subset, FS_CardinalityType

\* Where an election has started, one of them is in force.
LEMMA ForceTyped ==
    ASSUME RetaTypeOK, NEW m \in Month, NEW d \in Based(m)
    PROVE  InForce(d).base \in Nat
<1>1. Started(d) # {} /\ Started(d) \subseteq elections
  BY DEF Based, Missing, Regularisable, Started
<1>2. elections \subseteq Election
  BY DEF RetaTypeOK
<1>b. Bases \cup {0} \subseteq Nat
  BY RetaAssumption DEF RetaAssumption
<1>e. \A e \in Election : e.from \in YearDay /\ e.base \in Nat
  BY <1>b DEF Election
<1> DEFINE end == Begins[Len(Length) + 1]
           left == {end - e.from : e \in Started(d)}
<1>3. end \in Int
  BY BeginsTyped, RetaConstants
<1> HIDE DEF end
<1>4. \A e \in Started(d) : e.from \in Int /\ end - e.from \in Nat /\ e.base \in Nat
  <2> SUFFICES ASSUME NEW e \in Started(d) PROVE e.from \in Int /\ end - e.from \in Nat /\ e.base \in Nat
    OBVIOUS
  <2>1. e.from \in YearDay /\ e.base \in Nat
    BY <1>1, <1>2, <1>e
  <2> QED BY <1>3, <2>1 DEF YearDay, end
<1>5. left \in SUBSET Nat /\ left # {}
  BY <1>1, <1>4
<1>6. PICK n \in left : \A k \in left : n =< k
  BY <1>5, LeastNatural
<1>7. PICK e \in Started(d) : n = end - e.from
  BY <1>6
<1>8. \A f \in Started(d) : f.from <= e.from
  <2> SUFFICES ASSUME NEW f \in Started(d) PROVE f.from <= e.from
    OBVIOUS
  <2>1. end - f.from \in left
    OBVIOUS
  <2>2. end - e.from <= end - f.from
    BY <1>6, <1>7, <2>1
  <2> QED BY <1>3, <1>4, <2>2
<1>9. InForce(d) \in Started(d)
  BY <1>8 DEF InForce, Latest
<1> QED BY <1>4, <1>9

LEMMA SumOfSame ==
    ASSUME NEW S, IsFiniteSet(S), NEW g, NEW c \in Int, \A x \in S : g[x] = c
    PROVE  SumOf(g, S) = c * Cardinality(S)
<1> DEFINE Good == {A \in SUBSET S : SumOf(g, A) = c * Cardinality(A)}
<1>1. {} \in Good
  <2>1. SumOf(g, {}) = 0 /\ Cardinality({}) = 0
    BY SumOfNone, FS_EmptySet
  <2> QED BY <2>1
<1>2. ASSUME NEW A \in Good, NEW x \in S \ A PROVE A \cup {x} \in Good
  <2>1. IsFiniteSet(A) /\ Counts(g, A \cup {x}) /\ g[x] = c /\ x \notin A
    BY FS_Subset DEF Counts
  <2>2. SumOf(g, A \cup {x}) = SumOf(g, A) + c
    <3> HIDE DEF Good
    <3>1. SumOf(g, A \cup {x}) = SumOf(g, A) + g[x]
      BY <2>1, SumWithOneMore
    <3> QED BY <2>1, <3>1
  <2>3. Cardinality(A \cup {x}) = Cardinality(A) + 1 /\ Cardinality(A) \in Nat
    BY <2>1, FS_AddElement, FS_CardinalityType
  <2>4. PICK n \in Nat : n = Cardinality(A)
    BY <2>3
  <2>5. c * (n + 1) = c * n + c
    BY <2>4
  <2> QED BY <2>2, <2>3, <2>4, <2>5
<1>3. Good \in SUBSET SUBSET S
  OBVIOUS
<1> HIDE DEF Good
<1>4. S \in Good
  BY <1>1, <1>2, <1>3, OneByOne
<1> QED BY <1>4 DEF Good

BaseOn(m) == [d \in Based(m) |-> InForce(d).base]

\* What a month weighs and what was paid on in it are the days that count, and
\* their bases, by one and the same factor.
LEMMA MonthCounts ==
    ASSUME RetaTypeOK, NEW m \in Month
    PROVE  \E k \in Nat : /\ MonthShare(m) = Cardinality(Based(m)) * k
                          /\ Provisional(m) = SumOf(BaseOn(m), Based(m)) * k
<1>1. BasesOf(Based(m)) = SumOf(BaseOn(m), Based(m))
  BY DEF BasesOf, MapThenSumSet, MapThenFoldSet, SumOf, BaseOn
<1>2. CASE Whole(m)
  <2>1. PICK n \in Nat : n = Length[m] /\ n > 0 /\ Scale % n = 0
    BY RetaConstants
  <2>2. PICK k \in Nat : k = Scale \div n
    BY <2>1, RetaConstants, Dividing
  <2>3. n * k = Scale
    BY <2>1, <2>2, RetaConstants
  <2>4. MonthShare(m) = Cardinality(Based(m)) * k
    BY <1>2, <2>1, <2>3 DEF MonthShare, Whole
  <2> QED BY <1>1, <1>2, <2>1, <2>2, <2>4 DEF Provisional
<1>3. CASE ~Whole(m)
  <2>1. PICK k \in Nat : k = Scale \div Thirty
    BY RetaConstants, Dividing
  <2> QED BY <1>1, <1>3, <2>1 DEF Provisional, MonthShare
<1> QED BY <1>2, <1>3

\* A month on bases that are all between two bounds is paid between them.
LEMMA MonthIsInside ==
    ASSUME RetaTypeOK, NEW m \in Month, NEW c \in Nat
    PROVE  /\ MonthShare(m) \in Nat /\ Provisional(m) \in Int
           /\ (\A d \in Based(m) : c <= InForce(d).base) => c * MonthShare(m) <= Provisional(m)
           /\ (\A d \in Based(m) : InForce(d).base <= c) => Provisional(m) <= c * MonthShare(m)
<1> DEFINE B == Based(m)
           same == [d \in B |-> c]
           s == SumOf(BaseOn(m), B)
           n == Cardinality(B)
<1>1. IsFiniteSet(B) /\ n \in Nat
  BY BasedIsFinite
<1>2. Counts(BaseOn(m), B) /\ Counts(same, B)
  BY ForceTyped DEF Counts, BaseOn
<1>3. SumOf(same, B) = c * n
  <2>1. \A d \in B : same[d] = c
    OBVIOUS
  <2> HIDE DEF B, same
  <2> QED BY <1>1, <2>1, SumOfSame
<1>4. s \in Int
  BY <1>1, <1>2, SumIsInt
<1>5. ASSUME \A d \in B : c <= InForce(d).base PROVE c * n <= s
  <2>1. \A d \in B : same[d] <= BaseOn(m)[d]
    BY <1>5 DEF BaseOn
  <2>2. SumOf(same, B) <= SumOf(BaseOn(m), B)
    BY <1>1, <1>2, <2>1, SumAtMost
  <2> QED BY <1>3, <2>2
<1>6. ASSUME \A d \in B : InForce(d).base <= c PROVE s <= c * n
  <2>1. \A d \in B : BaseOn(m)[d] <= same[d]
    BY <1>6 DEF BaseOn
  <2>2. SumOf(BaseOn(m), B) <= SumOf(same, B)
    BY <1>1, <1>2, <2>1, SumAtMost
  <2> QED BY <1>3, <2>2
<1>7. PICK k \in Nat : MonthShare(m) = n * k /\ Provisional(m) = s * k
  BY MonthCounts
<1> HIDE DEF B, same, s, n
<1>8. c * (n * k) = (c * n) * k /\ n * k \in Nat /\ s * k \in Int /\ c * n \in Nat
  BY <1>1, <1>4
<1>9. ASSUME NEW i \in Int, NEW j \in Int, i <= j PROVE i * k <= j * k
  <2>1. PICK l \in Nat : j = i + l
    <3>1. j - i \in Nat /\ j = i + (j - i)
      BY <1>9
    <3> QED BY <3>1
  <2>2. j * k = i * k + l * k /\ l * k \in Nat /\ i * k \in Int
    BY <2>1
  <2> QED BY <2>2
<1>10. (\A d \in B : c <= InForce(d).base) => c * MonthShare(m) <= Provisional(m)
  BY <1>4, <1>5, <1>7, <1>8, <1>9
<1>11. (\A d \in B : InForce(d).base <= c) => Provisional(m) <= c * MonthShare(m)
  BY <1>4, <1>6, <1>7, <1>8, <1>9
<1> QED BY <1>7, <1>8, <1>10, <1>11 DEF B

MonthsTo(through) == 1..through
MonthShares(through) == [m \in MonthsTo(through) |-> MonthShare(m)]
MonthPayments(through) == [m \in MonthsTo(through) |-> Provisional(m)]

LEMMA YearSums ==
    ASSUME NEW through
    PROVE  /\ Weight(through) = SumOf(MonthShares(through), MonthsTo(through))
           /\ Paid(through) = SumOf(MonthPayments(through), MonthsTo(through))
<1>1. /\ Weight(through) = MapThenSumSet(MonthShare, MonthsTo(through))
      /\ Paid(through) = MapThenSumSet(Provisional, MonthsTo(through))
  BY DEF Weight, Paid, MonthsTo
<1>2. MapThenSumSet(MonthShare, MonthsTo(through)) = SumOf(MonthShares(through), MonthsTo(through))
  BY DEF MapThenSumSet, MapThenFoldSet, SumOf, MonthShares
<1>3. MapThenSumSet(Provisional, MonthsTo(through)) = SumOf(MonthPayments(through), MonthsTo(through))
  BY DEF MapThenSumSet, MapThenFoldSet, SumOf, MonthPayments
<1> QED BY <1>1, <1>2, <1>3

\* A year-to-date on bases that are all between two bounds is paid between them.
LEMMA PaidIsInside ==
    ASSUME RetaTypeOK, NEW through \in Month, NEW c \in Nat
    PROVE  /\ Weight(through) \in Int /\ Paid(through) \in Int
           /\ (\A b \in UsedBases(1..through) : c <= b) => c * Weight(through) <= Paid(through)
           /\ (\A b \in UsedBases(1..through) : b <= c) => Paid(through) <= c * Weight(through)
<1> DEFINE M == MonthsTo(through)
           w == MonthShares(through)
           p == MonthPayments(through)
           cw == [m \in M |-> c * w[m]]
<1>1. IsFiniteSet(M) /\ M \subseteq Month
  <2>1. PICK n \in Nat : n = through /\ n <= Len(Length)
    BY RetaConstants DEF Month
  <2>2. IsFiniteSet(1..n)
    BY FS_Interval
  <2> QED BY <2>1, <2>2, RetaConstants DEF MonthsTo, Month
<1>2. \A m \in M : w[m] = MonthShare(m) /\ p[m] = Provisional(m)
  BY DEF MonthShares, MonthPayments
<1>3. Counts(w, M) /\ Counts(p, M)
  <2>1. \A m \in M : MonthShare(m) \in Nat /\ Provisional(m) \in Int
    BY <1>1, MonthIsInside
  <2> QED BY <1>2, <2>1 DEF Counts
<1>4. \A m \in M : cw[m] = c * w[m]
  OBVIOUS
<1>5. Counts(cw, M)
  <2> SUFFICES ASSUME NEW m \in M PROVE cw[m] \in Int
    BY DEF Counts
  <2>1. PICK k \in Int : k = w[m]
    BY <1>3 DEF Counts
  <2>2. c * k \in Int
    OBVIOUS
  <2> QED BY <1>4, <2>1, <2>2
<1>6. \A m \in M : \A d \in Based(m) : InForce(d).base \in UsedBases(1..through)
  BY DEF UsedBases, MonthsTo
<1> HIDE DEF M, w, p, cw
<1>7. SumOf(cw, M) = c * SumOf(w, M)
  BY <1>1, <1>3, <1>4, SumScaled
<1>8. SumOf(w, M) \in Int /\ SumOf(p, M) \in Int
  BY <1>1, <1>3, SumIsInt
<1>9. ASSUME \A b \in UsedBases(1..through) : c <= b
      PROVE  SumOf(cw, M) <= SumOf(p, M)
  <2>1. \A m \in M : cw[m] <= p[m]
    <3> SUFFICES ASSUME NEW m \in M PROVE cw[m] <= p[m]
      OBVIOUS
    <3>1. \A d \in Based(m) : c <= InForce(d).base
      BY <1>6, <1>9
    <3>2. c * MonthShare(m) <= Provisional(m)
      BY <1>1, <3>1, MonthIsInside
    <3> QED BY <1>2, <1>4, <3>2
  <2> QED BY <1>1, <1>3, <1>5, <2>1, SumAtMost
<1>10. ASSUME \A b \in UsedBases(1..through) : b <= c
       PROVE  SumOf(p, M) <= SumOf(cw, M)
  <2>1. \A m \in M : p[m] <= cw[m]
    <3> SUFFICES ASSUME NEW m \in M PROVE p[m] <= cw[m]
      OBVIOUS
    <3>1. \A d \in Based(m) : InForce(d).base <= c
      BY <1>6, <1>10
    <3>2. Provisional(m) <= c * MonthShare(m)
      BY <1>1, <3>1, MonthIsInside
    <3> QED BY <1>2, <1>4, <3>2
  <2> QED BY <1>1, <1>3, <1>5, <2>1, SumAtMost
<1>11. Weight(through) = SumOf(w, M) /\ Paid(through) = SumOf(p, M)
  BY YearSums DEF w, p, M
<1> QED BY <1>7, <1>8, <1>9, <1>10, <1>11

\* Every income falls in a tramo of the table: the last one has no upper limit.
LEMMA TramoTyped ==
    ASSUME RetaTypeOK, table # NoTable, NEW through, NEW income
    PROVE  TramoFor(through, income).min \in Nat /\ TramoFor(through, income).max \in Nat
<1> DEFINE days == Cardinality({d \in WindowDays(through) : Regularisable(d)})
           S == {i \in 1..Len(table) : Reaches(table, i, income, days)}
<1>1. table \in Tables
  BY DEF RetaTypeOK
<1>2. table \in Seq([upper : Nat, inclusive : BOOLEAN, min : Nat, max : Nat])
  BY <1>1, RetaAssumption DEF RetaAssumption
<1>3. Len(table) \in Nat /\ Len(table) > 0
  BY <1>2 DEF NoTable
<1>4. Len(table) \in S
  BY <1>3 DEF Reaches
<1>5. S \in SUBSET Nat
  BY <1>3
<1>6. TramoFor(through, income) = table[Min(S)]
  BY DEF TramoFor, TramoOf
<1>i. S \subseteq 1..Len(table)
  OBVIOUS
<1> HIDE DEF S
<1>7. Min(S) \in 1..Len(table)
  BY <1>4, <1>5, <1>i, MinIs
<1>8. table[Min(S)] \in [upper : Nat, inclusive : BOOLEAN, min : Nat, max : Nat]
  <2> DEFINE Tramo == [upper : Nat, inclusive : BOOLEAN, min : Nat, max : Nat]
  <2>1. table \in Seq(Tramo)
    BY <1>2
  <2> HIDE DEF Tramo
  <2>2. table[Min(S)] \in Tramo
    BY <2>1, <1>7
  <2> QED BY <2>2 DEF Tramo
<1> QED BY <1>6, <1>8

\* Whoever paid on bases inside the tramo of the income owes nothing, and
\* whoever owes has paid some day on a base below it.
LEMMA InsideOwes == RetaTypeOK => InsideOwesNothing
<1> SUFFICES ASSUME RetaTypeOK, NEW a \in CheckPoints, NEW income \in Incomes,
                    BracketCheck(a[1], a[2], income).status # "unknown"
             PROVE  LET c == BracketCheck(a[1], a[2], income)
                        used == UsedBases(1..a[1])
                        tramo == TramoFor(a[1], income)
                    IN  /\ (\A b \in used : tramo.min <= b /\ b <= tramo.max)
                              => c.status = "ok" /\ c.additional = 0 /\ c.refund = 0
                        /\ c.additional > 0 => \E b \in used : b < tramo.min
  BY DEF InsideOwesNothing
<1> DEFINE through == a[1]
           c == BracketCheck(a[1], a[2], income)
           used == UsedBases(1..through)
           tramo == TramoFor(through, income)
<1>1. through \in Month
  BY DEF CheckPoints
<1>2. Known(a[1], a[2])
  BY DEF BracketCheck
<1>3. table # NoTable
  BY <1>2 DEF Known
<1>4. PICK lo \in Nat : lo = tramo.min
  BY <1>3, TramoTyped
<1>5. PICK hi \in Nat : hi = tramo.max
  BY <1>3, TramoTyped
<1>6. PICK paid \in Int : paid = Paid(through)
  BY <1>1, PaidIsInside
<1>7. PICK weight \in Int : weight = Weight(through)
  BY <1>1, PaidIsInside
<1>8. /\ Floor(through, income) = lo * weight /\ Ceiling(through, income) = hi * weight
      /\ lo * weight \in Int /\ hi * weight \in Int
  BY <1>4, <1>5, <1>7 DEF Floor, Ceiling
<1>9. /\ c.status = IF paid < Floor(through, income) THEN "below_bracket"
                    ELSE IF paid > Ceiling(through, income) THEN "above_bracket" ELSE "ok"
      /\ c.additional = Positive(Floor(through, income) - paid)
      /\ c.refund = Positive(paid - Ceiling(through, income))
  BY <1>2, <1>6 DEF BracketCheck
<1>10. \A b \in used : b \in Nat
  <2> SUFFICES ASSUME NEW b \in used PROVE b \in Nat
    OBVIOUS
  <2>1. PICK m \in 1..through : b \in {InForce(d).base : d \in Based(m)}
    BY DEF UsedBases
  <2>2. m \in Month
    BY <1>1, RetaConstants DEF Month
  <2> QED BY <2>1, <2>2, ForceTyped
<1>11. (\A b \in used : lo <= b) => lo * weight <= paid
  BY <1>1, <1>6, <1>7, PaidIsInside
<1>12. (\A b \in used : b <= hi) => paid <= hi * weight
  BY <1>1, <1>6, <1>7, PaidIsInside
<1> HIDE DEF c, used, tramo, through
<1>13. PICK floor \in Int : floor = lo * weight
  BY <1>8
<1>14. PICK ceiling \in Int : ceiling = hi * weight
  BY <1>8
<1>15. ASSUME \A b \in used : tramo.min <= b /\ b <= tramo.max
       PROVE  c.status = "ok" /\ c.additional = 0 /\ c.refund = 0
  <2>1. floor <= paid /\ paid <= ceiling
    BY <1>4, <1>5, <1>11, <1>12, <1>13, <1>14, <1>15
  <2>2. ~(paid < floor) /\ ~(paid > ceiling) /\ ~(floor - paid > 0) /\ ~(paid - ceiling > 0)
    BY <2>1
  <2> QED BY <1>8, <1>9, <1>13, <1>14, <2>2 DEF Positive
<1>16. ASSUME c.additional > 0
       PROVE  \E b \in used : b < tramo.min
  <2>1. floor - paid > 0
    BY <1>8, <1>9, <1>13, <1>16 DEF Positive
  <2>2. ~(floor <= paid)
    BY <2>1
  <2>3. PICK b \in used : ~(lo <= b)
    BY <1>11, <1>13, <2>2
  <2> QED BY <1>4, <1>10, <2>3
<1> QED BY <1>15, <1>16 DEF c, used, tramo, through

-----------------------------------------------------------------------------
(* The quarters of modelo 390, in order *)

Upto(q) == {p \in due : p <= q}
Ranked == [q \in due |-> Cardinality(Upto(q))]
Counted390 == Cardinality(due)

LEMMA RanksInOrder ==
    ASSUME due \subseteq 1..4
    PROVE  /\ IsFiniteSet(due) /\ Counted390 \in Nat
           /\ \A q \in due : Ranked[q] \in 1..Counted390
           /\ \A p, q \in due : p < q => Ranked[p] < Ranked[q]
<1>1. IsFiniteSet(due)
  <2>1. IsFiniteSet(1..4)
    <3>1. PICK a \in Int : a = 1
      OBVIOUS
    <3>2. PICK b \in Int : b = 4
      OBVIOUS
    <3>3. IsFiniteSet(a..b)
      BY FS_Interval
    <3> QED BY <3>1, <3>2, <3>3
  <2> QED BY <2>1, FS_Subset
<1>2. Counted390 \in Nat
  BY <1>1, FS_CardinalityType DEF Counted390
<1>3. ASSUME NEW q \in due
      PROVE  IsFiniteSet(Upto(q)) /\ Cardinality(Upto(q)) \in 1..Counted390
  <2>1. Upto(q) \in SUBSET due /\ Upto(q) # {}
    BY DEF Upto
  <2>2. IsFiniteSet(Upto(q)) /\ Cardinality(Upto(q)) <= Cardinality(due)
    BY <1>1, <2>1, FS_Subset
  <2>3. Cardinality(Upto(q)) \in Nat /\ Cardinality(Upto(q)) # 0
    BY <2>1, <2>2, FS_CardinalityType, FS_EmptySet
  <2> QED BY <1>2, <2>2, <2>3 DEF Counted390
<1>4. ASSUME NEW p \in due, NEW q \in due, p < q PROVE Ranked[p] < Ranked[q]
  <2>0. p \in Int /\ q \in Int /\ due \subseteq Int
    OBVIOUS
  <2>1. Upto(p) \in SUBSET Upto(q)
    <3>1. \A r \in due : r <= p => r <= q
      BY <1>4, <2>0
    <3> QED BY <3>1 DEF Upto
  <2>2. q \in Upto(q) /\ q \notin Upto(p)
    <3>1. q <= q /\ ~(q <= p)
      BY <1>4, <2>0
    <3> QED BY <3>1 DEF Upto
  <2>3. Cardinality(Upto(p)) <= Cardinality(Upto(q)) /\ Cardinality(Upto(p)) # Cardinality(Upto(q))
    BY <1>3, <2>1, <2>2, FS_Subset
  <2> QED BY <1>3, <2>3 DEF Ranked
<1> QED BY <1>1, <1>2, <1>3, <1>4 DEF Ranked

\* Every quarter that is due is listed, each after the ones before it.
LEMMA ListedInOrder ==
    ASSUME due \subseteq 1..4
    PROVE  /\ Len(Listed) = Counted390 /\ Counted390 \in Nat /\ (due # {} => Counted390 > 0)
           /\ \A i \in 1..Counted390 : Listed[i] \in due
           /\ \A i, j \in 1..Counted390 : i < j => Listed[i] < Listed[j]
           /\ \A q \in due : \E i \in 1..Counted390 : Listed[i] = q
<1>1. IsFiniteSet(due) /\ Counted390 \in Nat
  BY RanksInOrder
<1>2. Ranked \in [due -> 1..Counted390]
  BY RanksInOrder DEF Ranked
<1>3. \A p, q \in due : Ranked[p] = Ranked[q] => p = q
  <2> SUFFICES ASSUME NEW p \in due, NEW q \in due, Ranked[p] = Ranked[q], p # q PROVE FALSE
    OBVIOUS
  <2>1. p < q \/ q < p
    OBVIOUS
  <2>2. Ranked[p] < Ranked[q] \/ Ranked[q] < Ranked[p]
    BY <2>1, RanksInOrder
  <2>3. Ranked[p] \in Nat /\ Ranked[q] \in Nat
    BY <1>1, <1>2
  <2> QED BY <2>2, <2>3
<1>4. \A i \in 1..Counted390 : \E q \in due : Ranked[q] = i
  <2>1. Ranked \in Injection(due, 1..Counted390)
    BY <1>2, <1>3 DEF Injection, IsInjective
  <2>2. IsFiniteSet(1..Counted390) /\ Cardinality(1..Counted390) = Counted390
    BY <1>1, FS_Interval
  <2>3. Ranked \in Surjection(due, 1..Counted390)
    BY <2>1, <2>2, FS_Injection DEF Counted390
  <2> QED BY <2>3 DEF Surjection
<1>5. Listed = [i \in 1..Counted390 |-> CHOOSE q \in due : Cardinality(Upto(q)) = i]
  BY DEF Listed, Counted390, Upto
<1>6. Len(Listed) = Counted390
  BY <1>1, <1>5
<1>7. \A i \in 1..Counted390 : Listed[i] \in due /\ Ranked[Listed[i]] = i
  <2> SUFFICES ASSUME NEW i \in 1..Counted390 PROVE Listed[i] \in due /\ Ranked[Listed[i]] = i
    OBVIOUS
  <2>1. \E q \in due : Cardinality(Upto(q)) = i
    BY <1>4 DEF Ranked
  <2> QED BY <1>5, <2>1 DEF Ranked
<1>8. \A i, j \in 1..Counted390 : i < j => Listed[i] < Listed[j]
  <2> SUFFICES ASSUME NEW i \in 1..Counted390, NEW j \in 1..Counted390, i < j,
                      ~(Listed[i] < Listed[j])
               PROVE  FALSE
    OBVIOUS
  <2>1. Listed[i] \in 1..4 /\ Listed[j] \in 1..4
    BY <1>7
  <2>2. Listed[j] < Listed[i] \/ Listed[j] = Listed[i]
    BY <2>1
  <2>3. j < i \/ j = i
    BY <1>7, <2>2, RanksInOrder
  <2> QED BY <1>1, <2>3
<1>9. \A q \in due : \E i \in 1..Counted390 : Listed[i] = q
  BY <1>2, <1>3, <1>7
<1>10. due # {} => Counted390 > 0
  BY <1>1, FS_EmptySet DEF Counted390
<1> QED BY <1>1, <1>6, <1>7, <1>8, <1>9, <1>10

-----------------------------------------------------------------------------
(* Snapshots of modelo 303 *)

Results == {Settlement303(opening, figure, refund) :
               opening \in Nat, figure \in Int, refund \in BOOLEAN}

SettledAs(r, opening, figure, refund) ==
    /\ r.b110 = opening
    /\ r.b78 \in Nat /\ r.b78 <= opening /\ r.b87 = opening - r.b78
    /\ r.b71 = figure - r.b78 /\ r.b72 \in Nat /\ r.b73 \in Nat
    /\ (r.b72 = 0 \/ r.b73 = 0)
    /\ r.b72 + r.b73 = Pos(-r.b71) /\ r.b71 = Pos(r.b71) - Pos(-r.b71)
    /\ r.carry = r.b87 + r.b72 /\ r.carry \in Nat
    /\ Pos(r.b71) = Pos(figure - opening)
    /\ IF refund THEN r.carry = 0 /\ r.b73 = Pos(opening - figure)
       ELSE r.b73 = 0 /\ r.carry = Pos(opening - figure)

\* What a quarter carries on, pays and is paid back, of what it opened with.
LEMMA SettlesOn ==
    ASSUME NEW opening \in Nat, NEW figure \in Int, NEW refund \in BOOLEAN
    PROVE  /\ SettledAs(Settlement303(opening, figure, refund), opening, figure, refund)
           /\ Settlement303(opening, figure, refund).figure = figure
<1>r. PICK r : r = Settlement303(opening, figure, refund)
  OBVIOUS
<1>f. r.figure = figure
  BY <1>r DEF Settlement303
<1> SUFFICES SettledAs(r, opening, figure, refund)
  BY <1>r, <1>f
<1>p. \A x \in Int : Pos(x) = IF x > 0 THEN x ELSE 0
  BY DEF Pos
<1>1. CASE refund
  <2>1. /\ r.figure = figure /\ r.b110 = opening /\ r.b78 = opening
        /\ r.b87 = opening - opening /\ r.b71 = figure - opening /\ r.b72 = 0
        /\ r.b73 = Pos(-(figure - opening)) - 0 /\ r.carry = (opening - opening) + 0
    BY <1>1, <1>r DEF Settlement303
  <2>2. /\ r.b87 = 0 /\ r.carry = 0 /\ r.b71 \in Int
        /\ r.b73 = Pos(-r.b71) /\ -r.b71 = opening - figure
    BY <1>p, <2>1
  <2>3. /\ Pos(-r.b71) \in Nat /\ r.b71 = Pos(r.b71) - Pos(-r.b71)
        /\ Pos(r.b71) = Pos(figure - opening)
    BY <1>p, <2>1, <2>2
  <2> QED BY <1>1, <2>1, <2>2, <2>3 DEF SettledAs
<1>2. CASE ~refund
  <2>1. PICK applied \in Int : applied = Least(opening, Pos(figure))
    BY DEF Least, Pos
  <2>3. /\ applied \in Nat /\ applied <= opening
        /\ figure >= opening => applied = opening
        /\ 0 <= figure /\ figure < opening => applied = figure
        /\ figure < 0 => applied = 0
    BY <2>1 DEF Least, Pos
  <2>2. /\ r.figure = figure /\ r.b110 = opening /\ r.b78 = applied
        /\ r.b87 = opening - applied /\ r.b71 = figure - applied
        /\ r.b72 = Pos(-(figure - applied))
        /\ r.b73 = Pos(-(figure - applied)) - Pos(-(figure - applied))
        /\ r.carry = opening - applied + Pos(-(figure - applied))
    BY <1>2, <1>r, <2>1 DEF Settlement303
  <2>4. PICK left \in Int : left = figure - applied
    OBVIOUS
  <2>5. /\ Pos(-left) \in Nat /\ left = Pos(left) - Pos(-left)
        /\ Pos(left) = Pos(figure - opening)
        /\ opening - applied + Pos(-left) = Pos(opening - figure)
        /\ opening - applied + Pos(-left) \in Nat
    BY <1>p, <2>3, <2>4
  <2>6. r.b71 = left /\ r.b72 = Pos(-left) /\ r.b73 = 0
    BY <2>2, <2>4, <2>5
  <2> QED BY <1>2, <2>2, <2>3, <2>4, <2>5, <2>6 DEF SettledAs
<1> QED BY <1>1, <1>2

LEMMA ResultsCarry == \A r \in Results : r.carry \in Nat
<1> SUFFICES ASSUME NEW r \in Results PROVE r.carry \in Nat
  OBVIOUS
<1>1. PICK opening \in Nat, figure \in Int, refund \in BOOLEAN :
         r = Settlement303(opening, figure, refund)
  BY DEF Results
<1>2. SettledAs(r, opening, figure, refund)
  BY <1>1, SettlesOn
<1> QED BY <1>2 DEF SettledAs

\* The snapshots that may be registered.
Filings303 == {Filed303(source, opening, refund, b27, b45, b10, b12) :
                  source \in Sources, opening \in Nat, refund \in BOOLEAN,
                  b27 \in Int, b45 \in Int, b10 \in Int, b12 \in Int}

\* A snapshot says of its quarter what settling it comes to.
LEMMA FiledIsSettled ==
    ASSUME NEW s \in Filings303
    PROVE  /\ s.source \in Sources /\ s.b27 \in Int /\ s.b45 \in Int /\ s.b110 \in Nat
           /\ \E refund \in BOOLEAN : SettledAs(s, s.b110, s.b27 - s.b45, refund)
<1>1. PICK source \in Sources, opening \in Nat, refund \in BOOLEAN,
           b27 \in Int, b45 \in Int, b10 \in Int, b12 \in Int :
              s = Filed303(source, opening, refund, b27, b45, b10, b12)
  BY DEF Filings303
<1>2. PICK figure \in Int : figure = b27 - b45
  OBVIOUS
<1>3. PICK r : r = Settlement303(opening, figure, refund)
  OBVIOUS
<1>4. s = [source |-> source, b27 |-> b27, b45 |-> b45, b10 |-> b10, b12 |-> b12,
           b110 |-> opening, b78 |-> r.b78, b87 |-> r.b87, b71 |-> r.b71, b72 |-> r.b72,
           b73 |-> r.b73, carry |-> r.carry]
  BY <1>1, <1>2, <1>3 DEF Filed303
<1>9. /\ s.b110 = opening /\ s.b78 = r.b78 /\ s.b87 = r.b87
      /\ s.b71 = r.b71 /\ s.b72 = r.b72 /\ s.b73 = r.b73 /\ s.carry = r.carry
  BY <1>4
<1>10. s.source = source /\ s.b27 = b27 /\ s.b45 = b45
  BY <1>4
<1>11. SettledAs(r, opening, figure, refund)
  BY <1>3, SettlesOn
<1>12. r.b110 = opening
  BY <1>11 DEF SettledAs
<1>13. SettledAs(s, opening, figure, refund)
  BY <1>9, <1>11 DEF SettledAs
<1> QED BY <1>2, <1>9, <1>10, <1>12, <1>13

\* Only quarters that are due have snapshots, and each is a settled return.
AnnualIInv ==
    /\ due \subseteq Working
    /\ snapshots \in [0..4 -> Seq(Filings303)]
    /\ \A q \in 1..4 : q \notin due => snapshots[q] = <<>>

\* The most reliable snapshot is one of them.
LEMMA BestIsOne ==
    ASSUME NEW list \in Seq(Filings303), list # <<>>
    PROVE  Best(list) \in Filings303
<1> DEFINE rank(s) == CHOOSE r \in 1..4 : Ranks[r] = s.source
           all == {rank(list[i]) : i \in 1..Len(list)}
           best == Min(all)
           those == {i \in 1..Len(list) : rank(list[i]) = best}
<1>1. Len(list) \in Nat /\ Len(list) > 0 /\ 1 \in 1..Len(list)
  OBVIOUS
<1>2. ASSUME NEW i \in 1..Len(list) PROVE rank(list[i]) \in 1..4
  <2>1. list[i] \in Filings303
    OBVIOUS
  <2>2. list[i].source \in {"receipt", "extraction", "calculation", "legacy"}
    BY <2>1, FiledIsSettled, AnnualAssumption DEF AnnualAssumption
  <2>3. \E r \in 1..4 : Ranks[r] = list[i].source
    <3>1. /\ Ranks[1] = "receipt" /\ Ranks[2] = "extraction"
          /\ Ranks[3] = "calculation" /\ Ranks[4] = "legacy"
      BY DEF Ranks
    <3>2. 1 \in 1..4 /\ 2 \in 1..4 /\ 3 \in 1..4 /\ 4 \in 1..4
      OBVIOUS
    <3> QED BY <2>2, <3>1, <3>2
  <2> QED BY <2>3
<1> HIDE DEF rank
<1>3. all \in SUBSET Nat /\ all # {}
  BY <1>1, <1>2
<1>4. best \in all
  <2> HIDE DEF all
  <2> QED BY <1>3, MinIs
<1> HIDE DEF best
<1>5. those \in SUBSET Nat /\ those # {}
  BY <1>4
<1>6. Min(those) \in those
  <2> HIDE DEF those
  <2> QED BY <1>5, MinIs
<1>7. Best(list) = list[Min(those)]
  BY DEF Best, rank, best
<1>8. Min(those) \in 1..Len(list)
  BY <1>6
<1> HIDE DEF those
<1> QED BY <1>7, <1>8

\* What is carried into a quarter is never negative, whatever names it.
LEMMA CarriedIsNat ==
    ASSUME NEW list \in Seq(Filings303)
    PROVE  Carried(list) \in Nat
<1>1. ASSUME NEW box, \E i \in 1..Len(list) : Says303(list[i], box)
      PROVE  list[Min({i \in 1..Len(list) : Says303(list[i], box)})] \in Filings303
  <2> DEFINE those == {i \in 1..Len(list) : Says303(list[i], box)}
  <2>1. those \in SUBSET Nat /\ those # {} /\ those \subseteq 1..Len(list)
    BY <1>1
  <2> HIDE DEF those
  <2>2. Min(those) \in 1..Len(list)
    BY <2>1, MinIs
  <2>3. list[Min(those)] \in Filings303
    BY <2>2
  <2> QED BY <2>3 DEF those
<1>2. ASSUME NEW s \in Filings303
      PROVE  Pos(s.carry) \in Nat /\ Pos(s.b87) + Pos(s.b72) \in Nat /\ Pos(-s.b71) \in Nat
  <2>2. s.b110 \in Nat /\ s.b27 \in Int /\ s.b45 \in Int
    BY FiledIsSettled
  <2>0. PICK figure \in Int : figure = s.b27 - s.b45
    BY <2>2
  <2>1. PICK refund \in BOOLEAN : SettledAs(s, s.b110, figure, refund)
    BY <2>0, FiledIsSettled
  <2>3. s.carry \in Int /\ s.b87 \in Int /\ s.b72 \in Int /\ s.b71 \in Int
    BY <2>1, <2>2 DEF SettledAs
  <2> QED BY <2>3 DEF Pos
<1>3. list # <<>> => list[1] \in Filings303
  OBVIOUS
<1> QED BY <1>1, <1>2, <1>3 DEF Carried

\* The figures of a quarter whose rows are classified.
LEMMA QuarterFigures ==
    ASSUME FormsTyped, NEW q, Ready303(q)
    PROVE  /\ Due(Rows303(q)) \in Int /\ Deductible(Rows303(q)) \in Int
           /\ Sum("iva", BoxRows(Rows303(q)).b10, "vat") \in Int
           /\ Sum("iva", BoxRows(Rows303(q)).b12, "vat") \in Int
<1> DEFINE T == Rows303(q)
<1>1. T \in SUBSET Journal
  BY DEF Rows303, Projected, Loaded, FormsTyped
<1>2. Classified(T)
  BY DEF Ready303
<1> HIDE DEF T
<1>3. Due(T) = SumOf(AmountsOf("vat"), DueRows(T)) /\ Deductible(T) = SumOf(AmountsOf("input"), DeductibleRows(T))
  BY <1>1, <1>2, FormBoxesAddUp
<1>4. /\ DueRows(T) \in SUBSET Journal /\ DeductibleRows(T) \in SUBSET Journal
      /\ Acquired(T) \in SUBSET Journal /\ Reversed(T) \in SUBSET Journal
  BY <1>1, KindsAndCodes DEF DueRows, DeductibleRows, InputRows
<1>5. \A S \in SUBSET Journal : SumOf(AmountsOf("vat"), S) \in Int /\ SumOf(AmountsOf("input"), S) \in Int
  <2> SUFFICES ASSUME NEW S \in SUBSET Journal
               PROVE  SumOf(AmountsOf("vat"), S) \in Int /\ SumOf(AmountsOf("input"), S) \in Int
    OBVIOUS
  <2>1. IsFiniteSet(S)
    BY FS_Subset, FormsConstants
  <2>2. Counts(AmountsOf("vat"), S) /\ Counts(AmountsOf("input"), S)
    BY AmountsAreInt DEF Counts, AmountsOf
  <2> QED BY <2>1, <2>2, SumIsInt
<1>6. BoxRows(T).b10 = Acquired(T) /\ BoxRows(T).b12 = Reversed(T)
  BY DEF BoxRows
<1>7. Sum("iva", Acquired(T), "vat") \in Int /\ Sum("iva", Reversed(T), "vat") \in Int
  BY <1>4, <1>5, SumIs
<1> QED BY <1>3, <1>4, <1>5, <1>6, <1>7 DEF T

LEMMA FiledIsOne ==
    ASSUME NEW source \in Sources, NEW opening \in Nat, NEW refund \in BOOLEAN,
           NEW b27 \in Int, NEW b45 \in Int, NEW b10 \in Int, NEW b12 \in Int
    PROVE  Filed303(source, opening, refund, b27, b45, b10, b12) \in Filings303
BY DEF Filings303

LEMMA SnapshotsStart == AnnualInit => AnnualIInv
<1> SUFFICES ASSUME AnnualInit PROVE AnnualIInv
  OBVIOUS
<1>1. due \subseteq Working /\ snapshots = [q \in 0..4 |-> <<>>]
  BY DEF AnnualInit
<1> QED BY <1>1 DEF AnnualIInv

\* Returns are filed and attributions corrected; the snapshots stay settled.
LEMMA SnapshotsStep == FormsTyped /\ AnnualIInv /\ AnnualNext => AnnualIInv'
<1> SUFFICES ASSUME FormsTyped, AnnualIInv, AnnualNext PROVE AnnualIInv'
  OBVIOUS
<1>0. Working \subseteq 1..4
  BY FormsConstants
<1>r. ASSUME NEW q \in 0..4, NEW s \in Filings303, q = 0 \/ q \in due,
             snapshots' = [snapshots EXCEPT ![q] = <<s>> \o @], due' = due
      PROVE  AnnualIInv'
  <2>1. <<s>> \o snapshots[q] \in Seq(Filings303)
    BY DEF AnnualIInv
  <2>2. snapshots' \in [0..4 -> Seq(Filings303)]
    BY <1>r, <2>1 DEF AnnualIInv
  <2>3. \A p \in 1..4 : p \notin due => snapshots'[p] = <<>>
    BY <1>r DEF AnnualIInv
  <2> QED BY <1>r, <2>2, <2>3 DEF AnnualIInv
<1>1. ASSUME NEW q \in Working, NEW source \in Sources, NEW refund \in BOOLEAN, NEW slip \in Slips,
             FileReturn(q, source, refund, slip)
      PROVE  AnnualIInv'
  <2>1. q \in due /\ Ready303(q) /\ q \in 1..4 /\ q - 1 \in 0..4
    BY <1>0, <1>1 DEF FileReturn
  <2>2. CarriedInto(q) \in Nat
    BY <2>1, CarriedIsNat DEF CarriedInto, AnnualIInv
  <2>3. slip \in Int
    BY AnnualAssumption DEF AnnualAssumption
  <2>4. Return303(q, source, refund, slip) \in Filings303
    <3>1. PICK b27 \in Int : b27 = Due(Rows303(q)) + slip
      BY <2>1, <2>3, QuarterFigures
    <3>2. PICK b45 \in Int : b45 = Deductible(Rows303(q))
      BY <2>1, QuarterFigures
    <3>3. PICK b10 \in Int : b10 = Sum("iva", BoxRows(Rows303(q)).b10, "vat")
      BY <2>1, QuarterFigures
    <3>4. PICK b12 \in Int : b12 = Sum("iva", BoxRows(Rows303(q)).b12, "vat")
      BY <2>1, QuarterFigures
    <3>5. Return303(q, source, refund, slip) = Filed303(source, CarriedInto(q), refund, b27, b45, b10, b12)
      BY <3>1, <3>2, <3>3, <3>4 DEF Return303
    <3> QED BY <2>2, <3>5 DEF Filings303
  <2>5. /\ snapshots' = [snapshots EXCEPT ![q] = <<Return303(q, source, refund, slip)>> \o @]
        /\ due' = due
    BY <1>1 DEF FileReturn
  <2>6. q \in 0..4
    BY <2>1
  <2> QED BY <1>r, <2>1, <2>4, <2>5, <2>6
<1>2. ASSUME NEW source \in Sources, NEW left \in Former, FileFormer(source, left)
      PROVE  AnnualIInv'
  <2>1. left \in Int
    BY AnnualAssumption DEF AnnualAssumption
  <2>2. Filed303(source, 0, FALSE, 0, left, 0, 0) \in Filings303
    <3>1. 0 \in Nat /\ 0 \in Int /\ FALSE \in BOOLEAN
      OBVIOUS
    <3> QED BY <2>1, <3>1, FiledIsOne, Zenon
  <2>3. /\ snapshots' = [snapshots EXCEPT ![0] = <<Filed303(source, 0, FALSE, 0, left, 0, 0)>> \o @]
        /\ due' = due
    BY <1>2 DEF FileFormer
  <2>4. 0 \in 0..4
    OBVIOUS
  <2> QED BY <1>r, <2>2, <2>3, <2>4
<1>3. CASE UNCHANGED annualVars
  BY <1>3 DEF AnnualIInv, annualVars
<1> QED BY <1>1, <1>2, <1>3 DEF AnnualNext

LEMMA SnapshotsStutter == AnnualIInv /\ UNCHANGED annualVars => AnnualIInv'
BY DEF AnnualIInv, annualVars

-----------------------------------------------------------------------------
(* The chain of quarters that modelo 390 is calculated from *)

Quarter390(before, q, refund) ==
    Settlement303(OpeningCredit(before, q), Figure(q), refund /\ q = LastQuarter)
ChainStep(f, i, refund) ==
    IF i = 0 THEN <<>> ELSE Append(f[i - 1], Quarter390(f[i - 1], Listed[i], refund))

LEMMA ChainExists ==
    ASSUME NEW refund
    PROVE  \A n \in Nat : \E f : f = [i \in 0..n |-> ChainStep(f, i, refund)]
<1> DEFINE Good == {n \in Nat : \E f : f = [i \in 0..n |-> ChainStep(f, i, refund)]}
<1>1. 0 \in Good
  <2> DEFINE h == [i \in 0..0 |-> <<>>]
  <2>1. h = [i \in 0..0 |-> ChainStep(h, i, refund)]
    <3>1. \A i \in 0..0 : i = 0
      OBVIOUS
    <3> QED BY <3>1 DEF ChainStep
  <2>2. \E f : f = [i \in 0..0 |-> ChainStep(f, i, refund)]
    <3> HIDE DEF h
    <3> QED BY <2>1
  <2> QED BY <2>2
<1>2. ASSUME NEW n \in Nat, n \in Good PROVE n + 1 \in Good
  <2>1. PICK f : f = [i \in 0..n |-> ChainStep(f, i, refund)]
    BY <1>2
  <2> DEFINE h == [i \in 0..(n + 1) |-> ChainStep(f, i, refund)]
  <2>2. ASSUME NEW i \in 0..(n + 1) PROVE h[i] = ChainStep(h, i, refund)
    <3>1. CASE i = 0
      BY <3>1 DEF ChainStep
    <3>2. CASE i # 0
      <4>1. i - 1 \in 0..n /\ i - 1 \in 0..(n + 1)
        BY <3>2
      <4>2. f[i - 1] = ChainStep(f, i - 1, refund)
        BY <2>1, <4>1, Zenon
      <4>3. h[i - 1] = f[i - 1]
        BY <4>1, <4>2
      <4>4. h[i] = ChainStep(f, i, refund)
        OBVIOUS
      <4> HIDE DEF h
      <4> QED BY <3>2, <4>3, <4>4 DEF ChainStep
    <3> QED BY <3>1, <3>2
  <2>3. h = [i \in 0..(n + 1) |-> ChainStep(h, i, refund)]
    <3>1. h = [i \in 0..(n + 1) |-> h[i]]
      OBVIOUS
    <3> HIDE DEF h
    <3> QED BY <2>2, <3>1
  <2>4. \E g : g = [i \in 0..(n + 1) |-> ChainStep(g, i, refund)]
    <3> HIDE DEF h
    <3> QED BY <2>3
  <2> QED BY <2>4
<1> SUFFICES ASSUME NEW n \in Nat PROVE n \in Good
  OBVIOUS
<1> HIDE DEF Good
<1>3. \A k \in 0..n : k \in Good
  <2>1. 0 \in Nat /\ \A k \in 0..(n - 1) : k \in Nat
    OBVIOUS
  <2> QED BY <1>1, <1>2, <2>1, StepByStep
<1> QED BY <1>3

\* Each quarter opens with what the one before it leaves, the first with what
\* was filed before the year.
IsChain(c, n, refund) ==
    /\ c \in Seq(Results) /\ Len(c) = n
    /\ \A i \in 1..n :
          c[i] = Settlement303(IF i = 1 THEN CarriedInto(Listed[1]) ELSE c[i - 1].carry,
                               Figure(Listed[i]), refund /\ Listed[i] = LastQuarter)

LEMMA ChainFollows ==
    ASSUME NEW refund \in BOOLEAN, due \subseteq 1..4,
           \A q \in due : Figure(q) \in Int,
           \A q \in due : CarriedInto(q) \in Nat
    PROVE  IsChain(Chain(refund), Counted390, refund)
<1> DEFINE N == Counted390
<1>l. Len(Listed) = N /\ N \in Nat /\ \A i \in 1..N : Listed[i] \in due
  BY ListedInOrder
<1>1. PICK f : f = [i \in 0..N |-> ChainStep(f, i, refund)]
  BY <1>l, ChainExists
<1>2. Chain(refund) = (CHOOSE g : g = [i \in 0..N |-> ChainStep(g, i, refund)])[N]
  BY <1>l DEF Chain, ChainStep, Quarter390
<1>3. PICK c : /\ c = [i \in 0..N |-> ChainStep(c, i, refund)]
               /\ Chain(refund) = c[N]
  BY <1>1, <1>2
<1>4. \A i \in 0..N : c[i] = ChainStep(c, i, refund)
  BY <1>3, Zenon
<1> DEFINE Good == {n \in Nat : IsChain(c[n], n, refund)}
<1>5. 0 \in Good
  <2>1. c[0] = <<>>
    BY <1>4, <1>l DEF ChainStep
  <2>2. <<>> \in Seq(Results) /\ Len(<<>>) = 0 /\ 1..0 = {}
    OBVIOUS
  <2>3. IsChain(<<>>, 0, refund)
    BY <2>2 DEF IsChain
  <2> QED BY <2>1, <2>3
<1>6. ASSUME NEW n \in 0..(N - 1), n \in Good PROVE n + 1 \in Good
  <2>0. n \in Nat /\ n + 1 \in 1..N /\ n + 1 \in 0..N /\ n + 1 # 0
    BY <1>l
  <2> DEFINE r == Quarter390(c[n], Listed[n + 1], refund)
  <2>1. c[n + 1] = Append(c[n], r)
    <3>1. (n + 1) - 1 = n
      BY <2>0
    <3>2. c[n + 1] = ChainStep(c, n + 1, refund)
      BY <1>4, <2>0
    <3> QED BY <2>0, <3>1, <3>2 DEF ChainStep
  <2>2. IsChain(c[n], n, refund)
    BY <1>6
  <2>3. OpeningCredit(c[n], Listed[n + 1]) = IF n = 0 THEN CarriedInto(Listed[1]) ELSE c[n][n].carry
    BY <2>0, <2>2 DEF IsChain, OpeningCredit
  <2>4. \A s \in Results : s.carry \in Nat
    BY ResultsCarry
  <2>5. OpeningCredit(c[n], Listed[n + 1]) \in Nat
    <3>1. CASE n = 0
      <4>1. 1 \in 1..N
        BY <2>0, <3>1
      <4>2. CarriedInto(Listed[1]) \in Nat
        BY <1>l, <4>1
      <4> QED BY <2>3, <3>1, <4>2
    <3>2. CASE n # 0
      <4>1. c[n][n] \in Results
        BY <2>0, <2>2, <3>2 DEF IsChain
      <4> QED BY <2>3, <2>4, <3>2, <4>1
    <3> QED BY <3>1, <3>2
  <2>6. r \in Results
    <3>1. Figure(Listed[n + 1]) \in Int
      BY <1>l, <2>0
    <3>2. (refund /\ Listed[n + 1] = LastQuarter) \in BOOLEAN
      OBVIOUS
    <3>3. \A o \in Nat, f1 \in Int, b \in BOOLEAN : Settlement303(o, f1, b) \in Results
      BY DEF Results
    <3> QED BY <2>5, <3>1, <3>2, <3>3, Zenon DEF Quarter390
  <2>7. r = Settlement303(IF n = 0 THEN CarriedInto(Listed[1]) ELSE c[n][n].carry,
                          Figure(Listed[n + 1]), refund /\ Listed[n + 1] = LastQuarter)
    BY <2>3 DEF Quarter390
  <2> HIDE DEF r
  <2>8. c[n] \in Seq(Results) /\ Len(c[n]) = n
    BY <2>2 DEF IsChain
  <2>9. /\ c[n + 1] \in Seq(Results) /\ Len(c[n + 1]) = n + 1 /\ c[n + 1][n + 1] = r
        /\ \A i \in 1..n : c[n + 1][i] = c[n][i]
    BY <2>0, <2>1, <2>6, <2>8
  <2>10. ASSUME NEW i \in 1..(n + 1)
         PROVE  c[n + 1][i] = Settlement303(
                    IF i = 1 THEN CarriedInto(Listed[1]) ELSE c[n + 1][i - 1].carry,
                    Figure(Listed[i]), refund /\ Listed[i] = LastQuarter)
    <3>1. CASE i = n + 1
      <4>1. n # 0 => c[n + 1][n] = c[n][n]
        BY <2>0, <2>9
      <4>2. (n = 0 <=> i = 1) /\ i - 1 = n
        BY <2>0, <3>1
      <4> QED BY <2>7, <2>9, <3>1, <4>1, <4>2
    <3>2. CASE i # n + 1
      <4>1. i \in 1..n /\ (i # 1 => i - 1 \in 1..n)
        BY <2>0, <3>2
      <4>2. c[n + 1][i] = c[n][i] /\ (i # 1 => c[n + 1][i - 1] = c[n][i - 1])
        BY <2>9, <4>1
      <4>3. c[n][i] = Settlement303(IF i = 1 THEN CarriedInto(Listed[1]) ELSE c[n][i - 1].carry,
                                    Figure(Listed[i]), refund /\ Listed[i] = LastQuarter)
        BY <2>2, <4>1 DEF IsChain
      <4> QED BY <4>2, <4>3
    <3> QED BY <3>1, <3>2
  <2> QED BY <2>0, <2>9, <2>10 DEF IsChain
<1> HIDE DEF Good
<1>7. \A n \in 0..N : n \in Good
  <2>1. 0 \in Nat /\ N \in Nat
    BY <1>l
  <2> HIDE DEF N
  <2> QED BY <1>5, <1>6, <2>1, StepByStep
<1>8. N \in Good
  BY <1>7, <1>l
<1> QED BY <1>3, <1>8 DEF Good

-----------------------------------------------------------------------------
(* The year: its totals, and what is left of the credit before it *)

B71Paid(c) == [i \in 1..Len(c) |-> Pos(c[i].b71)]
B72(c) == [i \in 1..Len(c) |-> c[i].b72]
B73(c) == [i \in 1..Len(c) |-> c[i].b73]
B78(c) == [i \in 1..Len(c) |-> c[i].b78]
Figures(c) == [i \in 1..Len(c) |-> c[i].figure]

LEMMA TotalsAre ==
    ASSUME NEW c
    PROVE  /\ Total(c, LAMBDA r : r.figure) = SumOf(Figures(c), 1..Len(c))
           /\ Total(c, LAMBDA r : Pos(r.b71)) = SumOf(B71Paid(c), 1..Len(c))
           /\ Total(c, LAMBDA r : r.b72) = SumOf(B72(c), 1..Len(c))
           /\ Total(c, LAMBDA r : r.b78) = SumOf(B78(c), 1..Len(c))
<1>1. Total(c, LAMBDA r : r.figure) = SumOf(Figures(c), 1..Len(c))
  BY DEF Total, MapThenSumSet, MapThenFoldSet, SumOf, Figures
<1>2. Total(c, LAMBDA r : Pos(r.b71)) = SumOf(B71Paid(c), 1..Len(c))
  BY DEF Total, MapThenSumSet, MapThenFoldSet, SumOf, B71Paid
<1>3. Total(c, LAMBDA r : r.b72) = SumOf(B72(c), 1..Len(c))
  BY DEF Total, MapThenSumSet, MapThenFoldSet, SumOf, B72
<1>4. Total(c, LAMBDA r : r.b78) = SumOf(B78(c), 1..Len(c))
  BY DEF Total, MapThenSumSet, MapThenFoldSet, SumOf, B78
<1> QED BY <1>1, <1>2, <1>3, <1>4

\* What is left of the two credits, quarter after quarter.
After(before, c, i) ==
    LET ofPrior == Least(before.prior, c[i].b78)
    IN  [prior |-> before.prior - ofPrior,
         current |-> before.current - (c[i].b78 - ofPrior) + IF i < Len(c) THEN c[i].b72 ELSE 0]
LeftStep(f, c, i) ==
    IF i = 0 THEN [prior |-> c[1].b110, current |-> 0] ELSE After(f[i - 1], c, i)

LEMMA LeftExists ==
    ASSUME NEW c
    PROVE  \A n \in Nat : \E f : f = [i \in 0..n |-> LeftStep(f, c, i)]
<1> DEFINE Good == {n \in Nat : \E f : f = [i \in 0..n |-> LeftStep(f, c, i)]}
<1>1. 0 \in Good
  <2> DEFINE h == [i \in 0..0 |-> [prior |-> c[1].b110, current |-> 0]]
  <2>1. h = [i \in 0..0 |-> LeftStep(h, c, i)]
    <3>1. \A i \in 0..0 : i = 0
      OBVIOUS
    <3> QED BY <3>1 DEF LeftStep
  <2>2. \E f : f = [i \in 0..0 |-> LeftStep(f, c, i)]
    <3> HIDE DEF h
    <3> QED BY <2>1
  <2> QED BY <2>2
<1>2. ASSUME NEW n \in Nat, n \in Good PROVE n + 1 \in Good
  <2>1. PICK f : f = [i \in 0..n |-> LeftStep(f, c, i)]
    BY <1>2
  <2> DEFINE h == [i \in 0..(n + 1) |-> LeftStep(f, c, i)]
  <2>2. ASSUME NEW i \in 0..(n + 1) PROVE h[i] = LeftStep(h, c, i)
    <3>1. CASE i = 0
      BY <3>1 DEF LeftStep
    <3>2. CASE i # 0
      <4>1. i - 1 \in 0..n /\ i - 1 \in 0..(n + 1)
        BY <3>2
      <4>2. f[i - 1] = LeftStep(f, c, i - 1)
        BY <2>1, <4>1, Zenon
      <4>3. h[i - 1] = f[i - 1]
        BY <4>1, <4>2
      <4>4. h[i] = LeftStep(f, c, i)
        OBVIOUS
      <4> HIDE DEF h
      <4> QED BY <3>2, <4>3, <4>4 DEF LeftStep
    <3> QED BY <3>1, <3>2
  <2>3. h = [i \in 0..(n + 1) |-> LeftStep(h, c, i)]
    <3>1. h = [i \in 0..(n + 1) |-> h[i]]
      OBVIOUS
    <3> HIDE DEF h
    <3> QED BY <2>2, <3>1
  <2>4. \E g : g = [i \in 0..(n + 1) |-> LeftStep(g, c, i)]
    <3> HIDE DEF h
    <3> QED BY <2>3
  <2> QED BY <2>4
<1> SUFFICES ASSUME NEW n \in Nat PROVE n \in Good
  OBVIOUS
<1> HIDE DEF Good
<1>3. \A k \in 0..n : k \in Good
  <2>1. 0 \in Nat /\ \A k \in 0..(n - 1) : k \in Nat
    OBVIOUS
  <2> QED BY <1>1, <1>2, <2>1, StepByStep
<1> QED BY <1>3

LEMMA LeftFollows ==
    ASSUME NEW c, Len(c) \in Nat
    PROVE  \A i \in 0..Len(c) : CreditsAfter(c)[i] = LeftStep(CreditsAfter(c), c, i)
<1>1. \E f : f = [i \in 0..Len(c) |-> LeftStep(f, c, i)]
  BY LeftExists
<1>2. CreditsAfter(c) = CHOOSE f : f = [i \in 0..Len(c) |-> LeftStep(f, c, i)]
  BY DEF CreditsAfter, LeftStep, After
<1>3. PICK f : f = CreditsAfter(c)
  OBVIOUS
<1>4. f = [i \in 0..Len(c) |-> LeftStep(f, c, i)]
  BY <1>1, <1>2, <1>3
<1>5. \A i \in 0..Len(c) : f[i] = LeftStep(f, c, i)
  BY <1>4, Zenon
<1> QED BY <1>3, <1>5

\* A chain whose quarters are settled and open with what the last one left.
Linked(c, n) ==
    /\ n \in Nat /\ n > 0 /\ Len(c) = n
    /\ \A i \in 1..n :
          /\ c[i].b110 \in Nat /\ c[i].figure \in Int
          /\ \E refund \in BOOLEAN : SettledAs(c[i], c[i].b110, c[i].figure, refund)
    /\ \A i \in 1..n : i > 1 => c[i].b110 = c[i - 1].carry

LEMMA LinkTyped ==
    ASSUME NEW c, NEW n, Linked(c, n), NEW i \in 1..n
    PROVE  /\ c[i].b110 \in Nat /\ c[i].figure \in Int
           /\ c[i].b78 \in Nat /\ c[i].b78 <= c[i].b110 /\ c[i].b87 = c[i].b110 - c[i].b78
           /\ c[i].b71 = c[i].figure - c[i].b78 /\ c[i].b72 \in Nat /\ c[i].b73 \in Nat
           /\ (c[i].b72 = 0 \/ c[i].b73 = 0)
           /\ c[i].b72 + c[i].b73 = Pos(-c[i].b71) /\ c[i].b71 = Pos(c[i].b71) - Pos(-c[i].b71)
           /\ c[i].carry = c[i].b87 + c[i].b72 /\ c[i].carry \in Nat
           /\ c[i].b87 \in Nat /\ c[i].b71 \in Int /\ Pos(c[i].b71) \in Nat
<1>1. PICK refund \in BOOLEAN : SettledAs(c[i], c[i].b110, c[i].figure, refund)
  BY DEF Linked
<1>2. PICK b110 \in Nat : b110 = c[i].b110
  BY DEF Linked
<1>3. PICK figure \in Int : figure = c[i].figure
  BY DEF Linked
<1>4. SettledAs(c[i], b110, figure, refund)
  BY <1>1, <1>2, <1>3
<1>5. /\ c[i].b78 \in Nat /\ c[i].b78 <= b110 /\ c[i].b87 = b110 - c[i].b78
      /\ c[i].b71 = figure - c[i].b78 /\ c[i].b72 \in Nat /\ c[i].b73 \in Nat
      /\ (c[i].b72 = 0 \/ c[i].b73 = 0)
      /\ c[i].b72 + c[i].b73 = Pos(-c[i].b71) /\ c[i].b71 = Pos(c[i].b71) - Pos(-c[i].b71)
      /\ c[i].carry = c[i].b87 + c[i].b72 /\ c[i].carry \in Nat
  BY <1>4 DEF SettledAs
<1>6. c[i].b87 \in Nat /\ c[i].b71 \in Int
  BY <1>5
<1>7. Pos(c[i].b71) \in Nat
  BY <1>6, PosNat
<1> QED BY <1>2, <1>3, <1>5, <1>6, <1>7

Sums390(c, k) ==
    [paid |-> SumOf(B71Paid(c), 1..k), b72 |-> SumOf(B72(c), 1..k), b73 |-> SumOf(B73(c), 1..k),
     b78 |-> SumOf(B78(c), 1..k), figure |-> SumOf(Figures(c), 1..k)]

LEMMA SumsGrow ==
    ASSUME NEW c, NEW n, Linked(c, n), NEW k \in 1..n
    PROVE  /\ Sums390(c, k).paid = Sums390(c, k - 1).paid + Pos(c[k].b71)
           /\ Sums390(c, k).b72 = Sums390(c, k - 1).b72 + c[k].b72
           /\ Sums390(c, k).b73 = Sums390(c, k - 1).b73 + c[k].b73
           /\ Sums390(c, k).b78 = Sums390(c, k - 1).b78 + c[k].b78
           /\ Sums390(c, k).figure = Sums390(c, k - 1).figure + c[k].figure
<1>1. n \in Nat /\ Len(c) = n /\ k \in Nat /\ 1 \in Nat /\ 1 <= k
  BY DEF Linked
<1>2. ASSUME NEW g, Counts(g, 1..n) PROVE SumOf(g, 1..k) = SumOf(g, 1..(k - 1)) + g[k]
  <2>1. Counts(g, 1..k)
    BY <1>1, <1>2 DEF Counts
  <2> QED BY <1>1, <2>1, SumOfInterval
<1>3. /\ Counts(B71Paid(c), 1..n) /\ Counts(B72(c), 1..n) /\ Counts(B73(c), 1..n)
      /\ Counts(B78(c), 1..n) /\ Counts(Figures(c), 1..n)
  <2>1. \A i \in 1..n : /\ Pos(c[i].b71) \in Int /\ c[i].b72 \in Int /\ c[i].b73 \in Int
                        /\ c[i].b78 \in Int /\ c[i].figure \in Int
    BY LinkTyped
  <2> QED BY <1>1, <2>1 DEF Counts, B71Paid, B72, B73, B78, Figures
<1>4. /\ B71Paid(c)[k] = Pos(c[k].b71) /\ B72(c)[k] = c[k].b72 /\ B73(c)[k] = c[k].b73
      /\ B78(c)[k] = c[k].b78 /\ Figures(c)[k] = c[k].figure
  BY <1>1 DEF B71Paid, B72, B73, B78, Figures
<1> QED BY <1>2, <1>3, <1>4 DEF Sums390

LEMMA SumsStart ==
    ASSUME NEW c
    PROVE  /\ Sums390(c, 0).paid = 0 /\ Sums390(c, 0).b72 = 0 /\ Sums390(c, 0).b73 = 0
           /\ Sums390(c, 0).b78 = 0 /\ Sums390(c, 0).figure = 0
<1>1. 1..0 = {}
  OBVIOUS
<1> QED BY <1>1, SumOfNone DEF Sums390

\* Up to a quarter: the two credits are what it leaves, and what was invoiced
\* was paid, is left, was refunded or compensated.
UpToQuarter(c, f, k) ==
    /\ f[k].prior \in Nat /\ f[k].current \in Nat
    /\ f[k].prior + f[k].current = IF k < Len(c) THEN c[k].carry ELSE c[k].b87
    /\ Sums390(c, k).paid \in Int /\ Sums390(c, k).b72 \in Int /\ Sums390(c, k).b73 \in Int
    /\ Sums390(c, k).b78 \in Int /\ Sums390(c, k).figure \in Int
    /\ c[k].carry = c[1].b110 + Sums390(c, k).b72 - Sums390(c, k).b78
    /\ Sums390(c, k).figure
          = Sums390(c, k).paid - Sums390(c, k).b72 - Sums390(c, k).b73 + Sums390(c, k).b78

\* What is used of a credit that opened a quarter is there, and the rest is left.
LEMMA CreditsLeft ==
    ASSUME NEW c, NEW n, Linked(c, n), NEW k \in 1..n, NEW before,
           before.prior \in Nat, before.current \in Nat,
           before.prior + before.current = c[k].b110
    PROVE  /\ After(before, c, k).prior \in Nat /\ After(before, c, k).current \in Nat
           /\ After(before, c, k).prior + After(before, c, k).current
                 = IF k < Len(c) THEN c[k].carry ELSE c[k].b87
           /\ c[k].b78 - Least(before.prior, c[k].b78) - before.current <= 0
           /\ c[k].b87 = before.prior + before.current - c[k].b78
<1>1. PICK prior \in Nat, current \in Nat : prior = before.prior /\ current = before.current
  OBVIOUS
<1>2. PICK b78 \in Nat, b87 \in Nat, b72 \in Nat :
         b78 = c[k].b78 /\ b87 = c[k].b87 /\ b72 = c[k].b72
  BY LinkTyped
<1>3. b78 <= prior + current /\ b87 = prior + current - b78 /\ c[k].carry = b87 + b72
  BY <1>1, <1>2, LinkTyped
<1>4. PICK ofPrior \in Nat : ofPrior = Least(prior, b78)
  BY DEF Least
<1>5. /\ ofPrior <= prior /\ ofPrior <= b78 /\ b78 - ofPrior <= current
  BY <1>3, <1>4 DEF Least
<1>6. After(before, c, k) = [prior |-> prior - ofPrior,
                             current |-> current - (b78 - ofPrior) + IF k < Len(c) THEN b72 ELSE 0]
  BY <1>1, <1>2, <1>4 DEF After
<1>7. PICK a : a = After(before, c, k)
  OBVIOUS
<1>8. /\ a.prior = prior - ofPrior
      /\ a.current = current - (b78 - ofPrior) + IF k < Len(c) THEN b72 ELSE 0
  BY <1>6, <1>7
<1>9. a.prior \in Nat
  BY <1>5, <1>8
<1>10. /\ c[k].b78 - Least(before.prior, c[k].b78) - before.current <= 0
       /\ c[k].b87 = before.prior + before.current - c[k].b78
  <2>1. b78 - ofPrior - current <= 0
    BY <1>5
  <2> QED BY <1>1, <1>2, <1>3, <1>4, <2>1
<1>13. CASE k < Len(c)
  <2>1. a.current = current - (b78 - ofPrior) + b72
    BY <1>8, <1>13
  <2>2. a.current \in Nat /\ a.prior + a.current = b87 + b72
    <3>1. a.prior = prior - ofPrior
      BY <1>8
    <3> QED BY <1>3, <1>5, <2>1, <3>1
  <2> QED BY <1>3, <1>7, <1>9, <1>10, <1>13, <2>2
<1>14. CASE ~(k < Len(c))
  <2>1. a.current = current - (b78 - ofPrior)
    BY <1>5, <1>8, <1>14
  <2>2. a.current \in Nat /\ a.prior + a.current = b87
    <3>1. a.prior = prior - ofPrior
      BY <1>8
    <3> QED BY <1>3, <1>5, <2>1, <3>1
  <2> QED BY <1>2, <1>7, <1>9, <1>10, <1>14, <2>2
<1> QED BY <1>13, <1>14

LEMMA YearAddsUp ==
    ASSUME NEW c, NEW n, Linked(c, n), NEW f, \A i \in 0..n : f[i] = LeftStep(f, c, i)
    PROVE  \A k \in 1..n : UpToQuarter(c, f, k)
<1>0. n \in Nat /\ n > 0 /\ 1 \in 1..n /\ Len(c) = n /\ 0 \in 0..n
  BY DEF Linked
<1> DEFINE Good == {k \in 1..n : UpToQuarter(c, f, k)}
<1>a. ASSUME NEW k \in 1..n, NEW before, before = f[k - 1],
             before.prior \in Nat, before.current \in Nat,
             before.prior + before.current = c[k].b110
      PROVE  /\ f[k].prior \in Nat /\ f[k].current \in Nat
             /\ f[k].prior + f[k].current = IF k < Len(c) THEN c[k].carry ELSE c[k].b87
  <2>1. k \in 0..n /\ k # 0
    BY <1>0
  <2>2. f[k] = LeftStep(f, c, k)
    BY <2>1
  <2>3. f[k] = After(before, c, k)
    BY <1>a, <2>1, <2>2 DEF LeftStep
  <2> QED BY <1>a, <2>3, CreditsLeft
<1>1. 1 \in Good
  <2>1. f[0] = [prior |-> c[1].b110, current |-> 0]
    <3>1. f[0] = LeftStep(f, c, 0)
      BY <1>0
    <3> QED BY <3>1 DEF LeftStep
  <2>2. PICK before : before = f[0]
    OBVIOUS
  <2>3. c[1].b110 \in Nat /\ c[1].b78 \in Nat /\ c[1].b87 = c[1].b110 - c[1].b78
    BY <1>0, LinkTyped
  <2>4. /\ f[1].prior \in Nat /\ f[1].current \in Nat
        /\ f[1].prior + f[1].current = IF 1 < Len(c) THEN c[1].carry ELSE c[1].b87
    <3>1. before.prior = c[1].b110 /\ before.current = 0
      BY <2>1, <2>2
    <3>2. /\ before.prior \in Nat /\ before.current \in Nat
          /\ before.prior + before.current = c[1].b110
      BY <2>3, <3>1
    <3>3. before = f[1 - 1]
      BY <2>2
    <3> QED BY <1>0, <1>a, <3>2, <3>3
  <2>5. 1 - 1 = 0
    OBVIOUS
  <2>6. /\ Sums390(c, 1).paid = 0 + Pos(c[1].b71) /\ Sums390(c, 1).b72 = 0 + c[1].b72
        /\ Sums390(c, 1).b73 = 0 + c[1].b73 /\ Sums390(c, 1).b78 = 0 + c[1].b78
        /\ Sums390(c, 1).figure = 0 + c[1].figure
    BY <1>0, <2>5, SumsGrow, SumsStart
  <2>7. /\ c[1].b71 = c[1].figure - c[1].b78 /\ c[1].b72 \in Nat /\ c[1].b73 \in Nat
        /\ c[1].b72 + c[1].b73 = Pos(-c[1].b71) /\ c[1].b71 = Pos(c[1].b71) - Pos(-c[1].b71)
        /\ c[1].carry = c[1].b87 + c[1].b72 /\ c[1].figure \in Int /\ Pos(c[1].b71) \in Nat
    BY <1>0, LinkTyped
  <2>8. c[1].carry = c[1].b110 + c[1].b72 - c[1].b78
    BY <2>3, <2>7
  <2>9. c[1].figure = Pos(c[1].b71) - c[1].b72 - c[1].b73 + c[1].b78
    BY <2>3, <2>7
  <2>10. /\ Sums390(c, 1).paid = Pos(c[1].b71) /\ Sums390(c, 1).b72 = c[1].b72
         /\ Sums390(c, 1).b73 = c[1].b73 /\ Sums390(c, 1).b78 = c[1].b78
         /\ Sums390(c, 1).figure = c[1].figure
    BY <2>3, <2>6, <2>7
  <2>11. UpToQuarter(c, f, 1)
    <3>1. /\ Pos(c[1].b71) \in Int /\ c[1].b72 \in Int /\ c[1].b73 \in Int
          /\ c[1].b78 \in Int /\ c[1].figure \in Int
      BY <2>3, <2>7
    <3> QED BY <2>4, <2>8, <2>9, <2>10, <3>1 DEF UpToQuarter
  <2> QED BY <1>0, <2>11
<1>2. ASSUME NEW k \in 1..(n - 1), k \in Good PROVE k + 1 \in Good
  <2>0. k + 1 \in 1..n /\ k \in 1..n /\ (k + 1) - 1 = k /\ k + 1 > 1 /\ k < Len(c)
    BY <1>0
  <2>2. UpToQuarter(c, f, k)
    BY <1>2
  <2>3. /\ c[k + 1].b110 \in Nat /\ c[k + 1].b78 \in Nat /\ c[k + 1].b78 <= c[k + 1].b110
        /\ c[k + 1].b87 = c[k + 1].b110 - c[k + 1].b78
        /\ c[k + 1].b71 = c[k + 1].figure - c[k + 1].b78 /\ c[k + 1].b72 \in Nat /\ c[k + 1].b73 \in Nat
        /\ c[k + 1].b72 + c[k + 1].b73 = Pos(-c[k + 1].b71)
        /\ c[k + 1].b71 = Pos(c[k + 1].b71) - Pos(-c[k + 1].b71)
        /\ c[k + 1].carry = c[k + 1].b87 + c[k + 1].b72 /\ c[k + 1].figure \in Int
        /\ Pos(c[k + 1].b71) \in Nat
    BY <2>0, LinkTyped
  <2>4. c[k + 1].b110 = c[k].carry
    BY <2>0 DEF Linked
  <2>5. c[k].carry = c[k].b87 + c[k].b72 /\ c[k].b72 \in Nat /\ c[k].b87 \in Nat
    BY <2>0, LinkTyped
  <2>6. /\ Sums390(c, k + 1).paid = Sums390(c, k).paid + Pos(c[k + 1].b71)
        /\ Sums390(c, k + 1).b72 = Sums390(c, k).b72 + c[k + 1].b72
        /\ Sums390(c, k + 1).b73 = Sums390(c, k).b73 + c[k + 1].b73
        /\ Sums390(c, k + 1).b78 = Sums390(c, k).b78 + c[k + 1].b78
        /\ Sums390(c, k + 1).figure = Sums390(c, k).figure + c[k + 1].figure
    BY <2>0, SumsGrow
  <2>7. /\ f[k + 1].prior \in Nat /\ f[k + 1].current \in Nat
        /\ f[k + 1].prior + f[k + 1].current
              = IF k + 1 < Len(c) THEN c[k + 1].carry ELSE c[k + 1].b87
    <3>1. PICK before : before = f[k]
      OBVIOUS
    <3>2. /\ before.prior \in Nat /\ before.current \in Nat
          /\ before.prior + before.current = c[k + 1].b110
      BY <2>0, <2>2, <2>4, <3>1 DEF UpToQuarter
    <3>3. before = f[(k + 1) - 1]
      BY <2>0, <3>1
    <3> QED BY <1>a, <2>0, <3>2, <3>3
  <2>8. c[1].b110 \in Nat
    BY <1>0, LinkTyped
  <2>9. /\ Sums390(c, k + 1).paid \in Int /\ Sums390(c, k + 1).b72 \in Int
        /\ Sums390(c, k + 1).b73 \in Int /\ Sums390(c, k + 1).b78 \in Int
        /\ Sums390(c, k + 1).figure \in Int
    <3>1. /\ Sums390(c, k).paid \in Int /\ Sums390(c, k).b72 \in Int /\ Sums390(c, k).b73 \in Int
          /\ Sums390(c, k).b78 \in Int /\ Sums390(c, k).figure \in Int
      BY <2>2 DEF UpToQuarter
    <3>2. \A a, b \in Int : a + b \in Int
      OBVIOUS
    <3>3. /\ Pos(c[k + 1].b71) \in Int /\ c[k + 1].b72 \in Int /\ c[k + 1].b73 \in Int
          /\ c[k + 1].b78 \in Int /\ c[k + 1].figure \in Int
      BY <2>3
    <3> QED BY <2>6, <3>1, <3>2, <3>3, Zenon
  <2>10. c[k + 1].carry = c[1].b110 + Sums390(c, k + 1).b72 - Sums390(c, k + 1).b78
    <3>1. PICK s72 \in Int, s78 \in Int : s72 = Sums390(c, k).b72 /\ s78 = Sums390(c, k).b78
      BY <2>2 DEF UpToQuarter
    <3>2. c[k].carry = c[1].b110 + s72 - s78
      BY <2>2, <3>1 DEF UpToQuarter
    <3>3. /\ Sums390(c, k + 1).b72 = s72 + c[k + 1].b72
          /\ Sums390(c, k + 1).b78 = s78 + c[k + 1].b78
      BY <2>6, <3>1
    <3> QED BY <2>3, <2>4, <2>8, <3>2, <3>3
  <2>11. Sums390(c, k + 1).figure = Sums390(c, k + 1).paid - Sums390(c, k + 1).b72
                                        - Sums390(c, k + 1).b73 + Sums390(c, k + 1).b78
    <3>1. PICK p \in Int, l \in Int, r \in Int, u \in Int, g \in Int :
             /\ p = Sums390(c, k).paid /\ l = Sums390(c, k).b72 /\ r = Sums390(c, k).b73
             /\ u = Sums390(c, k).b78 /\ g = Sums390(c, k).figure
      BY <2>2 DEF UpToQuarter
    <3>2. g = p - l - r + u
      BY <2>2, <3>1 DEF UpToQuarter
    <3>3. c[k + 1].figure = Pos(c[k + 1].b71) - c[k + 1].b72 - c[k + 1].b73 + c[k + 1].b78
      BY <2>3
    <3>4. PICK p1 \in Int, l1 \in Int, r1 \in Int, u1 \in Int, g1 \in Int :
             /\ p1 = Pos(c[k + 1].b71) /\ l1 = c[k + 1].b72 /\ r1 = c[k + 1].b73
             /\ u1 = c[k + 1].b78 /\ g1 = c[k + 1].figure
      BY <2>3
    <3>5. /\ Sums390(c, k + 1).paid = p + p1 /\ Sums390(c, k + 1).b72 = l + l1
          /\ Sums390(c, k + 1).b73 = r + r1 /\ Sums390(c, k + 1).b78 = u + u1
          /\ Sums390(c, k + 1).figure = g + g1
      BY <2>6, <3>1, <3>4
    <3>6. g + g1 = (p + p1) - (l + l1) - (r + r1) + (u + u1)
      BY <3>2, <3>3, <3>4
    <3> QED BY <3>5, <3>6
  <2> QED BY <2>0, <2>7, <2>9, <2>10, <2>11 DEF UpToQuarter
<1> HIDE DEF Good
<1>3. \A k \in 1..n : k \in Good
  <2>1. 1 \in Nat
    OBVIOUS
  <2> QED BY <1>0, <1>1, <1>2, <2>1, StepByStep
<1> QED BY <1>3 DEF Good

\* What the rows and the snapshots give of the quarters that are due.
QuartersKnown ==
    /\ due \subseteq 1..4 /\ due # {}
    /\ \A q \in due : Figure(q) \in Int /\ CarriedInto(q) \in Nat

\* The last quarter of the year comes last, so no other asks for a refund.
LEMMA LastIsLast ==
    ASSUME due \subseteq Working
    PROVE  \A i \in 1..Counted390 : Listed[i] = LastQuarter => i = Counted390
<1> SUFFICES ASSUME NEW i \in 1..Counted390, Listed[i] = LastQuarter, i # Counted390 PROVE FALSE
  OBVIOUS
<1>1. Working \subseteq 1..4
  BY FormsConstants
<1>2. due \subseteq 1..4
  BY <1>1
<1>3. Counted390 \in 1..Counted390 /\ i < Counted390
  BY <1>2, ListedInOrder
<1>4. Listed[i] < Listed[Counted390] /\ Listed[Counted390] \in Working /\ Listed[i] \in 1..4
  BY <1>2, <1>3, ListedInOrder
<1>5. PICK m \in Working : \A q \in Working : q <= m
  <2>1. Working # {} /\ \A q \in Working : q \in {1, 2, 3, 4}
    BY <1>1, <1>4
  <2>2. \/ 4 \in Working
        \/ (4 \notin Working /\ 3 \in Working)
        \/ (4 \notin Working /\ 3 \notin Working /\ 2 \in Working)
        \/ Working = {1}
    BY <2>1
  <2> QED BY <2>1, <2>2
<1>6. LastQuarter = m
  <2>1. Working \in SUBSET Int
    BY <1>1
  <2> QED BY <1>5, <2>1, MaxIs, AnnualAssumption DEF AnnualAssumption
<1>7. Listed[Counted390] <= m /\ Listed[i] = m /\ Listed[Counted390] \in 1..4 /\ m \in 1..4
  BY <1>1, <1>4, <1>5, <1>6
<1> QED BY <1>4, <1>7

\* What the links of the chain are.
ChainLinks(c, refund) ==
    /\ Linked(c, Counted390)
    /\ c[1].b110 = CarriedInto(Listed[1])
    /\ \A i \in 1..Counted390 :
          /\ c[i].figure = Figure(Listed[i])
          /\ SettledAs(c[i], c[i].b110, c[i].figure, refund /\ Listed[i] = LastQuarter)

LEMMA ChainIsLinked ==
    ASSUME NEW refund \in BOOLEAN, QuartersKnown
    PROVE  ChainLinks(Chain(refund), refund)
<1> DEFINE N == Counted390
<1>1. PICK c : c = Chain(refund)
  OBVIOUS
<1>2. IsChain(c, N, refund)
  BY <1>1, ChainFollows DEF QuartersKnown
<1>3. /\ N \in Nat /\ N > 0 /\ 1 \in 1..N /\ \A i \in 1..N : Listed[i] \in due
  BY ListedInOrder DEF QuartersKnown
<1>4. ASSUME NEW i \in 1..N
      PROVE  /\ c[i].b110 \in Nat /\ c[i].figure = Figure(Listed[i]) /\ c[i].figure \in Int
             /\ SettledAs(c[i], c[i].b110, c[i].figure, refund /\ Listed[i] = LastQuarter)
             /\ c[i].b110 = IF i = 1 THEN CarriedInto(Listed[1]) ELSE c[i - 1].carry
  <2>1. PICK opening : opening = IF i = 1 THEN CarriedInto(Listed[1]) ELSE c[i - 1].carry
    OBVIOUS
  <2>2. opening \in Nat
    <3>1. CASE i = 1
      BY <1>3, <2>1, <3>1 DEF QuartersKnown
    <3>2. CASE i # 1
      <4>1. i - 1 \in 1..N
        BY <1>3, <3>2
      <4>2. c[i - 1] \in Results
        BY <1>2, <4>1 DEF IsChain
      <4>3. \A s \in Results : s.carry \in Nat
        BY ResultsCarry
      <4> QED BY <2>1, <3>2, <4>2, <4>3
    <3> QED BY <3>1, <3>2
  <2>3. PICK figure \in Int : figure = Figure(Listed[i])
    BY <1>3 DEF QuartersKnown
  <2>4. PICK back \in BOOLEAN : back = (refund /\ Listed[i] = LastQuarter)
    OBVIOUS
  <2>5. c[i] = Settlement303(opening, figure, back)
    BY <1>2, <2>1, <2>3, <2>4 DEF IsChain
  <2>6. SettledAs(c[i], opening, figure, back) /\ c[i].figure = figure
    BY <2>2, <2>5, SettlesOn
  <2>7. c[i].b110 = opening
    BY <2>6 DEF SettledAs
  <2>8. SettledAs(c[i], c[i].b110, c[i].figure, back)
    BY <2>6, <2>7
  <2> QED BY <2>1, <2>2, <2>3, <2>4, <2>6, <2>7, <2>8
<1>5. Linked(c, N)
  <2>1. Len(c) = N
    BY <1>2 DEF IsChain
  <2>2. \A i \in 1..N : \E back \in BOOLEAN : SettledAs(c[i], c[i].b110, c[i].figure, back)
    <3> SUFFICES ASSUME NEW i \in 1..N
                 PROVE  \E back \in BOOLEAN : SettledAs(c[i], c[i].b110, c[i].figure, back)
      OBVIOUS
    <3>1. PICK back \in BOOLEAN : back = (refund /\ Listed[i] = LastQuarter)
      OBVIOUS
    <3> QED BY <1>4, <3>1
  <2>3. \A i \in 1..N : i > 1 => c[i].b110 = c[i - 1].carry
    BY <1>4
  <2> QED BY <1>3, <1>4, <2>1, <2>2, <2>3 DEF Linked
<1> QED BY <1>1, <1>3, <1>4, <1>5 DEF ChainLinks

\* The year balances, whatever is asked back at its end.
LEMMA YearCloses ==
    ASSUME NEW c, NEW n, Linked(c, n), \A i \in 1..n : i # n => c[i].b73 = 0
    PROVE  Closes(c, Modelo390(c))
<1>0. n \in Nat /\ n > 0 /\ Len(c) = n /\ 1 \in 1..n /\ n \in 1..n
  BY DEF Linked
<1>1. PICK f : f = CreditsAfter(c) /\ \A i \in 0..n : f[i] = LeftStep(f, c, i)
  BY <1>0, LeftFollows
<1>2. \A k \in 1..n : UpToQuarter(c, f, k)
  BY <1>1, YearAddsUp
<1>u. UpToQuarter(c, f, n)
  BY <1>0, <1>2
<1>3. PICK prior \in Nat, current \in Nat : prior = f[n].prior /\ current = f[n].current
  BY <1>u DEF UpToQuarter
<1>4. PICK paid \in Int, s72 \in Int, s73 \in Int, s78 \in Int, fig \in Int :
         /\ paid = Sums390(c, n).paid /\ s72 = Sums390(c, n).b72 /\ s73 = Sums390(c, n).b73
         /\ s78 = Sums390(c, n).b78 /\ fig = Sums390(c, n).figure
  BY <1>u DEF UpToQuarter
<1>5. /\ c[n].carry = c[1].b110 + s72 - s78
      /\ fig = paid - s72 - s73 + s78
  BY <1>u, <1>4 DEF UpToQuarter
<1>6. PICK b110 \in Nat, b87 \in Nat, b72 \in Nat, b73 \in Nat :
         /\ b110 = c[1].b110 /\ b87 = c[n].b87 /\ b72 = c[n].b72 /\ b73 = c[n].b73
  BY <1>0, LinkTyped
<1>7. c[n].carry = b87 + b72
  BY <1>0, <1>6, LinkTyped
<1>8. s73 = b73
  <2>1. s73 = Sums390(c, n - 1).b73 + b73
    BY <1>0, <1>4, <1>6, SumsGrow
  <2>2. Sums390(c, n - 1).b73 = 0
    <3>1. \A i \in 1..(n - 1) : B73(c)[i] = 0
      BY <1>0 DEF B73
    <3>2. IsFiniteSet(1..(n - 1))
      BY <1>0, FS_Interval
    <3> QED BY <3>1, <3>2, SumOfZeros DEF Sums390
  <2> QED BY <2>1, <2>2
<1>9. /\ Total(c, LAMBDA r : r.figure) = fig /\ Total(c, LAMBDA r : Pos(r.b71)) = paid
      /\ Total(c, LAMBDA r : r.b72) = s72 /\ Total(c, LAMBDA r : r.b78) = s78
  BY <1>0, <1>4, TotalsAre DEF Sums390
<1>10. prior + current = b87
  BY <1>0, <1>3, <1>6, <1>u DEF UpToQuarter
<1>11. PICK y : y = Modelo390(c)
  OBVIOUS
<1>12. /\ y.b86 = fig - (b110 - prior) /\ y.b95 = paid /\ y.b97 = b72 /\ y.b98 = b73
       /\ y.b662 = current /\ y.closing = prior + current + b72
  <2>1. PICK used : used = b110 - prior
    OBVIOUS
  <2>2. y = [b65 |-> fig, b85 |-> used, b86 |-> fig - used, b95 |-> paid, b97 |-> b72, b98 |-> b73,
             b662 |-> current, closing |-> prior + current + b72]
    BY <1>0, <1>1, <1>3, <1>6, <1>9, <1>11, <2>1 DEF Modelo390
  <2> QED BY <2>1, <2>2
<1>13. b87 + b72 = b110 + s72 - s78
  BY <1>5, <1>6, <1>7
<1>14. y.b662 >= 0
  BY <1>12
<1>15. y.b86 = y.b95 - y.b97 - y.b98 - y.b662
  <2>1. fig - (b110 - prior) = paid - b72 - b73 - current
    BY <1>5, <1>8, <1>10, <1>13
  <2> QED BY <1>12, <2>1
<1>16. y.closing = c[n].carry
  BY <1>7, <1>10, <1>12
<1>17. Balanced(c)
  <2> SUFFICES ASSUME NEW i \in 1..n, NEW r, r = c[i], NEW before, before = f[i - 1]
               PROVE  /\ r.b110 >= 0 /\ r.b78 >= 0 /\ r.b87 >= 0 /\ r.b72 >= 0 /\ r.b73 >= 0
                      /\ i > 1 => Near(r.b110, c[i - 1].b87 + c[i - 1].b72)
                      /\ r.b78 - r.b110 <= 2
                      /\ r.b72 = 0 \/ r.b73 = 0
                      /\ i < n => r.b73 = 0
                      /\ r.b78 - Least(before.prior, r.b78) - before.current <= 2
                      /\ Near(r.b87, before.prior + before.current - r.b78)
    BY <1>0, <1>1 DEF Balanced
  <2>1. /\ r.b110 \in Nat /\ r.b78 \in Nat /\ r.b78 <= r.b110 /\ r.b87 \in Nat
        /\ r.b72 \in Nat /\ r.b73 \in Nat /\ (r.b72 = 0 \/ r.b73 = 0)
    BY LinkTyped
  <2>2. ASSUME i > 1 PROVE Near(r.b110, c[i - 1].b87 + c[i - 1].b72)
    <3>1. i - 1 \in 1..n
      BY <1>0, <2>2
    <3>2. r.b110 = c[i - 1].carry
      BY <2>2 DEF Linked
    <3>3. c[i - 1].carry = c[i - 1].b87 + c[i - 1].b72
      BY <3>1, LinkTyped
    <3> QED BY <2>1, <3>2, <3>3 DEF Near
  <2>3. i < n => r.b73 = 0
    BY <1>0
  <2>4. before.prior \in Nat /\ before.current \in Nat /\ before.prior + before.current = r.b110
    <3>1. CASE i = 1
      <4>1. f[0] = LeftStep(f, c, 0)
        BY <1>0, <1>1
      <4>2. before = [prior |-> c[1].b110, current |-> 0]
        BY <3>1, <4>1 DEF LeftStep
      <4>3. before.prior = r.b110 /\ before.current = 0
        BY <3>1, <4>2
      <4> QED BY <2>1, <4>3
    <3>2. CASE i # 1
      <4>1. i - 1 \in 1..n /\ i - 1 < n /\ i > 1
        BY <1>0, <3>2
      <4>2. UpToQuarter(c, f, i - 1)
        BY <1>2, <4>1
      <4>3. r.b110 = c[i - 1].carry
        BY <4>1 DEF Linked
      <4> QED BY <1>0, <4>1, <4>2, <4>3 DEF UpToQuarter
    <3> QED BY <3>1, <3>2
  <2>5. /\ r.b78 - Least(before.prior, r.b78) - before.current <= 0
        /\ r.b87 = before.prior + before.current - r.b78
    BY <2>4, CreditsLeft
  <2>6. r.b78 - Least(before.prior, r.b78) - before.current <= 2
    <3>1. Least(before.prior, r.b78) \in Int
      BY <2>1, <2>4 DEF Least
    <3> QED BY <2>1, <2>4, <2>5, <3>1
  <2>7. Near(r.b87, before.prior + before.current - r.b78)
    BY <2>1, <2>5 DEF Near
  <2>8. r.b78 - r.b110 <= 2 /\ r.b110 >= 0 /\ r.b78 >= 0 /\ r.b87 >= 0 /\ r.b72 >= 0 /\ r.b73 >= 0
    BY <2>1
  <2> QED BY <2>1, <2>2, <2>3, <2>6, <2>7, <2>8
<1> QED BY <1>0, <1>11, <1>14, <1>15, <1>16, <1>17 DEF Closes

\* What is known of the quarters that may go into modelo 390.
LEMMA QuartersAreKnown ==
    ASSUME FormsTyped, AnnualIInv, due # {}, \A q \in due : Ready303(q)
    PROVE  QuartersKnown
<1>1. Working \subseteq 1..4 /\ due \subseteq 1..4
  BY FormsConstants DEF AnnualIInv
<1>2. ASSUME NEW q \in due PROVE Figure(q) \in Int /\ CarriedInto(q) \in Nat
  <2>1. Figure(q) \in Int
    BY QuarterFigures DEF Figure
  <2>2. q - 1 \in 0..4
    BY <1>1
  <2>3. snapshots[q - 1] \in Seq(Filings303)
    BY <2>2 DEF AnnualIInv
  <2> QED BY <2>1, <2>3, CarriedIsNat DEF CarriedInto
<1> QED BY <1>1, <1>2 DEF QuartersKnown

\* calculate_modelo390 accepts the chain of any year whose rows are classified.
LEMMA YearsBalance == FormsTyped /\ AnnualIInv => YearBalances
<1> SUFFICES ASSUME FormsTyped, AnnualIInv, due # {}, \A q \in due : Ready303(q)
             PROVE  Closes(Chain(FALSE), Modelo390(Chain(FALSE)))
  BY DEF YearBalances
<1>1. QuartersKnown
  BY QuartersAreKnown
<1>2. PICK c : c = Chain(FALSE)
  OBVIOUS
<1>3. ChainLinks(c, FALSE)
  BY <1>1, <1>2, ChainIsLinked
<1>4. \A i \in 1..Counted390 : c[i].b73 = 0
  BY <1>3 DEF ChainLinks, SettledAs
<1>5. Closes(c, Modelo390(c))
  BY <1>3, <1>4, YearCloses DEF ChainLinks
<1> QED BY <1>2, <1>5

-----------------------------------------------------------------------------
(* What was filed, and what the chain makes of the ledger *)

\* What a quarter carries on and is paid back drifts no further from the chain
\* than its opening credit and its figure do; nor does what is paid.
Within(k, d, h) ==
    -k <= d /\ d <= k /\ -k <= h /\ h <= k /\ -k <= d - h /\ d - h <= k

LEMMA QuarterDrifts ==
    ASSUME NEW o \in Int, NEW p \in Int, NEW f \in Int, NEW g \in Int, NEW k \in Nat,
           NEW d \in Int, NEW h \in Int, Within(k, d, h),
           (o - p) - d \in -2..2, f - g \in -4..4
    PROVE  Within(k + 6, Pos(o - f) - Pos(p - g), h + Pos(f - o) - Pos(g - p))
<1>0. /\ -k <= d /\ d <= k /\ -k <= h /\ h <= k /\ -k <= d - h /\ d - h <= k
      /\ -2 <= (o - p) - d /\ (o - p) - d <= 2 /\ -4 <= f - g /\ f - g <= 4
  BY DEF Within
<1>p. PICK d1 \in Int, h1 \in Int :
         d1 = Pos(o - f) - Pos(p - g) /\ h1 = h + Pos(f - o) - Pos(g - p)
  <2>1. /\ Pos(o - f) \in Int /\ Pos(p - g) \in Int
        /\ Pos(f - o) \in Int /\ Pos(g - p) \in Int
    BY DEF Pos
  <2>2. Pos(o - f) - Pos(p - g) \in Int /\ h + Pos(f - o) - Pos(g - p) \in Int
    BY <2>1
  <2> QED BY <2>2
<1> SUFFICES /\ -(k + 6) <= d1 /\ d1 <= k + 6 /\ -(k + 6) <= h1 /\ h1 <= k + 6
             /\ -(k + 6) <= d1 - h1 /\ d1 - h1 <= k + 6
  BY <1>p DEF Within
<1>1. /\ Pos(o - f) = IF o - f > 0 THEN o - f ELSE 0
      /\ Pos(p - g) = IF p - g > 0 THEN p - g ELSE 0
      /\ Pos(f - o) = IF f - o > 0 THEN f - o ELSE 0
      /\ Pos(g - p) = IF g - p > 0 THEN g - p ELSE 0
  BY DEF Pos
<1>2. CASE o > f /\ p > g
  <2>1. d1 = (o - f) - (p - g) /\ h1 = h
    BY <1>p, <1>1, <1>2
  <2> QED BY <1>0, <2>1
<1>3. CASE o > f /\ ~(p > g)
  <2>1. d1 = o - f /\ h1 = h - (g - p)
    BY <1>p, <1>1, <1>3
  <2> QED BY <1>0, <1>3, <2>1
<1>4. CASE ~(o > f) /\ p > g
  <2>1. d1 = -(p - g) /\ h1 = h + (f - o)
    BY <1>p, <1>1, <1>4
  <2> QED BY <1>0, <1>4, <2>1
<1>5. CASE ~(o > f) /\ ~(p > g)
  <2>1. d1 = 0 /\ h1 = h + (f - o) - (g - p)
    BY <1>p, <1>1, <1>5
  <2> QED BY <1>0, <1>5, <2>1
<1> QED BY <1>2, <1>3, <1>4, <1>5

\* What the gates let a filed quarter say.
FiledWell(i) ==
    LET e == Evidence(Listed[i]) IN
    /\ e.b110 \in Nat /\ e.b71 \in Int /\ e.b73 \in Nat /\ e.carry \in Nat
    /\ e.carry = e.b87 + e.b72
    /\ e.carry = 0 \/ e.b73 = 0
    /\ \E g \in Int : /\ Figure(Listed[i]) - g \in -4..4
                      /\ e.carry + e.b73 = Pos(e.b110 - g) /\ Pos(e.b71) = Pos(g - e.b110)
    /\ e.b73 > 0 => Listed[i] = LastQuarter

\* How near its opening credit is to what was left before it.
OpensNear(i) ==
    IF i = 1 THEN CarriedInto(Listed[1]) - Evidence(Listed[1]).b110 \in -2..2
    ELSE Evidence(Listed[i - 1]).carry - Evidence(Listed[i]).b110 \in -2..2

\* The year of which the gates let modelo 390 be calculated.
ReadyToClose == FormsTyped /\ AnnualIInv /\ FormerAgrees /\ ReadyFor390

LEMMA EvidenceIsOne ==
    ASSUME ReadyToClose, NEW q \in due
    PROVE  Evidence(q) \in Filings303 /\ q \in 1..4 /\ Ready303(q)
<1>1. q \in 1..4
  BY FormsConstants DEF ReadyToClose, AnnualIInv
<1>2. snapshots[q] \in Seq(Filings303) /\ snapshots[q] # <<>>
  BY <1>1 DEF ReadyToClose, AnnualIInv, ReadyFor390
<1>3. Ready303(q)
  BY DEF ReadyToClose, ReadyFor390, TotalsMatch
<1> QED BY <1>1, <1>2, <1>3, BestIsOne DEF Evidence

LEMMA CloseIsKnown == ReadyToClose => QuartersKnown
<1> SUFFICES ASSUME ReadyToClose PROVE QuartersKnown
  OBVIOUS
<1>1. FormsTyped /\ AnnualIInv /\ due # {}
  BY DEF ReadyToClose, ReadyFor390
<1>2. \A q \in due : Ready303(q)
  BY EvidenceIsOne
<1> QED BY <1>1, <1>2, QuartersAreKnown

LEMMA FiledQuarter ==
    ASSUME ReadyToClose, NEW i \in 1..Counted390
    PROVE  FiledWell(i)
<1>1. QuartersKnown /\ Listed[i] \in due /\ Len(Listed) = Counted390
  BY CloseIsKnown, ListedInOrder DEF QuartersKnown
<1>2. PICK e : e = Evidence(Listed[i])
  OBVIOUS
<1>3. e \in Filings303
  BY <1>1, <1>2, EvidenceIsOne
<1>4. e.b110 \in Nat /\ e.b27 \in Int /\ e.b45 \in Int
  BY <1>3, FiledIsSettled
<1>5. PICK opening \in Nat : opening = e.b110
  BY <1>4
<1>6. PICK g \in Int : g = e.b27 - e.b45
  BY <1>4
<1>7. PICK refund \in BOOLEAN : SettledAs(e, opening, g, refund)
  <2>1. \E refund \in BOOLEAN : SettledAs(e, e.b110, e.b27 - e.b45, refund)
    BY <1>3, FiledIsSettled
  <2> QED BY <1>5, <1>6, <2>1
<1>8. /\ e.b71 = g - e.b78 /\ e.b78 \in Nat /\ e.b73 \in Nat /\ e.carry \in Nat
      /\ e.carry = e.b87 + e.b72 /\ Pos(e.b71) = Pos(g - opening)
      /\ IF refund THEN e.carry = 0 /\ e.b73 = Pos(opening - g)
         ELSE e.b73 = 0 /\ e.carry = Pos(opening - g)
  BY <1>7 DEF SettledAs
<1>9. (e.carry = 0 \/ e.b73 = 0) /\ e.carry + e.b73 = Pos(opening - g)
  BY <1>8
<1>10. Figure(Listed[i]) - g \in -4..4
  <2>1. TotalsMatch(Listed[i]) /\ Ready303(Listed[i]) /\ FormsTyped
    BY <1>1 DEF ReadyToClose, ReadyFor390, TotalsMatch
  <2>2. PICK due27 \in Int : due27 = Due(Rows303(Listed[i]))
    BY <2>1, QuarterFigures
  <2>3. PICK ded45 \in Int : ded45 = Deductible(Rows303(Listed[i]))
    BY <2>1, QuarterFigures
  <2>4. e.b27 - due27 \in -2..2 /\ e.b45 - ded45 \in -2..2
    BY <1>2, <2>1, <2>2, <2>3 DEF TotalsMatch, Near
  <2>5. (due27 - ded45) - g \in -4..4
    BY <1>4, <1>6, <2>4
  <2> QED BY <2>2, <2>3, <2>5 DEF Figure
<1>11. e.b73 > 0 => Listed[i] = LastQuarter
  <2>1. Settles(i)
    BY <1>1 DEF ReadyToClose, ReadyFor390
  <2> QED BY <1>2, <2>1 DEF Settles
<1>12. e.b71 \in Int
  BY <1>8
<1> QED BY <1>2, <1>4, <1>5, <1>8, <1>9, <1>10, <1>11, <1>12 DEF FiledWell

\* The first quarter opens near the former year's credit, or near none.
LEMMA FirstOpens ==
    ASSUME ReadyToClose
    PROVE  OpensNear(1)
<1>1. QuartersKnown /\ Len(Listed) = Counted390 /\ 1 \in 1..Counted390 /\ Listed[1] \in due
  BY CloseIsKnown, ListedInOrder DEF QuartersKnown
<1>2. PICK e : e = Evidence(Listed[1])
  OBVIOUS
<1>3. e.b110 \in Nat
  BY <1>1, <1>2, FiledQuarter DEF FiledWell
<1>4. FollowsOn(1)
  <2>1. Settles(1)
    BY <1>1 DEF ReadyToClose, ReadyFor390
  <2> QED BY <2>1 DEF Settles
<1>5. CASE Listed[1] = 1 /\ snapshots[0] # <<>>
  <2>1. PICK s : s = Best(snapshots[0])
    OBVIOUS
  <2>2. Says303(s, "b72") /\ CarryOf(s) = CarriedInto(1)
    BY <1>5, <2>1 DEF ReadyToClose, FormerAgrees
  <2>3. Near(e.b110, CarryOf(s))
    BY <1>2, <1>4, <1>5, <2>1, <2>2 DEF FollowsOn
  <2>4. PICK o \in Nat : o = CarriedInto(Listed[1])
    BY <1>1 DEF QuartersKnown
  <2>5. e.b110 - o \in -2..2
    BY <1>5, <2>2, <2>3, <2>4 DEF Near
  <2>6. o - e.b110 \in -2..2
    BY <1>3, <2>5
  <2> QED BY <1>2, <2>4, <2>6 DEF OpensNear
<1>6. CASE ~(Listed[1] = 1 /\ snapshots[0] # <<>>)
  <2>1. e.b110 <= 2
    BY <1>2, <1>4, <1>6 DEF FollowsOn
  <2>2. snapshots[Listed[1] - 1] = <<>>
    <3>1. CASE Listed[1] = 1
      <4>1. 1 - 1 = 0
        OBVIOUS
      <4> QED BY <1>6, <3>1, <4>1
    <3>2. CASE Listed[1] # 1
      <4>1. Listed[1] \in 1..4 /\ Listed[1] - 1 \in 1..4
        <5>1. Listed[1] \in 1..4
          BY <1>1 DEF QuartersKnown
        <5>2. \A q \in 1..4 : q # 1 => q - 1 \in 1..4
          OBVIOUS
        <5> QED BY <3>2, <5>1, <5>2, Zenon
      <4>2. Listed[1] - 1 \notin due
        <5> SUFFICES ASSUME Listed[1] - 1 \in due PROVE FALSE
          OBVIOUS
        <5>1. PICK j \in 1..Counted390 : Listed[j] = Listed[1] - 1
          BY <1>1, ListedInOrder DEF QuartersKnown
        <5>2. j = 1 \/ 1 < j
          BY <5>1
        <5>3. j = 1 \/ Listed[1] < Listed[j]
          BY <1>1, <5>2, ListedInOrder DEF QuartersKnown
        <5> QED BY <4>1, <5>1, <5>3
      <4> QED BY <4>1, <4>2 DEF ReadyToClose, AnnualIInv
    <3> QED BY <3>1, <3>2
  <2>3. CarriedInto(Listed[1]) = 0
    BY <2>2 DEF CarriedInto, Carried
  <2>4. 0 - e.b110 \in -2..2
    BY <1>3, <2>1
  <2> QED BY <1>2, <2>3, <2>4 DEF OpensNear
<1> QED BY <1>5, <1>6

\* A later quarter opens near what the filed one before it carried on.
LEMMA LaterOpens ==
    ASSUME ReadyToClose, NEW i \in 2..Counted390
    PROVE  OpensNear(i)
<1>1. QuartersKnown /\ Len(Listed) = Counted390 /\ Counted390 \in Nat
  BY CloseIsKnown, ListedInOrder DEF QuartersKnown
<1>2. i \in 1..Counted390 /\ i - 1 \in 1..Counted390 /\ i > 1 /\ i # 1
  BY <1>1
<1>3. Settles(i) /\ Settles(i - 1)
  BY <1>1, <1>2 DEF ReadyToClose, ReadyFor390
<1>4. PICK e : e = Evidence(Listed[i])
  OBVIOUS
<1>5. PICK b : b = Evidence(Listed[i - 1])
  OBVIOUS
<1>6. FollowsOn(i) /\ Says303(b, "b72")
  BY <1>3, <1>5 DEF Settles
<1>7. Near(e.b110, b.b87 + b.b72)
  BY <1>2, <1>4, <1>5, <1>6 DEF FollowsOn
<1>8. e.b110 \in Nat /\ b.carry \in Nat /\ b.carry = b.b87 + b.b72
  BY <1>2, <1>4, <1>5, FiledQuarter DEF FiledWell
<1>9. e.b110 - b.carry \in -2..2
  BY <1>7, <1>8 DEF Near
<1>10. b.carry - e.b110 \in -2..2
  BY <1>8, <1>9
<1> QED BY <1>2, <1>4, <1>5, <1>10 DEF OpensNear

\* After each quarter: what the chain leaves or pays back, and what it has
\* paid, against what was filed.
FiledPaid == [i \in 1..Counted390 |-> Pos(Evidence(Listed[i]).b71)]
LeftBy(c, i) == c[i].carry + c[i].b73
LeftFiled(i) == Evidence(Listed[i]).carry + Evidence(Listed[i]).b73

Keeping(c, i) ==
    \E d, h \in Int :
        /\ d = LeftBy(c, i) - LeftFiled(i)
        /\ h = SumOf(B71Paid(c), 1..i) - SumOf(FiledPaid, 1..i)
        /\ Within(6 * i, d, h)

LEMMA PaidSums ==
    ASSUME ReadyToClose, NEW c, Linked(c, Counted390), NEW i \in 1..Counted390
    PROVE  /\ SumOf(B71Paid(c), 1..i) \in Int /\ SumOf(FiledPaid, 1..i) \in Int
           /\ SumOf(B71Paid(c), 1..i) = SumOf(B71Paid(c), 1..(i - 1)) + Pos(c[i].b71)
           /\ SumOf(FiledPaid, 1..i) = SumOf(FiledPaid, 1..(i - 1)) + Pos(Evidence(Listed[i]).b71)
<1>1. Counted390 \in Nat /\ Len(c) = Counted390 /\ i \in Nat /\ 1 \in Nat /\ 1 <= i
  BY DEF Linked
<1>2. ASSUME NEW j \in 1..Counted390
      PROVE  /\ B71Paid(c)[j] = Pos(c[j].b71) /\ FiledPaid[j] = Pos(Evidence(Listed[j]).b71)
             /\ B71Paid(c)[j] \in Int /\ FiledPaid[j] \in Int
  <2>1. B71Paid(c)[j] = Pos(c[j].b71) /\ FiledPaid[j] = Pos(Evidence(Listed[j]).b71)
    BY <1>1 DEF B71Paid, FiledPaid
  <2>2. Pos(c[j].b71) \in Nat
    BY LinkTyped
  <2>3. Evidence(Listed[j]).b71 \in Int
    BY FiledQuarter DEF FiledWell
  <2>4. Pos(Evidence(Listed[j]).b71) \in Nat
    BY <2>3, PosNat
  <2> QED BY <2>1, <2>2, <2>4
<1>3. Counts(B71Paid(c), 1..i) /\ Counts(FiledPaid, 1..i) /\ IsFiniteSet(1..i)
  <2>1. \A j \in 1..i : j \in 1..Counted390
    BY <1>1
  <2>2. IsFiniteSet(1..i)
    BY <1>1, FS_Interval
  <2> QED BY <1>2, <2>1, <2>2 DEF Counts
<1>4. SumOf(B71Paid(c), 1..i) \in Int /\ SumOf(FiledPaid, 1..i) \in Int
  BY <1>3, SumIsInt
<1>5. /\ SumOf(B71Paid(c), 1..i) = SumOf(B71Paid(c), 1..(i - 1)) + B71Paid(c)[i]
      /\ SumOf(FiledPaid, 1..i) = SumOf(FiledPaid, 1..(i - 1)) + FiledPaid[i]
  BY <1>1, <1>3, SumOfInterval
<1> QED BY <1>2, <1>4, <1>5

\* One more quarter, from what was left and paid before it.
LEMMA KeepsOn ==
    ASSUME ReadyToClose, NEW c, NEW refund \in BOOLEAN, ChainLinks(c, refund),
           NEW i \in 1..Counted390, NEW k \in Nat, k + 6 = 6 * i, NEW d \in Int, NEW h \in Int,
           Within(k, d, h),
           h = SumOf(B71Paid(c), 1..(i - 1)) - SumOf(FiledPaid, 1..(i - 1)),
           SumOf(B71Paid(c), 1..(i - 1)) \in Int, SumOf(FiledPaid, 1..(i - 1)) \in Int,
           (c[i].b110 - Evidence(Listed[i]).b110) - d \in -2..2
    PROVE  Keeping(c, i)
<1>1. PICK e : e = Evidence(Listed[i])
  OBVIOUS
<1>2. /\ e.b110 \in Nat /\ e.carry \in Nat /\ e.b73 \in Nat
      /\ \E g \in Int : /\ Figure(Listed[i]) - g \in -4..4
                        /\ e.carry + e.b73 = Pos(e.b110 - g) /\ Pos(e.b71) = Pos(g - e.b110)
  BY <1>1, FiledQuarter DEF FiledWell
<1>3. PICK g \in Int : /\ Figure(Listed[i]) - g \in -4..4
                       /\ e.carry + e.b73 = Pos(e.b110 - g) /\ Pos(e.b71) = Pos(g - e.b110)
  BY <1>2
<1>4. PICK p \in Int : p = e.b110
  BY <1>2
<1>5. Linked(c, Counted390) /\ c[i].figure = Figure(Listed[i])
  BY DEF ChainLinks
<1>6. /\ c[i].b110 \in Nat /\ c[i].figure \in Int /\ c[i].carry \in Nat /\ c[i].b73 \in Nat
  BY <1>5, LinkTyped
<1>7. PICK o \in Int : o = c[i].b110
  BY <1>6
<1>8. PICK f \in Int : f = c[i].figure
  BY <1>6
<1>9. c[i].carry + c[i].b73 = Pos(o - f) /\ Pos(c[i].b71) = Pos(f - o)
  <2>1. PICK back \in BOOLEAN : back = (refund /\ Listed[i] = LastQuarter)
    OBVIOUS
  <2>2. SettledAs(c[i], o, f, back)
    BY <1>7, <1>8, <2>1 DEF ChainLinks
  <2>3. /\ Pos(c[i].b71) = Pos(f - o)
        /\ IF back THEN c[i].carry = 0 /\ c[i].b73 = Pos(o - f)
           ELSE c[i].b73 = 0 /\ c[i].carry = Pos(o - f)
    BY <2>2 DEF SettledAs
  <2>4. Pos(o - f) \in Int
    BY DEF Pos
  <2> QED BY <1>6, <2>3, <2>4
<1>10. PICK s \in Int : s = SumOf(B71Paid(c), 1..(i - 1))
  OBVIOUS
<1>11. PICK t \in Int : t = SumOf(FiledPaid, 1..(i - 1))
  OBVIOUS
<1>12. h = s - t
  BY <1>10, <1>11
<1>13. /\ SumOf(B71Paid(c), 1..i) = s + Pos(f - o) /\ SumOf(FiledPaid, 1..i) = t + Pos(g - p)
  <2>1. SumOf(B71Paid(c), 1..i) = s + Pos(c[i].b71) /\ SumOf(FiledPaid, 1..i) = t + Pos(e.b71)
    BY <1>1, <1>5, <1>10, <1>11, PaidSums
  <2> QED BY <1>3, <1>4, <1>9, <2>1
<1>14. Pos(o - f) \in Int /\ Pos(p - g) \in Int /\ Pos(f - o) \in Int /\ Pos(g - p) \in Int
  BY DEF Pos
<1>15. PICK d1 \in Int : d1 = Pos(o - f) - Pos(p - g)
  BY <1>14
<1>16. PICK h1 \in Int : h1 = h + Pos(f - o) - Pos(g - p)
  BY <1>14
<1>17. (o - p) - d \in -2..2 /\ f - g \in -4..4
  BY <1>1, <1>3, <1>4, <1>5, <1>7, <1>8
<1>18. Within(6 * i, d1, h1)
  <2>1. Within(k + 6, Pos(o - f) - Pos(p - g), h + Pos(f - o) - Pos(g - p))
    BY <1>17, QuarterDrifts
  <2> QED BY <1>15, <1>16, <2>1
<1>19. d1 = LeftBy(c, i) - LeftFiled(i)
  BY <1>1, <1>3, <1>4, <1>9, <1>15 DEF LeftBy, LeftFiled
<1>20. h1 = SumOf(B71Paid(c), 1..i) - SumOf(FiledPaid, 1..i)
  <2>1. h1 = (s - t) + Pos(f - o) - Pos(g - p)
    BY <1>12, <1>16
  <2>2. (s - t) + Pos(f - o) - Pos(g - p) = (s + Pos(f - o)) - (t + Pos(g - p))
    BY <1>14
  <2> QED BY <1>13, <2>1, <2>2
<1> QED BY <1>18, <1>19, <1>20 DEF Keeping

\* Six cents a quarter: two of the opening, two of each side of the figure.
LEMMA YearKeeps ==
    ASSUME ReadyToClose, NEW c, NEW refund \in BOOLEAN, ChainLinks(c, refund)
    PROVE  Keeping(c, Counted390)
<1> DEFINE N == Counted390
           Good == {i \in 1..N : Keeping(c, i)}
<1>0. /\ N \in Nat /\ N > 0 /\ 1 \in 1..N /\ QuartersKnown /\ Linked(c, N)
      /\ \A i \in 1..N : Listed[i] \in due
  BY CloseIsKnown, ListedInOrder DEF QuartersKnown, ChainLinks
<1>1. 1 \in Good
  <2>1. OpensNear(1) /\ c[1].b110 = CarriedInto(Listed[1])
    BY FirstOpens DEF ChainLinks
  <2>2. CarriedInto(Listed[1]) - Evidence(Listed[1]).b110 \in -2..2
    BY <2>1 DEF OpensNear
  <2>3. c[1].b110 \in Nat /\ Evidence(Listed[1]).b110 \in Nat
    <3>1. FiledWell(1)
      BY <1>0, FiledQuarter
    <3> QED BY <1>0, <3>1, LinkTyped DEF FiledWell
  <2>4. (c[1].b110 - Evidence(Listed[1]).b110) - 0 \in -2..2
    BY <2>1, <2>2, <2>3
  <2>5. SumOf(B71Paid(c), 1..(1 - 1)) = 0 /\ SumOf(FiledPaid, 1..(1 - 1)) = 0
    <3>1. 1..(1 - 1) = {}
      OBVIOUS
    <3> QED BY <3>1, SumOfNone
  <2>6. 0 \in Nat /\ 0 \in Int /\ 0 + 6 = 6 * 1 /\ 0 = 0 - 0
    OBVIOUS
  <2>7. Within(0, 0, 0)
    BY DEF Within
  <2>8. 0 = SumOf(B71Paid(c), 1..(1 - 1)) - SumOf(FiledPaid, 1..(1 - 1))
    BY <2>5
  <2>9. Keeping(c, 1)
    <3>1. SumOf(B71Paid(c), 1..(1 - 1)) \in Int /\ SumOf(FiledPaid, 1..(1 - 1)) \in Int
      BY <2>5
    <3> QED BY <1>0, <2>4, <2>6, <2>7, <2>8, <3>1, KeepsOn, Zenon
  <2> QED BY <1>0, <2>9
<1>2. ASSUME NEW i \in 1..(N - 1), i \in Good PROVE i + 1 \in Good
  <2>0. /\ i \in Nat /\ i \in 1..N /\ i + 1 \in 1..N /\ i + 1 \in 2..N /\ i + 1 # 1
        /\ i + 1 > 1 /\ (i + 1) - 1 = i /\ 6 * i \in Nat /\ 6 * i + 6 = 6 * (i + 1) /\ i # N
    BY <1>0
  <2>1. PICK d \in Int, h \in Int :
           /\ d = LeftBy(c, i) - LeftFiled(i)
           /\ h = SumOf(B71Paid(c), 1..i) - SumOf(FiledPaid, 1..i)
           /\ Within(6 * i, d, h)
    BY <1>2 DEF Keeping
  <2>2. OpensNear(i + 1)
    BY <2>0, LaterOpens
  <2>3. PICK before : before = Evidence(Listed[i])
    OBVIOUS
  <2>4. PICK e : e = Evidence(Listed[i + 1])
    OBVIOUS
  <2>5. before.carry - e.b110 \in -2..2
    BY <2>0, <2>2, <2>3, <2>4 DEF OpensNear
  <2>6. Listed[i] # LastQuarter
    BY <1>0, <2>0, LastIsLast DEF ReadyToClose, AnnualIInv
  <2>7. before.b73 = 0 /\ before.carry \in Nat
    <3>1. FiledWell(i)
      BY <2>0, FiledQuarter
    <3> QED BY <2>3, <2>6, <3>1 DEF FiledWell
  <2>8. c[i].b73 = 0 /\ c[i].carry \in Nat
    <3>1. ~(refund /\ Listed[i] = LastQuarter)
      BY <2>6
    <3>2. c[i].b73 = 0
      BY <2>0, <3>1 DEF ChainLinks, SettledAs
    <3> QED BY <1>0, <2>0, <3>2, LinkTyped
  <2>9. c[i + 1].b110 = c[i].carry
    BY <2>0, <1>0 DEF Linked
  <2>10. e.b110 \in Nat
    <3>1. FiledWell(i + 1)
      BY <2>0, FiledQuarter
    <3> QED BY <2>4, <3>1 DEF FiledWell
  <2>11. (c[i + 1].b110 - e.b110) - d \in -2..2
    <3>1. d = c[i].carry - before.carry
      BY <2>1, <2>3, <2>7, <2>8 DEF LeftBy, LeftFiled
    <3> QED BY <2>5, <2>7, <2>8, <2>9, <2>10, <3>1
  <2>12. SumOf(B71Paid(c), 1..i) \in Int /\ SumOf(FiledPaid, 1..i) \in Int
    BY <1>0, <2>0, PaidSums
  <2>13. PICK j \in 1..N : j = i + 1
    BY <2>0
  <2>14. Keeping(c, j)
    <3>1. j - 1 = i /\ 6 * i + 6 = 6 * j
      BY <2>0, <2>13
    <3>2. (c[j].b110 - Evidence(Listed[j]).b110) - d \in -2..2
      BY <2>4, <2>11, <2>13
    <3>3. h = SumOf(B71Paid(c), 1..(j - 1)) - SumOf(FiledPaid, 1..(j - 1))
      BY <2>1, <3>1
    <3>4. SumOf(B71Paid(c), 1..(j - 1)) \in Int /\ SumOf(FiledPaid, 1..(j - 1)) \in Int
      BY <2>12, <3>1
    <3> QED BY <2>0, <2>1, <3>1, <3>2, <3>3, <3>4, KeepsOn, Zenon
  <2> QED BY <2>0, <2>13, <2>14
<1> HIDE DEF Good
<1>3. \A i \in 1..N : i \in Good
  <2>1. 1 \in Nat
    OBVIOUS
  <2> HIDE DEF N
  <2> QED BY <1>0, <1>1, <1>2, <2>1, StepByStep
<1>4. N \in Good
  BY <1>0, <1>3
<1> QED BY <1>4 DEF Good

\* The quarters that are due, one by one.
LEMMA SumOverDue ==
    ASSUME due \subseteq 1..4, NEW g, Counts(g, due)
    PROVE  SumOf(g, due) = SumOf([i \in 1..Counted390 |-> g[Listed[i]]], 1..Counted390)
<1> DEFINE N == Counted390
           h == [i \in 1..N |-> g[Listed[i]]]
           Those(i) == {Listed[j] : j \in 1..i}
           Good == {i \in 0..N : SumOf(g, Those(i)) = SumOf(h, 1..i)}
<1>0. N \in Nat /\ IsFiniteSet(due) /\ \A i \in 1..N : Listed[i] \in due
  BY ListedInOrder, RanksInOrder
<1>c. Counts(h, 1..N)
  BY <1>0 DEF Counts
<1>1. 0 \in Good
  <2>1. 1..0 = {} /\ Those(0) = {}
    OBVIOUS
  <2>2. SumOf(g, Those(0)) = 0 /\ SumOf(h, 1..0) = 0
    BY <2>1, SumOfNone
  <2> QED BY <1>0, <2>2
<1>2. ASSUME NEW i \in 0..(N - 1), i \in Good PROVE i + 1 \in Good
  <2>0. i \in Nat /\ i + 1 \in 1..N /\ i + 1 \in 0..N /\ (i + 1) - 1 = i /\ 1 <= i + 1 /\ 1 \in Nat /\ i + 1 \in Nat
    BY <1>0
  <2>1. Those(i + 1) = Those(i) \cup {Listed[i + 1]}
    <3>1. \A j : j \in 1..(i + 1) <=> (j \in 1..i \/ j = i + 1)
      BY <2>0
    <3> QED BY <3>1
  <2>2. Listed[i + 1] \notin Those(i)
    <3> SUFFICES ASSUME NEW j \in 1..i, Listed[j] = Listed[i + 1] PROVE FALSE
      OBVIOUS
    <3>1. j \in 1..N /\ j < i + 1
      BY <1>0, <2>0
    <3>2. Listed[j] < Listed[i + 1]
      BY <2>0, <3>1, ListedInOrder
    <3>3. Listed[j] \in 1..4
      BY <1>0, <3>1
    <3> QED BY <3>2, <3>3
  <2>3. Those(i) \in SUBSET due /\ Those(i + 1) \in SUBSET due
    BY <1>0, <2>0
  <2>4. IsFiniteSet(Those(i)) /\ Counts(g, Those(i) \cup {Listed[i + 1]})
    <3>1. IsFiniteSet(Those(i))
      BY <1>0, <2>3, FS_Subset
    <3> QED BY <1>0, <2>0, <2>3, <3>1 DEF Counts
  <2>5. SumOf(g, Those(i + 1)) = SumOf(g, Those(i)) + g[Listed[i + 1]]
    <3>1. PICK S, q : S = Those(i) /\ q = Listed[i + 1]
      OBVIOUS
    <3>2. q \notin S /\ IsFiniteSet(S) /\ Counts(g, S \cup {q}) /\ Those(i + 1) = S \cup {q}
      BY <2>1, <2>2, <2>4, <3>1
    <3>3. SumOf(g, S \cup {q}) = SumOf(g, S) + g[q]
      BY <3>2, SumWithOneMore
    <3> HIDE DEF Those
    <3> QED BY <3>1, <3>2, <3>3
  <2>6. SumOf(h, 1..(i + 1)) = SumOf(h, 1..i) + h[i + 1]
    <3>1. Counts(h, 1..(i + 1))
      BY <1>c, <1>0, <2>0 DEF Counts
    <3> HIDE DEF h
    <3> QED BY <2>0, <3>1, SumOfInterval
  <2>7. h[i + 1] = g[Listed[i + 1]]
    BY <2>0
  <2>8. SumOf(g, Those(i)) = SumOf(h, 1..i)
    BY <1>2
  <2> HIDE DEF h, Those
  <2> QED BY <2>0, <2>5, <2>6, <2>7, <2>8
<1>3. \A i \in 0..N : i \in Good
  <2>1. 0 \in Nat
    OBVIOUS
  <2> HIDE DEF Good, N
  <2> QED BY <1>0, <1>1, <1>2, <2>1, StepByStep
<1>4. Those(N) = due
  <2>1. Those(N) \subseteq due
    BY <1>0
  <2>2. \A q \in due : q \in Those(N)
    BY ListedInOrder
  <2> QED BY <2>1, <2>2
<1>5. N \in Good
  <2>1. N \in 0..N
    BY <1>0
  <2> HIDE DEF Good
  <2> QED BY <1>3, <2>1
<1> QED BY <1>4, <1>5

\* What the gates let through is what was filed, within those cents.
LEMMA ReadyIsFiled == FormsTyped /\ AnnualIInv => ReadyMeansFiled
<1> SUFFICES ASSUME FormsTyped, AnnualIInv, FormerAgrees, ReadyFor390
             PROVE  SaysWhatWasFiled(Modelo390(Chain(Refunded)))
  BY DEF ReadyMeansFiled
<1> DEFINE N == Counted390
<1>0. ReadyToClose
  BY DEF ReadyToClose
<1>1. /\ QuartersKnown /\ N \in Nat /\ N \in 1..N /\ Len(Listed) = N
      /\ \A i \in 1..N : Listed[i] \in due
  BY <1>0, CloseIsKnown, ListedInOrder DEF QuartersKnown
<1>2. PICK refund \in BOOLEAN : refund = Refunded
  BY DEF Refunded
<1>3. PICK c : c = Chain(refund)
  OBVIOUS
<1>4. ChainLinks(c, refund) /\ Linked(c, N) /\ Len(c) = N
  BY <1>1, <1>3, ChainIsLinked DEF ChainLinks, Linked
<1>5. PICK e : e = Last
  OBVIOUS
<1>6. e = Evidence(Listed[N]) /\ FiledWell(N)
  BY <1>0, <1>1, <1>5, FiledQuarter DEF Last
<1>7. /\ e.b73 \in Nat /\ e.carry \in Nat /\ e.carry = e.b87 + e.b72 /\ e.b71 \in Int
      /\ (e.carry = 0 \/ e.b73 = 0) /\ (e.b73 > 0 => Listed[N] = LastQuarter)
  BY <1>6 DEF FiledWell
<1>8. /\ c[N].carry \in Nat /\ c[N].b73 \in Nat
      /\ SettledAs(c[N], c[N].b110, c[N].figure, refund /\ Listed[N] = LastQuarter)
  BY <1>1, <1>4, LinkTyped DEF ChainLinks
<1>9. PICK d \in Int, h \in Int :
         /\ d = LeftBy(c, N) - LeftFiled(N)
         /\ h = SumOf(B71Paid(c), 1..N) - SumOf(FiledPaid, 1..N)
         /\ Within(6 * N, d, h)
  BY <1>0, <1>4, YearKeeps DEF Keeping
<1>10. /\ d = (c[N].carry + c[N].b73) - (e.carry + e.b73)
       /\ d \in -(6 * N)..(6 * N) /\ h \in -(6 * N)..(6 * N)
  BY <1>1, <1>6, <1>9 DEF LeftBy, LeftFiled, Within
<1>11. /\ c[N].b73 - e.b73 \in -(6 * N)..(6 * N)
       /\ c[N].carry - e.carry \in -(6 * N)..(6 * N)
  <2>0. 0 \in -(6 * N)..(6 * N)
    BY <1>1
  <2>1. CASE refund
    <3>1. e.b73 > 0
      BY <1>2, <1>5, <2>1 DEF Refunded
    <3>2. c[N].carry = 0
      BY <1>7, <1>8, <2>1, <3>1 DEF SettledAs
    <3>3. e.carry = 0
      BY <1>7, <3>1
    <3>4. c[N].b73 - e.b73 = d /\ c[N].carry - e.carry = 0
      BY <1>7, <1>8, <1>10, <3>2, <3>3
    <3> QED BY <1>10, <2>0, <3>4
  <2>2. CASE ~refund
    <3>1. e.b73 = 0
      <4>1. Chosen
        BY DEF ReadyFor390
      <4>2. ~(e.b71 < 0 /\ e.b73 > 0)
        BY <1>2, <1>5, <2>2 DEF Refunded
      <4>3. e.b71 >= 0 => e.b73 <= 0
        BY <1>5, <4>1 DEF Chosen
      <4> QED BY <1>7, <4>2, <4>3
    <3>2. c[N].b73 = 0
      BY <1>8, <2>2 DEF SettledAs
    <3>3. c[N].b73 - e.b73 = 0 /\ c[N].carry - e.carry = d
      BY <1>7, <1>8, <1>10, <3>1, <3>2
    <3> QED BY <1>10, <2>0, <3>3
  <2> QED BY <2>1, <2>2
<1>12. MapThenSumSet(LAMBDA q : Pos(Evidence(q).b71), due) = SumOf(FiledPaid, 1..N)
  <2>1. PICK g : g = [q \in due |-> Pos(Evidence(q).b71)]
    OBVIOUS
  <2>2. MapThenSumSet(LAMBDA q : Pos(Evidence(q).b71), due) = SumOf(g, due)
    <3>1. MapThenSumSet(LAMBDA q : Pos(Evidence(q).b71), due)
             = SumOf([q \in due |-> Pos(Evidence(q).b71)], due)
      BY DEF MapThenSumSet, MapThenFoldSet, SumOf
    <3> QED BY <2>1, <3>1
  <2>3. \A q \in due : g[q] \in Int
    <3> SUFFICES ASSUME NEW q \in due PROVE g[q] \in Int
      OBVIOUS
    <3>1. \E i \in 1..N : Listed[i] = q
      BY <1>1, ListedInOrder DEF QuartersKnown
    <3>2. Evidence(q).b71 \in Int
      BY <1>0, <3>1, FiledQuarter DEF FiledWell
    <3>3. Pos(Evidence(q).b71) \in Nat
      BY <3>2, PosNat
    <3> QED BY <2>1, <3>3
  <2>4. SumOf(g, due) = SumOf([i \in 1..N |-> g[Listed[i]]], 1..N)
    BY <1>1, <2>3, SumOverDue DEF Counts, QuartersKnown
  <2>5. [i \in 1..N |-> g[Listed[i]]] = FiledPaid
    <3>1. \A i \in 1..N : g[Listed[i]] = Pos(Evidence(Listed[i]).b71)
      BY <1>1, <2>1
    <3> QED BY <3>1 DEF FiledPaid
  <2> QED BY <2>2, <2>4, <2>5
<1>13. PICK y : y = Modelo390(c)
  OBVIOUS
<1>14. y.b95 = SumOf(B71Paid(c), 1..N) /\ y.b98 = c[N].b73 /\ y.closing = c[N].carry
  <2>1. \A i \in 1..N : i # N => c[i].b73 = 0
    <3> SUFFICES ASSUME NEW i \in 1..N, i # N PROVE c[i].b73 = 0
      OBVIOUS
    <3>1. Listed[i] # LastQuarter
      BY LastIsLast DEF AnnualIInv
    <3> QED BY <1>4, <3>1 DEF ChainLinks, SettledAs
  <2>2. Closes(c, y)
    BY <1>4, <1>13, <2>1, YearCloses
  <2>3. y.closing = c[N].carry
    BY <1>4, <2>2 DEF Closes
  <2>4. y.b95 = SumOf(B71Paid(c), 1..N)
    <3>1. y.b95 = Total(c, LAMBDA r : Pos(r.b71))
      BY <1>13 DEF Modelo390
    <3> QED BY <1>4, <3>1, TotalsAre
  <2>5. y.b98 = c[N].b73
    BY <1>4, <1>13 DEF Modelo390
  <2> QED BY <2>3, <2>4, <2>5
<1>15. /\ y.b95 - SumOf(FiledPaid, 1..N) \in -(6 * N)..(6 * N)
       /\ y.b98 - e.b73 \in -(6 * N)..(6 * N)
       /\ y.closing - (e.b87 + e.b72) \in -(6 * N)..(6 * N)
  <2>1. y.b95 - SumOf(FiledPaid, 1..N) = h
    BY <1>9, <1>14
  <2> QED BY <1>7, <1>10, <1>11, <1>14, <2>1
<1>16. SaysWhatWasFiled(y)
  BY <1>1, <1>5, <1>12, <1>15 DEF SaysWhatWasFiled
<1> QED BY <1>2, <1>3, <1>13, <1>16

-----------------------------------------------------------------------------
(* The desk: every part keeps its invariant while it is at work *)

DeskIInv ==
    /\ desk = "rows" => RowsIInv
    /\ desk = "forms" => FormsTyped
    /\ desk = "annual" => FormsTyped /\ AnnualIInv
    /\ desk = "130" => ReturnsIInv
    /\ desk = "303" => ReturnsIInv
    /\ desk = "assets" => AssetsIInv /\ BooksFollowPlan
    /\ desk = "cases" => CasesIInv
    /\ desk = "withholding" => WithholdingIInv
    /\ desk = "reta" => RetaInv

\* A step of the desk is a step of the part at work, or none of it.
LEMMA AtWork ==
    ASSUME [Next]_vars
    PROVE  /\ desk' = desk
           /\ desk = "rows" => RowsNext \/ UNCHANGED rowsVars
           /\ desk = "forms" => FormsNext \/ UNCHANGED formsVars
           /\ desk = "annual" => AnnualNext \/ UNCHANGED <<formsVars, annualVars>>
           /\ desk = "130" => ReturnsNext130 \/ UNCHANGED returnsVars
           /\ desk = "303" => ReturnsNext303 \/ UNCHANGED returnsVars
           /\ desk = "assets" => AssetsNext \/ UNCHANGED assetsVars
           /\ desk = "cases" => CasesNext \/ UNCHANGED caseVars
           /\ desk = "withholding" => WithholdingNext \/ UNCHANGED withholdingVars
           /\ desk = "reta" => RetaNext \/ UNCHANGED retaVars
<1>1. CASE Next
  BY <1>1 DEF Next, Rows, Forms, TheYear, Renta, Iva, Equipment, Case, Modelo216, Contributions
<1>2. CASE UNCHANGED vars
  BY <1>2 DEF vars
<1> QED BY <1>1, <1>2

LEMMA DeskStart == Init => DeskIInv
BY RowsStart, FormsStart, AnnualStart, SnapshotsStart, ReturnsStart, AssetsStart, PlanStart,
   CasesStart, WithholdingStart, RetaStart DEF Init, DeskIInv

LEMMA DeskStep == DeskIInv /\ [Next]_vars => DeskIInv'
<1> SUFFICES ASSUME DeskIInv, [Next]_vars
             PROVE  DeskIInv'
  OBVIOUS
<1>0. desk' = desk
  BY AtWork
<1>1. desk = "rows" => RowsIInv'
  BY AtWork, RowsStep, RowsStutter DEF DeskIInv
<1>2. desk = "assets" => AssetsIInv' /\ BooksFollowPlan'
  BY AtWork, AssetsStep, AssetsStutter, PlanStep, PlanStutter DEF DeskIInv
<1>3. desk = "cases" => CasesIInv'
  BY AtWork, CasesStep, CasesStutter DEF DeskIInv
<1>4. desk = "withholding" => WithholdingIInv'
  BY AtWork, WithholdingStep, WithholdingStutter DEF DeskIInv
<1>5. desk = "reta" => RetaInv'
  BY AtWork, RetaStep, RetaStutter DEF DeskIInv
<1>6. desk = "forms" => FormsTyped'
  BY AtWork, FormsStep, FormsStutter DEF DeskIInv
<1>7. desk = "annual" => FormsTyped' /\ AnnualIInv'
  BY AtWork, AnnualStep, FormsStutter, SnapshotsStep, SnapshotsStutter DEF DeskIInv
<1>8. desk = "130" => ReturnsIInv'
  BY AtWork, ReturnsStep, ReturnsStutter DEF DeskIInv
<1>9. desk = "303" => ReturnsIInv'
  BY AtWork, ReturnsStep, ReturnsStutter DEF DeskIInv
<1> QED BY <1>0, <1>1, <1>2, <1>3, <1>4, <1>5, <1>6, <1>7, <1>8, <1>9 DEF DeskIInv

\* What every part relies on holds throughout.
THEOREM DeskIsSound == Spec => []DeskIInv
<1>1. Init => DeskIInv
  BY DeskStart
<1>2. DeskIInv /\ [Next]_vars => DeskIInv'
  BY DeskStep
<1> QED BY <1>1, <1>2, PTL DEF Spec

\* Each source counts once in the annual figure; the forms of a year say the same
\* of the same rows; and what earlier returns paid, lost or left to compensate is
\* used once: for any rows, entries, quarters, returns and orders of filing them
\* (project_tax_rows, tax_engine.py, dashboard_service.py).
THEOREM RowsCountOnce == Spec => []RowsHold
<1>1. DeskIInv => RowsHold
  BY OneActiveCountsOnce, FormsHold, ReturnsHold DEF DeskIInv, RowsHold
<1> QED BY <1>1, DeskIsSound, PTL

\* Attributing an entry to another quarter moves its VAT there and makes none, for
\* any entries and decisions (attach_attributions, project_tax_rows).
THEOREM AttributionsMoveVat == Spec => AttributionsConserve
<1>1. DeskIInv /\ DeskIInv' /\ [Next]_vars
        => [(desk \in {"forms", "annual"}) => AttributionConserves]_vars
  BY AtWork, Conserves DEF DeskIInv
<1> QED BY <1>1, DeskIsSound, PTL DEF Spec, AttributionsConserve

\* Modelo 390 balances and is never refused the quarters it is calculated from,
\* and says what the filed quarters said, for any entries, corrections, returns
\* and quarters that are due (calculate_modelo390, assess_annual_readiness).
THEOREM TheYearAddsUp == Spec => []FiguresAddUp
<1>1. DeskIInv => FiguresAddUp
  BY YearsBalance, ReadyIsFiled DEF DeskIInv, FiguresAddUp
<1> QED BY <1>1, DeskIsSound, PTL

\* No asset is charged after its last use, its plan charges what is deductible and
\* no more, and its years carry that on, whatever the plan and the quarters
\* (record_asset_disposal, _recognize, schedule, native_year_summary).
THEOREM DisposalEndsCharges == Spec => []AssetsHold
<1>1. DeskIInv => AssetsHold
  BY AssetFiguresHold DEF DeskIInv, AssetsHold, AssetsIInv
<1> QED BY <1>1, DeskIsSound, PTL

\* The events of a case form the legal course that ends in its status, for any
\* number of clerks (record_aeat_case_status).
THEOREM CasesTellTheirCourse == Spec => []CasesHold
<1>1. DeskIInv => CasesHold
  BY DEF DeskIInv, CasesHold, CasesIInv
<1> QED BY <1>1, DeskIsSound, PTL

\* A quarter with a payment to a payee who may be non-resident closes only when
\* that is reviewed or decided, for any payments (add_payment, close_period).
THEOREM PaymentsAreReviewed == Spec => []WithholdingHold
<1>1. DeskIInv => WithholdingHold
  BY QuietIsReviewed DEF DeskIInv, WithholdingHold
<1> QED BY <1>1, DeskIsSound, PTL

\* Base elections change on legal days, a finished year owes what is locked in,
\* and whoever paid on bases inside the tramo of the income owes nothing, for any
\* calendar, tables and incomes (add_reta_base_election, bracket_check).
THEOREM ElectionsStartLegally == Spec => []RetaHold
<1>1. DeskIInv => RetaHold
  BY InsideOwes DEF DeskIInv, RetaHold, RetaInv
<1> QED BY <1>1, DeskIsSound, PTL

\* What is settled stays: a settled quarter, a closed year, and what a closed
\* quarter charged for an asset (apply_attribution, add_amortization_entry).
THEOREM WhatClosedStays == Spec => ClosedStays
<1>1. DeskIInv /\ [Next]_vars
        => [/\ desk = "rows" => SettledQuarterStays /\ ClosedYearStays
            /\ desk = "assets" => FrozenQuarter]_vars
  <2> SUFFICES ASSUME DeskIInv, Next
               PROVE  /\ desk = "rows" => SettledQuarterStays /\ ClosedYearStays
                      /\ desk = "assets" => FrozenQuarter
    OBVIOUS
  <2>1. CASE Rows
    BY <2>1, SettledFigures, ClosedYearFigures DEF Rows, DeskIInv, RowsIInv
  <2>2. CASE Equipment
    BY <2>2, ClosedQuarterRows DEF Equipment, DeskIInv
  <2>3. CASE desk \notin {"rows", "assets"}
    BY <2>3
  <2> QED BY <2>1, <2>2, <2>3 DEF Next, Forms, TheYear, Renta, Iva, Case, Modelo216, Contributions
<1> QED BY <1>1, DeskIsSound, PTL DEF Spec, ClosedStays
=============================================================================
