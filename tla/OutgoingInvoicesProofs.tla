----------------------- MODULE OutgoingInvoicesProofs -----------------------
(***************************************************************************)
(* For any number of connections, drafts, templates and pieces of evidence *)
(* the invariants of OutgoingInvoices hold in every reachable state, and   *)
(* no step moves an invoice backwards.                                     *)
(*                                                                         *)
(* What makes them inductive is what a handler between its read and its    *)
(* write still knows: which statuses the draft it read can have by now,    *)
(* and that a version it found inactive has not become active again.       *)
(***************************************************************************)
EXTENDS OutgoingInvoices, TLAPS

TemplateHandler ==
    [op : {"template"}, base : 0 .. (MaxTemplates - 1), wasActive : BOOLEAN, active : BOOLEAN]
EditHandler == [op : {"edit"}, of : Draft, read : Row, content : Content, period : Period]
StatusHandler == [op : {"review", "void"}, of : Draft, read : Row]
FinalizeHandler == [op : {"finalize"}, of : Draft, read : Row, evidence : Evidence]
DraftHandler == EditHandler \cup StatusHandler \cup FinalizeHandler
Handler == TemplateHandler \cup DraftHandler

Typed ==
    /\ templates \subseteq Template
    /\ drafts \in [Draft -> Row]
    /\ closed \subseteq Period
    /\ overlapped \subseteq Draft
    /\ pending \in [Connection -> Handler \cup {Idle}]

\* What the columns of one row say agrees with its status.
Coherent(row) ==
    /\ (row.status = "issued") <=> (row.evidence # NoEvidence)
    /\ (row.status = "void") <=> row.reason

\* What was checked at the read, and still holds of what was read.
ReadFacts(h) ==
    /\ h.read.version < MaxVersion
    /\ h.op = "edit" => h.read.status \in {"absent", "draft"}
    /\ h.op = "review" => h.read.status = "draft" /\ h.read.content \notin Incomplete
    /\ h.op = "void" => h.read.status \in {"draft", "reviewed"}
    /\ h.op = "finalize" =>
          /\ h.read.status = "reviewed"
          /\ Total[h.evidence] = h.read.content
          /\ PeriodOf[h.evidence] = h.read.period

\* What the statuses can have become since.
StatusSince(h) ==
    /\ h.op \in {"review", "void"} => drafts[h.of].status # "absent"
    /\ h.op = "finalize" => drafts[h.of].status \notin {"absent", "draft"}

\* One row per version.
OneRow == \A t, u \in templates : t.version = u.version => t = u

\* The versions are 1, 2, ... without a gap.
NoGap ==
    \A t \in templates : \A k \in 1 .. t.version : \E u \in templates : u.version = k

\* The version a template handler started from exists, and is still inactive
\* when it was found inactive.
BaseSince(h) ==
    /\ h.base > 0 => \E t \in templates : t.version = h.base
    /\ \A t \in templates : t.version = h.base /\ t.active => h.wasActive

Known(h) ==
    IF h.op = "template" THEN BaseSince(h) ELSE ReadFacts(h) /\ StatusSince(h)

\* Issued or about to be: complete, and matched once issued.
Matched(d) ==
    /\ drafts[d].status \in {"reviewed", "issued"} => drafts[d].content \notin Incomplete
    /\ drafts[d].status = "issued" =>
          /\ drafts[d].content = Total[drafts[d].evidence]
          /\ drafts[d].period = PeriodOf[drafts[d].evidence]

IInv ==
    /\ Typed
    /\ \A d \in Draft : Coherent(drafts[d])
    /\ \A d \in Draft \ overlapped : Matched(d)
    /\ ActiveIsNewest
    /\ OneRow
    /\ NoGap
    /\ \A c \in Connection : pending[c] # Idle => Known(pending[c])

-----------------------------------------------------------------------------
LEMMA InitHolds == Init => IInv
<1> SUFFICES ASSUME Init PROVE IInv  OBVIOUS
<1> USE InvoiceAssumption DEF Init
<1>1. Typed  BY DEF Typed, Row
<1>2. \A d \in Draft : drafts[d].status = "absent" /\ Coherent(drafts[d])
  BY DEF Coherent
<1> QED  BY <1>1, <1>2 DEF IInv, Matched, ActiveIsNewest, Active, OneRow, NoGap

\* What every handler of a draft carries.
LEMMA DraftHandlerShape ==
    ASSUME NEW h \in DraftHandler
    PROVE  /\ h.of \in Draft /\ h.read \in Row
           /\ h.op \in {"edit", "review", "void", "finalize"}
           /\ h.op = "edit" => h.content \in Content /\ h.period \in Period
           /\ h.op = "finalize" => h.evidence \in Evidence
  BY DEF DraftHandler, EditHandler, StatusHandler, FinalizeHandler

\* A row as its handler writes it.
LEMMA WrittenTyped ==
    ASSUME NEW h \in DraftHandler, drafts \in [Draft -> Row], h.read.version < MaxVersion
    PROVE  Written(h) \in Row
<1> DEFINE row == drafts[h.of]
<1>1. row \in Row  BY DraftHandlerShape
<1>2. StatusAfter(h.op, row.status) \in {"absent", "draft", "reviewed", "issued", "void"}
  BY <1>1 DEF StatusAfter, Row
<1>3. (IF h.op = "edit" THEN h.content ELSE row.content) \in Content
  BY <1>1, DraftHandlerShape DEF Row
<1>4. (IF h.op = "edit" THEN h.period ELSE row.period) \in Period
  BY <1>1, DraftHandlerShape DEF Row
<1>5. (IF h.op = "finalize" THEN h.evidence ELSE row.evidence) \in Evidence \cup {NoEvidence}
  BY <1>1, DraftHandlerShape DEF Row
<1>6. (IF h.op = "void" THEN TRUE ELSE row.reason) \in BOOLEAN
  BY <1>1 DEF Row
<1>7. h.read.version + 1 \in 0 .. MaxVersion
  BY DraftHandlerShape, InvoiceAssumption DEF Row
<1> QED  BY <1>2, <1>3, <1>4, <1>5, <1>6, <1>7 DEF Written, Row

-----------------------------------------------------------------------------
(* A handler reads: only what it is about to write is new *)

LEMMA BeginKeeps ==
    ASSUME IInv, NEW c \in Connection, NEW h \in Handler, Known(h), Begin(c, h)
    PROVE  IInv'
<1>1. /\ pending' = [pending EXCEPT ![c] = h]
      /\ UNCHANGED <<templates, drafts, closed, overlapped>>
  BY DEF Begin
<1>2. Typed'  BY <1>1 DEF IInv, Typed
<1>3. \A d \in Connection : pending'[d] # Idle => Known(pending[d])'
  <2> SUFFICES ASSUME NEW d \in Connection, pending'[d] # Idle PROVE Known(pending[d])'
    OBVIOUS
  <2>1. pending'[d] = h \/ pending'[d] = pending[d]  BY <1>1 DEF IInv, Typed
  <2>2. Known(pending'[d])  BY <2>1 DEF IInv
  <2> QED  BY <2>2, <1>1 DEF Known, BaseSince, ReadFacts, StatusSince
<1>4. /\ \A d \in Draft : Coherent(drafts'[d])
      /\ \A d \in Draft \ overlapped' : Matched(d)'
      /\ ActiveIsNewest' /\ OneRow' /\ NoGap'
  BY <1>1 DEF IInv, Matched, ActiveIsNewest, Active, Newest, OneRow, NoGap
<1> QED  BY <1>1, <1>2, <1>3, <1>4 DEF IInv

LEMMA ReadKeeps == ASSUME IInv, NEW c \in Connection, Read(c) PROVE IInv'
<1>1. ASSUME NEW active \in BOOLEAN, ReadTemplate(c, active) PROVE IInv'
  <2>1. CASE templates = {} /\ Begin(c, [op |-> "template", base |-> 0, wasActive |-> FALSE,
                                        active |-> active])
    <3> DEFINE h == [op |-> "template", base |-> 0, wasActive |-> FALSE, active |-> active]
    <3>1. h \in Handler  BY InvoiceAssumption DEF Handler, TemplateHandler
    <3>2. Known(h)  BY <2>1 DEF Known, BaseSince
    <3> QED  BY <2>1, <3>1, <3>2, BeginKeeps
  <2>2. ASSUME NEW t \in templates, t.version < MaxTemplates,
               Begin(c, [op |-> "template", base |-> t.version, wasActive |-> t.active,
                         active |-> active])
        PROVE  IInv'
    <3> DEFINE h == [op |-> "template", base |-> t.version, wasActive |-> t.active,
                     active |-> active]
    <3>0. t \in Template  BY DEF IInv, Typed
    <3>1. h \in Handler
      BY <2>2, <3>0, InvoiceAssumption DEF Handler, TemplateHandler, Template
    <3>2. \A u \in templates : u.version = t.version => u = t  BY DEF IInv, OneRow
    <3>3. Known(h)  BY <3>2 DEF Known, BaseSince
    <3> QED  BY <2>2, <3>1, <3>3, BeginKeeps
  <2> QED  BY <1>1, <2>1, <2>2 DEF ReadTemplate
<1>2. ASSUME NEW d \in Draft, NEW content \in Content, NEW p \in Period,
             ReadEdit(c, d, content, p)
      PROVE  IInv'
  <2> DEFINE h == [op |-> "edit", of |-> d, read |-> drafts[d], content |-> content, period |-> p]
  <2>0. drafts[d] \in Row  BY DEF IInv, Typed
  <2>1. h \in Handler  BY <2>0 DEF Handler, DraftHandler, EditHandler
  <2>2. Known(h)
    BY <1>2 DEF Known, ReadFacts, StatusSince, ReadEdit, Editable, Fresh
  <2> QED  BY <1>2, <2>1, <2>2, BeginKeeps DEF ReadEdit
<1>3. ASSUME NEW d \in Draft, ReadReview(c, d) PROVE IInv'
  <2> DEFINE h == [op |-> "review", of |-> d, read |-> drafts[d]]
  <2>0. drafts[d] \in Row  BY DEF IInv, Typed
  <2>1. h \in Handler  BY <2>0 DEF Handler, DraftHandler, StatusHandler
  <2>2. Known(h)
    BY <1>3 DEF Known, ReadFacts, StatusSince, ReadReview, Reviewable, Fresh
  <2> QED  BY <1>3, <2>1, <2>2, BeginKeeps DEF ReadReview
<1>4. ASSUME NEW d \in Draft, ReadVoid(c, d) PROVE IInv'
  <2> DEFINE h == [op |-> "void", of |-> d, read |-> drafts[d]]
  <2>0. drafts[d] \in Row  BY DEF IInv, Typed
  <2>1. h \in Handler  BY <2>0 DEF Handler, DraftHandler, StatusHandler
  <2>2. Known(h)  BY <1>4 DEF Known, ReadFacts, StatusSince, ReadVoid, Fresh
  <2> QED  BY <1>4, <2>1, <2>2, BeginKeeps DEF ReadVoid
<1>5. ASSUME NEW d \in Draft, NEW e \in Evidence, ReadFinalize(c, d, e) PROVE IInv'
  <2> DEFINE h == [op |-> "finalize", of |-> d, read |-> drafts[d], evidence |-> e]
  <2>0. drafts[d] \in Row  BY DEF IInv, Typed
  <2>1. h \in Handler  BY <2>0 DEF Handler, DraftHandler, FinalizeHandler
  <2>2. Known(h)  BY <1>5 DEF Known, ReadFacts, StatusSince, ReadFinalize, Fresh
  <2> QED  BY <1>5, <2>1, <2>2, BeginKeeps DEF ReadFinalize
<1> QED  BY <1>1, <1>2, <1>3, <1>4, <1>5 DEF Read

-----------------------------------------------------------------------------
(* A template handler writes *)

\* A version that did not exist follows the newest one.
LEMMA NextVersion ==
    ASSUME IInv, NEW h \in TemplateHandler, BaseSince(h),
           \A t \in templates : t.version # h.base + 1
    PROVE  \A t \in templates : t.version <= h.base
<1> SUFFICES ASSUME NEW t \in templates, t.version > h.base PROVE FALSE
  BY InvoiceAssumption DEF IInv, Typed, Template, TemplateHandler
<1>1. h.base + 1 \in 1 .. t.version
  BY InvoiceAssumption DEF IInv, Typed, Template, TemplateHandler
<1> QED  BY <1>1 DEF IInv, NoGap

LEMMA WriteTemplateKeeps ==
    ASSUME IInv, NEW c \in Connection, WriteTemplate(c)
    PROVE  IInv' /\ UNCHANGED drafts
<1> DEFINE h == pending[c]
           kept == {[t EXCEPT !.active = @ /\ ~(h.wasActive /\ t.version = h.base)]
                       : t \in templates}
           next == [version |-> h.base + 1, active |-> h.active]
<1>1. /\ pending[c] # Idle /\ h.op = "template"
      /\ TemplateAllowed(kept, next)
      /\ templates' = kept \cup {next}
      /\ pending' = [pending EXCEPT ![c] = Idle]
      /\ UNCHANGED <<drafts, closed, overlapped>>
  BY DEF WriteTemplate, Kept, Doing, Free, Quit
<1>2. h \in TemplateHandler
  BY <1>1 DEF IInv, Typed, Handler, DraftHandler, EditHandler, StatusHandler, FinalizeHandler
<1>3. BaseSince(h)  BY <1>1 DEF IInv, Known
<1>4. next \in Template  BY <1>2, InvoiceAssumption DEF Template, TemplateHandler
<1>5. \A k \in kept :
         /\ k \in Template
         /\ \E t \in templates : k.version = t.version /\ (k.active => t.active)
         /\ k.version = h.base => ~k.active
  <2> SUFFICES ASSUME NEW t \in templates,
                      NEW k, k = [t EXCEPT !.active = @ /\ ~(h.wasActive /\ t.version = h.base)]
               PROVE  /\ k \in Template
                      /\ k.version = t.version /\ (k.active => t.active)
                      /\ k.version = h.base => ~k.active
    OBVIOUS
  <2>1. t \in Template  BY DEF IInv, Typed
  <2>2. k.version = t.version /\ k.active = (t.active /\ ~(h.wasActive /\ t.version = h.base))
    BY <2>1 DEF Template
  <2>3. k \in Template  BY <2>1 DEF Template
  <2> QED  BY <2>2, <2>3, <1>3 DEF BaseSince
<1>6. \A t \in templates : \E k \in kept : k.version = t.version
  <2> TAKE t \in templates
  <2> DEFINE k == [t EXCEPT !.active = @ /\ ~(h.wasActive /\ t.version = h.base)]
  <2>1. t \in Template  BY DEF IInv, Typed
  <2>2. k \in kept  OBVIOUS
  <2>3. k.version = t.version  BY <2>1 DEF Template
  <2> QED  BY <2>2, <2>3
<1> HIDE DEF kept, next
<1>7. \A k \in kept : k.version # h.base + 1
  BY <1>1 DEF TemplateAllowed, next
<1>8. \A k \in kept : k.version <= h.base
  <2>1. \A t \in templates : t.version # h.base + 1
    BY <1>6, <1>7
  <2> QED  BY <2>1, <1>2, <1>3, <1>5, NextVersion
<1>9. Typed'  BY <1>1, <1>4, <1>5 DEF IInv, Typed
<1>10. ActiveIsNewest' /\ OneRow'
  <2>1. \A t \in templates' : t.active => t = next
    <3> SUFFICES ASSUME NEW t \in kept, t.active PROVE FALSE  BY <1>1
    <3>1. PICK u \in templates : t.version = u.version /\ u.active  BY <1>5
    <3>2. h.base > 0 => h.base <= u.version  BY <3>1, <1>3 DEF BaseSince, IInv, ActiveIsNewest, Active, Newest
    <3>3. t.version <= h.base /\ t.version # h.base  BY <1>5, <1>8
    <3>4. h.base \in Nat /\ t.version \in Nat /\ t.version > 0
      BY <1>2, <1>5 DEF TemplateHandler, Template
    <3> QED  BY <3>1, <3>2, <3>3, <3>4
  <2>2. \A t \in templates' : t.version <= next.version
    BY <1>1, <1>2, <1>4, <1>5, <1>8 DEF next, Template, TemplateHandler
  <2>3. ASSUME NEW t \in kept, NEW u \in kept, t.version = u.version PROVE t = u
    BY <2>3 DEF kept, IInv, OneRow, Typed, Template
  <2>4. \A t, u \in templates' : t.version = u.version => t = u
    BY <1>1, <1>7, <2>3 DEF next
  <2> QED  BY <2>1, <2>2, <2>4 DEF ActiveIsNewest, Active, Newest, OneRow
<1>11. NoGap'
  <2> SUFFICES ASSUME NEW t \in templates', NEW k \in 1 .. t.version
               PROVE  \E u \in templates' : u.version = k
    BY DEF NoGap
  <2>1. CASE \E u \in templates : k \in 1 .. u.version
    BY <2>1, <1>1, <1>6 DEF IInv, NoGap
  <2>2. CASE t = next
    <3>1. k = h.base + 1 \/ k \in 1 .. h.base
      BY <2>2, <1>2 DEF next, TemplateHandler
    <3>2. CASE k = h.base + 1  BY <3>2, <1>1, <2>2 DEF next
    <3>3. CASE k \in 1 .. h.base
      <4>1. PICK u \in templates : u.version = h.base
        BY <3>3, <1>2, <1>3 DEF BaseSince, TemplateHandler
      <4> QED  BY <4>1, <3>3, <2>1
    <3> QED  BY <3>1, <3>2, <3>3
  <2>3. CASE t \in kept  BY <2>3, <2>1, <1>5
  <2> QED  BY <2>2, <2>3, <1>1
<1>12. \A d \in Connection : pending'[d] # Idle => Known(pending[d])'
  <2> SUFFICES ASSUME NEW d \in Connection, pending'[d] # Idle PROVE Known(pending[d])'
    OBVIOUS
  <2>1. pending'[d] = pending[d] /\ d # c  BY <1>1 DEF IInv, Typed
  <2>2. Known(pending[d]) /\ pending[d] \in Handler  BY <2>1 DEF IInv, Typed
  <2>3. CASE pending[d].op = "template"
    <3> DEFINE g == pending[d]
    <3>1. g \in TemplateHandler
      BY <2>2, <2>3 DEF Handler, DraftHandler, EditHandler, StatusHandler, FinalizeHandler
    <3>2. BaseSince(g)  BY <2>2, <2>3 DEF Known
    <3>3. g.base > 0 => \E t \in templates' : t.version = g.base
      BY <3>2, <1>1, <1>6 DEF BaseSince
    <3>4. ASSUME NEW t \in templates', t.version = g.base, t.active PROVE g.wasActive
      <4>1. CASE t \in kept  BY <4>1, <3>4, <3>2, <1>5 DEF BaseSince
      <4>2. CASE t = next
        <5>1. g.base = h.base + 1 /\ g.base > 0  BY <4>2, <3>4, <1>2 DEF next, TemplateHandler
        <5>2. PICK u \in templates : u.version = h.base + 1  BY <5>1, <3>2 DEF BaseSince
        <5> QED  BY <5>2, <1>6, <1>7
      <4> QED  BY <4>1, <4>2, <1>1
    <3> QED  BY <2>1, <2>3, <3>3, <3>4 DEF Known, BaseSince
  <2>4. CASE pending[d].op # "template"
    BY <2>1, <2>2, <2>4, <1>1 DEF Known, ReadFacts, StatusSince
  <2> QED  BY <2>3, <2>4
<1>13. /\ \A d \in Draft : Coherent(drafts'[d])
       /\ \A d \in Draft \ overlapped' : Matched(d)'
  BY <1>1 DEF IInv, Matched
<1> QED  BY <1>1, <1>9, <1>10, <1>11, <1>12, <1>13 DEF IInv

-----------------------------------------------------------------------------
(* A handler of a draft writes *)

Forward(from, to) ==
    \/ to = from
    \/ from = "absent" /\ to = "draft"
    \/ from = "draft" /\ to \in {"reviewed", "void"}
    \/ from = "reviewed" /\ to \in {"issued", "void"}

\* A row the table accepts, written over a coherent one, is no step back.
LEMMA AcceptedForward ==
    ASSUME IInv, NEW h \in DraftHandler, ReadFacts(h), StatusSince(h),
           RowAllowed(h.of, Written(h))
    PROVE  /\ Coherent(Written(h))
           /\ Forward(drafts[h.of].status, Written(h).status)
<1> DEFINE row == drafts[h.of]
<1>1. row \in Row /\ Coherent(row)  BY DraftHandlerShape DEF IInv, Typed
<1>2. Coherent(Written(h))  BY DEF RowAllowed, Coherent
<1>3. /\ Written(h).status = StatusAfter(h.op, row.status)
      /\ Written(h).evidence = IF h.op = "finalize" THEN h.evidence ELSE row.evidence
      /\ Written(h).reason = IF h.op = "void" THEN TRUE ELSE row.reason
  BY DEF Written
<1>4. row.status \in {"absent", "draft", "reviewed", "issued", "void"} /\ row.reason \in BOOLEAN
  BY <1>1 DEF Row
<1>5. CASE h.op = "edit"  BY <1>2, <1>3, <1>4, <1>5 DEF StatusAfter, Forward
<1>6. CASE h.op = "review"
  <2>1. Written(h).status = "reviewed"  BY <1>3, <1>6 DEF StatusAfter
  <2>2. row.status \notin {"issued", "void"}  BY <1>1, <1>2, <1>3, <1>6, <2>1 DEF Coherent
  <2>3. row.status # "absent"  BY <1>6 DEF StatusSince
  <2> QED  BY <1>2, <1>4, <2>1, <2>2, <2>3 DEF Forward
<1>7. CASE h.op = "finalize"
  <2>1. Written(h).status = "issued"  BY <1>3, <1>7 DEF StatusAfter
  <2>2. row.status # "void"  BY <1>1, <1>2, <1>3, <1>7, <2>1 DEF Coherent
  <2>3. row.status \notin {"absent", "draft"}  BY <1>7 DEF StatusSince
  <2> QED  BY <1>2, <1>4, <2>1, <2>2, <2>3 DEF Forward
<1>8. CASE h.op = "void"
  <2>1. Written(h).status = "void"  BY <1>3, <1>8 DEF StatusAfter
  <2>2. row.status # "issued"  BY <1>1, <1>2, <1>3, <1>8, <2>1 DEF Coherent
  <2>3. row.status # "absent"  BY <1>8 DEF StatusSince
  <2> QED  BY <1>2, <1>4, <2>1, <2>2, <2>3 DEF Forward
<1> QED  BY <1>2, <1>5, <1>6, <1>7, <1>8, DraftHandlerShape

\* What a handler writes over the row it read is matched, when the row was.
LEMMA UnchangedRowMatched ==
    ASSUME IInv, NEW h \in DraftHandler, ReadFacts(h), h.read = drafts[h.of], Matched(h.of)
    PROVE  LET row == Written(h) IN
           /\ row.status \in {"reviewed", "issued"} => row.content \notin Incomplete
           /\ row.status = "issued" =>
                 row.content = Total[row.evidence] /\ row.period = PeriodOf[row.evidence]
<1> DEFINE was == drafts[h.of]
           row == Written(h)
<1>1. /\ row.status = StatusAfter(h.op, was.status)
      /\ h.op # "edit" => row.content = was.content /\ row.period = was.period
      /\ h.op = "finalize" => row.evidence = h.evidence
  BY DEF Written
<1>2. CASE h.op = "edit"
  BY <1>1, <1>2 DEF ReadFacts, StatusAfter
<1>3. CASE h.op = "review"
  BY <1>1, <1>3 DEF ReadFacts, StatusAfter
<1>4. CASE h.op = "finalize"
  BY <1>1, <1>4 DEF ReadFacts, StatusAfter, Matched
<1>5. CASE h.op = "void"
  BY <1>1, <1>5 DEF StatusAfter
<1> QED  BY <1>2, <1>3, <1>4, <1>5, DraftHandlerShape

LEMMA WriteDraftKeeps ==
    ASSUME IInv, NEW c \in Connection, WriteDraft(c)
    PROVE  IInv' /\ \A d \in Draft : Forward(drafts[d].status, drafts'[d].status)
<1> DEFINE h == pending[c]
           x == h.of
<1>1. /\ pending[c] # Idle /\ h.op # "template"
      /\ RowAllowed(x, Written(h))
      /\ drafts' = [drafts EXCEPT ![x] = Written(h)]
      /\ overlapped' = IF h.read = drafts[x] THEN overlapped ELSE overlapped \cup {x}
      /\ pending' = [pending EXCEPT ![c] = Idle]
      /\ UNCHANGED <<templates, closed>>
  BY DEF WriteDraft, Free, Quit
<1>2. h \in DraftHandler  BY <1>1 DEF IInv, Typed, Handler, TemplateHandler
<1>3. x \in Draft /\ h.read \in Row  BY <1>2, DraftHandlerShape
<1>4. ReadFacts(h) /\ StatusSince(h)  BY <1>1 DEF IInv, Known
<1>5. Written(h) \in Row  BY <1>2, <1>4, WrittenTyped DEF IInv, Typed, ReadFacts
<1>6. Coherent(Written(h)) /\ Forward(drafts[x].status, Written(h).status)
  BY <1>1, <1>2, <1>4, AcceptedForward
<1> HIDE DEF h
<1>7. drafts'[x] = Written(h) /\ \A d \in Draft \ {x} : drafts'[d] = drafts[d]
  BY <1>1, <1>3 DEF IInv, Typed
<1>8. Typed'
  <2>1. drafts' \in [Draft -> Row]  BY <1>1, <1>3, <1>5 DEF IInv, Typed
  <2>2. overlapped' \subseteq Draft  BY <1>1, <1>3 DEF IInv, Typed
  <2>3. pending' \in [Connection -> Handler \cup {Idle}]  BY <1>1 DEF IInv, Typed
  <2> QED  BY <1>1, <2>1, <2>2, <2>3 DEF IInv, Typed
<1>9. \A d \in Draft : Forward(drafts[d].status, drafts'[d].status)
  BY <1>6, <1>7 DEF Forward
<1>10. \A d \in Draft : Coherent(drafts'[d])  BY <1>6, <1>7 DEF IInv
<1>12. \A d \in Draft \ overlapped' : Matched(d)'
  <2> SUFFICES ASSUME NEW d \in Draft, d \notin overlapped' PROVE Matched(d)'
    OBVIOUS
  <2>1. d \notin overlapped /\ Matched(d)  BY <1>1 DEF IInv
  <2>2. CASE d # x  BY <2>1, <2>2, <1>7 DEF Matched
  <2>3. CASE d = x
    <3>1. h.read = drafts[x]  BY <2>3, <1>1
    <3> QED  BY <3>1, <2>1, <2>3, <1>2, <1>4, <1>7, UnchangedRowMatched DEF Matched
  <2> QED  BY <2>2, <2>3
<1>13. ActiveIsNewest' /\ OneRow' /\ NoGap'
  BY <1>1 DEF IInv, ActiveIsNewest, Active, Newest, OneRow, NoGap
<1>14. \A d \in Connection : pending'[d] # Idle => Known(pending[d])'
  <2> SUFFICES ASSUME NEW d \in Connection, pending'[d] # Idle PROVE Known(pending[d])'
    OBVIOUS
  <2>1. pending'[d] = pending[d] /\ Known(pending[d]) /\ pending[d] \in Handler
    BY <1>1 DEF IInv, Typed
  <2>2. CASE pending[d].op = "template"
    BY <2>1, <2>2, <1>1 DEF Known, BaseSince
  <2>3. CASE pending[d].op # "template"
    <3> DEFINE g == pending[d]
    <3>1. g \in DraftHandler  BY <2>1, <2>3 DEF Handler, TemplateHandler
    <3>2. g.of \in Draft  BY <3>1, DraftHandlerShape
    <3>3. ReadFacts(g) /\ StatusSince(g)  BY <2>1, <2>3 DEF Known
    <3>4. Forward(drafts[g.of].status, drafts'[g.of].status)  BY <3>2, <1>9
    <3>5. StatusSince(g)'  BY <3>3, <3>4, <2>1 DEF StatusSince, Forward
    <3> QED  BY <2>1, <2>3, <3>3, <3>5 DEF Known, ReadFacts
  <2> QED  BY <2>2, <2>3
<1> QED  BY <1>8, <1>9, <1>10, <1>12, <1>13, <1>14 DEF IInv

-----------------------------------------------------------------------------
(* The rest, and the theorems *)

LEMMA NextKeeps ==
    ASSUME IInv, [Next]_vars
    PROVE  IInv' /\ \A d \in Draft : Forward(drafts[d].status, drafts'[d].status)
<1>1. ASSUME NEW c \in Connection, Read(c)
      PROVE  IInv' /\ UNCHANGED drafts
  <2>1. IInv'  BY <1>1, ReadKeeps
  <2>2. UNCHANGED drafts
    BY <1>1 DEF Read, ReadTemplate, ReadEdit, ReadReview, ReadVoid, ReadFinalize, Begin
  <2> QED  BY <2>1, <2>2
<1>2. ASSUME NEW c \in Connection, WriteTemplate(c) PROVE IInv' /\ UNCHANGED drafts
  BY <1>2, WriteTemplateKeeps
<1>3. ASSUME NEW c \in Connection, Abandon(c) PROVE IInv' /\ UNCHANGED drafts
  <2>1. pending' = [pending EXCEPT ![c] = Idle] /\ UNCHANGED <<templates, drafts, closed, overlapped>>
    BY <1>3 DEF Abandon, Quit
  <2>2. Typed'  BY <2>1 DEF IInv, Typed
  <2>3. \A d \in Connection : pending'[d] # Idle => Known(pending[d])'
    BY <2>1 DEF IInv, Typed, Known, BaseSince, ReadFacts, StatusSince
  <2> QED
    BY <2>1, <2>2, <2>3
       DEF IInv, Matched, ActiveIsNewest, Active, Newest, OneRow, NoGap
<1>4. ASSUME NEW p \in Period, CloseQuarter(p) PROVE IInv' /\ UNCHANGED drafts
  <2>1. closed' = closed \cup {p} /\ UNCHANGED <<templates, drafts, pending, overlapped>>
    BY <1>4 DEF CloseQuarter
  <2> QED
    BY <2>1 DEF IInv, Typed, Matched, ActiveIsNewest, Active, Newest, OneRow, NoGap,
                Known, BaseSince, ReadFacts, StatusSince
<1>5. CASE UNCHANGED vars
  BY <1>5 DEF vars, IInv, Typed, Matched, ActiveIsNewest, Active, Newest,
              OneRow, NoGap, Known, BaseSince, ReadFacts, StatusSince, Forward
<1>6. ASSUME NEW c \in Connection, WriteDraft(c)
      PROVE  IInv' /\ \A d \in Draft : Forward(drafts[d].status, drafts'[d].status)
  BY <1>6, WriteDraftKeeps
<1> QED  BY <1>1, <1>2, <1>3, <1>4, <1>5, <1>6 DEF Next, Forward

LEMMA IInvAlways == Spec => []IInv
<1>1. IInv /\ [Next]_vars => IInv'  BY NextKeeps
<1> QED  BY InitHolds, <1>1, PTL DEF Spec

\* Rows, templates and handlers keep their shape, for every number of each.
THEOREM TypeCorrect == Spec => []TypeOK
<1>1. IInv => TypeOK
  <2> SUFFICES ASSUME IInv, NEW c \in Connection
               PROVE  Free(c) \/ Doing(c, "template") \/ pending[c].read \in Row
    BY DEF IInv, Typed, TypeOK
  <2>1. pending[c] = Idle \/ pending[c] \in TemplateHandler \/ pending[c] \in DraftHandler
    BY DEF IInv, Typed, Handler
  <2>2. pending[c] \in TemplateHandler => pending[c].op = "template"  BY DEF TemplateHandler
  <2> QED  BY <2>1, <2>2, DraftHandlerShape DEF Free, Doing
<1> QED  BY IInvAlways, <1>1, PTL

\* However many connections change a template, only its newest version can be
\* active, whatever they read before (upsert_invoice_template).
THEOREM ActiveTemplateIsNewest == Spec => []ActiveIsNewest
<1>1. IInv => ActiveIsNewest  BY DEF IInv
<1> QED  BY IInvAlways, <1>1, PTL

\* An invoice no handlers overlapped on says what its evidence says
\* (finalize_outgoing_invoice_draft).
THEOREM IssuedSaysItsEvidence == Spec => []IssuedMatches
<1>1. IInv => IssuedMatches  BY DEF IInv, IssuedMatches, Matched
<1> QED  BY IInvAlways, <1>1, PTL

\* No interleaving of handlers moves an invoice backwards.
THEOREM NoStepBack == Spec => StatusForward
<1>1. IInv /\ [Next]_vars =>
        \A d \in Draft : Forward(drafts[d].status, drafts'[d].status)
  BY NextKeeps
<1>2. (\A d \in Draft : Forward(drafts[d].status, drafts'[d].status)) =>
        [\A d \in Draft :
          LET from == drafts[d].status
              to == drafts'[d].status
          IN  \/ to = from
              \/ from = "absent" /\ to = "draft"
              \/ from = "draft" /\ to \in {"reviewed", "void"}
              \/ from = "reviewed" /\ to \in {"issued", "void"}]_vars
  BY DEF Forward
<1> QED  BY IInvAlways, <1>1, <1>2, PTL DEF Spec, StatusForward
=============================================================================
