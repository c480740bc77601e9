-------------------------- MODULE OutgoingInvoices --------------------------
(***************************************************************************)
(* Outgoing invoices are drafted and reviewed here, issued by the provider,*)
(* and then tied to the evidence that came back.  Every handler of the     *)
(* ledger reads and checks in autocommit, and writes by id alone, so two   *)
(* connections may overlap; what the schema checks (a status agrees with   *)
(* the columns that belong to it, numbers and evidence are used once) it   *)
(* checks again at the write.                                              *)
(***************************************************************************)
EXTENDS Naturals, FiniteSets

CONSTANTS
    Connection, Idle,
    Draft,          \* draft keys
    Period,
    Content,        \* what an invoice says: lines, totals, recipient
    Incomplete,     \* contents that a review refuses
    Evidence,       \* approved income rows, each with its document
    Total,          \* evidence -> the content it matches
    Number,         \* evidence -> the number printed on it
    PeriodOf,       \* evidence -> the quarter of its row
    NoEvidence,
    MaxVersion,     \* bound: versions of a draft
    MaxTemplates    \* bound: versions of the template

ASSUME InvoiceAssumption ==
    /\ Content # {} /\ Incomplete \subseteq Content /\ Period # {}
    /\ Total \in [Evidence -> Content]
    /\ PeriodOf \in [Evidence -> Period]
    /\ NoEvidence \notin Evidence
    /\ MaxVersion \in Nat \ {0} /\ MaxTemplates \in Nat \ {0}

VARIABLES
    templates,      \* the versions of one template key
    drafts,         \* draft -> its row; version 0 before it is created
    closed,         \* closed quarters
    pending,        \* connection -> what it read and is about to write
    overlapped      \* drafts some handler wrote over a row it had not read

vars == <<templates, drafts, closed, pending, overlapped>>

Row == [status : {"absent", "draft", "reviewed", "issued", "void"},
        content : Content, period : Period,
        evidence : Evidence \cup {NoEvidence},
        reason : BOOLEAN, version : 0..MaxVersion]

Template == [version : 1..MaxTemplates, active : BOOLEAN]

Free(c) == pending[c] = Idle
Doing(c, op) == ~Free(c) /\ pending[c].op = op
Mutable(p) == p \notin closed
Active == {t \in templates : t.active}
Newest(t) == \A u \in templates : u.version <= t.version

Begin(c, handler) ==
    /\ Free(c)
    /\ pending' = [pending EXCEPT ![c] = handler]
    /\ UNCHANGED <<templates, drafts, closed, overlapped>>

Quit(c) == pending' = [pending EXCEPT ![c] = Idle]

-----------------------------------------------------------------------------
(* Templates: a change deactivates the version it read and adds the next *)

ReadTemplate(c, active) ==
    \/ /\ templates = {}
       /\ Begin(c, [op |-> "template", base |-> 0, wasActive |-> FALSE, active |-> active])
    \/ \E t \in templates :
          /\ t.version < MaxTemplates
          /\ Begin(c, [op |-> "template", base |-> t.version,
                       wasActive |-> t.active, active |-> active])

\* UNIQUE (key, version), and one active version of a key.
TemplateAllowed(kept, next) ==
    /\ \A t \in kept : t.version # next.version
    /\ ~(next.active /\ \E t \in kept : t.active)

\* Broken variant: the version it replaces is deactivated only by an active one.
Kept_UnlessActive(h) ==
    {[t EXCEPT !.active = @ /\ ~(h.wasActive /\ h.active /\ t.version = h.base)] : t \in templates}

\* The version it read is deactivated when it was read as active.
Kept(h) ==
    {[t EXCEPT !.active = @ /\ ~(h.wasActive /\ t.version = h.base)] : t \in templates}

WriteTemplate(c) ==
    LET h == pending[c]
        next == [version |-> h.base + 1, active |-> h.active]
    IN  /\ Doing(c, "template")
        /\ TemplateAllowed(Kept(h), next)
        /\ templates' = Kept(h) \cup {next}
        /\ Quit(c)
        /\ UNCHANGED <<drafts, closed, overlapped>>

-----------------------------------------------------------------------------
(* Drafts *)

\* Broken variant: the table has no CHECK and no unique index.
RowAllowed_Any(d, row) == TRUE

\* What the table accepts of a row, whoever writes it.
RowAllowed(d, row) ==
    /\ (row.status = "issued") <=> (row.evidence # NoEvidence)
    /\ (row.status = "void") <=> row.reason
    /\ row.status = "issued" =>
          \A e \in Draft \ {d} :
              drafts[e].status = "issued" =>
                  /\ drafts[e].evidence # row.evidence
                  /\ Number[drafts[e].evidence] # Number[row.evidence]

Fresh(d) == drafts[d].version < MaxVersion

Editable(d) == drafts[d].status \in {"absent", "draft"}

\* create_outgoing_invoice_draft looks at the new quarter only.
ReadEdit(c, d, content, p) ==
    /\ Active # {} /\ Mutable(p)
    /\ Editable(d) /\ Fresh(d)
    /\ content # drafts[d].content \/ p # drafts[d].period \/ drafts[d].status = "absent"
    /\ Begin(c, [op |-> "edit", of |-> d, read |-> drafts[d], content |-> content, period |-> p])

\* Broken variant: the review does not look at what is missing.
Reviewable_Any(d) == drafts[d].status = "draft"

Reviewable(d) == drafts[d].status = "draft" /\ drafts[d].content \notin Incomplete

ReadReview(c, d) ==
    /\ Reviewable(d) /\ Fresh(d)
    /\ Mutable(drafts[d].period)
    /\ Begin(c, [op |-> "review", of |-> d, read |-> drafts[d]])

\* Neither the quarter nor a correction of it matters: the row is booked.
ReadFinalize(c, d, e) ==
    /\ drafts[d].status = "reviewed" /\ Fresh(d)
    /\ Total[e] = drafts[d].content /\ PeriodOf[e] = drafts[d].period
    /\ Begin(c, [op |-> "finalize", of |-> d, read |-> drafts[d], evidence |-> e])

ReadVoid(c, d) ==
    /\ drafts[d].status \in {"draft", "reviewed"} /\ Fresh(d)
    /\ Mutable(drafts[d].period)
    /\ Begin(c, [op |-> "void", of |-> d, read |-> drafts[d]])

StatusAfter(op, status) ==
    IF op = "edit" THEN IF status = "absent" THEN "draft" ELSE status
    ELSE IF op = "review" THEN "reviewed"
    ELSE IF op = "finalize" THEN "issued"
    ELSE "void"

\* The columns each handler names; the others keep what is there by now.
Written(h) ==
    LET row == drafts[h.of] IN
    [status |-> StatusAfter(h.op, row.status),
     content |-> IF h.op = "edit" THEN h.content ELSE row.content,
     period |-> IF h.op = "edit" THEN h.period ELSE row.period,
     evidence |-> IF h.op = "finalize" THEN h.evidence ELSE row.evidence,
     reason |-> IF h.op = "void" THEN TRUE ELSE row.reason,
     version |-> h.read.version + 1]

\* A draft key is inserted once; of two creations the second one fails.
WriteDraft(c) ==
    LET h == pending[c]
        d == h.of
    IN  /\ ~Free(c) /\ h.op # "template"
        /\ h.read.status = "absent" => drafts[d].status = "absent"
        /\ RowAllowed(d, Written(h))
        /\ drafts' = [drafts EXCEPT ![d] = Written(h)]
        /\ overlapped' = IF h.read = drafts[d] THEN overlapped ELSE overlapped \cup {d}
        /\ Quit(c)
        /\ UNCHANGED <<templates, closed>>

\* A constraint that failed, a lock that was not got, or a crash.
Abandon(c) ==
    /\ ~Free(c) /\ Quit(c)
    /\ UNCHANGED <<templates, drafts, closed, overlapped>>

\* Drafts do not hold up a close.
CloseQuarter(p) ==
    /\ Mutable(p)
    /\ closed' = closed \cup {p}
    /\ UNCHANGED <<templates, drafts, pending, overlapped>>

Init ==
    /\ templates = {}
    /\ drafts = [d \in Draft |->
          [status |-> "absent", content |-> CHOOSE x \in Content : TRUE,
           period |-> CHOOSE p \in Period : TRUE,
           evidence |-> NoEvidence, reason |-> FALSE, version |-> 0]]
    /\ closed = {}
    /\ pending = [c \in Connection |-> Idle]
    /\ overlapped = {}

Read(c) ==
    \/ \E active \in BOOLEAN : ReadTemplate(c, active)
    \/ \E d \in Draft :
          \/ \E content \in Content, p \in Period : ReadEdit(c, d, content, p)
          \/ ReadReview(c, d) \/ ReadVoid(c, d)
          \/ \E e \in Evidence : ReadFinalize(c, d, e)

Next ==
    \/ \E c \in Connection : Read(c) \/ WriteTemplate(c) \/ WriteDraft(c) \/ Abandon(c)
    \/ \E p \in Period : CloseQuarter(p)

Spec == Init /\ [][Next]_vars

-----------------------------------------------------------------------------
(* Properties *)

\* Rows, templates and handlers keep their shape.
TypeOK ==
    /\ templates \subseteq Template
    /\ drafts \in [Draft -> Row]
    /\ closed \subseteq Period
    /\ overlapped \subseteq Draft
    /\ \A c \in Connection :
          Free(c) \/ Doing(c, "template") \/ pending[c].read \in Row

\* Only the newest version of a template can be active, whichever versions two
\* connections read before they wrote, so that no draft is written from a version
\* that another one replaced (upsert_invoice_template).
ActiveIsNewest == \A t \in Active : Newest(t)

\* An issued invoice is complete and says what its evidence says, unless
\* handlers overlapped on it (finalize_outgoing_invoice_draft).
IssuedMatches ==
    \A d \in Draft \ overlapped :
        drafts[d].status = "issued" =>
            /\ drafts[d].content = Total[drafts[d].evidence]
            /\ drafts[d].period = PeriodOf[drafts[d].evidence]
            /\ drafts[d].content \notin Incomplete

\* An invoice only moves forward, and an issued or void one nowhere, even when
\* a handler that read an older status writes last: the table refuses it.
StatusForward ==
    [][\A d \in Draft :
          LET from == drafts[d].status
              to == drafts'[d].status
          IN  \/ to = from
              \/ from = "absent" /\ to = "draft"
              \/ from = "draft" /\ to \in {"reviewed", "void"}
              \/ from = "reviewed" /\ to \in {"issued", "void"}]_vars
=============================================================================
