------------------------------- MODULE Cases --------------------------------
(***************************************************************************)
(* A case before the AEAT: its status, the trail of events that justify    *)
(* it, and the official documents attached to it.  Recording a status      *)
(* reads the case outside its write transaction; attaching a document runs *)
(* in one transaction.                                                     *)
(***************************************************************************)
EXTENDS Naturals, Sequences, FiniteSets

CONSTANTS
    Clerk,          \* connections
    Reference,      \* pairs of a date and an evidence reference
    Scan,           \* official PDFs, by content hash
    MaxEvents       \* bound: events of the case

ASSUME CasesAssumption == MaxEvents \in Nat \ {0}

CaseStatus == {"submitted", "information_requested", "responded",
               "approved", "rejected", "closed"}
Final == {"approved", "rejected", "closed"}

VARIABLES
    case,           \* its status and row_version
    trail,          \* its events, in the order they were inserted
    attached,       \* documents recorded
    clerks          \* clerk -> what its handler has read

caseVars == <<case, trail, attached, clerks>>

\* AEAT_CASE_TRANSITIONS
Follows(from, to) ==
    \/ from \in {"submitted", "responded"} /\ to \in Final \cup {"information_requested"}
    \/ from = "information_requested" /\ to \in Final \cup {"responded"}

AtRest == [busy |-> FALSE, status |-> "submitted", ref |-> "opening",
           current |-> "submitted", version |-> 1]

CaseEvent(status, ref, moved) == [status |-> status, ref |-> ref, moved |-> moved]

\* UNIQUE (aeat_case_id, status, occurred_at, evidence_reference)
OnTrail(status, ref) ==
    \E i \in 1..Len(trail) : trail[i].status = status /\ trail[i].ref = ref

\* The checks of record_aeat_case_status and attach_aeat_document_to_case.
CaseAllows(status, version) ==
    /\ version = case.version
    /\ status = case.status \/ Follows(case.status, status)

-----------------------------------------------------------------------------
(* record_aeat_case_status: the read, then the write *)

\* An event that is there already answers the retry, and nothing is written.
ReadCase(c, status, ref, version) ==
    /\ ~clerks[c].busy
    /\ ~OnTrail(status, ref)
    /\ CaseAllows(status, version)
    /\ clerks' = [clerks EXCEPT ![c] =
            [busy |-> TRUE, status |-> status, ref |-> ref,
             current |-> case.status, version |-> version]]
    /\ UNCHANGED <<case, trail, attached>>

\* Broken variant: the UPDATE does not look at the row version.
Unmoved_Any(h) == TRUE

\* WHERE row_version = ?
Unmoved(h) == case.version = h.version

\* Broken variant: an UPDATE that matched no row is not noticed.
Outdated_Ignored(h) == FALSE

\* cursor.rowcount != 1
Outdated(h) == h.status # h.current /\ ~Unmoved(h)

\* Another handler's event may have taken the UNIQUE key since.
Refused(h) == Outdated(h) \/ OnTrail(h.status, h.ref)

Moves(h) == h.status # h.current /\ Unmoved(h)

WriteCase(c) ==
    LET h == clerks[c] IN
    /\ h.busy
    /\ clerks' = [clerks EXCEPT ![c] = AtRest]
    /\ \/ Refused(h) /\ UNCHANGED <<case, trail>>
       \/ /\ ~Refused(h) /\ Len(trail) < MaxEvents
          /\ case' = IF Moves(h) THEN [status |-> h.status, version |-> case.version + 1]
                     ELSE case
          /\ trail' = Append(trail, CaseEvent(h.status, h.ref, Moves(h)))
    /\ UNCHANGED attached

\* The process may end before the write.
GiveUp(c) ==
    /\ clerks[c].busy
    /\ clerks' = [clerks EXCEPT ![c] = AtRest]
    /\ UNCHANGED <<case, trail, attached>>

\* record_aeat_document: document, storage and event in one transaction.
Attach(scan, status, ref, version) ==
    /\ scan \notin attached
    /\ CaseAllows(status, version)
    /\ ~OnTrail(status, ref)
    /\ Len(trail) < MaxEvents
    /\ attached' = attached \cup {scan}
    /\ case' = IF status = case.status THEN case
               ELSE [status |-> status, version |-> case.version + 1]
    /\ trail' = Append(trail, CaseEvent(status, ref, status # case.status))
    /\ UNCHANGED clerks

-----------------------------------------------------------------------------

\* create_aeat_case_with_document: a case opens in the status its document states.
CasesInit ==
    /\ \E status \in CaseStatus :
        /\ case = [status |-> status, version |-> 1]
        /\ trail = <<CaseEvent(status, "opening", TRUE)>>
    /\ attached = {}
    /\ clerks = [c \in Clerk |-> AtRest]

CasesNext ==
    \/ \E status \in CaseStatus, ref \in Reference, version \in 1..case.version :
          \/ \E c \in Clerk : ReadCase(c, status, ref, version)
          \/ \E scan \in Scan : Attach(scan, status, ref, version)
    \/ \E c \in Clerk : WriteCase(c) \/ GiveUp(c)

-----------------------------------------------------------------------------
(* Properties *)

\* The case, its trail and its readers keep their shape.
CasesTypeOK ==
    /\ case \in [status : CaseStatus, version : 1..MaxEvents]
    /\ trail \in Seq([status : CaseStatus, ref : Reference \cup {"opening"}, moved : BOOLEAN])
    /\ attached \subseteq Scan
    /\ clerks \in [Clerk -> [busy : BOOLEAN, status : CaseStatus,
                             ref : Reference \cup {"opening"}, current : CaseStatus,
                             version : Nat]]

\* The places on the trail of the events that moved the case.
Moved == {i \in 1..Len(trail) : trail[i].moved}

\* record_aeat_case_status: however many clerks write at once, the events that
\* moved the case form a legal course that ends in its status, and its row
\* version counts them; a case that was decided stays decided.
CourseIsLegal ==
    /\ \A i, j \in Moved :
          i < j /\ (\A k \in Moved : ~(i < k /\ k < j)) => Follows(trail[i].status, trail[j].status)
    /\ \E i \in Moved : (\A j \in Moved : j <= i) /\ trail[i].status = case.status
    /\ case.version = Cardinality(Moved)

\* record_aeat_case_status: an event that did not move the case states a status
\* the case had taken before; it may have left it since.
EventsHappened ==
    \A i \in 1..Len(trail) :
        \E j \in Moved : j <= i /\ trail[j].status = trail[i].status

\* The trail of a case tells the course it took.
CasesInv == CasesTypeOK /\ CourseIsLegal /\ EventsHappened
=============================================================================
