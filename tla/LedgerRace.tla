----------------------------- MODULE LedgerRace -----------------------------
(***************************************************************************)
(* Several connections on one ledger: the command line beside the threads  *)
(* of the local web server.  Most handlers of LedgerDB read and check in   *)
(* autocommit and open their write transaction only at the UPDATE, which   *)
(* names the row by its id alone; the review packet and the wizard take    *)
(* the write lock before they read.  The first kind is here a Read step    *)
(* and a Write step, the second a single step.                             *)
(*                                                                         *)
(* One quarter, and of a row only what the races disturb.  Reading twice   *)
(* before the write, as transition_transaction does, is one Read: the      *)
(* second one checks the version and the period again.                     *)
(***************************************************************************)
EXTENDS Naturals, Lifecycle

CONSTANTS
    Connection,
    Transaction,
    Party,
    Idle,           \* a connection with no handler under way
    MaxVersion      \* bound: versions of a row

ASSUME RaceAssumption == MaxVersion \in Nat \ {0}

VARIABLES
    quarter,        \* its status
    rows,           \* transaction -> [status, party, version]
    filed,          \* whether a final snapshot exists
    pending         \* connection -> what its handler read and is to write

vars == <<quarter, rows, filed, pending>>

Row == [status : {"needs_review", "approved", "posted", "included_in_snapshot", "rejected", "void"},
        party : Party, version : 1..MaxVersion]

\* A handler past its checks: the row it read, if it has one, and what to write.
Handler ==
    [op : {"transition"}, of : Transaction, read : Row, to : Status]
        \cup [op : {"party"}, of : Transaction, read : Row, to : Party]
        \cup [op : {"close", "amend", "file"}]

Free(c) == pending[c] = Idle
Begin(c, handler) ==
    /\ pending' = [pending EXCEPT ![c] = handler]
    /\ UNCHANGED <<quarter, rows, filed>>

Mutable == quarter = "open"
Fresh(t) == rows[t].version < MaxVersion

-----------------------------------------------------------------------------
(* Handlers that read first *)

TransitionAllowed(t, status) == Mutable /\ CanMove(rows[t].status, status)

ReadTransition(c, t, status) ==
    /\ Free(c) /\ Fresh(t)
    /\ rows[t].status \notin Terminal
    /\ TransitionAllowed(t, status)
    /\ Begin(c, [op |-> "transition", of |-> t, read |-> rows[t], to |-> status])

\* The whole row is written back as it was read, with its new status.
WriteTransition(c) ==
    LET h == pending[c]
    IN  /\ ~Free(c) /\ h.op = "transition"
        /\ rows' = [rows EXCEPT ![h.of] =
              [status |-> h.to, party |-> h.read.party, version |-> h.read.version + 1]]
        /\ pending' = [pending EXCEPT ![c] = Idle]
        /\ UNCHANGED <<quarter, filed>>

ReadCounterparty(c, t, party) ==
    /\ Free(c) /\ Fresh(t)
    /\ rows[t].status \in Unposted
    /\ Mutable
    /\ rows[t].party # party
    /\ Begin(c, [op |-> "party", of |-> t, read |-> rows[t], to |-> party])

WriteCounterparty(c) ==
    LET h == pending[c]
    IN  /\ ~Free(c) /\ h.op = "party"
        /\ rows' = [rows EXCEPT ![h.of].party = h.to, ![h.of].version = h.read.version + 1]
        /\ pending' = [pending EXCEPT ![c] = Idle]
        /\ UNCHANGED <<quarter, filed>>

CloseReady == Mutable /\ \A t \in Transaction : rows[t].status \notin Unposted

ReadClose(c) == Free(c) /\ CloseReady /\ Begin(c, [op |-> "close"])

WriteClose(c) ==
    /\ ~Free(c) /\ pending[c].op = "close"
    /\ quarter' = "closed"
    /\ pending' = [pending EXCEPT ![c] = Idle]
    /\ UNCHANGED <<rows, filed>>

ReadAmend(c) == Free(c) /\ quarter = "closed" /\ Begin(c, [op |-> "amend"])

WriteAmend(c) ==
    /\ ~Free(c) /\ pending[c].op = "amend"
    /\ quarter' = "amended"
    /\ pending' = [pending EXCEPT ![c] = Idle]
    /\ UNCHANGED <<rows, filed>>

\* Broken variant: an open quarter is filed.
FilingAllowed_Open == TRUE

FilingAllowed == quarter # "open"

ReadFile(c) == Free(c) /\ FilingAllowed /\ Begin(c, [op |-> "file"])

\* The posted rows are selected after the INSERT has taken the write lock.
WriteFile(c) ==
    /\ ~Free(c) /\ pending[c].op = "file"
    /\ filed' = TRUE
    /\ rows' = [t \in Transaction |->
          IF rows[t].status = "posted"
          THEN [rows[t] EXCEPT !.status = "included_in_snapshot", !.version = @ + 1]
          ELSE rows[t]]
    /\ \A t \in Transaction : rows[t].status = "posted" => Fresh(t)
    /\ pending' = [pending EXCEPT ![c] = Idle]
    /\ UNCHANGED quarter

-----------------------------------------------------------------------------
(* Handlers that lock first, and the crash of any other *)

\* review packet, either outcome
DecidePacket(c, t, status) ==
    /\ Free(c) /\ Fresh(t)
    /\ Mutable
    /\ PacketCanMove(rows[t].status, status)
    /\ rows' = [rows EXCEPT ![t].status = status, ![t].version = @ + 1]
    /\ UNCHANGED <<quarter, filed, pending>>

\* The process ends, or its lock times out, between the read and the write.
Abandon(c) ==
    /\ ~Free(c)
    /\ pending' = [pending EXCEPT ![c] = Idle]
    /\ UNCHANGED <<quarter, rows, filed>>

-----------------------------------------------------------------------------

Init ==
    /\ quarter = "open"
    /\ rows \in [Transaction -> [status : {"needs_review"}, party : Party, version : {1}]]
    /\ filed = FALSE
    /\ pending = [c \in Connection |-> Idle]

\* The command line asks for neither of the other statuses; the reviewed sheet,
\* which may, holds the write lock.
Read(c) ==
    \/ \E t \in Transaction :
          \/ \E s \in {"approved", "posted", "rejected", "void"} : ReadTransition(c, t, s)
          \/ \E party \in Party : ReadCounterparty(c, t, party)
    \/ ReadClose(c)
    \/ ReadAmend(c)
    \/ ReadFile(c)

Write(c) ==
    \/ WriteTransition(c)
    \/ WriteCounterparty(c)
    \/ WriteClose(c)
    \/ WriteAmend(c)
    \/ WriteFile(c)

Next ==
    \E c \in Connection :
        \/ Read(c)
        \/ Write(c)
        \/ \E t \in Transaction, s \in {"approved", "rejected"} : DecidePacket(c, t, s)
        \/ Abandon(c)

Spec == Init /\ [][Next]_vars

-----------------------------------------------------------------------------
(* What survives the races, and what does not *)

\* The shape of the tables and of what a handler holds between read and write.
TypeOK ==
    /\ quarter \in {"open", "closed", "amended"}
    /\ rows \in [Transaction -> Row]
    /\ filed \in BOOLEAN
    /\ pending \in [Connection -> Handler \cup {Idle}]

\* What a final snapshot rests on survives every interleaving: the quarter it
\* was taken of never reads open again, although create_filing_snapshot checked
\* it before its write, and no row counts as included without that snapshot.
FiledIsClosed ==
    /\ filed => quarter # "open"
    /\ (\E t \in Transaction : rows[t].status = "included_in_snapshot") => filed

\* "Period ... is immutable after close": after the close a row changes only
\* when the final snapshot claims it.  A handler that checked before the close breaks it.
ClosedRowsFrozen ==
    [][quarter # "open" =>
          \A t \in Transaction :
              \/ rows'[t] = rows[t]
              \/ /\ rows[t].status = "posted" /\ rows'[t].status = "included_in_snapshot"
                 /\ rows'[t].party = rows[t].party]_vars
=============================================================================
