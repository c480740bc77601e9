----------------------------- MODULE Statements -----------------------------
(***************************************************************************)
(* Bank statements: an import reads what it knows, claims the payments of  *)
(* former workflows, matches the new lines with the journal and records    *)
(* them one commit at a time.  When anything fails it puts back a copy of  *)
(* the whole database that it took at the start, and with it whatever      *)
(* other connections wrote meanwhile.  A process that is killed puts       *)
(* nothing back; the import is then run again.                             *)
(***************************************************************************)
EXTENDS Naturals, FiniteSets, FiniteSetsExt

CONSTANTS
    Importer,       \* connections that import
    Movement,       \* movements of the account, numbered in the order of the export
    Exports,        \* the sets of movements an export may hold
    Legacy,         \* movements that a former workflow recorded
    Journal,        \* rows a payment can be matched with
    Fits,           \* movement -> the rows of its amount, reference and date
    Reviewable,     \* rows whose payments ask for a review
    Absent, Unmatched,
    MaxImports      \* bound

Source == {"revolut", "zenmoney"}

ASSUME StatementsAssumption ==
    /\ Movement \subseteq Nat /\ IsFiniteSet(Movement)
    /\ Exports \subseteq SUBSET Movement /\ Legacy \subseteq Movement
    /\ Fits \in [Movement -> SUBSET Journal] /\ Reviewable \subseteq Journal
    /\ MaxImports \in Nat
    /\ Absent \notin Journal /\ Unmatched \notin Journal \cup {Absent}

VARIABLES
    db,             \* payments by source and movement, unclaimed legacy payments,
                    \* open issues on missing lines, whether the quarter is closed;
                    \* ghost: lines whose issue was on its way while it closed
    importer,       \* importer -> its import
    begun,          \* imports so far, up to MaxImports
    reported,       \* ghost: lines of the imports that ended well
    erased,         \* ghost: a copy was put back over the commits of others, or
                    \* over its own after another import may have read them
    crossed,        \* ghost: two imports matched at the same time
    closing         \* a close has read the quarter and is about to update it

statementsVars == <<db, importer, begun, reported, erased, crossed, closing>>

NoImport == [stage |-> "none"]

AtWork == {i \in Importer : importer[i].stage # "none"}

\* Lines whose issue an import has checked and not inserted yet.
Asking == UNION {importer[i].asking : i \in AtWork}

Recorded(source) == {m \in Movement : db.paid[source][m] # Absent}

\* The journal rows a payment settles.
Settled == {db.paid[s][m] : s \in Source, m \in Movement} \ {Absent, Unmatched}

\* What those of others that are at work are, once somebody came between.
Overtaken(others) ==
    [j \in Importer |->
        IF j \in AtWork \cap others
        THEN [importer[j] EXCEPT !.disturbed = TRUE] ELSE importer[j]]

\* Importer i goes on; without a commit, and with one.
Continues(i, import) == importer' = [importer EXCEPT ![i] = import] /\ UNCHANGED db
Commits(i, database, import) ==
    /\ db' = database
    /\ importer' = [Overtaken(IF database = db THEN {} ELSE Importer \ {i})
                        EXCEPT ![i] = import]

\* A commit of somebody who does not import.
OthersCommit(database) ==
    /\ db' = database
    /\ importer' = Overtaken(Importer)
    /\ UNCHANGED <<begun, reported, erased, crossed>>

-----------------------------------------------------------------------------
(* Importing *)

\* Broken variant: a movement is known whichever bank export it came from.
Known_AnySource(source) == UNION {Recorded(s) : s \in Source}

Known(source) == Recorded(source)

\* The copy and what is known already: the first thing an import of Revolut reads.
BeginImport(i, source, file) ==
    /\ importer[i].stage = "none" /\ begun < MaxImports
    /\ begun' = begun + 1
    /\ importer' = [Overtaken(Importer) EXCEPT ![i] =
                    [stage |-> IF source = "revolut" THEN "claim" ELSE "match",
                     source |-> source, file |-> file, todo |-> file \ Known(source),
                     match |-> [m \in {} |-> Unmatched],
                     gone |-> {}, left |-> {}, asking |-> {},
                     copy |-> db, disturbed |-> AtWork # {}]]
    /\ UNCHANGED <<db, reported, erased, crossed, closing>>

\* A known line whose accounting fields changed at the bank stops the import.
LineChanged(i) ==
    LET import == importer[i] IN
    /\ import.stage \in {"claim", "match"}
    /\ import.stage = "match" => import.source = "zenmoney"
    /\ import.file # import.todo
    /\ Continues(i, IF import.source = "revolut" THEN [import EXCEPT !.stage = "failed"]
                    ELSE NoImport)
    /\ UNCHANGED <<begun, reported, erased, crossed, closing>>

\* Broken variant: former payments are not looked for.
Claimable_None(i) == {}

Claimable(i) == importer[i].todo \cap db.legacy

\* _claim_legacy_revolut_payment: the former payment becomes the line's, unless
\* that line came in by another import.
Claim(i) ==
    LET import == importer[i]
        m == Min(Claimable(i))
    IN  /\ import.stage = "claim" /\ Claimable(i) # {}
        /\ IF m \in Recorded("revolut")
           THEN Continues(i, [import EXCEPT !.stage = "failed"])
           ELSE Commits(i, [db EXCEPT !.legacy = @ \ {m}, !.paid["revolut"][m] = Unmatched],
                           [import EXCEPT !.todo = @ \ {m}])
        /\ UNCHANGED <<begun, reported, erased, crossed, closing>>

Claimed(i) ==
    /\ importer[i].stage = "claim" /\ Claimable(i) = {}
    /\ Continues(i, [importer[i] EXCEPT !.stage = "match"])
    /\ UNCHANGED <<begun, reported, erased, crossed, closing>>

\* Broken variant: a row that is paid already is offered again.
Offered_Any == Journal

\* _payment_match_candidates
Offered == Journal \ Settled

\* match_revolut_payments: line by line, one candidate left or none.
Matches(lines) ==
    LET match[m \in lines] ==
            LET left == (Fits[m] \cap Offered) \ {match[n] : n \in {k \in lines : k < m}}
            IN  IF Cardinality(left) = 1 THEN CHOOSE r \in left : TRUE ELSE Unmatched
    IN  match

\* An import of ZenMoney takes its copy only now.
Match(i) ==
    LET import == importer[i] IN
    /\ import.stage = "match"
    /\ Continues(i, [import EXCEPT !.stage = "record", !.match = Matches(import.todo),
                        !.copy = IF import.source = "zenmoney" THEN db ELSE @,
                        !.disturbed = IF import.source = "zenmoney" THEN AtWork # {i} ELSE @])
    /\ crossed' = (crossed \/ \E j \in AtWork \ {i} : importer[j].stage = "record")
    /\ UNCHANGED <<begun, reported, erased, closing>>

\* add_payment: the source and its line number are unique; the same payment
\* again is the one that is there, except that a claimed one keeps the hash of
\* its former workflow; the payment is committed before its review, which a
\* closed quarter refuses.
Record(i) ==
    LET import == importer[i]
        m == Min(import.todo)
        there == db.paid[import.source][m]
        claimed == import.source = "revolut" /\ m \in Legacy \ db.legacy
        failed == \/ there # Absent /\ (claimed \/ there # import.match[m])
                  \/ import.match[m] \in Reviewable /\ db.closed
    IN  /\ import.stage = "record" /\ import.todo # {}
        /\ Commits(i, IF there = Absent
                      THEN [db EXCEPT !.paid[import.source][m] = import.match[m]] ELSE db,
                      IF failed THEN [import EXCEPT !.stage = "failed"]
                      ELSE [import EXCEPT !.todo = @ \ {m}])
        /\ UNCHANGED <<begun, reported, erased, crossed, closing>>

-----------------------------------------------------------------------------
(* _sync_zenmoney_missing_issues: recorded lines the export no longer has *)

\* What the import knows of the quarter is read once, before the first issue.
LookForMissing(i) ==
    LET import == importer[i]
        gone == Recorded("zenmoney") \ import.file
    IN  /\ import.stage = "record" /\ import.todo = {}
        /\ import.source = "zenmoney" /\ ~db.closed
        /\ Continues(i, [import EXCEPT !.stage = "sync", !.gone = gone, !.left = gone])
        /\ UNCHANGED <<begun, reported, erased, crossed, closing>>

\* Broken variant: the first look at the quarter is trusted.
StillOpen_Always == TRUE

\* _assert_period_mutable
StillOpen == ~db.closed

\* add_validation_issue looks first, at the quarter and for the same issue ...
CheckMissing(i) ==
    LET import == importer[i]
        m == Min(import.left)
    IN  /\ import.stage = "sync" /\ import.left # {} /\ import.asking = {}
        /\ Continues(i, IF ~StillOpen THEN [import EXCEPT !.stage = "failed"]
                        ELSE IF m \in db.missing THEN [import EXCEPT !.left = @ \ {m}]
                        ELSE [import EXCEPT !.left = @ \ {m}, !.asking = {m}])
        /\ UNCHANGED <<begun, reported, erased, crossed, closing>>

\* ... and inserts afterwards; an issue is of one line, and unique.
InsertMissing(i) ==
    LET import == importer[i]
        asked == [db EXCEPT !.missing = @ \cup import.asking,
                            !.late = IF closing THEN @ \cup import.asking ELSE @]
    IN  /\ import.stage = "sync" /\ import.asking # {}
        /\ \/ Commits(i, asked, [import EXCEPT !.asking = {}])
           \/ import.asking \subseteq db.missing
              /\ Continues(i, [import EXCEPT !.stage = "failed", !.asking = {}])
        /\ UNCHANGED <<begun, reported, erased, crossed, closing>>

LookForStale(i) ==
    LET import == importer[i] IN
    /\ import.stage = "sync" /\ import.left = {} /\ import.asking = {}
    /\ Continues(i, [import EXCEPT !.stage = "stale", !.left = db.missing \ import.gone])
    /\ UNCHANGED <<begun, reported, erased, crossed, closing>>

\* resolve_issue, of the version that was read
ResolveStaleMissing(i) ==
    LET import == importer[i]
        m == Min(import.left)
    IN  /\ import.stage = "stale" /\ import.left # {}
        /\ IF StillOpen /\ m \in db.missing
           THEN Commits(i, [db EXCEPT !.missing = @ \ {m}], [import EXCEPT !.left = @ \ {m}])
           ELSE Continues(i, [import EXCEPT !.stage = "failed"])
        /\ UNCHANGED <<begun, reported, erased, crossed, closing>>

\* Nothing is synchronized for Revolut, nor in a closed quarter.
Finish(i) ==
    LET import == importer[i] IN
    /\ \/ /\ import.stage = "record" /\ import.todo = {}
          /\ import.source = "revolut" \/ db.closed
       \/ import.stage = "stale" /\ import.left = {}
    /\ Continues(i, NoImport)
    /\ reported' = reported \cup {<<import.source, m>> : m \in import.file}
    /\ UNCHANGED <<begun, erased, crossed, closing>>

-----------------------------------------------------------------------------
(* Failing *)

\* Broken variant: only the payments are put back.
Restored_Payments(i) ==
    [db EXCEPT !.paid = importer[i].copy.paid, !.missing = importer[i].copy.missing]

Restored(i) == importer[i].copy

\* The copy goes over the whole database, also while the quarter is closing.
Fail(i) ==
    /\ importer[i].stage = "failed"
    /\ Commits(i, [Restored(i) EXCEPT
                     !.late = @ \cup Asking \cup (IF closing THEN Restored(i).missing ELSE {})],
               NoImport)
    /\ erased' = (erased \/ importer[i].disturbed)
    /\ UNCHANGED <<begun, reported, crossed, closing>>

\* The process ends.
Kill(i) ==
    /\ i \in AtWork
    /\ Continues(i, NoImport)
    /\ UNCHANGED <<begun, reported, erased, crossed, closing>>

-----------------------------------------------------------------------------
(* Other connections *)

\* resolve_issue, waive_issue
AnswerMissing(m) ==
    /\ m \in db.missing /\ ~db.closed
    /\ OthersCommit([db EXCEPT !.missing = @ \ {m}])
    /\ UNCHANGED closing

\* close_period reads, as far as a missing line blocks it.
BeginCloseStatement ==
    /\ ~closing /\ ~db.closed /\ db.missing = {}
    /\ closing' = TRUE
    /\ UNCHANGED <<db, importer, begun, reported, erased, crossed>>

\* Its UPDATE looks at nothing; imports may have an issue on its way.
EndCloseStatement ==
    /\ closing
    /\ closing' = FALSE
    /\ OthersCommit([db EXCEPT !.closed = TRUE, !.late = @ \cup Asking])

-----------------------------------------------------------------------------

StatementsInit ==
    /\ db = [paid |-> [s \in Source |-> [m \in Movement |-> Absent]],
             legacy |-> Legacy, missing |-> {}, closed |-> FALSE, late |-> {}]
    /\ importer = [i \in Importer |-> NoImport]
    /\ begun = 0 /\ reported = {} /\ erased = FALSE /\ crossed = FALSE /\ closing = FALSE

StatementsNext ==
    \/ \E i \in Importer :
          \/ \E source \in Source, file \in Exports : BeginImport(i, source, file)
          \/ LineChanged(i) \/ Claim(i) \/ Claimed(i) \/ Match(i)
          \/ Record(i) \/ LookForMissing(i) \/ CheckMissing(i) \/ InsertMissing(i)
          \/ LookForStale(i) \/ ResolveStaleMissing(i) \/ Finish(i) \/ Fail(i) \/ Kill(i)
    \/ \E m \in Movement : AnswerMissing(m)
    \/ BeginCloseStatement \/ EndCloseStatement

-----------------------------------------------------------------------------
(* Properties *)

Database ==
    [paid : [Source -> [Movement -> Journal \cup {Absent, Unmatched}]],
     legacy : SUBSET Movement, missing : SUBSET Movement, closed : BOOLEAN,
     late : SUBSET Movement]

\* The tables and the imports keep their shape.
StatementsTypeOK ==
    /\ db \in Database /\ closing \in BOOLEAN
    /\ \A i \in AtWork :
          LET import == importer[i] IN
          /\ import.stage \in {"claim", "match", "record", "sync", "stale", "failed"}
          /\ import.source \in Source /\ import.copy \in Database
          /\ import.todo \subseteq import.file
          /\ import.stage = "record" => import.todo \subseteq DOMAIN import.match
    /\ begun \in 0..MaxImports /\ reported \subseteq Source \X Movement

\* _cmd_bank_import_revolut, _cmd_bank_import_zenmoney: what an import reported
\* is recorded, although it skipped what it took for known, other imports of
\* the account failed or were killed beside it; unless a failing import put
\* back a copy that was older than somebody's commit.
ReportedIsRecorded ==
    ~erased => \A line \in reported : line[2] \in Recorded(line[1])

\* _claim_legacy_revolut_payment: a payment of a former workflow and the line
\* of the statement that it stands for are never both in the table, also when
\* two imports of the statement race for it; unless one put it back meanwhile.
LegacyCountsOnce == ~erased => db.legacy \cap Recorded("revolut") = {}

\* _payment_match_candidates, match_revolut_payments: unless two imports
\* matched at once or a copy was put back under one, no journal row is settled
\* by two lines, of whichever banks' exports and however often imported.
RowSettledOnce ==
    ~crossed /\ ~erased =>
        \A s, z \in Source, m, n \in Movement :
            /\ db.paid[s][m] \in Journal /\ db.paid[s][m] = db.paid[z][n]
            => s = z /\ m = n

\* close_period, _sync_zenmoney_missing_issues: a closed quarter has no open
\* issue on a missing line, also after a copy was put back over it; except
\* issues that came in between what the close read and its UPDATE, or that an
\* import had checked the quarter for before that UPDATE.
ClosedMissesNothing == db.closed => db.missing \subseteq db.late

\* The statements keep their shape, count each movement and settle each row
\* once, and never leave a line missing from a closed quarter.
StatementsInv ==
    /\ StatementsTypeOK
    /\ LegacyCountsOnce /\ RowSettledOnce /\ ClosedMissesNothing
=============================================================================
