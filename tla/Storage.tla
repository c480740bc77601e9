------------------------------ MODULE Storage ------------------------------
(***************************************************************************)
(* The copies of one evidence file: the catalogue rows of file_replicas,   *)
(* the objects the providers hold, and the processes that register,        *)
(* reconcile, import, adopt and clean them up.  Every handler commits      *)
(* between its steps and talks to providers outside any transaction, so    *)
(* another process may run, or this one end, at each of them.              *)
(*                                                                         *)
(* Files share no row, so one file stands for all.  The bytes of a stored  *)
(* object are right; that a provider cannot be reached, or answers with    *)
(* other bytes, is one and the same failure to verify, possible at any     *)
(* time but on the disk that holds the ledger itself.                      *)
(***************************************************************************)
CONSTANTS
    Process,        \* command lines, timers and server threads
    Backend,        \* configured and enabled storage endpoints
    Local,          \* the private root, where intake archives the source
    Driver,         \* backend -> "filesystem", "s3" or "google_drive"
    Writable,       \* backends with access_mode read_write
    AdoptTarget,    \* bound: archives that adoption is run for
    Idle            \* a process with no handler under way

ASSUME StorageAssumption ==
    /\ Local \in Backend \cap Writable
    /\ Driver \in [Backend -> {"filesystem", "s3", "google_drive"}]
    /\ Driver[Local] = "filesystem"
    /\ Writable \subseteq Backend
    /\ AdoptTarget \subseteq {b \in Backend \ Writable : Driver[b] = "google_drive"}

VARIABLES
    source,         \* of the document: "path" only, "file" row, "attached"
    replicas,       \* backend -> [status, primary]
    objects,        \* backend -> what the provider holds
    cleared,        \* backends a cleanup preflight has passed for
    pending         \* process -> its handler and how far it is

vars == <<source, replicas, objects, cleared, pending>>

Replica == [status : {"absent", "available", "corrupt", "retired"}, primary : BOOLEAN]
Object == {"none", "stored", "trashed"}

Handler ==
    [op : {"source"}, at : {"file", "attach", "register"}]
        \cup [op : {"reconcile"}, on : Backend, at : {"mark", "classify", "copy", "register"}]
        \cup [op : {"import"}, on : Backend,
              at : {"file", "attach", "register", "original", "promote"}]
        \cup [op : {"adopt"}, on : AdoptTarget, retire : SUBSET Backend]
        \cup [op : {"preflight"}, on : Backend]

Free(c) == pending[c] = Idle
Doing(c, op) == ~Free(c) /\ pending[c].op = op
At(c, op, stage) == Doing(c, op) /\ pending[c].at = stage
Done(c) == pending' = [pending EXCEPT ![c] = Idle]
GoTo(c, stage) == pending' = [pending EXCEPT ![c].at = stage]
Begin(c, handler) ==
    /\ Free(c)
    /\ pending' = [pending EXCEPT ![c] = handler]
    /\ UNCHANGED <<source, replicas, objects, cleared>>

Listed(b) == replicas[b].status = "available"
Kept(b) == replicas[b].status \notin {"absent", "retired"}
Readable(b) == Listed(b) /\ objects[b] = "stored"

Verifiable(b) == objects[b] = "stored"
MayFail(b) == objects[b] # "stored" \/ Driver[b] # "filesystem"

(***************************************************************************)
(* register_file_replica: the row is inserted or overwritten, whatever it  *)
(* says; a new primary first clears the old one, and a copy registered as  *)
(* no primary loses the mark it may have had.                              *)
(***************************************************************************)
Registered(b, status, primary) ==
    [x \in Backend |->
        IF x = b THEN [status |-> status, primary |-> primary]
        ELSE [replicas[x] EXCEPT !.primary = @ /\ ~primary]]

\* What a preflight found holds only until the catalogue changes again.
Catalogue(rows) == replicas' = rows /\ cleared' = IF rows = replicas THEN cleared ELSE {}

-----------------------------------------------------------------------------
(* The source file of a document: intake, or the migration of a legacy one *)

\* Intake has archived the bytes; it may run again for the same content.
BeginIntake(c) ==
    /\ objects[Local] = "stored"
    /\ Begin(c, [op |-> "source", at |-> "file"])

\* A document that has its attachment counts as migrated.
BeginMigrate(c) ==
    /\ source # "attached"
    /\ objects[Local] = "stored"
    /\ Begin(c, [op |-> "source", at |-> "file"])

\* Import by URL: the original is downloaded, then ingested like an upload.
BeginImport(c, b) ==
    /\ Driver[b] = "google_drive" /\ Verifiable(b)
    /\ Begin(c, [op |-> "import", on |-> b, at |-> "file"])

Ingesting(c, stage) == At(c, "source", stage) \/ At(c, "import", stage)

FileRow(c) ==
    /\ Ingesting(c, "file")
    /\ source' = IF source = "path" THEN "file" ELSE source
    /\ GoTo(c, "attach")
    /\ UNCHANGED <<replicas, objects, cleared>>

Attach(c) ==
    /\ Ingesting(c, "attach")
    /\ source' = "attached"
    /\ GoTo(c, "register")
    /\ UNCHANGED <<replicas, objects, cleared>>

RegisterSource(c) ==
    /\ Ingesting(c, "register")
    /\ Catalogue(Registered(Local, "available", TRUE))
    /\ IF pending[c].op = "import" THEN GoTo(c, "original") ELSE Done(c)
    /\ UNCHANGED <<source, objects>>

-----------------------------------------------------------------------------
(* reconcile_file_to_backend *)

\* Broken variant: a read-only backend is reconciled.
Reconcilable_Any(b) == source = "attached"

Reconcilable(b) == source = "attached" /\ b \in Writable

BeginReconcile(c, b) ==
    /\ Reconcilable(b)
    /\ \/ Listed(b) /\ MayFail(b) /\ Begin(c, [op |-> "reconcile", on |-> b, at |-> "mark"])
       \/ ~Listed(b) /\ Begin(c, [op |-> "reconcile", on |-> b, at |-> "classify"])

MarkCorrupt(c) ==
    /\ At(c, "reconcile", "mark")
    /\ Catalogue(Registered(pending[c].on, "corrupt", FALSE))
    /\ GoTo(c, "classify")
    /\ UNCHANGED <<source, objects>>

GoogleCopies == {b \in Backend : Driver[b] = "google_drive" /\ Kept(b)}

\* A known Google copy, verified or degraded, ends a reconcile to Google.
Classify(c) ==
    LET b == pending[c].on
    IN  /\ At(c, "reconcile", "classify")
        /\ IF Driver[b] = "google_drive" /\ GoogleCopies # {} THEN Done(c) ELSE GoTo(c, "copy")
        /\ UNCHANGED <<source, replicas, objects, cleared>>

\* Broken variant: the row is written although nothing was uploaded.
CopyTo_NoUpload(c) ==
    /\ At(c, "reconcile", "copy")
    /\ GoTo(c, "register")
    /\ UNCHANGED <<source, replicas, objects, cleared>>

\* Broken variant: an upload cut short leaves its part under the final name.
CopyTo_Partial(c) ==
    /\ At(c, "reconcile", "copy")
    /\ \E s \in Backend : Driver[s] = "filesystem" /\ Readable(s)
    /\ \E bytes \in {"stored", "partial"} :
          objects' = [objects EXCEPT ![pending[c].on] = bytes]
    /\ GoTo(c, "register")
    /\ UNCHANGED <<source, replicas, cleared>>

\* Upload from a filesystem copy that verifies, then verify what arrived.
CopyTo(c) ==
    /\ At(c, "reconcile", "copy")
    /\ \E s \in Backend : Driver[s] = "filesystem" /\ Readable(s)
    /\ objects' = [objects EXCEPT ![pending[c].on] = "stored"]
    /\ GoTo(c, "register")
    /\ UNCHANGED <<source, replicas, cleared>>

RegisterCopy(c) ==
    /\ At(c, "reconcile", "register")
    /\ Catalogue(Registered(pending[c].on, "available", FALSE))
    /\ Done(c)
    /\ UNCHANGED <<source, objects>>

-----------------------------------------------------------------------------
(* Google originals: the end of an import by URL, adoption of an archive *)

\* The original is verified again before it is registered.
RegisterOriginal(c) ==
    /\ At(c, "import", "original")
    /\ Verifiable(pending[c].on)
    /\ Catalogue(Registered(pending[c].on, "available", FALSE))
    /\ GoTo(c, "promote")
    /\ UNCHANGED <<source, objects>>

\* Broken variant: whatever the row says by now, it becomes the primary.
Promotable_Any(b) == TRUE

\* The read refuses a copy that is not available, and so does the CHECK of
\* the table when the copy was retired between the read and the write.
Promotable(b) == Listed(b)

Promote(c) ==
    LET b == pending[c].on
    IN  /\ At(c, "import", "promote")
        /\ IF Promotable(b)
           THEN Catalogue(Registered(b, replicas[b].status, TRUE))
           ELSE UNCHANGED <<replicas, cleared>>
        /\ Done(c)
        /\ UNCHANGED <<source, objects>>

\* The object is verified and the copies to retire are read before the lock.
BeginAdopt(c, b, R) ==
    /\ source # "path"
    /\ Verifiable(b)
    /\ Begin(c, [op |-> "adopt", on |-> b, retire |-> {x \in R \ {b} : Kept(x)}])

Adopted(b, R) ==
    [x \in Backend |->
        IF x \in R THEN [status |-> "retired", primary |-> FALSE]
        ELSE Registered(b, "available", TRUE)[x]]

\* One transaction: the new primary, then the retirements.
Adopt(c) ==
    /\ Doing(c, "adopt")
    /\ Catalogue(Adopted(pending[c].on, pending[c].retire))
    /\ Done(c)
    /\ UNCHANGED <<source, objects>>

-----------------------------------------------------------------------------
(* Clean-up of a managed Drive folder *)

\* The archive and the mirror are verified live, one after the other ...
BeginPreflight(c, archive, mirror, managed) ==
    /\ archive # managed
    /\ Driver[archive] = "google_drive" /\ archive \notin Writable
    /\ Driver[mirror] = "s3" /\ Driver[managed] = "google_drive"
    /\ source = "attached"
    /\ Readable(archive) /\ Readable(mirror)
    /\ Begin(c, [op |-> "preflight", on |-> managed])

\* ... and only then are the active copies of the managed folder counted.
Clear(c) ==
    /\ Doing(c, "preflight")
    /\ ~Kept(pending[c].on)
    /\ cleared' = cleared \cup {pending[c].on}
    /\ Done(c)
    /\ UNCHANGED <<source, replicas, objects>>

\* The operator trashes the folder right after the preflight has passed.
Trash(b) ==
    /\ b \in cleared /\ objects[b] = "stored"
    /\ objects' = [objects EXCEPT ![b] = "trashed"]
    /\ cleared' = {}
    /\ UNCHANGED <<source, replicas, pending>>

\* A step fails, or the process ends; what was committed stays.
Abandon(c) ==
    /\ ~Free(c)
    /\ Done(c)
    /\ UNCHANGED <<source, replicas, objects, cleared>>

-----------------------------------------------------------------------------

\* Intake has archived the bytes; archives may hold an original of their own.
Init ==
    /\ source = "path"
    /\ replicas = [b \in Backend |-> [status |-> "absent", primary |-> FALSE]]
    /\ \E originals \in SUBSET {b \in Backend : Driver[b] = "google_drive"} :
          objects = [b \in Backend |->
              IF b \in originals \cup {Local} THEN "stored" ELSE "none"]
    /\ cleared = {}
    /\ pending = [c \in Process |-> Idle]

Next ==
    \/ \E c \in Process :
          \/ BeginIntake(c) \/ BeginMigrate(c)
          \/ FileRow(c) \/ Attach(c) \/ RegisterSource(c)
          \/ \E b \in Backend : BeginReconcile(c, b) \/ BeginImport(c, b)
          \/ MarkCorrupt(c) \/ Classify(c) \/ CopyTo(c) \/ RegisterCopy(c)
          \/ RegisterOriginal(c) \/ Promote(c)
          \/ \E b \in AdoptTarget, R \in SUBSET Backend : BeginAdopt(c, b, R)
          \/ Adopt(c)
          \/ \E a, y, m \in Backend : BeginPreflight(c, a, y, m)
          \/ Clear(c) \/ Abandon(c)
    \/ \E b \in Backend : Trash(b)

Spec == Init /\ [][Next]_vars

-----------------------------------------------------------------------------
(* Properties *)

\* The catalogue and the handlers keep their shape.
TypeOK ==
    /\ source \in {"path", "file", "attached"}
    /\ replicas \in [Backend -> Replica]
    /\ objects \in [Backend -> Object]
    /\ cleared \subseteq Backend
    /\ pending \in [Process -> Handler \cup {Idle}]

\* However registrations, promotions, adoptions and corruption marks cross,
\* the file has at most one primary copy, and that one is available.
OnePrimary ==
    \A b \in Backend : replicas[b].primary =>
        /\ Listed(b)
        /\ \A x \in Backend : replicas[x].primary => x = b

\* Nothing is listed as available before its bytes were put there: a crash
\* between upload and registration leaves an unlisted object, never the reverse.
ListedWasStored == \A b \in Backend : Listed(b) => objects[b] # "none"

\* Once the file has been registered anywhere, some available copy can be
\* read: no reconcile during an outage, stale adoption, clean-up or crash
\* takes the last one (resolve_verified_replica always finds a copy).
AlwaysServable ==
    (\E b \in Backend : replicas[b].status # "absent") => \E b \in Backend : Readable(b)

\* The catalogue keeps its shape and lists one primary and nothing unstored.
StorageInv == TypeOK /\ OnePrimary /\ ListedWasStored
=============================================================================
