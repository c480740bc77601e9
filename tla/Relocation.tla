----------------------------- MODULE Relocation -----------------------------
(***************************************************************************)
(* The move from a worktree-local layout to a private root: copy the       *)
(* configuration and the evidence file by file, replace the database of    *)
(* the new root by a snapshot, rewrite the paths its rows name, and only   *)
(* then point the configuration to the new root.  The move may fail or be  *)
(* killed at every step and is run again; programs go on booking meanwhile *)
(* in the root they are led to: by the configurations there are, by one    *)
(* that is given explicitly, or by AUTONOMO_PRIVATE_ROOT.                  *)
(*                                                                         *)
(* A document is one piece of evidence and the row that names its file.    *)
(* The old root has a configuration, as the fallback it is needs one;      *)
(* other trees, the path map of former Windows paths and the side files of *)
(* the database are left out.                                              *)
(***************************************************************************)
EXTENDS Naturals, FiniteSets

CONSTANTS
    Evidence,       \* documents
    MaxMoves        \* bound

ASSUME RelocationAssumption == IsFiniteSet(Evidence) /\ MaxMoves \in Nat

VARIABLES
    relative,       \* the old configuration names its paths relative to itself
    pinned,         \* some programs are led to the new root whatever is there
    oldRoot,        \* [files, rows] of the worktree-local layout
    newRoot,        \* [files, rows, config] of the private root
    move,           \* the move under way
    moves,          \* moves so far, up to MaxMoves
    entered,        \* ghost: documents booked in the new root since its own configuration leads there
    arrived         \* ghost: documents of the old root when the last move began, once it ended

relocationVars == <<relative, pinned, oldRoot, newRoot, move, moves, entered, arrived>>

Staying == [at |-> "rest", left |-> {}, begun |-> {}]
Moving(stage) == move.at = stage
Present(root) == {e \in Evidence : root.rows[e] # "absent"}

\* The new root has a configuration of its own, be it cut off: no default and no
\* fallback leads elsewhere, and no other content may be copied over it.
Settled == newRoot.config \in {"empty", "new"}

\* resolve_private_paths: a configuration in the private root is taken before the
\* one of the worktree, and an empty one leaves the defaults of the new root. The
\* environment, or an explicit configuration, leads there without either.
UsesNewRoot ==
    \/ pinned
    \/ Settled
    \/ newRoot.config = "old" /\ relative

-----------------------------------------------------------------------------
(* Programs: archive the evidence, then book the document *)

\* A program started before the move keeps the configuration it has read, and one
\* that the environment or an explicit configuration leads to the old root stays
\* there after the move.
BookOld(e) ==
    /\ oldRoot' = [oldRoot EXCEPT !.files[e] = "whole", !.rows[e] = "old"]
    /\ UNCHANGED <<relative, pinned, newRoot, move, moves, entered, arrived>>

\* archive_evidence: a file of that name with other bytes is a collision.
BookNew(e) ==
    /\ UsesNewRoot
    /\ newRoot.rows[e] = "absent" /\ newRoot.files[e] # "partial"
    /\ newRoot' = [newRoot EXCEPT !.files[e] = "whole", !.rows[e] = "new"]
    /\ entered' = IF Settled THEN entered \cup {e} ELSE entered
    /\ UNCHANGED <<relative, pinned, oldRoot, move, moves, arrived>>

-----------------------------------------------------------------------------
(* migrate *)

BeginMove ==
    /\ Moving("rest") /\ moves < MaxMoves
    /\ move' = [at |-> "config", left |-> {}, begun |-> Present(oldRoot)]
    /\ moves' = moves + 1
    /\ UNCHANGED <<relative, pinned, oldRoot, newRoot, entered, arrived>>

\* Broken variant: whatever is there already counts as copied.
Collides_Never(there, copy) == FALSE

\* copy_tree_verified: what is there already has to be what would be copied.
Collides(there, copy) == there \notin {"none", copy}

CopyConfig ==
    /\ Moving("config") /\ ~Collides(newRoot.config, "old")
    /\ newRoot' = IF newRoot.config = "none" THEN [newRoot EXCEPT !.config = "old"] ELSE newRoot
    /\ move' = [move EXCEPT !.at = "evidence", !.left = {e \in Evidence : oldRoot.files[e] = "whole"}]
    /\ UNCHANGED <<relative, pinned, oldRoot, moves, entered, arrived>>

CopyFile(e) ==
    /\ Moving("evidence") /\ e \in move.left
    /\ ~Collides(newRoot.files[e], "whole")
    /\ newRoot' = [newRoot EXCEPT !.files[e] = "whole"]
    /\ move' = [move EXCEPT !.left = @ \ {e}]
    /\ UNCHANGED <<relative, pinned, oldRoot, moves, entered, arrived>>

\* Broken variant: a database that is there already is kept.
Snapshot_Kept ==
    IF Present(newRoot) # {} THEN newRoot.rows ELSE oldRoot.rows

\* backup_sqlite_snapshot
Snapshot == oldRoot.rows

ReplaceDatabase ==
    /\ Moving("evidence") /\ move.left = {}
    /\ newRoot' = [newRoot EXCEPT !.rows = Snapshot]
    /\ move' = [move EXCEPT !.at = "rewrite",
                   !.left = {e \in Evidence : Snapshot[e] = "old"}]
    /\ UNCHANGED <<relative, pinned, oldRoot, moves, entered, arrived>>

\* Broken variant: the file is moved out of the old root.
Fetch_Gone(e) ==
    /\ Moving("rewrite") /\ e \in move.left /\ newRoot.files[e] = "none"
    /\ oldRoot.files[e] = "whole"
    /\ newRoot' = [newRoot EXCEPT !.files[e] = "whole"]
    /\ oldRoot' = [oldRoot EXCEPT !.files[e] = "gone"]
    /\ UNCHANGED <<relative, pinned, move, moves, entered, arrived>>

\* _rewrite_path_value: a file that came after the copy is fetched now.
Fetch(e) ==
    /\ Moving("rewrite") /\ e \in move.left /\ newRoot.files[e] = "none"
    /\ oldRoot.files[e] = "whole"
    /\ newRoot' = [newRoot EXCEPT !.files[e] = "whole"]
    /\ UNCHANGED <<relative, pinned, oldRoot, move, moves, entered, arrived>>

\* Broken variant: rows are rewritten whether or not their file has come.
Rewritable_Any(e) == TRUE

\* A path of the old root whose file has come; one that is below the new root
\* already has no mapping.
Rewritable(e) == newRoot.rows[e] = "old" /\ newRoot.files[e] = "whole"

\* rewrite_database_paths: all rows in one transaction, or none.
Rewrite ==
    /\ Moving("rewrite") /\ \A e \in Present(newRoot) : Rewritable(e)
    /\ newRoot' = [newRoot EXCEPT !.rows =
                      [e \in Evidence |-> IF e \in move.left THEN "new" ELSE @[e]]]
    /\ move' = [move EXCEPT !.at = "update", !.left = {}]
    /\ UNCHANGED <<relative, pinned, oldRoot, moves, entered, arrived>>

\* update_config
UpdateConfig ==
    /\ Moving("update")
    /\ newRoot' = [newRoot EXCEPT !.config = "new"]
    /\ move' = Staying
    /\ arrived' = move.begun
    /\ UNCHANGED <<relative, pinned, oldRoot, moves, entered>>

\* A file being written when the process is killed stays as far as it came.
TornWrites ==
    {newRoot}
        \cup (IF (Moving("config") /\ newRoot.config = "none") \/ Moving("update")
              THEN {[newRoot EXCEPT !.config = "empty"]} ELSE {})
        \cup {[newRoot EXCEPT !.files[e] = "partial"] :
                 e \in {x \in move.left : newRoot.files[x] = "none"}}

\* The move raises, or is killed.
Halt ==
    /\ ~Moving("rest")
    /\ newRoot' \in TornWrites
    /\ move' = Staying
    /\ UNCHANGED <<relative, pinned, oldRoot, moves, entered, arrived>>

-----------------------------------------------------------------------------

RelocationInit ==
    /\ relative \in BOOLEAN /\ pinned \in BOOLEAN
    /\ oldRoot = [files |-> [e \in Evidence |-> "none"], rows |-> [e \in Evidence |-> "absent"]]
    /\ newRoot = [files |-> [e \in Evidence |-> "none"], rows |-> [e \in Evidence |-> "absent"],
                  config |-> "none"]
    /\ move = Staying /\ moves = 0 /\ entered = {} /\ arrived = {}

RelocationNext ==
    \/ \E e \in Evidence : BookOld(e) \/ BookNew(e) \/ CopyFile(e) \/ Fetch(e)
    \/ BeginMove \/ CopyConfig \/ ReplaceDatabase \/ Rewrite \/ UpdateConfig \/ Halt

-----------------------------------------------------------------------------
(* Properties *)

\* The two roots and the move keep their shape.
RelocationTypeOK ==
    /\ relative \in BOOLEAN /\ pinned \in BOOLEAN
    /\ oldRoot \in [files : [Evidence -> {"none", "whole"}], rows : [Evidence -> {"absent", "old"}]]
    /\ newRoot \in [files : [Evidence -> {"none", "partial", "whole"}],
                    rows : [Evidence -> {"absent", "old", "new"}],
                    config : {"none", "old", "empty", "new"}]
    /\ move.at \in {"rest", "config", "evidence", "rewrite", "update"}
    /\ move.left \subseteq Evidence /\ moves \in 0..MaxMoves

\* migrate: once the configuration names the new root, every row of its
\* database names a file of the new root, and the file is all there, whatever
\* was booked while the move ran and however often it had failed before.
MovedIsWhole ==
    newRoot.config = "new" =>
        \A e \in Present(newRoot) : newRoot.rows[e] = "new" /\ newRoot.files[e] = "whole"

\* migrate: nothing booked before the move began is missing after it, also when
\* an earlier move had left a database in the new root.
MovedIsAll == arrived \subseteq Present(newRoot)

\* What is booked in the new root once its own configuration leads there stays: no
\* move that is run again puts a snapshot of the old root over it. What programs
\* book there before, led by relative paths in the copied configuration or by the
\* environment, goes with the database that the move replaces.
EnteredStays == entered \subseteq Present(newRoot)

\* A move brings everything, whole, and takes nothing back.
RelocationInv == RelocationTypeOK /\ MovedIsWhole /\ MovedIsAll /\ EnteredStays
=============================================================================
