------------------------------ MODULE Releases ------------------------------
(***************************************************************************)
(* The production host: releases installed side by side, one systemd unit  *)
(* each, one SQLite file, and the scripts that deploy, roll back and       *)
(* restore under one lock (ops/).  A script is a sequence of steps that    *)
(* may stop anywhere: a command fails, the operator interrupts it, the     *)
(* host reboots.  The web server and the command line go on writing.       *)
(*                                                                         *)
(* The first managed deployment (AUTONOMO_LEGACY_UNIT) and the rotation of *)
(* old snapshots are left out; the health check URL is taken as set.       *)
(***************************************************************************)
EXTENDS Naturals

CONSTANTS
    Release,        \* full Git SHAs
    Schema,         \* release -> the schema version it needs
    First,          \* the release the host starts with
    Write,          \* accounting writes
    None,
    MaxScripts      \* bound: scripts started

ASSUME ReleasesAssumption ==
    /\ Schema \in [Release -> Nat \ {0}]
    /\ First \in Release /\ None \notin Release
    /\ MaxScripts \in Nat

VARIABLES
    built,          \* release -> its directory: absent, partial, complete
    hooks,          \* units that run "storage migrate" before they start
    enabled,        \* units started at boot
    boot,           \* units this boot has still to start
    listening,      \* the unit that holds port 8765
    current,        \* the release the link points to
    db,             \* the live SQLite file
    copies,         \* snapshots and set-aside files on disk
    marker,         \* what the last daily backup recorded
    acked,          \* writes some client was told are saved
    op,             \* the script that holds .operations.lock
    told,           \* what the last script printed
    started,
    late,           \* ghost: writes accepted since the script took its snapshot
    lost,           \* ghost: late writes a snapshot was installed over
    left            \* ghost: units a failed or interrupted script left enabled

host == <<built, hooks, enabled, boot, listening, current>>
data == <<db, copies, marker, acked, late, lost>>
vars == <<built, hooks, enabled, boot, listening, current, db, copies, marker,
          acked, op, told, started, late, lost, left>>

Databases == [schema : Nat, holds : SUBSET Write]
NoFile == [schema |-> 0, holds |-> {}]
IsFile(d) == d.schema # 0

NoOp == [kind |-> "none", target |-> First, previous |-> First, stage |-> "none",
         flag |-> FALSE, source |-> NoFile, safety |-> NoFile, before |-> NoFile]
Idle == op.kind = "none"
At(stage) == op.stage = stage
Restoring == op.kind = "restore"
Goto(stage) == op' = [op EXCEPT !.stage = stage]

\* A file that "mv" keeps beside the live one outlives its script.
Preserved == IF Restoring /\ IsFile(op.safety) THEN {op.safety} ELSE {}

-----------------------------------------------------------------------------
(* The service *)

\* Every request and every command opens the database, and refuses another schema.
Opens(r) == db.schema = Schema[r]
Healthy == listening # None /\ Opens(listening)

Accept(w) ==
    /\ w \notin acked
    /\ \E r \in Release : built[r] = "complete" /\ Opens(r)
    /\ db' = [db EXCEPT !.holds = @ \cup {w}]
    /\ acked' = acked \cup {w}
    /\ late' = IF ~Restoring /\ IsFile(op.safety) THEN late \cup {w} ELSE late
    /\ UNCHANGED <<host, copies, marker, op, told, started, lost, left>>

\* Migrations commit version by version, and the inventory after them may fail.
HookLeaves(r) ==
    IF r \in hooks /\ IsFile(db) /\ db.schema < Schema[r]
    THEN db.schema..Schema[r] ELSE {db.schema}

\* systemctl start: with the hook, the unit fails unless the schema came right.
\* The port may be taken: then the process exits and the holder stays.
Launch(r, up) ==
    IF listening = r THEN up /\ UNCHANGED <<db, listening>>
    ELSE \E s \in HookLeaves(r) :
        /\ db' = [db EXCEPT !.schema = s]
        /\ up /\ r \in hooks => s = Schema[r]
        /\ listening' = IF up /\ listening = None THEN r ELSE listening

StopUnit(r) == listening' = IF listening = r THEN None ELSE listening

-----------------------------------------------------------------------------
(* The scripts *)

Begin(script) ==
    /\ Idle /\ boot = {} /\ started < MaxScripts
    /\ op' = script /\ told' = "none" /\ started' = started + 1
    /\ UNCHANGED <<host, db, marker, acked, lost, left>>

End(answer) == op' = NoOp /\ told' = answer /\ late' = {} /\ UNCHANGED started

Script(kind, r, stage) ==
    [NoOp EXCEPT !.kind = kind, !.target = r, !.previous = current, !.stage = stage,
                 !.before = db]

\* A daily backup ran for the release that serves and for the live schema.
Ready == marker = [sha |-> current, schema |-> db.schema]

Backup ==
    /\ Idle /\ IsFile(db)
    /\ copies' = copies \cup {db}
    /\ marker' = [sha |-> current, schema |-> db.schema]
    /\ UNCHANGED <<host, db, acked, op, told, started, late, lost, left>>

\* An interrupted build leaves a target that no later deploy accepts.
Deploy(r, migrating) ==
    /\ Ready /\ IsFile(db)
    /\ built[r] # "partial"
    /\ Begin([Script("deploy", r, "build") EXCEPT !.flag = migrating])
    /\ UNCHANGED <<copies, late>>

Build ==
    /\ At("build")
    /\ IF built[op.target] = "absent"
       THEN built' = [built EXCEPT ![op.target] = "partial"] /\ UNCHANGED op
       ELSE built' = [built EXCEPT ![op.target] = "complete"] /\ Goto("prepare")
    /\ UNCHANGED <<hooks, enabled, boot, listening, current, data, told, started, left>>

\* The unit file, and the snapshot taken while the old unit still serves.
Prepare ==
    /\ At("prepare")
    /\ op.flag => IsFile(db)
    /\ hooks' = IF op.flag THEN hooks \cup {op.target} ELSE hooks \ {op.target}
    /\ copies' = IF op.flag THEN copies \cup {db} ELSE copies
    /\ op' = [op EXCEPT !.stage = "stop", !.safety = IF op.flag THEN db ELSE NoFile]
    /\ UNCHANGED <<built, enabled, boot, listening, current, db, marker, acked, told,
                   started, late, lost, left>>

\* An older schema needs a snapshot; which one is the operator's word.
Rollback(r, source) ==
    /\ IsFile(db)
    /\ built[r] = "complete" /\ r # current
    /\ Schema[r] < db.schema => IsFile(source)
    /\ copies' = copies \cup {db}
    /\ Begin([Script("rollback", r, "stop") EXCEPT !.source = source, !.safety = db])
    /\ UNCHANGED late

Restore(source) ==
    /\ IsFile(source)
    /\ Begin([Script("restore", current, "stop") EXCEPT !.source = source])
    /\ UNCHANGED <<copies, late>>

AfterStop == [deploy |-> "start", rollback |-> "install", restore |-> "preserve"]

\* Redeploying the release that serves does not stop it.
Stop ==
    /\ At("stop")
    /\ IF op.kind = "deploy" /\ op.target = op.previous
       THEN UNCHANGED listening ELSE StopUnit(op.previous)
    /\ Goto(AfterStop[op.kind])
    /\ UNCHANGED <<built, hooks, enabled, boot, current, data, told, started, left>>

\* Broken variant: the live file is overwritten, not set aside.
Preserve_Not ==
    /\ At("preserve")
    /\ op' = [op EXCEPT !.stage = "install"]
    /\ db' = NoFile
    /\ UNCHANGED <<host, copies, marker, acked, told, started, late, lost, left>>

\* mv autonomo.sqlite autonomo.sqlite.before-restore-...
Preserve ==
    /\ At("preserve")
    /\ op' = [op EXCEPT !.stage = "install", !.safety = db]
    /\ db' = NoFile
    /\ UNCHANGED <<host, copies, marker, acked, told, started, late, lost, left>>

\* What was accepted after the snapshot goes with the file it replaces.
InstallFile(d) == db' = d /\ lost' = IF Restoring THEN lost ELSE lost \cup late

Install ==
    /\ At("install")
    /\ IF IsFile(op.source) THEN InstallFile(op.source) ELSE UNCHANGED <<db, lost>>
    /\ Goto("start")
    /\ UNCHANGED <<host, copies, marker, acked, told, started, late, left>>

\* systemctl enable --now; a restore only starts.
Start ==
    /\ At("start")
    /\ enabled' = IF Restoring THEN enabled ELSE enabled \cup {op.target}
    /\ \E up \in BOOLEAN : Launch(op.target, up) /\ Goto(IF up THEN "check" ELSE "halt")
    /\ UNCHANGED <<built, hooks, boot, current, copies, marker, acked, told, started,
                   late, lost, left>>

\* Broken variant: only "systemctl is-active" is asked.
Passes_Active == listening = op.target

\* is-active and healthcheck.py: some server answers at the address.
Passes == Healthy

Check ==
    /\ At("check")
    /\ \/ Passes /\ ~Restoring /\ Goto("link") /\ UNCHANGED <<copies, told, started, late>>
       \/ Passes /\ Restoring /\ End("ok") /\ copies' = copies \cup Preserved
       \/ Goto("halt") /\ UNCHANGED <<copies, told, started, late>>
    /\ UNCHANGED <<host, db, marker, acked, lost, left>>

\* Broken variant: the old link is removed before the new one is made.
Link_Removed ==
    /\ At("link")
    /\ \/ current' = op.target /\ Goto("disable")
       \/ Goto("halt") /\ current' = None
    /\ UNCHANGED <<built, hooks, enabled, boot, listening, data, told, started, left>>

Link ==
    /\ At("link")
    /\ \/ current' = op.target /\ Goto("disable")
       \/ Goto("halt") /\ UNCHANGED current
    /\ UNCHANGED <<built, hooks, enabled, boot, listening, data, told, started, left>>

\* Broken variant: the previous unit stays enabled.
Disabled_Not == {}

Disabled == IF op.previous = op.target THEN {} ELSE {op.previous}

Finish ==
    /\ At("disable")
    /\ enabled' = enabled \ Disabled
    /\ left' = left \ (Disabled \cup {op.target})
    /\ End("ok")
    /\ UNCHANGED <<built, hooks, boot, listening, current, db, copies, marker, acked, lost>>

-----------------------------------------------------------------------------
(* restore_previous: the compensation of each script *)

Halt ==
    /\ At("halt")
    /\ StopUnit(op.target)
    /\ Goto(IF Restoring THEN "aside" ELSE "reinstall")
    /\ UNCHANGED <<built, hooks, enabled, boot, current, data, told, started, left>>

\* mv autonomo.sqlite autonomo.sqlite.failed-restore-...
Aside ==
    /\ At("aside")
    /\ copies' = IF IsFile(db) THEN copies \cup {db} ELSE copies
    /\ db' = NoFile
    /\ Goto("reinstall")
    /\ UNCHANGED <<host, marker, acked, told, started, late, lost, left>>

\* Broken variant: the snapshot of a deployment or a rollback is not put back.
Reinstall_Not ==
    /\ At("reinstall")
    /\ IF Restoring THEN InstallFile(op.safety) ELSE UNCHANGED <<db, lost>>
    /\ op' = [op EXCEPT !.stage = "resume", !.safety = NoFile]
    /\ UNCHANGED <<host, copies, marker, acked, told, started, late, left>>

Reinstall ==
    /\ At("reinstall")
    /\ IF Restoring \/ IsFile(op.safety) THEN InstallFile(op.safety) ELSE UNCHANGED <<db, lost>>
    /\ op' = [op EXCEPT !.stage = "resume", !.safety = NoFile]
    /\ UNCHANGED <<host, copies, marker, acked, told, started, late, left>>

\* The unit that did not come up stays enabled.
Resume ==
    /\ At("resume")
    /\ IF op.previous # op.target \/ Restoring
       THEN \E up \in BOOLEAN : Launch(op.previous, up)
       ELSE UNCHANGED <<db, listening>>
    /\ left' = IF op.target = current THEN left ELSE left \cup {op.target}
    /\ End("failed")
    /\ UNCHANGED <<built, hooks, enabled, boot, current, copies, marker, acked, lost>>

-----------------------------------------------------------------------------
(* Interruptions *)

\* The lock goes with the process; files stay as they are.
Interrupted ==
    /\ op' = NoOp /\ late' = {}
    /\ told' = IF Idle THEN told ELSE "none"
    /\ copies' = copies \cup Preserved
    /\ left' = IF Idle THEN left ELSE left \cup (enabled \ {current})

Crash ==
    /\ ~Idle
    /\ Interrupted
    /\ UNCHANGED <<host, db, marker, acked, started, lost>>

Reboot ==
    /\ boot = {}
    /\ Interrupted
    /\ listening' = None /\ boot' = enabled
    /\ UNCHANGED <<built, hooks, enabled, current, db, marker, acked, started, lost>>

\* Every enabled unit is started, in any order; the first to bind keeps the port.
Boot(r) ==
    /\ r \in boot
    /\ boot' = boot \ {r}
    /\ \E up \in BOOLEAN : Launch(r, up)
    /\ UNCHANGED <<built, hooks, enabled, current, copies, marker, acked, op, told, started,
                   late, lost, left>>

-----------------------------------------------------------------------------
Init ==
    /\ built = [r \in Release |-> IF r = First THEN "complete" ELSE "absent"]
    /\ hooks = {} /\ enabled = {First} /\ boot = {}
    /\ listening = First /\ current = First
    /\ db = [schema |-> Schema[First], holds |-> {}]
    /\ copies = {} /\ acked = {} /\ late = {} /\ lost = {} /\ left = {}
    /\ marker = [sha |-> None, schema |-> 0]
    /\ op = NoOp /\ told = "none" /\ started = 0

Operator ==
    \/ Backup
    \/ \E r \in Release, migrating \in BOOLEAN : Deploy(r, migrating)
    \/ \E r \in Release, source \in copies \cup {NoFile} : Rollback(r, source)
    \/ \E source \in copies : Restore(source)

Step ==
    \/ Build \/ Prepare \/ Stop \/ Preserve \/ Install \/ Start \/ Check \/ Link \/ Finish
    \/ Halt \/ Aside \/ Reinstall \/ Resume

Next ==
    \/ \E w \in Write : Accept(w)
    \/ Operator \/ Step
    \/ Crash \/ Reboot \/ \E r \in Release : Boot(r)

Spec == Init /\ [][Next]_vars

-----------------------------------------------------------------------------
(* Properties *)

Stages == {"none", "build", "prepare", "stop", "preserve", "install", "start", "check",
           "link", "disable", "halt", "aside", "reinstall", "resume"}

\* The host, the files and the running script keep their shape.
TypeOK ==
    /\ built \in [Release -> {"absent", "partial", "complete"}]
    /\ hooks \subseteq Release /\ enabled \subseteq Release /\ boot \subseteq Release
    /\ listening \in Release \cup {None} /\ current \in Release
    /\ db \in Databases /\ copies \subseteq Databases
    /\ marker \in [sha : Release \cup {None}, schema : Nat]
    /\ op \in [kind : {"none", "deploy", "rollback", "restore"}, target : Release,
               previous : Release, stage : Stages, flag : BOOLEAN, source : Databases,
               safety : Databases, before : Databases]
    /\ told \in {"none", "ok", "failed"} /\ started \in 0..MaxScripts
    /\ acked \subseteq Write /\ late \subseteq acked /\ lost \subseteq acked
    /\ left \subseteq Release

\* deploy.sh, rollback.sh, restore.sh: whatever fails, and wherever a script is
\* interrupted, an acknowledged write is in the live file or in one kept on
\* disk, unless it was accepted between a script's snapshot and an installation.
NothingElseLost ==
    \A w \in acked \ lost :
        \/ w \in db.holds
        \/ \E c \in copies \cup Preserved : w \in c.holds

\* healthcheck.py: when a script reports success and no earlier script left a
\* unit behind, the target holds the port, the link and the boot, and opens
\* the database.
AcceptedServes ==
    [][told = "none" /\ told' = "ok" /\ left = {} =>
        /\ listening' = op.target /\ current' = op.target /\ enabled' = {op.target}
        /\ db'.schema = Schema[op.target]]_vars

\* Outside a script, and unless one failed or was interrupted, only the current
\* release is started at boot and only it serves.
OneReleaseServes ==
    Idle /\ left = {} => enabled = {current} /\ listening \in {current, None}

\* restore_previous: a script that reports a failure leaves the link where it
\* was, and a database that the previous release could open as it was, with
\* every write it had when the script started.
FailureUndone ==
    [][told = "none" /\ told' = "failed" =>
        /\ current' = op.previous
        /\ op.before.holds \subseteq db'.holds
        /\ op.before.schema = Schema[op.previous] => db'.schema = op.before.schema]_vars

\* Whatever fails, one release serves and no acknowledged write is lost.
ReleasesInv == TypeOK /\ OneReleaseServes /\ NothingElseLost
=============================================================================
