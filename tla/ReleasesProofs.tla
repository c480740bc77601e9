--------------------------- MODULE ReleasesProofs ---------------------------
(***************************************************************************)
(* For any number of releases, schema versions, writes and scripts: one    *)
(* release serves, no acknowledged write is lost but one that came between *)
(* a snapshot and an installation, a success means that the target serves, *)
(* and a failure leaves the database as it was found.                      *)
(*                                                                         *)
(* The invariant follows a script along its stages: where there is a file  *)
(* to put back and what it holds, which units may be enabled or listening  *)
(* because this script or an earlier one started them, and what the live   *)
(* file still has of what the script found.                                *)
(***************************************************************************)
EXTENDS Releases, TLAPS

-----------------------------------------------------------------------------
(* The invariant *)

Running == [kind : {"none", "deploy", "rollback", "restore"}, target : Release,
            previous : Release, stage : Stages, flag : BOOLEAN, source : Databases,
            safety : Databases, before : Databases]

\* The stages each script has.
Deploying == {"build", "prepare", "stop", "start", "check", "link", "disable", "halt",
              "reinstall", "resume"}
RollingBack == {"stop", "install", "start", "check", "link", "disable", "halt", "reinstall", "resume"}
BringingBack == {"stop", "preserve", "install", "start", "check", "halt", "aside", "reinstall", "resume"}

Early == {"build", "prepare", "stop", "preserve"}

\* A snapshot or a set-aside file is there to be put back.
Backed ==
    \/ op.kind = "deploy" /\ op.flag /\ op.stage \notin {"build", "prepare", "resume"}
    \/ op.kind = "rollback" /\ op.stage # "resume"
    \/ op.kind = "restore" /\ op.stage \notin {"stop", "preserve", "resume"}

Course ==
    /\ op.kind = "none" => op = NoOp
    /\ op.kind = "deploy" => op.stage \in Deploying
    /\ op.kind = "rollback" => op.stage \in RollingBack
    /\ op.kind = "restore" => op.stage \in BringingBack
    /\ ~Idle => /\ boot = {}
                /\ current = IF op.stage = "disable" THEN op.target ELSE op.previous
    /\ op.kind = "restore" => op.target = op.previous
    /\ op.kind = "rollback" => op.target # op.previous
    /\ ~Backed => op.safety = NoFile
    /\ Backed => IsFile(op.safety) \/ (op.kind = "restore" /\ op.safety = NoFile)

\* A file that is not there holds nothing; while a restore has set it aside no
\* file is there.
Files ==
    /\ ~IsFile(db) => db = NoFile
    /\ op.kind = "restore" /\ op.stage \in {"install", "reinstall"} => db = NoFile

\* Units that may be started: the current one, those a script left, and while a
\* script runs its own.
Started == IF op.kind \in {"deploy", "rollback"}
              /\ op.stage \in {"check", "link", "disable", "halt", "reinstall", "resume"}
           THEN {op.target} ELSE {}

Units ==
    /\ current \in enabled
    /\ enabled \subseteq {current} \cup left \cup Started
                        \cup (IF op.stage = "disable" THEN {op.previous} ELSE {})
    /\ boot \subseteq {current} \cup left
    /\ listening \in {None, current} \cup left \cup Started
    /\ Started \subseteq enabled
    /\ op.stage \in {"install", "start", "check", "link", "disable"} /\ op.target # op.previous
          => listening # op.previous
    /\ op.stage \in {"link", "disable"} => Healthy

\* What the script may lose it has in a file on disk.
Snapshot ==
    ~Restoring /\ IsFile(op.safety) =>
        \A w \in acked \ (lost \cup late) : \E c \in copies : w \in c.holds

\* The database as the script found it, or better.
AsBefore(d) == op.before.holds \subseteq d.holds /\ d.schema = op.before.schema

Undoable ==
    ~Idle =>
        /\ op.stage \in Early \cup {"resume"} => AsBefore(db)
        /\ Backed => AsBefore(op.safety)
        /\ ~Backed /\ op.stage \notin Early =>
              /\ AsBefore(db)
              /\ op.kind = "deploy" /\ op.stage # "resume" => op.target \notin hooks
        /\ op.kind = "deploy" /\ op.stage = "stop" /\ ~op.flag => op.target \notin hooks

\* What is kept beside the shape.
Kept == Course /\ Files /\ Units /\ Snapshot /\ NothingElseLost /\ Undoable

Sound == TypeOK /\ Kept

-----------------------------------------------------------------------------
(* What the steps do to the script, and what a unit does that starts *)

LEMMA NoOpIs == /\ NoOp \in Running /\ NoOp.kind = "none" /\ NoOp.stage = "none"
                /\ NoOp.safety = NoFile /\ ~NoOp.flag /\ NoFile \in Databases
                /\ NoFile.holds = {} /\ NoFile.schema = 0
BY ReleasesAssumption DEF NoOp, NoFile, Running, Databases, Stages

\* A step to another stage leaves the rest of the script as it is.
LEMMA StageIs ==
    ASSUME op \in Running, NEW s \in Stages, Goto(s)
    PROVE  /\ op' \in Running /\ op'.stage = s /\ op'.kind = op.kind /\ op'.target = op.target
           /\ op'.previous = op.previous /\ op'.flag = op.flag /\ op'.source = op.source
           /\ op'.safety = op.safety /\ op'.before = op.before
BY DEF Running, Goto

\* A script starts with what it found.
Begun(s, kind, r, stage) ==
    /\ s \in Running /\ s.kind = kind /\ s.target = r /\ s.previous = current /\ s.stage = stage
    /\ s.before = db /\ s.safety = NoFile

LEMMA ScriptIs ==
    ASSUME TypeOK, NEW kind \in {"deploy", "rollback", "restore"}, NEW r \in Release,
           NEW stage \in Stages
    PROVE  Begun(Script(kind, r, stage), kind, r, stage)
<1>1. db \in Databases /\ current \in Release /\ NoFile \in Databases
  BY NoOpIs DEF TypeOK
<1>2. /\ NoOp \in Running /\ NoOp.safety = NoFile
  BY NoOpIs DEF NoOp
<1> HIDE DEF NoOp
<1> QED  BY <1>1, <1>2 DEF Script, Running, Begun

\* A file has a schema, and nothing else has.
LEMMA FileIs ==
    ASSUME NEW d \in Databases
    PROVE  d.schema \in Nat /\ d.holds \subseteq Write /\ (IsFile(d) <=> d.schema \in Nat \ {0})
BY DEF Databases, IsFile

\* What starting a unit may do: migrate the live file, where the unit has the
\* hook and the file is older, and take the port, where it is free.
LEMMA LaunchIs ==
    ASSUME TypeOK, NEW r \in Release, NEW up \in BOOLEAN, Launch(r, up)
    PROVE  /\ db' \in Databases /\ db'.holds = db.holds
           /\ IsFile(db') <=> IsFile(db)
           /\ ~IsFile(db) => db' = db
           /\ r \notin hooks \/ db.schema = Schema[r] => db'.schema = db.schema
           /\ listening' = listening \/ (listening = None /\ listening' = r)
<1>1. db \in Databases /\ db.schema \in Nat /\ Schema[r] \in Nat
  BY ReleasesAssumption, FileIs DEF TypeOK
<1>2. CASE listening = r
  BY <1>1, <1>2 DEF Launch
<1>3. CASE listening # r
  <2>1. PICK s \in HookLeaves(r) :
           /\ db' = [db EXCEPT !.schema = s]
           /\ listening' = IF up /\ listening = None THEN r ELSE listening
    BY <1>3 DEF Launch
  <2>2. /\ s \in Nat /\ s >= db.schema
        /\ s = db.schema \/ (r \in hooks /\ IsFile(db) /\ db.schema < Schema[r])
    <3>1. CASE r \in hooks /\ IsFile(db) /\ db.schema < Schema[r]
      <4>1. s \in db.schema..Schema[r]
        BY <2>1, <3>1 DEF HookLeaves
      <4> QED  BY <1>1, <3>1, <4>1
    <3>2. CASE ~(r \in hooks /\ IsFile(db) /\ db.schema < Schema[r])
      BY <1>1, <2>1, <3>2 DEF HookLeaves
    <3> QED  BY <3>1, <3>2
  <2>3. db' \in Databases /\ db'.holds = db.holds /\ db'.schema = s
    BY <1>1, <2>1, <2>2 DEF Databases
  <2>4. (IsFile(db') <=> IsFile(db)) /\ (~IsFile(db) => s = db.schema)
    BY <1>1, <2>2, <2>3 DEF IsFile
  <2>5. s = db.schema => db' = db
    BY <1>1, <2>1 DEF Databases
  <2>6. r \notin hooks \/ db.schema = Schema[r] => s = db.schema
    BY <1>1, <2>2
  <2> QED  BY <2>1, <2>3, <2>4, <2>5, <2>6
<1> QED  BY <1>2, <1>3

-----------------------------------------------------------------------------
(* The shape *)

LEMMA Shaped == TypeOK => op \in Running
BY DEF TypeOK, Running

LEMMA TypedStep == TypeOK /\ Course /\ Next => TypeOK'
<1> SUFFICES ASSUME TypeOK, Course, Next PROVE TypeOK'
  OBVIOUS
<1> USE DEF TypeOK
<1>0. /\ op \in Running /\ Preserved \subseteq Databases /\ NoFile \in Databases
      /\ NoOp \in Running /\ db \in Databases /\ Running' = Running
      /\ op.target \in Release /\ op.previous \in Release /\ op.safety \in Databases
      /\ op.source \in Databases
  BY Shaped, NoOpIs DEF Preserved, Running
<1>1. ASSUME NEW w \in Write, Accept(w) PROVE TypeOK'
  BY <1>1 DEF Accept, host, Databases
<1>2. CASE Backup
  <2>1. db.schema \in Nat
    BY FileIs
  <2> QED  BY <1>2, <2>1 DEF Backup, host
<1>3. ASSUME NEW r \in Release, NEW migrating \in BOOLEAN, Deploy(r, migrating) PROVE TypeOK'
  <2>1. /\ op' = [Script("deploy", r, "build") EXCEPT !.flag = migrating]
        /\ told' = "none" /\ started' = started + 1 /\ started < MaxScripts
        /\ UNCHANGED <<host, db, marker, acked, lost, left, copies, late>>
    BY <1>3 DEF Deploy, Begin
  <2>2. Script("deploy", r, "build") \in Running
    <3>1. {"build", "stop"} \subseteq Stages
      BY DEF Stages
    <3> QED  BY <3>1, ScriptIs DEF Begun
  <2>3. op' \in Running
    BY <2>1, <2>2 DEF Running
  <2>4. started' \in 0..MaxScripts
    BY <2>1, ReleasesAssumption
  <2> QED  BY <2>1, <2>3, <2>4 DEF host, Running
<1>4. ASSUME NEW r \in Release, NEW source \in copies \cup {NoFile}, Rollback(r, source) PROVE TypeOK'
  <2>1. /\ op' = [Script("rollback", r, "stop") EXCEPT !.source = source, !.safety = db]
        /\ told' = "none" /\ started' = started + 1 /\ started < MaxScripts
        /\ copies' = copies \cup {db}
        /\ UNCHANGED <<host, db, marker, acked, lost, left, late>>
    BY <1>4 DEF Rollback, Begin
  <2>2. Script("rollback", r, "stop") \in Running
    <3>1. {"build", "stop"} \subseteq Stages
      BY DEF Stages
    <3> QED  BY <3>1, ScriptIs DEF Begun
  <2>3. op' \in Running
    BY <1>0, <2>1, <2>2 DEF Running
  <2>4. started' \in 0..MaxScripts
    BY <2>1, ReleasesAssumption
  <2> QED  BY <2>1, <2>3, <2>4 DEF host, Running
<1>5. ASSUME NEW source \in copies, Restore(source) PROVE TypeOK'
  <2>1. /\ op' = [Script("restore", current, "stop") EXCEPT !.source = source]
        /\ told' = "none" /\ started' = started + 1 /\ started < MaxScripts
        /\ UNCHANGED <<host, db, marker, acked, lost, left, copies, late>>
    BY <1>5 DEF Restore, Begin
  <2>2. Script("restore", current, "stop") \in Running
    <3>1. {"build", "stop"} \subseteq Stages
      BY DEF Stages
    <3> QED  BY <3>1, ScriptIs DEF Begun
  <2>3. op' \in Running
    BY <1>0, <2>1, <2>2 DEF Running
  <2>4. started' \in 0..MaxScripts
    BY <2>1, ReleasesAssumption
  <2> QED  BY <2>1, <2>3, <2>4 DEF host, Running
<1>6. CASE Build
  <2>1. op' \in Running
    BY <1>0, <1>6, StageIs DEF Build, Stages
  <2> QED  BY <1>6, <2>1 DEF Build, data, Running
<1>7. CASE Prepare
  <2>1. op' \in Running
    BY <1>0, <1>7 DEF Prepare, Running, Stages
  <2> QED  BY <1>0, <1>7, <2>1 DEF Prepare, Running
<1>8. CASE Stop
  <2>1. op' \in Running
    <3>1. op.kind # "none" => AfterStop[op.kind] \in Stages
      BY DEF AfterStop, Stages
    <3>2. op.kind # "none"
      BY <1>8, NoOpIs DEF Stop, At, Course
    <3> QED  BY <1>0, <1>8, <3>1, <3>2, StageIs DEF Stop
  <2> QED  BY <1>0, <1>8, <2>1 DEF Stop, StopUnit, data, Running
<1>9. CASE Preserve
  <2>1. op' \in Running
    BY <1>0, <1>9 DEF Preserve, Running, Stages
  <2> QED  BY <1>0, <1>9, <2>1 DEF Preserve, Running, host
<1>10. CASE Install
  <2>1. op' \in Running
    BY <1>0, <1>10, StageIs DEF Install, Stages
  <2> QED  BY <1>0, <1>10, <2>1 DEF Install, InstallFile, Running, host
<1>11. CASE Start
  <2>1. PICK up \in BOOLEAN : Launch(op.target, up) /\ Goto(IF up THEN "check" ELSE "halt")
    BY <1>11 DEF Start
  <2>2. op' \in Running
    BY <1>0, <2>1, StageIs DEF Stages
  <2>3. db' \in Databases /\ listening' \in Release \cup {None}
    BY <1>0, <2>1, LaunchIs
  <2> QED  BY <1>0, <1>11, <2>2, <2>3 DEF Start, Running
<1>12. CASE Check
  <2>1. op' \in Running /\ told' \in {"none", "ok", "failed"} /\ started' = started /\ late' \subseteq acked
    BY <1>0, <1>12, StageIs DEF Check, End, Stages
  <2>2. copies' \subseteq Databases
    BY <1>0, <1>12 DEF Check
  <2> QED  BY <1>12, <2>1, <2>2 DEF Check, Running, host
<1>13. CASE Link
  <2>1. op' \in Running
    BY <1>0, <1>13, StageIs DEF Link, Stages
  <2> QED  BY <1>0, <1>13, <2>1 DEF Link, Running, data
<1>14. CASE Finish
  BY <1>0, <1>14 DEF Finish, End, Running
<1>15. CASE Halt
  <2>1. op' \in Running
    BY <1>0, <1>15, StageIs DEF Halt, Stages
  <2> QED  BY <1>0, <1>15, <2>1 DEF Halt, StopUnit, Running, data
<1>16. CASE Aside
  <2>1. op' \in Running
    BY <1>0, <1>16, StageIs DEF Aside, Stages
  <2> QED  BY <1>0, <1>16, <2>1 DEF Aside, Running, host
<1>17. CASE Reinstall
  <2>1. op' \in Running
    BY <1>0, <1>17 DEF Reinstall, Running, Stages
  <2> QED  BY <1>0, <1>17, <2>1 DEF Reinstall, InstallFile, Running, host
<1>18. CASE Resume
  <2>1. db' \in Databases /\ listening' \in Release \cup {None}
    <3>1. \A up \in BOOLEAN : Launch(op.previous, up) =>
             db' \in Databases /\ listening' \in Release \cup {None}
      BY <1>0, LaunchIs
    <3> QED  BY <1>18, <3>1 DEF Resume
  <2> QED  BY <1>0, <1>18, <2>1 DEF Resume, End, Running
<1>19. CASE Crash
  BY <1>0, <1>19 DEF Crash, Interrupted, host, Running
<1>20. CASE Reboot
  BY <1>0, <1>20 DEF Reboot, Interrupted, Running
<1>21. ASSUME NEW r \in Release, Boot(r) PROVE TypeOK'
  <2>1. db' \in Databases /\ listening' \in Release \cup {None}
    BY <1>21, LaunchIs DEF Boot
  <2> QED  BY <1>21, <2>1 DEF Boot
<1> QED
  BY <1>1, <1>2, <1>3, <1>4, <1>5, <1>6, <1>7, <1>8, <1>9, <1>10, <1>11, <1>12, <1>13, <1>14,
     <1>15, <1>16, <1>17, <1>18, <1>19, <1>20, <1>21 DEF Next, Operator, Step

-----------------------------------------------------------------------------
(* What every step keeps *)

LEMMA NoFileIs == ~IsFile(NoFile) /\ NoFile.holds = {}
BY DEF IsFile, NoFile

\* What the proofs below use of the shape.
LEMMA Fields ==
    ASSUME Sound
    PROVE  /\ op \in Running /\ db \in Databases /\ op.safety \in Databases /\ op.source \in Databases
           /\ op.before \in Databases /\ op.target \in Release /\ op.previous \in Release
           /\ op.flag \in BOOLEAN /\ op.kind \in {"none", "deploy", "rollback", "restore"}
           /\ current \in Release /\ None \notin Release /\ boot \subseteq Release
           /\ Idle => /\ op.stage = "none" /\ op.safety = NoFile /\ ~Backed /\ ~Restoring
                      /\ Started = {} /\ Preserved = {}
BY Shaped, NoOpIs, NoFileIs, ReleasesAssumption
   DEF Sound, Kept, TypeOK, Course, Running, Idle, Backed, Restoring, Started, Preserved

LEMMA AcceptKeeps == ASSUME Sound, NEW w \in Write, Accept(w) PROVE Kept'
<1>1. PICK r \in Release : built[r] = "complete" /\ Opens(r)
  BY DEF Accept
<1>2. /\ db' = [db EXCEPT !.holds = @ \cup {w}] /\ acked' = acked \cup {w}
      /\ late' = IF ~Restoring /\ IsFile(op.safety) THEN late \cup {w} ELSE late
      /\ UNCHANGED <<host, copies, marker, op, told, started, lost, left>>
  BY DEF Accept
<1>3. db'.schema = db.schema /\ db'.holds = db.holds \cup {w}
  BY <1>2, Fields DEF Databases
<1>4. db.schema # 0
  BY <1>1, ReleasesAssumption DEF Opens
<1>5. IsFile(db) /\ IsFile(db')
  BY <1>3, <1>4 DEF IsFile
<1>6. Course'
  BY <1>2 DEF Sound, Kept, Course, Idle, Backed, host
<1>7. Files'
  BY <1>2, <1>5, NoFileIs DEF Sound, Kept, Files, host
<1>8. Units'
  BY <1>2, <1>3 DEF Sound, Kept, Units, Started, Healthy, Opens, host
<1>9. Snapshot'
  BY <1>2 DEF Sound, Kept, Snapshot, Restoring
<1>10. NothingElseLost'
  BY <1>2, <1>3 DEF Sound, Kept, NothingElseLost, Preserved, Restoring
<1>11. Undoable'
  BY <1>2, <1>3 DEF Sound, Kept, Undoable, Backed, AsBefore, Idle, host
<1> QED  BY <1>6, <1>7, <1>8, <1>9, <1>10, <1>11 DEF Kept

LEMMA BackupKeeps == ASSUME Sound, Backup PROVE Kept'
<1>1. /\ copies' = copies \cup {db}
      /\ UNCHANGED <<host, db, acked, op, told, started, late, lost, left>>
  BY DEF Backup
<1>2. Course' /\ Files' /\ Undoable'
  BY <1>1 DEF Sound, Kept, Course, Files, Undoable, Idle, Backed, AsBefore, host
<1>3. Units'
  BY <1>1 DEF Sound, Kept, Units, Started, Healthy, Opens, host
<1>4. Snapshot'
  BY <1>1 DEF Sound, Kept, Snapshot, Restoring
<1>5. NothingElseLost'
  BY <1>1 DEF Sound, Kept, NothingElseLost, Preserved, Restoring
<1> QED  BY <1>2, <1>3, <1>4, <1>5 DEF Kept

LEMMA DeployKeeps ==
    ASSUME Sound, NEW r \in Release, NEW migrating \in BOOLEAN, Deploy(r, migrating) PROVE Kept'
<1>1. /\ op' = [Script("deploy", r, "build") EXCEPT !.flag = migrating]
      /\ Idle /\ boot = {}
      /\ UNCHANGED <<host, db, marker, acked, lost, left, copies, late>>
  BY DEF Deploy, Begin
<1>2. Begun(Script("deploy", r, "build"), "deploy", r, "build")
  <2>1. "build" \in Stages
    BY DEF Stages
  <2> QED  BY <2>1, ScriptIs DEF Sound
<1>3. /\ op'.kind = "deploy" /\ op'.target = r /\ op'.previous = current /\ op'.stage = "build"
      /\ op'.before = db /\ op'.safety = NoFile
  BY <1>1, <1>2 DEF Running, Begun
<1>4. Course'
  BY <1>1, <1>3 DEF Sound, Kept, Course, Idle, Backed, Deploying, host
<1>5. Files'
  BY <1>1, <1>3 DEF Sound, Kept, Files
<1>6. Units'
  BY <1>1, <1>3, Fields DEF Sound, Kept, Units, Started, Healthy, Opens, host
<1>7. Snapshot'
  BY <1>3, NoFileIs DEF Snapshot
<1>8. NothingElseLost'
  BY <1>1, <1>3, Fields DEF Sound, Kept, NothingElseLost, Preserved, Restoring
<1>9. Undoable'
  BY <1>1, <1>3 DEF Undoable, Backed, AsBefore, Early, Idle
<1> QED  BY <1>4, <1>5, <1>6, <1>7, <1>8, <1>9 DEF Kept

LEMMA RollbackKeeps ==
    ASSUME Sound, NEW r \in Release, NEW source \in copies \cup {NoFile}, Rollback(r, source)
    PROVE  Kept'
<1>1. /\ op' = [Script("rollback", r, "stop") EXCEPT !.source = source, !.safety = db]
      /\ Idle /\ boot = {} /\ IsFile(db) /\ r # current
      /\ copies' = copies \cup {db}
      /\ UNCHANGED <<host, db, marker, acked, lost, left, late>>
  BY DEF Rollback, Begin
<1>2. Begun(Script("rollback", r, "stop"), "rollback", r, "stop")
  <2>1. "stop" \in Stages
    BY DEF Stages
  <2> QED  BY <2>1, ScriptIs DEF Sound
<1>3. /\ op'.kind = "rollback" /\ op'.target = r /\ op'.previous = current /\ op'.stage = "stop"
      /\ op'.before = db /\ op'.safety = db
  BY <1>1, <1>2 DEF Running, Begun
<1>4. Course'
  BY <1>1, <1>3 DEF Sound, Kept, Course, Idle, Backed, RollingBack, host
<1>5. Files'
  BY <1>1, <1>3 DEF Sound, Kept, Files
<1>6. Units'
  BY <1>1, <1>3, Fields DEF Sound, Kept, Units, Started, Healthy, Opens, host
<1>7. Snapshot'
  BY <1>1, <1>3, Fields DEF Sound, Kept, Snapshot, NothingElseLost
<1>8. NothingElseLost'
  BY <1>1, <1>3 DEF Sound, Kept, NothingElseLost, Preserved, Restoring, Idle
<1>9. Undoable'
  BY <1>1, <1>3 DEF Undoable, Backed, AsBefore, Early, Idle
<1> QED  BY <1>4, <1>5, <1>6, <1>7, <1>8, <1>9 DEF Kept

LEMMA RestoreKeeps == ASSUME Sound, NEW source \in copies, Restore(source) PROVE Kept'
<1>1. /\ op' = [Script("restore", current, "stop") EXCEPT !.source = source]
      /\ Idle /\ boot = {}
      /\ UNCHANGED <<host, db, marker, acked, lost, left, copies, late>>
  BY DEF Restore, Begin
<1>2. Begun(Script("restore", current, "stop"), "restore", current, "stop")
  <2>1. "stop" \in Stages /\ current \in Release
    BY Fields DEF Stages
  <2> QED  BY <2>1, ScriptIs DEF Sound
<1>3. /\ op'.kind = "restore" /\ op'.target = current /\ op'.previous = current /\ op'.stage = "stop"
      /\ op'.before = db /\ op'.safety = NoFile
  BY <1>1, <1>2 DEF Running, Begun
<1>4. Course'
  BY <1>1, <1>3 DEF Sound, Kept, Course, Idle, Backed, BringingBack, host
<1>5. Files'
  BY <1>1, <1>3 DEF Sound, Kept, Files
<1>6. Units'
  BY <1>1, <1>3, Fields DEF Sound, Kept, Units, Started, Healthy, Opens, host
<1>7. Snapshot'
  BY <1>3, NoFileIs DEF Snapshot
<1>8. NothingElseLost'
  BY <1>1, <1>3, Fields DEF Sound, Kept, NothingElseLost
<1>9. Undoable'
  BY <1>1, <1>3 DEF Undoable, Backed, AsBefore, Early, Idle
<1> QED  BY <1>4, <1>5, <1>6, <1>7, <1>8, <1>9 DEF Kept

LEMMA BuildKeeps == ASSUME Sound, Build PROVE Kept'
<1>1. /\ op.stage = "build" /\ (op' = op \/ Goto("prepare"))
      /\ UNCHANGED <<hooks, enabled, boot, listening, current, data, told, started, left>>
  BY DEF Build, At
<1>2. /\ op'.stage \in {"build", "prepare"} /\ op'.kind = op.kind /\ op'.target = op.target
      /\ op'.previous = op.previous /\ op'.flag = op.flag /\ op'.safety = op.safety
      /\ op'.before = op.before
  <2>1. "prepare" \in Stages
    BY DEF Stages
  <2> QED  BY <1>1, <2>1, Fields, StageIs
<1>3. op.kind = "deploy"
  BY <1>1, Fields DEF Sound, Kept, Course, RollingBack, BringingBack, Idle
<1>4. Course'
  BY <1>1, <1>2, <1>3 DEF Sound, Kept, Course, Idle, Backed, Deploying
<1>5. Files' /\ Undoable'
  BY <1>1, <1>2, <1>3 DEF Sound, Kept, Files, Undoable, Backed, AsBefore, Early, Idle, data
<1>6. Units'
  BY <1>1, <1>2, <1>3 DEF Sound, Kept, Units, Started, data
<1>7. Snapshot' /\ NothingElseLost'
  BY <1>1, <1>2 DEF Sound, Kept, Snapshot, NothingElseLost, Preserved, Restoring, data
<1> QED  BY <1>4, <1>5, <1>6, <1>7 DEF Kept

LEMMA PrepareKeeps == ASSUME Sound, Prepare PROVE Kept'
<1>1. /\ op.stage = "prepare" /\ (op.flag => IsFile(db))
      /\ hooks' = IF op.flag THEN hooks \cup {op.target} ELSE hooks \ {op.target}
      /\ copies' = IF op.flag THEN copies \cup {db} ELSE copies
      /\ op' = [op EXCEPT !.stage = "stop", !.safety = IF op.flag THEN db ELSE NoFile]
      /\ UNCHANGED <<built, enabled, boot, listening, current, db, marker, acked, told,
                     started, late, lost, left>>
  BY DEF Prepare, At
<1>2. /\ op'.stage = "stop" /\ op'.kind = op.kind /\ op'.target = op.target
      /\ op'.previous = op.previous /\ op'.flag = op.flag
      /\ op'.safety = IF op.flag THEN db ELSE NoFile
      /\ op'.before = op.before
  BY <1>1, Fields DEF Running
<1>3. op.kind = "deploy"
  BY <1>1, Fields DEF Sound, Kept, Course, RollingBack, BringingBack, Idle
<1>4. Course'
  BY <1>1, <1>2, <1>3 DEF Sound, Kept, Course, Idle, Backed, Deploying
<1>5. Files'
  BY <1>1, <1>2 DEF Sound, Kept, Files
<1>6. Units'
  BY <1>1, <1>2, <1>3 DEF Sound, Kept, Units, Started
<1>7. Snapshot'
  BY <1>1, <1>2, <1>3, NoFileIs, Fields DEF Sound, Kept, Snapshot, NothingElseLost, Preserved, Restoring
<1>8. NothingElseLost'
  BY <1>1, <1>2, <1>3 DEF Sound, Kept, NothingElseLost, Preserved, Restoring
<1>9. Undoable'
  BY <1>1, <1>2, <1>3 DEF Sound, Kept, Undoable, Backed, AsBefore, Early, Idle
<1> QED  BY <1>4, <1>5, <1>6, <1>7, <1>8, <1>9 DEF Kept

LEMMA StopKeeps == ASSUME Sound, Stop PROVE Kept'
<1>1. /\ op.stage = "stop" /\ Goto(AfterStop[op.kind])
      /\ UNCHANGED <<built, hooks, enabled, boot, current, data, told, started, left>>
      /\ listening' = listening \/ listening' = None
      /\ (op.kind = "deploy" /\ op.target = op.previous) \/ listening' # op.previous
  BY Fields DEF Stop, StopUnit, At
<1>2. /\ op.kind \in {"deploy", "rollback", "restore"}
      /\ AfterStop[op.kind] = CASE op.kind = "deploy" -> "start" [] op.kind = "rollback" -> "install"
                                [] op.kind = "restore" -> "preserve"
  BY <1>1, Fields, NoOpIs DEF AfterStop, Sound, Kept, Course
<1>3. /\ op'.stage = AfterStop[op.kind] /\ op'.kind = op.kind /\ op'.target = op.target
      /\ op'.previous = op.previous /\ op'.flag = op.flag /\ op'.safety = op.safety
      /\ op'.before = op.before
  <2>1. AfterStop[op.kind] \in Stages
    BY <1>2 DEF Stages
  <2> QED  BY <1>1, <2>1, Fields, StageIs
<1>4. Course'
  BY <1>1, <1>2, <1>3 DEF Sound, Kept, Course, Idle, Backed, Deploying, RollingBack, BringingBack
<1>5. Files'
  BY <1>1, <1>2, <1>3 DEF Sound, Kept, Files, data
<1>6. Units'
  BY <1>1, <1>2, <1>3, Fields DEF Sound, Kept, Units, Started, data
<1>7. Snapshot' /\ NothingElseLost'
  BY <1>1, <1>3 DEF Sound, Kept, Snapshot, NothingElseLost, Preserved, Restoring, data
<1>8. Undoable'
  BY <1>1, <1>2, <1>3 DEF Sound, Kept, Undoable, Backed, AsBefore, Early, Idle, data
<1> QED  BY <1>4, <1>5, <1>6, <1>7, <1>8 DEF Kept

LEMMA PreserveKeeps == ASSUME Sound, Preserve PROVE Kept'
<1>1. /\ op.stage = "preserve" /\ op' = [op EXCEPT !.stage = "install", !.safety = db] /\ db' = NoFile
      /\ UNCHANGED <<host, copies, marker, acked, told, started, late, lost, left>>
  BY DEF Preserve, At
<1>2. /\ op'.stage = "install" /\ op'.kind = op.kind /\ op'.target = op.target
      /\ op'.previous = op.previous /\ op'.flag = op.flag /\ op'.safety = db
      /\ op'.before = op.before
  BY <1>1, Fields DEF Running
<1>3. op.kind = "restore"
  BY <1>1, Fields DEF Sound, Kept, Course, Deploying, RollingBack, Idle
<1>4. Course'
  BY <1>1, <1>2, <1>3 DEF Sound, Kept, Course, Files, Idle, Backed, BringingBack, host
<1>5. Files'
  BY <1>1, NoFileIs DEF Files
<1>6. Units'
  BY <1>1, <1>2, <1>3 DEF Sound, Kept, Course, Units, Started, host
<1>7. Snapshot'
  BY <1>2, <1>3 DEF Snapshot, Restoring
<1>8. NothingElseLost'
  <2> SUFFICES ASSUME NEW w \in acked \ lost PROVE (\E c \in copies \cup Preserved' : w \in c.holds)
    BY <1>1 DEF NothingElseLost
  <2>1. CASE w \in db.holds
    <3>1. IsFile(db)
      BY <2>1, NoFileIs DEF Sound, Kept, Files
    <3> QED  BY <1>2, <1>3, <2>1, <3>1 DEF Preserved, Restoring
  <2>2. CASE \E c \in copies \cup Preserved : w \in c.holds
    <3>1. Preserved = {}
      BY <1>1, <1>3, NoFileIs DEF Sound, Kept, Course, Backed, Preserved
    <3> QED  BY <2>2, <3>1
  <2> QED  BY <2>1, <2>2 DEF Sound, Kept, NothingElseLost
<1>9. Undoable'
  BY <1>1, <1>2, <1>3 DEF Sound, Kept, Undoable, Backed, AsBefore, Early, Idle, host
<1> QED  BY <1>4, <1>5, <1>6, <1>7, <1>8, <1>9 DEF Kept

\* A file that is installed takes with it what came after the snapshot.
LEMMA InstallKeeps == ASSUME Sound, Install PROVE Kept'
<1>1. /\ op.stage = "install" /\ Goto("start")
      /\ IF IsFile(op.source) THEN InstallFile(op.source) ELSE UNCHANGED <<db, lost>>
      /\ UNCHANGED <<host, copies, marker, acked, told, started, late, left>>
  BY DEF Install, At
<1>2. /\ op'.stage = "start" /\ op'.kind = op.kind /\ op'.target = op.target
      /\ op'.previous = op.previous /\ op'.flag = op.flag /\ op'.safety = op.safety
      /\ op'.before = op.before
  <2>1. "start" \in Stages
    BY DEF Stages
  <2> QED  BY <1>1, <2>1, Fields, StageIs
<1>3. op.kind \in {"rollback", "restore"}
  BY <1>1, Fields DEF Sound, Kept, Course, Deploying, Idle
<1>4. Course'
  BY <1>1, <1>2, <1>3 DEF Sound, Kept, Course, Idle, Backed, RollingBack, BringingBack, host
<1>5. Files'
  BY <1>1, <1>2 DEF Sound, Kept, Files, InstallFile
<1>6. Units'
  BY <1>1, <1>2 DEF Sound, Kept, Units, Started, host
<1>7. Snapshot'
  BY <1>1, <1>2, <1>3 DEF Sound, Kept, Snapshot, Restoring, InstallFile
<1>8. NothingElseLost'
  <2>1. Preserved' = Preserved
    BY <1>2 DEF Preserved, Restoring
  <2>2. CASE op.kind = "restore"
    <3>1. db = NoFile /\ lost' = lost
      BY <1>1, <2>2 DEF Sound, Kept, Files, InstallFile, Restoring
    <3> QED  BY <1>1, <2>1, <3>1, NoFileIs DEF Sound, Kept, NothingElseLost
  <2>3. CASE op.kind = "rollback"
    <3>1. IsFile(op.safety) /\ ~Restoring
      BY <1>1, <2>3 DEF Sound, Kept, Course, Backed, Restoring
    <3>2. UNCHANGED <<db, lost>> \/ lost' = lost \cup late
      BY <1>1, <3>1 DEF InstallFile
    <3> QED  BY <1>1, <2>1, <3>1, <3>2 DEF Sound, Kept, NothingElseLost, Snapshot
  <2> QED  BY <1>3, <2>2, <2>3
<1>9. Undoable'
  BY <1>1, <1>2, <1>3 DEF Sound, Kept, Undoable, Backed, AsBefore, Early, Idle, host
<1> QED  BY <1>4, <1>5, <1>6, <1>7, <1>8, <1>9 DEF Kept

LEMMA StartKeeps == ASSUME Sound, Start PROVE Kept'
<1>1. /\ op.stage = "start"
      /\ enabled' = IF Restoring THEN enabled ELSE enabled \cup {op.target}
      /\ UNCHANGED <<built, hooks, boot, current, copies, marker, acked, told, started,
                     late, lost, left>>
  BY DEF Start, At
<1>2. PICK up \in BOOLEAN : Launch(op.target, up) /\ Goto(IF up THEN "check" ELSE "halt")
  BY DEF Start
<1>3. /\ op'.stage \in {"check", "halt"} /\ op'.kind = op.kind /\ op'.target = op.target
      /\ op'.previous = op.previous /\ op'.flag = op.flag /\ op'.safety = op.safety
      /\ op'.before = op.before
  <2>1. "check" \in Stages /\ "halt" \in Stages
    BY DEF Stages
  <2> QED  BY <1>2, <2>1, Fields, StageIs
<1>4. /\ db' \in Databases /\ db'.holds = db.holds /\ (IsFile(db') <=> IsFile(db))
      /\ ~IsFile(db) => db' = db
      /\ op.target \notin hooks \/ db.schema = Schema[op.target] => db'.schema = db.schema
      /\ listening' = listening \/ (listening = None /\ listening' = op.target)
  BY <1>2, Fields, LaunchIs DEF Sound
<1>5. op.kind \in {"deploy", "rollback", "restore"}
  BY <1>1, Fields DEF Idle
<1>6. Course'
  BY <1>1, <1>3, <1>5 DEF Sound, Kept, Course, Idle, Backed, Deploying, RollingBack, BringingBack
<1>7. Files'
  BY <1>3, <1>4 DEF Sound, Kept, Files
<1>8. Units'
  BY <1>1, <1>3, <1>4, <1>5, Fields DEF Sound, Kept, Units, Course, Started, Restoring, Idle
<1>9. Snapshot'
  BY <1>1, <1>3 DEF Sound, Kept, Snapshot, Restoring
<1>10. NothingElseLost'
  BY <1>1, <1>3, <1>4 DEF Sound, Kept, NothingElseLost, Preserved, Restoring
<1>11. Undoable'
  BY <1>1, <1>3, <1>4, <1>5 DEF Sound, Kept, Undoable, Backed, AsBefore, Early, Idle
<1> QED  BY <1>6, <1>7, <1>8, <1>9, <1>10, <1>11 DEF Kept

LEMMA CheckKeeps == ASSUME Sound, Check PROVE Kept'
<1>1. op.stage = "check" /\ UNCHANGED <<host, db, marker, acked, lost, left>>
  BY DEF Check, At
<1>2. op.kind \in {"deploy", "rollback", "restore"}
  BY <1>1, Fields DEF Idle
<1>3. ASSUME Goto("link") \/ Goto("halt"), UNCHANGED <<copies, told, started, late>>,
             Goto("link") => Healthy /\ op.kind # "restore"
      PROVE  Kept'
  <2>1. /\ op'.stage \in {"link", "halt"} /\ op'.kind = op.kind /\ op'.target = op.target
        /\ op'.previous = op.previous /\ op'.flag = op.flag /\ op'.safety = op.safety
        /\ op'.before = op.before
        /\ op'.stage = "link" => Healthy /\ op.kind # "restore"
    <3>1. "link" \in Stages /\ "halt" \in Stages
      BY DEF Stages
    <3> QED  BY <1>3, <3>1, Fields, StageIs
  <2>2. Course'
    BY <1>1, <1>2, <2>1 DEF Sound, Kept, Course, Idle, Backed, Deploying, RollingBack, BringingBack, host
  <2>3. Files'
    BY <1>1, <2>1 DEF Sound, Kept, Files
  <2>4. Units'
    BY <1>1, <1>2, <2>1 DEF Sound, Kept, Units, Started, Healthy, Opens, host
  <2>5. Snapshot' /\ NothingElseLost'
    BY <1>1, <1>3, <2>1 DEF Sound, Kept, Snapshot, NothingElseLost, Preserved, Restoring
  <2>6. Undoable'
    BY <1>1, <1>2, <2>1 DEF Sound, Kept, Undoable, Backed, AsBefore, Early, Idle, host
  <2> QED  BY <2>2, <2>3, <2>4, <2>5, <2>6 DEF Kept
<1>4. ASSUME Restoring, End("ok"), copies' = copies \cup Preserved PROVE Kept'
  <2>1. op' = NoOp /\ Idle' /\ op'.kind = "none" /\ op'.stage = "none" /\ op'.safety = NoFile
    BY <1>4, NoOpIs DEF End, Idle
  <2>2. Course'
    BY <2>1 DEF Course, Idle, Backed
  <2>3. Files'
    BY <1>1, <2>1 DEF Sound, Kept, Files
  <2>4. Units'
    BY <1>1, <1>4, <2>1 DEF Sound, Kept, Units, Started, Restoring, host
  <2>5. Snapshot'
    BY <2>1, NoFileIs DEF Snapshot
  <2>6. NothingElseLost'
    BY <1>1, <1>4 DEF Sound, Kept, NothingElseLost
  <2>7. Undoable'
    BY <2>1 DEF Undoable
  <2> QED  BY <2>2, <2>3, <2>4, <2>5, <2>6, <2>7 DEF Kept
<1>5. Goto("link") => op'.stage = "link"
  BY Fields, StageIs DEF Stages
<1>6. Goto("halt") => op'.stage = "halt"
  BY Fields, StageIs DEF Stages
<1> QED  BY <1>3, <1>4, <1>5, <1>6 DEF Check, Passes, Restoring

LEMMA LinkKeeps == ASSUME Sound, Link PROVE Kept'
<1>1. /\ op.stage = "link"
      /\ \/ current' = op.target /\ Goto("disable")
         \/ current' = current /\ Goto("halt")
      /\ UNCHANGED <<built, hooks, enabled, boot, listening, data, told, started, left>>
  BY DEF Link, At
<1>2. /\ op'.kind = op.kind /\ op'.target = op.target
      /\ op'.previous = op.previous /\ op'.flag = op.flag /\ op'.safety = op.safety
      /\ op'.before = op.before
      /\ \/ op'.stage = "disable" /\ current' = op.target
         \/ op'.stage = "halt" /\ current' = current
  <2>1. "disable" \in Stages /\ "halt" \in Stages
    BY DEF Stages
  <2> QED  BY <1>1, <2>1, Fields, StageIs
<1>3. op.kind \in {"deploy", "rollback"}
  BY <1>1, Fields DEF Sound, Kept, Course, BringingBack, Idle
<1>4. Course'
  BY <1>1, <1>2, <1>3 DEF Sound, Kept, Course, Idle, Backed, Deploying, RollingBack
<1>5. Files'
  BY <1>1, <1>2 DEF Sound, Kept, Files, data
<1>6. Units'
  <2>1. /\ current = op.previous /\ boot = {} /\ Started = {op.target} /\ Started' = {op.target}
    BY <1>1, <1>2, <1>3 DEF Sound, Kept, Course, Started, Idle
  <2>2. listening # op.previous \/ op.target = op.previous
    BY <1>1 DEF Sound, Kept, Units
  <2> QED  BY <1>1, <1>2, <1>3, <2>1, <2>2 DEF Sound, Kept, Units, Healthy, Opens, data
<1>7. Snapshot' /\ NothingElseLost'
  BY <1>1, <1>2 DEF Sound, Kept, Snapshot, NothingElseLost, Preserved, Restoring, data
<1>8. Undoable'
  BY <1>1, <1>2, <1>3 DEF Sound, Kept, Undoable, Backed, AsBefore, Early, Idle, data
<1> QED  BY <1>4, <1>5, <1>6, <1>7, <1>8 DEF Kept

LEMMA FinishKeeps == ASSUME Sound, Finish PROVE Kept'
<1>1. /\ op.stage = "disable" /\ enabled' = enabled \ Disabled
      /\ left' = left \ (Disabled \cup {op.target}) /\ End("ok")
      /\ UNCHANGED <<built, hooks, boot, listening, current, db, copies, marker, acked, lost>>
  BY DEF Finish, At
<1>2. op' = NoOp /\ Idle' /\ op'.kind = "none" /\ op'.stage = "none" /\ op'.safety = NoFile
  BY <1>1, NoOpIs DEF End, Idle
<1>3. op.kind \in {"deploy", "rollback"}
  BY <1>1, Fields DEF Sound, Kept, Course, BringingBack, Idle
<1>4. /\ current = op.target /\ boot = {} /\ Started = {op.target} /\ Started' = {}
  BY <1>1, <1>2, <1>3 DEF Sound, Kept, Course, Started, Idle
<1>5. Course'
  BY <1>2 DEF Course, Idle, Backed
<1>6. Files'
  BY <1>1, <1>2 DEF Sound, Kept, Files
<1>7. Units'
  BY <1>1, <1>2, <1>4 DEF Sound, Kept, Units, Disabled
<1>8. Snapshot'
  BY <1>2, NoFileIs DEF Snapshot
<1>9. NothingElseLost'
  BY <1>1, <1>3 DEF Sound, Kept, NothingElseLost, Preserved, Restoring
<1>10. Undoable'
  BY <1>2 DEF Undoable
<1> QED  BY <1>5, <1>6, <1>7, <1>8, <1>9, <1>10 DEF Kept

-----------------------------------------------------------------------------
(* The compensation *)

LEMMA HaltKeeps == ASSUME Sound, Halt PROVE Kept'
<1>1. /\ op.stage = "halt" /\ Goto(IF Restoring THEN "aside" ELSE "reinstall")
      /\ listening' = listening \/ listening' = None
      /\ UNCHANGED <<built, hooks, enabled, boot, current, data, told, started, left>>
  BY DEF Halt, StopUnit, At
<1>2. /\ op'.kind = op.kind /\ op'.target = op.target
      /\ op'.previous = op.previous /\ op'.flag = op.flag /\ op'.safety = op.safety
      /\ op'.before = op.before
      /\ op'.stage = IF op.kind = "restore" THEN "aside" ELSE "reinstall"
  <2>1. "aside" \in Stages /\ "reinstall" \in Stages
    BY DEF Stages
  <2> QED  BY <1>1, <2>1, Fields, StageIs DEF Restoring
<1>3. op.kind \in {"deploy", "rollback", "restore"}
  BY <1>1, Fields DEF Idle
<1>4. Course'
  BY <1>1, <1>2, <1>3 DEF Sound, Kept, Course, Idle, Backed, Deploying, RollingBack, BringingBack
<1>5. Files'
  BY <1>1, <1>2 DEF Sound, Kept, Files, data
<1>6. Units'
  BY <1>1, <1>2, <1>3 DEF Sound, Kept, Units, Started, data
<1>7. Snapshot' /\ NothingElseLost'
  BY <1>1, <1>2 DEF Sound, Kept, Snapshot, NothingElseLost, Preserved, Restoring, data
<1>8. Undoable'
  BY <1>1, <1>2, <1>3 DEF Sound, Kept, Undoable, Backed, AsBefore, Early, Idle, data
<1> QED  BY <1>4, <1>5, <1>6, <1>7, <1>8 DEF Kept

LEMMA AsideKeeps == ASSUME Sound, Aside PROVE Kept'
<1>1. /\ op.stage = "aside" /\ Goto("reinstall") /\ db' = NoFile
      /\ copies' = IF IsFile(db) THEN copies \cup {db} ELSE copies
      /\ UNCHANGED <<host, marker, acked, told, started, late, lost, left>>
  BY DEF Aside, At
<1>2. /\ op'.kind = op.kind /\ op'.target = op.target
      /\ op'.previous = op.previous /\ op'.flag = op.flag /\ op'.safety = op.safety
      /\ op'.before = op.before /\ op'.stage = "reinstall"
  <2>1. "reinstall" \in Stages
    BY DEF Stages
  <2> QED  BY <1>1, <2>1, Fields, StageIs
<1>3. op.kind = "restore"
  BY <1>1, Fields DEF Sound, Kept, Course, Deploying, RollingBack, Idle
<1>4. Course'
  BY <1>1, <1>2, <1>3 DEF Sound, Kept, Course, Idle, Backed, BringingBack, host
<1>5. Files'
  BY <1>1, NoFileIs DEF Files
<1>6. Units'
  BY <1>1, <1>2, <1>3 DEF Sound, Kept, Units, Started, host
<1>7. Snapshot'
  BY <1>2, <1>3 DEF Snapshot, Restoring
<1>8. NothingElseLost'
  <2>1. Preserved' = Preserved /\ copies \subseteq copies'
    BY <1>1, <1>2 DEF Preserved, Restoring
  <2>2. \A w \in db.holds : \E c \in copies' : w \in c.holds
    <3>1. CASE IsFile(db)
      BY <1>1, <3>1
    <3>2. CASE ~IsFile(db)
      BY <3>2, NoFileIs DEF Sound, Kept, Files
    <3> QED  BY <3>1, <3>2
  <2> QED  BY <1>1, <2>1, <2>2 DEF Sound, Kept, NothingElseLost
<1>9. Undoable'
  BY <1>1, <1>2, <1>3 DEF Sound, Kept, Undoable, Backed, AsBefore, Early, Idle, host
<1> QED  BY <1>4, <1>5, <1>6, <1>7, <1>8, <1>9 DEF Kept

LEMMA ReinstallKeeps == ASSUME Sound, Reinstall PROVE Kept'
<1>1. /\ op.stage = "reinstall"
      /\ IF Restoring \/ IsFile(op.safety) THEN InstallFile(op.safety) ELSE UNCHANGED <<db, lost>>
      /\ op' = [op EXCEPT !.stage = "resume", !.safety = NoFile]
      /\ UNCHANGED <<host, copies, marker, acked, told, started, late, left>>
  BY DEF Reinstall, At
<1>2. /\ op'.stage = "resume" /\ op'.kind = op.kind /\ op'.target = op.target
      /\ op'.previous = op.previous /\ op'.flag = op.flag /\ op'.safety = NoFile
      /\ op'.before = op.before
  BY <1>1, Fields DEF Running
<1>3. op.kind \in {"deploy", "rollback", "restore"}
  BY <1>1, Fields DEF Idle
<1>4. Course'
  BY <1>1, <1>2, <1>3 DEF Sound, Kept, Course, Idle, Backed, Deploying, RollingBack, BringingBack, host
<1>5. Backed => IsFile(op.safety) \/ op.safety = NoFile
  BY DEF Sound, Kept, Course
<1>6. Files'
  <2>1. CASE Restoring \/ IsFile(op.safety)
    <3>1. db' = op.safety
      BY <1>1, <2>1 DEF InstallFile
    <3>2. IsFile(op.safety) \/ op.safety = NoFile
      BY <1>5 DEF Sound, Kept, Course
    <3> QED  BY <1>2, <3>1, <3>2 DEF Files
  <2>2. CASE ~(Restoring \/ IsFile(op.safety))
    BY <1>1, <1>2, <2>2 DEF Sound, Kept, Files
  <2> QED  BY <2>1, <2>2
<1>7. Units'
  BY <1>1, <1>2, <1>3 DEF Sound, Kept, Units, Started, host
<1>8. Snapshot'
  BY <1>2, NoFileIs DEF Snapshot
<1>9. NothingElseLost'
  <2>1. Preserved' = {}
    BY <1>2, NoFileIs DEF Preserved
  <2>2. CASE Restoring
    <3>1. db = NoFile /\ lost' = lost /\ db' = op.safety
      BY <1>1, <2>2 DEF Sound, Kept, Files, InstallFile, Restoring
    <3>2. \A c \in Preserved : c = db'
      BY <3>1 DEF Preserved
    <3> QED  BY <1>1, <3>1, <3>2, NoFileIs DEF Sound, Kept, NothingElseLost
  <2>3. CASE ~Restoring /\ IsFile(op.safety)
    <3>1. lost' = lost \cup late
      BY <1>1, <2>3 DEF InstallFile
    <3> QED  BY <1>1, <2>3, <3>1 DEF Sound, Kept, NothingElseLost, Snapshot
  <2>4. CASE ~Restoring /\ ~IsFile(op.safety)
    BY <1>1, <2>4 DEF Sound, Kept, NothingElseLost, Preserved
  <2> QED  BY <2>2, <2>3, <2>4
<1>10. Undoable'
  <2>1. AsBefore(db)'
    <3>1. CASE Restoring \/ IsFile(op.safety)
      <4>1. Backed
        BY <1>1, <3>1, NoFileIs DEF Sound, Kept, Course, Backed, Restoring
      <4> QED  BY <1>1, <1>2, <1>3, <3>1, <4>1 DEF Sound, Kept, Undoable, AsBefore, InstallFile, Idle
    <3>2. CASE ~(Restoring \/ IsFile(op.safety))
      <4>1. ~Backed /\ op.stage \notin Early
        BY <1>1, <3>2 DEF Sound, Kept, Course, Restoring, Early
      <4> QED  BY <1>1, <1>2, <1>3, <3>2, <4>1 DEF Sound, Kept, Undoable, AsBefore, Idle
    <3> QED  BY <3>1, <3>2
  <2> QED  BY <1>2, <2>1 DEF Undoable, Backed, Early
<1> QED  BY <1>4, <1>6, <1>7, <1>8, <1>9, <1>10 DEF Kept

\* A script that failed leaves its unit among those it may have left enabled.
LEMMA ResumeKeeps == ASSUME Sound, Resume PROVE Kept'
<1>1. /\ op.stage = "resume" /\ End("failed")
      /\ left' = IF op.target = current THEN left ELSE left \cup {op.target}
      /\ UNCHANGED <<built, hooks, enabled, boot, current, copies, marker, acked, lost>>
  BY DEF Resume, At
<1>2. op' = NoOp /\ Idle' /\ op'.kind = "none" /\ op'.stage = "none" /\ op'.safety = NoFile
  BY <1>1, NoOpIs DEF End, Idle
<1>3. op.kind \in {"deploy", "rollback", "restore"}
  BY <1>1, Fields DEF Idle
<1>4. /\ db'.holds = db.holds /\ (~IsFile(db) => db' = db) /\ (IsFile(db') <=> IsFile(db))
      /\ listening' = listening \/ listening' = op.previous
  <2>1. CASE op.previous # op.target \/ Restoring
    <3>1. PICK up \in BOOLEAN : Launch(op.previous, up)
      BY <2>1 DEF Resume
    <3> QED  BY <3>1, Fields, LaunchIs DEF Sound
  <2>2. CASE ~(op.previous # op.target \/ Restoring)
    BY <2>2 DEF Resume
  <2> QED  BY <2>1, <2>2
<1>5. /\ current = op.previous /\ boot = {} /\ op.safety = NoFile
      /\ Started \subseteq {op.target} /\ Started' = {}
  BY <1>1, <1>2, <1>3 DEF Sound, Kept, Course, Started, Backed, Idle
<1>6. Course'
  BY <1>2 DEF Course, Idle, Backed
<1>7. Files'
  BY <1>2, <1>4 DEF Sound, Kept, Files
<1>8. Units'
  BY <1>1, <1>2, <1>4, <1>5 DEF Sound, Kept, Units
<1>9. Snapshot'
  BY <1>2, NoFileIs DEF Snapshot
<1>10. NothingElseLost'
  BY <1>1, <1>4, <1>5, NoFileIs DEF Sound, Kept, NothingElseLost, Preserved
<1>11. Undoable'
  BY <1>2 DEF Undoable
<1> QED  BY <1>6, <1>7, <1>8, <1>9, <1>10, <1>11 DEF Kept

-----------------------------------------------------------------------------
(* Interruptions *)

LEMMA InterruptedKeeps ==
    ASSUME Sound, Interrupted,
           UNCHANGED <<built, hooks, enabled, current, db, marker, acked, started, lost>>,
           \/ ~Idle /\ UNCHANGED <<boot, listening>>
           \/ boot = {} /\ listening' = None /\ boot' = enabled
    PROVE  Kept'
<1>1. /\ op' = NoOp /\ copies' = copies \cup Preserved
      /\ left' = IF Idle THEN left ELSE left \cup (enabled \ {current})
  BY DEF Interrupted
<1>2. Idle' /\ op'.kind = "none" /\ op'.stage = "none" /\ op'.safety = NoFile
  BY <1>1, NoOpIs DEF Idle
<1>3. Course'
  BY <1>1, <1>2 DEF Course, Idle, Backed
<1>4. Files'
  BY <1>2 DEF Sound, Kept, Files
<1>5. Units'
  <2>1. current \in enabled /\ Started \subseteq enabled /\ Started' = {}
    BY <1>2 DEF Sound, Kept, Units, Started
  <2>2. enabled \subseteq {current} \cup left'
    <3>1. CASE Idle
      BY <1>1, <3>1, Fields DEF Sound, Kept, Units
    <3>2. CASE ~Idle
      BY <1>1, <3>2
    <3> QED  BY <3>1, <3>2
  <2>3. left \subseteq left' /\ Started \subseteq {current} \cup left'
    BY <1>1, <2>1, <2>2
  <2>4. listening \in {None, current} \cup left' /\ boot \subseteq {current} \cup left'
    BY <2>3 DEF Sound, Kept, Units
  <2> QED  BY <1>2, <2>1, <2>2, <2>4 DEF Units
<1>6. Snapshot'
  BY <1>2, NoFileIs DEF Snapshot
<1>7. NothingElseLost'
  BY <1>1 DEF Sound, Kept, NothingElseLost
<1>8. Undoable'
  BY <1>2 DEF Undoable
<1> QED  BY <1>3, <1>4, <1>5, <1>6, <1>7, <1>8 DEF Kept

LEMMA CrashKeeps == ASSUME Sound, Crash \/ Reboot PROVE Kept'
BY InterruptedKeeps DEF Crash, Reboot, host

LEMMA BootKeeps == ASSUME Sound, NEW r \in Release, Boot(r) PROVE Kept'
<1>1. /\ r \in boot /\ boot' = boot \ {r}
      /\ UNCHANGED <<built, hooks, enabled, current, copies, marker, acked, op, told, started,
                     late, lost, left>>
  BY DEF Boot
<1>2. PICK up \in BOOLEAN : Launch(r, up)
  BY DEF Boot
<1>3. /\ db'.holds = db.holds /\ (~IsFile(db) => db' = db) /\ (IsFile(db') <=> IsFile(db))
      /\ listening' = listening \/ listening' = r
  BY <1>2, LaunchIs DEF Sound
<1>4. Idle
  BY <1>1 DEF Sound, Kept, Course
<1>5. Course'
  BY <1>1, <1>4 DEF Sound, Kept, Course, Idle, Backed
<1>6. Files'
  BY <1>1, <1>3, <1>4 DEF Sound, Kept, Files, Idle
<1>7. Units'
  <2>1. r \in {current} \cup left /\ Started = {} /\ Started' = {} /\ op.stage = "none"
    BY <1>1, <1>4, Fields DEF Sound, Kept, Units, Started
  <2> QED  BY <1>1, <1>3, <2>1 DEF Sound, Kept, Units
<1>8. Snapshot' /\ NothingElseLost'
  BY <1>1, <1>3 DEF Sound, Kept, Snapshot, NothingElseLost, Preserved, Restoring
<1>9. Undoable'
  BY <1>1, <1>4 DEF Undoable, Idle
<1> QED  BY <1>5, <1>6, <1>7, <1>8, <1>9 DEF Kept

LEMMA SoundStart == Init => Sound
<1> SUFFICES ASSUME Init PROVE Sound
  OBVIOUS
<1>1. op = NoOp /\ op \in Running /\ op.kind = "none" /\ op.stage = "none" /\ op.safety = NoFile
  BY NoOpIs DEF Init
<1>2. /\ db.schema = Schema[First] /\ Schema[First] \in Nat \ {0} /\ db \in Databases
      /\ First \in Release /\ 0 \in 0..MaxScripts
  BY ReleasesAssumption DEF Init, Databases
<1>3. TypeOK
  BY <1>1, <1>2, ReleasesAssumption DEF Init, TypeOK, Running
<1>4. Course /\ Undoable /\ Snapshot
  BY <1>1, NoFileIs DEF Course, Backed, Undoable, Snapshot, Idle
<1>5. Files
  <2>1. IsFile(db)
    BY <1>2 DEF IsFile
  <2> QED  BY <1>1, <2>1 DEF Files
<1>6. Units
  <2>1. Started = {}
    BY <1>1 DEF Started
  <2> QED  BY <1>1, <2>1 DEF Init, Units
<1>7. NothingElseLost
  BY DEF Init, NothingElseLost
<1> QED  BY <1>3, <1>4, <1>5, <1>6, <1>7 DEF Sound, Kept

LEMMA SoundStep == Sound /\ [Next]_vars => Sound'
<1> SUFFICES ASSUME Sound, [Next]_vars PROVE Sound'
  OBVIOUS
<1>1. CASE Next
  <2>1. TypeOK'
    BY <1>1, TypedStep DEF Sound, Kept
  <2>2. Kept'
    BY <1>1, AcceptKeeps, BackupKeeps, DeployKeeps, RollbackKeeps, RestoreKeeps, BuildKeeps,
       PrepareKeeps, StopKeeps, PreserveKeeps, InstallKeeps, StartKeeps, CheckKeeps, LinkKeeps,
       FinishKeeps, HaltKeeps, AsideKeeps, ReinstallKeeps, ResumeKeeps, CrashKeeps, BootKeeps
       DEF Next, Operator, Step
  <2> QED  BY <2>1, <2>2 DEF Sound
<1>2. CASE UNCHANGED vars
  <2>1. TypeOK'
    BY <1>2 DEF Sound, TypeOK, vars
  <2>2. Course' /\ Files' /\ Snapshot' /\ NothingElseLost' /\ Undoable'
    BY <1>2 DEF Sound, Kept, Course, Files, Snapshot, NothingElseLost, Undoable, Idle, Backed,
                Restoring, Preserved, AsBefore, vars
  <2>3. Units'
    BY <1>2 DEF Sound, Kept, Units, Started, Healthy, Opens, vars
  <2> QED  BY <2>1, <2>2, <2>3 DEF Sound, Kept
<1> QED  BY <1>1, <1>2

LEMMA SoundAlways == Spec => []Sound
BY SoundStart, SoundStep, PTL DEF Spec

-----------------------------------------------------------------------------
(* The theorems *)

\* deploy.sh, rollback.sh, restore.sh: for any number of releases, writes and
\* scripts, wherever each of them fails or is interrupted, an acknowledged write
\* is in the live file or in a kept one unless it came between a snapshot and an
\* installation, and when nothing was left behind one release serves.
THEOREM ReleasesAreSound == Spec => []ReleasesInv
<1>1. Sound => ReleasesInv
  BY Fields DEF Sound, Kept, Units, ReleasesInv, OneReleaseServes
<1> QED  BY <1>1, SoundAlways, PTL

Serves == told = "none" /\ told' = "ok" /\ left = {} =>
    /\ listening' = op.target /\ current' = op.target /\ enabled' = {op.target}
    /\ db'.schema = Schema[op.target]

LEMMA ServesStep == Sound /\ [Next]_vars => Serves
<1> SUFFICES ASSUME Sound, [Next]_vars, told = "none", told' = "ok", left = {}
             PROVE  /\ listening' = op.target /\ current' = op.target /\ enabled' = {op.target}
                    /\ db'.schema = Schema[op.target]
  BY DEF Serves
<1>1. CASE Check
  <2>1. /\ op.stage = "check" /\ op.kind = "restore" /\ Healthy /\ UNCHANGED <<host, db>>
    BY <1>1 DEF Check, At, Restoring, Passes
  <2>2. current = op.target /\ Started = {} /\ op.stage # "disable"
    BY <2>1 DEF Sound, Kept, Course, Started, Idle
  <2>3. listening = op.target /\ enabled = {op.target}
    BY <2>1, <2>2 DEF Sound, Kept, Units, Healthy
  <2> QED  BY <2>1, <2>2, <2>3 DEF host, Healthy, Opens
<1>2. CASE Finish
  <2>1. /\ op.stage = "disable" /\ enabled' = enabled \ Disabled
        /\ UNCHANGED <<listening, current, db>>
    BY <1>2 DEF Finish, At
  <2>2. op.kind \in {"deploy", "rollback"}
    BY <2>1, Fields DEF Sound, Kept, Course, BringingBack, Idle
  <2>3. current = op.target /\ Started = {op.target}
    BY <2>1, <2>2 DEF Sound, Kept, Course, Started, Idle
  <2>4. Healthy /\ listening = op.target
    BY <2>1, <2>3 DEF Sound, Kept, Units, Healthy
  <2>5. enabled' = {op.target}
    BY <2>1, <2>3 DEF Sound, Kept, Units, Disabled
  <2> QED  BY <2>1, <2>3, <2>4, <2>5 DEF Healthy, Opens
<1>3. CASE ~Check /\ ~Finish
  BY <1>3 DEF Next, Operator, Step, Accept, Backup, Deploy, Rollback, Restore, Begin, Build, Prepare,
              Stop, Preserve, Install, Start, Link, Halt, Aside, Reinstall, Resume, End, Crash, Reboot,
              Interrupted, Boot, vars
<1> QED  BY <1>1, <1>2, <1>3

\* healthcheck.py: a script that reports success, and found nothing left behind,
\* leaves its target alone on the port, the link and the boot, with a database
\* it can open.
THEOREM SuccessServes == Spec => AcceptedServes
<1>1. Sound /\ [Next]_vars =>
        [told = "none" /\ told' = "ok" /\ left = {} =>
           /\ listening' = op.target /\ current' = op.target /\ enabled' = {op.target}
           /\ db'.schema = Schema[op.target]]_vars
  BY ServesStep DEF Serves
<1> QED  BY <1>1, SoundAlways, PTL DEF Spec, AcceptedServes

Undone == told = "none" /\ told' = "failed" =>
    /\ current' = op.previous
    /\ op.before.holds \subseteq db'.holds
    /\ op.before.schema = Schema[op.previous] => db'.schema = op.before.schema

LEMMA UndoneStep == Sound /\ [Next]_vars => Undone
<1> SUFFICES ASSUME Sound, [Next]_vars, told = "none", told' = "failed"
             PROVE  /\ current' = op.previous
                    /\ op.before.holds \subseteq db'.holds
                    /\ op.before.schema = Schema[op.previous] => db'.schema = op.before.schema
  BY DEF Undone
<1>1. Resume
  BY DEF Next, Operator, Step, Accept, Backup, Deploy, Rollback, Restore, Begin, Build, Prepare,
         Stop, Preserve, Install, Start, Check, Link, Finish, Halt, Aside, Reinstall, End, Crash,
         Reboot, Interrupted, Boot, vars
<1>2. op.stage = "resume" /\ current' = current
  BY <1>1 DEF Resume, At
<1>3. op.kind # "none"
  BY <1>2, Fields DEF Idle
<1>4. current = op.previous /\ AsBefore(db)
  BY <1>2, <1>3 DEF Sound, Kept, Course, Undoable, Idle
<1>5. db'.holds = db.holds /\ (db.schema = Schema[op.previous] => db'.schema = db.schema)
  <2>1. CASE op.previous # op.target \/ Restoring
    <3>1. PICK up \in BOOLEAN : Launch(op.previous, up)
      BY <1>1, <2>1 DEF Resume
    <3> QED  BY <3>1, Fields, LaunchIs DEF Sound
  <2>2. CASE ~(op.previous # op.target \/ Restoring)
    BY <1>1, <2>2 DEF Resume
  <2> QED  BY <2>1, <2>2
<1> QED  BY <1>2, <1>4, <1>5 DEF AsBefore

\* restore_previous: a script that reports a failure leaves the link where it
\* was, every write the database had, and the schema the previous release opens.
THEOREM FailureIsUndone == Spec => FailureUndone
<1>1. Sound /\ [Next]_vars =>
        [told = "none" /\ told' = "failed" =>
           /\ current' = op.previous
           /\ op.before.holds \subseteq db'.holds
           /\ op.before.schema = Schema[op.previous] => db'.schema = op.before.schema]_vars
  BY UndoneStep DEF Undone
<1> QED  BY <1>1, SoundAlways, PTL DEF Spec, FailureUndone
=============================================================================
