------------------------ MODULE EvidenceStoresProofs ------------------------
(***************************************************************************)
(* For any number of backends, processes and documents: the catalogue of a *)
(* file lists one primary and nothing that was not stored, a registered    *)
(* file can be read, a private root that is moved arrives whole, and a     *)
(* ledger file that any number of programs migrate has the schema of its   *)
(* version.                                                                *)
(***************************************************************************)
EXTENDS EvidenceStores, FiniteSetTheorems, WellFoundedInduction, TLAPS

-----------------------------------------------------------------------------
(* Relocation *)

\* Only under a copy of the old configuration does a move go on, and only
\* while it copies or rewrites is anything left to do.
GoesOn ==
    /\ move.at \in {"evidence", "rewrite", "update"} => newRoot.config = "old"
    /\ move.at \in {"rest", "config", "update"} => move.left = {}

\* From the snapshot on, what is left to rewrite are the rows that name the
\* old root, and the others have their file.
Rewriting ==
    /\ move.at \in {"rewrite", "update"} =>
          \A e \in Evidence :
             /\ newRoot.rows[e] = "new" => newRoot.files[e] = "whole"
             /\ newRoot.rows[e] = "old" <=> e \in move.left

\* What was booked before the move began is in the old root, and from the
\* snapshot on in the new one.
Carried ==
    /\ move.at # "rest" => move.begun \subseteq Present(oldRoot)
    /\ move.at \in {"rewrite", "update"} => move.begun \subseteq Present(newRoot)

\* Before the new root has a configuration of its own nothing has arrived, and
\* nothing was booked there that has to stay.
Unmoved == newRoot.config \in {"none", "old"} => arrived = {} /\ entered = {}

Move == [at : {"rest", "config", "evidence", "rewrite", "update"},
         left : SUBSET Evidence, begun : SUBSET Evidence]

RootsTyped == RelocationTypeOK /\ move \in Move

RootsInv ==
    /\ RootsTyped
    /\ GoesOn /\ Rewriting /\ Carried /\ Unmoved
    /\ MovedIsWhole /\ MovedIsAll /\ EnteredStays

LEMMA RootsStart == RelocationInit => RootsInv
  BY RelocationAssumption
  DEF RelocationInit, RootsInv, RootsTyped, RelocationTypeOK, Move, GoesOn, Rewriting, Carried,
      Unmoved, MovedIsWhole, MovedIsAll, EnteredStays, Present, Staying

\* No step of a program or of a move leaves the shape of the roots.
LEMMA RootsTypedStep == RootsTyped /\ RelocationNext => RootsTyped'
<1> SUFFICES ASSUME RootsTyped, RelocationNext PROVE RootsTyped'
  OBVIOUS
<1> USE RelocationAssumption DEF RootsTyped, RelocationTypeOK, Move
<1>1. ASSUME NEW e \in Evidence, BookOld(e) PROVE RootsTyped'
  BY <1>1 DEF BookOld
<1>2. ASSUME NEW e \in Evidence, BookNew(e) PROVE RootsTyped'
  BY <1>2 DEF BookNew
<1>3. ASSUME NEW e \in Evidence, CopyFile(e) PROVE RootsTyped'
  BY <1>3 DEF CopyFile
<1>4. ASSUME NEW e \in Evidence, Fetch(e) PROVE RootsTyped'
  BY <1>4 DEF Fetch
<1>5. CASE BeginMove
  BY <1>5 DEF BeginMove, Moving, Present
<1>6. CASE CopyConfig
  BY <1>6 DEF CopyConfig
<1>7. CASE ReplaceDatabase
  <2>1. oldRoot.rows \in [Evidence -> {"absent", "old", "new"}]
    OBVIOUS
  <2>2. newRoot' \in [files : [Evidence -> {"none", "partial", "whole"}],
                      rows : [Evidence -> {"absent", "old", "new"}],
                      config : {"none", "old", "empty", "new"}]
    BY <1>7, <2>1 DEF ReplaceDatabase, Snapshot
  <2> QED
    BY <1>7, <2>2 DEF ReplaceDatabase
<1>8. CASE Rewrite
  BY <1>8 DEF Rewrite
<1>9. CASE UpdateConfig
  BY <1>9 DEF UpdateConfig, Staying
<1>10. CASE Halt
  BY <1>10 DEF Halt, TornWrites, Staying
<1> QED
  BY <1>1, <1>2, <1>3, <1>4, <1>5, <1>6, <1>7, <1>8, <1>9, <1>10 DEF RelocationNext

LEMMA RootsStep == RootsInv /\ RelocationNext => RootsInv'
<1> SUFFICES ASSUME RootsInv, RelocationNext PROVE RootsInv'
  OBVIOUS
<1>0. RootsTyped /\ RootsTyped'
  BY RootsTypedStep DEF RootsInv
<1> DEFINE Rest == GoesOn /\ Rewriting /\ Carried /\ Unmoved
                   /\ MovedIsWhole /\ MovedIsAll /\ EnteredStays
<1> USE <1>0 DEF RootsInv, RootsTyped, RelocationTypeOK, Move, GoesOn, Rewriting, Carried,
                 Unmoved, MovedIsWhole, MovedIsAll, EnteredStays, Present, Moving
<1>1. ASSUME NEW e \in Evidence, BookOld(e) PROVE Rest'
  BY <1>1 DEF BookOld
<1>2. ASSUME NEW e \in Evidence, BookNew(e) PROVE Rest'
  BY <1>2 DEF BookNew, Settled
<1>3. ASSUME NEW e \in Evidence, CopyFile(e) PROVE Rest'
  BY <1>3 DEF CopyFile
<1>4. ASSUME NEW e \in Evidence, Fetch(e) PROVE Rest'
  BY <1>4 DEF Fetch
<1>5. CASE BeginMove
  BY <1>5 DEF BeginMove
<1>6. CASE CopyConfig
  BY <1>6 DEF CopyConfig, Collides
<1>7. CASE ReplaceDatabase
  BY <1>7 DEF ReplaceDatabase, Snapshot
<1>8. CASE Rewrite
  <2>1. \A e \in Evidence :
           newRoot.rows[e] # "absent" => e \in move.left /\ newRoot.files[e] = "whole"
    BY <1>8 DEF Rewrite, Rewritable
  <2>2. \A e \in Evidence :
           newRoot'.rows[e] = IF e \in move.left THEN "new" ELSE newRoot.rows[e]
    BY <1>8 DEF Rewrite
  <2>3. /\ newRoot'.files = newRoot.files /\ newRoot'.config = "old"
        /\ move'.at = "update" /\ move'.left = {} /\ move'.begun = move.begun
        /\ UNCHANGED <<oldRoot, entered, arrived>>
    BY <1>8 DEF Rewrite
  <2>0. move.at = "rewrite" /\ \A e \in Evidence : newRoot.rows[e] = "old" <=> e \in move.left
    BY <1>8 DEF Rewrite
  <2>4. Rewriting'
    BY <2>0, <2>1, <2>2, <2>3
  <2>5. Carried'
    BY <1>8, <2>2, <2>3 DEF Rewrite
  <2>6. arrived = {} /\ entered = {}
    BY <1>8 DEF Rewrite
  <2>7. MovedIsWhole' /\ MovedIsAll' /\ EnteredStays' /\ Unmoved'
    BY <2>3, <2>6
  <2>8. GoesOn'
    BY <2>3
  <2> QED
    BY <2>4, <2>5, <2>7, <2>8
<1>9. CASE UpdateConfig
  BY <1>9 DEF UpdateConfig, Staying
<1>10. CASE Halt
  BY <1>10 DEF Halt, TornWrites, Staying
<1> QED
  <2>1. Rest'
    BY <1>1, <1>2, <1>3, <1>4, <1>5, <1>6, <1>7, <1>8, <1>9, <1>10 DEF RelocationNext
  <2> QED
    BY <1>0, <2>1

-----------------------------------------------------------------------------
(* Storage: what is listed *)

\* What a handler knows when it comes to write: the object it registers was
\* put there, and the copies it retires are others.
Backed(h, there) ==
    /\ h.op = "reconcile" =>
          /\ h.on \in Writable
          /\ h.at = "mark" => h.on # Local
          /\ h.at = "register" => there[h.on] # "none"
    /\ h.op = "import" => there[h.on] # "none"
    /\ h.op = "adopt" => there[h.on] # "none" /\ h.on \notin h.retire
    /\ h.op = "preflight" => Driver[h.on] = "google_drive"

CopiesInv ==
    /\ StorageInv
    /\ objects[Local] = "stored"
    /\ \A b \in cleared : Driver[b] = "google_drive"
    /\ \A c \in Process : Free(c) \/ Backed(pending[c], objects)

\* One primary at most in these rows, and that one available.
PrimaryOf(rows) ==
    \A b \in Backend : rows[b].primary =>
        /\ rows[b].status = "available"
        /\ \A x \in Backend : rows[x].primary => x = b

\* register_file_replica keeps the shape of the catalogue and its one primary,
\* as long as no primary is registered that is not available.
LEMMA RegisteredFits ==
    ASSUME replicas \in [Backend -> Replica], PrimaryOf(replicas), NEW b \in Backend,
           NEW status \in {"available", "corrupt"}, NEW primary \in BOOLEAN,
           primary => status = "available"
    PROVE  /\ Registered(b, status, primary) \in [Backend -> Replica]
           /\ PrimaryOf(Registered(b, status, primary))
  BY DEF Registered, PrimaryOf, Replica

\* Adoption leaves its target as the one primary.
LEMMA AdoptedFits ==
    ASSUME replicas \in [Backend -> Replica], PrimaryOf(replicas), NEW b \in Backend,
           NEW R \in SUBSET Backend, b \notin R
    PROVE  /\ Adopted(b, R) \in [Backend -> Replica]
           /\ PrimaryOf(Adopted(b, R))
<1>1. Registered(b, "available", TRUE) \in [Backend -> Replica]
  BY RegisteredFits
<1>2. PrimaryOf(Registered(b, "available", TRUE))
  BY RegisteredFits
<1> QED
  BY <1>1, <1>2 DEF Adopted, PrimaryOf, Replica

LEMMA PrimaryIsOne == OnePrimary <=> PrimaryOf(replicas)
  BY DEF OnePrimary, PrimaryOf, Listed

\* No object goes: one may be uploaded, or trashed.
Remain(there, later) == \A b \in Backend : there[b] # "none" => later[b] # "none"

\* What a handler knows outlives every step that takes no object away.
LEMMA BackedStays ==
    ASSUME NEW h \in Handler, NEW there, NEW later, Backed(h, there), Remain(there, later),
           StorageAssumption
    PROVE  Backed(h, later)
  BY DEF Backed, Remain, Handler, StorageAssumption

\* The handler of one process changes to one that knows what it should.
LEMMA HandlersStay ==
    ASSUME CopiesInv, StorageAssumption, NEW c \in Process, NEW h \in Handler \cup {Idle},
           pending' = [pending EXCEPT ![c] = h], h = Idle \/ Backed(h, objects'),
           Remain(objects, objects')
    PROVE  /\ pending' \in [Process -> Handler \cup {Idle}]
           /\ \A x \in Process : (Free(x) \/ Backed(pending[x], objects))'
<1>1. pending \in [Process -> Handler \cup {Idle}]
  BY DEF CopiesInv, StorageInv, TypeOK
<1>2. pending' \in [Process -> Handler \cup {Idle}]
  BY <1>1
<1>3. ASSUME NEW x \in Process PROVE pending'[x] = Idle \/ Backed(pending'[x], objects')
  <2>1. CASE x = c
    BY <1>1, <2>1
  <2>2. CASE x # c
    <3>1. pending'[x] = pending[x]
      BY <1>1, <2>2
    <3>2. pending[x] = Idle \/ (pending[x] \in Handler /\ Backed(pending[x], objects))
      BY <1>1 DEF CopiesInv, Free
    <3> QED
      BY <3>1, <3>2, BackedStays
  <2> QED
    BY <2>1, <2>2
<1> QED
  BY <1>2, <1>3 DEF Free

\* What one step of a process has to show.
LEMMA CopiesKept ==
    ASSUME CopiesInv, StorageAssumption, NEW c \in Process, NEW h \in Handler \cup {Idle},
           pending' = [pending EXCEPT ![c] = h], h = Idle \/ Backed(h, objects'),
           source' \in {"path", "file", "attached"},
           objects' \in [Backend -> Object], Remain(objects, objects'), objects'[Local] = "stored",
           cleared' \subseteq Backend, \A b \in cleared' : Driver[b] = "google_drive",
           replicas' \in [Backend -> Replica], PrimaryOf(replicas'),
           \A b \in Backend : replicas'[b].status = "available" => objects'[b] # "none"
    PROVE  CopiesInv'
<1>1. /\ pending' \in [Process -> Handler \cup {Idle}]
      /\ \A x \in Process : (Free(x) \/ Backed(pending[x], objects))'
  BY HandlersStay
<1>2. TypeOK'
  BY <1>1 DEF TypeOK
<1>3. OnePrimary'
  BY DEF OnePrimary, PrimaryOf, Listed
<1>4. ListedWasStored'
  BY DEF ListedWasStored, Listed
<1> QED
  BY <1>1, <1>2, <1>3, <1>4 DEF CopiesInv, StorageInv

\* A step of a process that leaves catalogue and objects alone.
LEMMA OnlyHandler ==
    ASSUME CopiesInv, StorageAssumption, NEW c \in Process, NEW h \in Handler \cup {Idle},
           pending' = [pending EXCEPT ![c] = h], h = Idle \/ Backed(h, objects),
           source' \in {"path", "file", "attached"},
           UNCHANGED <<replicas, objects>>,
           cleared' \subseteq Backend, \A b \in cleared' : Driver[b] = "google_drive"
    PROVE  CopiesInv'
<1>1. /\ objects' \in [Backend -> Object] /\ objects'[Local] = "stored"
      /\ replicas' \in [Backend -> Replica] /\ PrimaryOf(replicas')
      /\ \A b \in Backend : replicas'[b].status = "available" => objects'[b] # "none"
  BY PrimaryIsOne DEF CopiesInv, StorageInv, TypeOK, ListedWasStored, Listed
<1>2. Remain(objects, objects')
  BY DEF Remain
<1> QED
  BY <1>1, <1>2, CopiesKept

\* A step of a process that registers a copy whose object was put there.
LEMMA OnlyCatalogue ==
    ASSUME CopiesInv, StorageAssumption, NEW c \in Process, NEW h \in Handler \cup {Idle},
           pending' = [pending EXCEPT ![c] = h], h = Idle \/ Backed(h, objects),
           NEW rows \in [Backend -> Replica], PrimaryOf(rows), Catalogue(rows),
           \A b \in Backend : rows[b].status = "available" => objects[b] # "none",
           UNCHANGED <<source, objects>>
    PROVE  CopiesInv'
<1>1. /\ objects' \in [Backend -> Object] /\ objects'[Local] = "stored"
      /\ source' \in {"path", "file", "attached"}
      /\ cleared' \subseteq Backend /\ \A b \in cleared' : Driver[b] = "google_drive"
  BY DEF CopiesInv, StorageInv, TypeOK, Catalogue
<1>2. Remain(objects, objects')
  BY DEF Remain
<1>3. /\ replicas' \in [Backend -> Replica] /\ PrimaryOf(replicas')
      /\ \A b \in Backend : replicas'[b].status = "available" => objects'[b] # "none"
  BY DEF Catalogue
<1> QED
  BY <1>1, <1>2, <1>3, CopiesKept

\* The handler of a process that is not free, by its kind.
LEMMA HandlerOf ==
    ASSUME CopiesInv, NEW c \in Process, ~Free(c)
    PROVE  /\ pending[c] \in Handler
           /\ Backed(pending[c], objects)
           /\ pending[c].op = "source" =>
                 pending[c] \in [op : {"source"}, at : {"file", "attach", "register"}]
           /\ pending[c].op = "reconcile" =>
                 pending[c] \in [op : {"reconcile"}, on : Backend,
                                 at : {"mark", "classify", "copy", "register"}]
           /\ pending[c].op = "import" =>
                 pending[c] \in [op : {"import"}, on : Backend,
                                 at : {"file", "attach", "register", "original", "promote"}]
           /\ pending[c].op = "adopt" =>
                 pending[c] \in [op : {"adopt"}, on : AdoptTarget, retire : SUBSET Backend]
           /\ pending[c].op = "preflight" => pending[c] \in [op : {"preflight"}, on : Backend]
<1>1. pending[c] \in Handler /\ Backed(pending[c], objects)
  BY DEF CopiesInv, StorageInv, TypeOK, Free
<1> QED
  BY <1>1 DEF Handler

\* A handler that goes on to its next stage knows what it knew.
LEMMA NextStage ==
    ASSUME CopiesInv, NEW c \in Process, ~Free(c), NEW stage,
           \/ pending[c].op = "source" /\ stage \in {"attach", "register"}
           \/ pending[c].op = "import" /\ stage \in {"attach", "register", "original", "promote"}
           \/ pending[c].op = "reconcile" /\ stage \in {"classify", "copy"}
    PROVE  /\ [pending[c] EXCEPT !.at = stage] \in Handler
           /\ Backed([pending[c] EXCEPT !.at = stage], objects)
<1>1. CASE pending[c].op = "source" /\ stage \in {"attach", "register"}
  BY <1>1, HandlerOf DEF Handler, Backed
<1>2. CASE pending[c].op = "import" /\ stage \in {"attach", "register", "original", "promote"}
  BY <1>2, HandlerOf DEF Handler, Backed
<1>3. CASE pending[c].op = "reconcile" /\ stage \in {"classify", "copy"}
  BY <1>3, HandlerOf DEF Handler, Backed
<1> QED
  BY <1>1, <1>2, <1>3

\* Each handler of a process, from its start to its end or its failure.
LEMMA CopiesStep ==
    ASSUME CopiesInv, StorageAssumption, Next
    PROVE  CopiesInv'
<1> DEFINE at(c, stage) == [pending[c] EXCEPT !.at = stage]
<1>0. /\ source \in {"path", "file", "attached"} /\ replicas \in [Backend -> Replica]
      /\ objects \in [Backend -> Object] /\ cleared \subseteq Backend
      /\ pending \in [Process -> Handler \cup {Idle}] /\ PrimaryOf(replicas)
      /\ \A b \in Backend : replicas[b].status = "available" => objects[b] # "none"
      /\ \A b \in cleared : Driver[b] = "google_drive"
  BY PrimaryIsOne DEF CopiesInv, StorageInv, TypeOK, ListedWasStored, Listed
<1>1. ASSUME NEW c \in Process, BeginIntake(c) \/ BeginMigrate(c) PROVE CopiesInv'
  <2>1. [op |-> "source", at |-> "file"] \in Handler
    BY DEF Handler
  <2>2. Backed([op |-> "source", at |-> "file"], objects)
    BY DEF Backed
  <2> QED
    BY <1>0, <1>1, <2>1, <2>2, OnlyHandler DEF BeginIntake, BeginMigrate, Begin
<1>2. ASSUME NEW c \in Process, NEW b \in Backend, BeginImport(c, b) PROVE CopiesInv'
  <2> DEFINE h == [op |-> "import", on |-> b, at |-> "file"]
  <2>1. h \in Handler
    BY DEF Handler
  <2>2. Backed(h, objects)
    BY <1>2 DEF BeginImport, Verifiable, Backed
  <2> QED
    BY <1>0, <1>2, <2>1, <2>2, OnlyHandler DEF BeginImport, Begin
<1>3. ASSUME NEW c \in Process, FileRow(c) PROVE CopiesInv'
  <2>1. at(c, "attach") \in Handler /\ Backed(at(c, "attach"), objects)
    BY <1>3, NextStage DEF FileRow, Ingesting, At, Doing
  <2>2. pending' = [pending EXCEPT ![c] = at(c, "attach")]
    BY <1>3, <1>0 DEF FileRow, GoTo
  <2>3. source' \in {"path", "file", "attached"} /\ UNCHANGED <<replicas, objects, cleared>>
    BY <1>0, <1>3 DEF FileRow
  <2> QED
    BY <1>0, <2>1, <2>2, <2>3, OnlyHandler
<1>4. ASSUME NEW c \in Process, Attach(c) PROVE CopiesInv'
  <2>1. at(c, "register") \in Handler /\ Backed(at(c, "register"), objects)
    BY <1>4, NextStage DEF Attach, Ingesting, At, Doing, Backed
  <2>2. pending' = [pending EXCEPT ![c] = at(c, "register")]
    BY <1>4, <1>0 DEF Attach, GoTo
  <2>3. source' \in {"path", "file", "attached"} /\ UNCHANGED <<replicas, objects, cleared>>
    BY <1>4 DEF Attach
  <2> QED
    BY <1>0, <2>1, <2>2, <2>3, OnlyHandler
<1>5. ASSUME NEW c \in Process, RegisterSource(c) PROVE CopiesInv'
  <2> DEFINE rows == Registered(Local, "available", TRUE)
  <2>1. rows \in [Backend -> Replica] /\ PrimaryOf(rows)
    BY <1>0, RegisteredFits DEF StorageAssumption
  <2>2. \A b \in Backend : rows[b].status = "available" => objects[b] # "none"
    BY <1>0 DEF Registered, CopiesInv, Replica
  <2>3. PICK h \in Handler \cup {Idle} :
           pending' = [pending EXCEPT ![c] = h] /\ (h = Idle \/ Backed(h, objects))
    <3>1. CASE pending[c].op = "import"
      <4>1. at(c, "original") \in Handler /\ Backed(at(c, "original"), objects)
        BY <1>5, <3>1, NextStage DEF RegisterSource, Ingesting, At, Doing
      <4> QED
        BY <1>5, <3>1, <4>1, <1>0 DEF RegisterSource, GoTo
    <3>2. CASE pending[c].op # "import"
      BY <1>5, <3>2 DEF RegisterSource, Done
    <3> QED
      BY <3>1, <3>2
  <2>4. Catalogue(rows) /\ UNCHANGED <<source, objects>>
    BY <1>5 DEF RegisterSource
  <2> HIDE DEF rows
  <2> QED
    BY <2>1, <2>2, <2>3, <2>4, OnlyCatalogue
<1>6. ASSUME NEW c \in Process, NEW b \in Backend, BeginReconcile(c, b) PROVE CopiesInv'
  <2> DEFINE h(stage) == [op |-> "reconcile", on |-> b, at |-> stage]
  <2>1. PICK stage \in {"mark", "classify"} :
           /\ stage = "mark" => MayFail(b)
           /\ Begin(c, h(stage)) /\ b \in Writable
    BY <1>6 DEF BeginReconcile, Reconcilable
  <2>2. h(stage) \in Handler
    BY DEF Handler
  <2>3. stage = "mark" => b # Local
    BY <2>1 DEF MayFail, CopiesInv, StorageAssumption
  <2>4. Backed(h(stage), objects)
    BY <2>1, <2>3 DEF Backed
  <2> QED
    BY <1>0, <2>1, <2>2, <2>4, OnlyHandler DEF Begin
<1>7. ASSUME NEW c \in Process, MarkCorrupt(c) PROVE CopiesInv'
  <2> DEFINE rows == Registered(pending[c].on, "corrupt", FALSE)
  <2>1. pending[c].on \in Backend
    BY <1>7, HandlerOf DEF MarkCorrupt, At, Doing
  <2>2. rows \in [Backend -> Replica] /\ PrimaryOf(rows)
    BY <1>0, <2>1, RegisteredFits
  <2>3. \A b \in Backend : rows[b].status = "available" => objects[b] # "none"
    BY <1>0, <2>1 DEF Registered, Replica
  <2>4. at(c, "classify") \in Handler /\ Backed(at(c, "classify"), objects)
    BY <1>7, NextStage DEF MarkCorrupt, At, Doing
  <2>5. /\ pending' = [pending EXCEPT ![c] = at(c, "classify")]
        /\ Catalogue(rows) /\ UNCHANGED <<source, objects>>
    BY <1>0, <1>7 DEF MarkCorrupt, GoTo
  <2> HIDE DEF rows, at
  <2> QED
    BY <2>2, <2>3, <2>4, <2>5, OnlyCatalogue
<1>8. ASSUME NEW c \in Process, Classify(c) PROVE CopiesInv'
  <2>1. at(c, "copy") \in Handler /\ Backed(at(c, "copy"), objects)
    BY <1>8, NextStage DEF Classify, At, Doing
  <2>2. PICK h \in Handler \cup {Idle} :
           pending' = [pending EXCEPT ![c] = h] /\ (h = Idle \/ Backed(h, objects))
    BY <1>0, <1>8, <2>1 DEF Classify, GoTo, Done
  <2> QED
    BY <1>0, <1>8, <2>2, OnlyHandler DEF Classify
<1>9. ASSUME NEW c \in Process, CopyTo(c) PROVE CopiesInv'
  <2> DEFINE h == at(c, "register")
  <2>1. pending[c] \in [op : {"reconcile"}, on : Backend,
                        at : {"mark", "classify", "copy", "register"}]
    BY <1>9, HandlerOf DEF CopyTo, At, Doing
  <2>2. pending[c].on \in Writable
    BY <1>9, HandlerOf DEF CopyTo, At, Doing, Backed
  <2>3. objects' = [objects EXCEPT ![pending[c].on] = "stored"]
    BY <1>9 DEF CopyTo
  <2>4. /\ objects' \in [Backend -> Object] /\ objects'[Local] = "stored"
        /\ Remain(objects, objects') /\ objects'[pending[c].on] # "none"
    BY <1>0, <2>1, <2>3 DEF Object, Remain, CopiesInv, StorageAssumption
  <2>5. h \in Handler
    BY <2>1 DEF Handler
  <2>6. Backed(h, objects')
    BY <2>1, <2>2, <2>4 DEF Backed
  <2>7. pending' = [pending EXCEPT ![c] = h]
    BY <1>0, <1>9 DEF CopyTo, GoTo
  <2>8. /\ source' \in {"path", "file", "attached"} /\ replicas' \in [Backend -> Replica]
        /\ PrimaryOf(replicas')
        /\ cleared' \subseteq Backend /\ \A b \in cleared' : Driver[b] = "google_drive"
        /\ \A b \in Backend : replicas'[b].status = "available" => objects'[b] # "none"
    BY <1>0, <1>9, <2>4 DEF CopyTo, Remain
  <2> HIDE DEF h
  <2> QED
    BY <2>4, <2>5, <2>6, <2>7, <2>8, CopiesKept
<1>10. ASSUME NEW c \in Process, RegisterCopy(c) PROVE CopiesInv'
  <2> DEFINE rows == Registered(pending[c].on, "available", FALSE)
  <2>1. pending[c].on \in Backend /\ objects[pending[c].on] # "none"
    BY <1>10, HandlerOf DEF RegisterCopy, At, Doing, Backed
  <2>2. rows \in [Backend -> Replica] /\ PrimaryOf(rows)
    BY <1>0, <2>1, RegisteredFits
  <2>3. \A b \in Backend : rows[b].status = "available" => objects[b] # "none"
    BY <1>0, <2>1 DEF Registered, Replica
  <2>4. pending' = [pending EXCEPT ![c] = Idle] /\ Catalogue(rows) /\ UNCHANGED <<source, objects>>
    BY <1>10 DEF RegisterCopy, Done
  <2> HIDE DEF rows
  <2> QED
    BY <2>2, <2>3, <2>4, OnlyCatalogue
<1>11. ASSUME NEW c \in Process, RegisterOriginal(c) PROVE CopiesInv'
  <2> DEFINE rows == Registered(pending[c].on, "available", FALSE)
  <2>1. pending[c].on \in Backend /\ objects[pending[c].on] # "none"
    BY <1>11, HandlerOf DEF RegisterOriginal, At, Doing, Backed
  <2>2. rows \in [Backend -> Replica] /\ PrimaryOf(rows)
    BY <1>0, <2>1, RegisteredFits
  <2>3. \A b \in Backend : rows[b].status = "available" => objects[b] # "none"
    BY <1>0, <2>1 DEF Registered, Replica
  <2>4. at(c, "promote") \in Handler /\ Backed(at(c, "promote"), objects)
    BY <1>11, NextStage DEF RegisterOriginal, At, Doing
  <2>5. /\ pending' = [pending EXCEPT ![c] = at(c, "promote")]
        /\ Catalogue(rows) /\ UNCHANGED <<source, objects>>
    BY <1>0, <1>11 DEF RegisterOriginal, GoTo
  <2> HIDE DEF rows, at
  <2> QED
    BY <2>2, <2>3, <2>4, <2>5, OnlyCatalogue
<1>12. ASSUME NEW c \in Process, Promote(c) PROVE CopiesInv'
  <2> DEFINE b == pending[c].on
             rows == Registered(b, replicas[b].status, TRUE)
  <2>1. b \in Backend
    BY <1>12, HandlerOf DEF Promote, At, Doing
  <2>2. pending' = [pending EXCEPT ![c] = Idle] /\ UNCHANGED <<source, objects>>
    BY <1>12 DEF Promote, Done
  <2>3. CASE Listed(b)
    <3>1. replicas[b].status = "available"
      BY <2>3 DEF Listed
    <3>2. rows \in [Backend -> Replica] /\ PrimaryOf(rows)
      BY <1>0, <2>1, <3>1, RegisteredFits
    <3>3. \A x \in Backend : rows[x].status = "available" => objects[x] # "none"
      BY <1>0, <2>1, <3>1 DEF Registered, Replica
    <3>4. Catalogue(rows)
      BY <1>12, <2>3 DEF Promote, Promotable
    <3> HIDE DEF rows
    <3> QED
      BY <2>2, <3>2, <3>3, <3>4, OnlyCatalogue
  <2>4. CASE ~Listed(b)
    <3>1. UNCHANGED <<replicas, cleared>>
      BY <1>12, <2>4 DEF Promote, Promotable
    <3> QED
      BY <1>0, <2>2, <3>1, OnlyHandler
  <2> QED
    BY <2>3, <2>4
<1>13. ASSUME NEW c \in Process, NEW b \in AdoptTarget, NEW R \in SUBSET Backend, BeginAdopt(c, b, R)
       PROVE CopiesInv'
  <2> DEFINE h == [op |-> "adopt", on |-> b, retire |-> {x \in R \ {b} : Kept(x)}]
  <2>1. h \in Handler
    BY DEF Handler
  <2>2. Backed(h, objects)
    BY <1>13 DEF BeginAdopt, Verifiable, Backed
  <2> QED
    BY <1>0, <1>13, <2>1, <2>2, OnlyHandler DEF BeginAdopt, Begin
<1>14. ASSUME NEW c \in Process, Adopt(c) PROVE CopiesInv'
  <2> DEFINE b == pending[c].on
             rows == Adopted(b, pending[c].retire)
  <2>1. /\ b \in AdoptTarget /\ pending[c].retire \in SUBSET Backend
        /\ b \notin pending[c].retire /\ objects[b] # "none"
    BY <1>14, HandlerOf DEF Adopt, Doing, Backed
  <2>2. b \in Backend
    BY <2>1 DEF StorageAssumption
  <2>3. rows \in [Backend -> Replica] /\ PrimaryOf(rows)
    BY <1>0, <2>1, <2>2, AdoptedFits
  <2>4. \A x \in Backend : rows[x].status = "available" => objects[x] # "none"
    BY <1>0, <2>1, <2>2 DEF Adopted, Registered, Replica
  <2>5. pending' = [pending EXCEPT ![c] = Idle] /\ Catalogue(rows) /\ UNCHANGED <<source, objects>>
    BY <1>14 DEF Adopt, Done
  <2> HIDE DEF rows
  <2> QED
    BY <2>3, <2>4, <2>5, OnlyCatalogue
<1>15. ASSUME NEW c \in Process, NEW a \in Backend, NEW y \in Backend, NEW m \in Backend,
              BeginPreflight(c, a, y, m)
       PROVE CopiesInv'
  <2> DEFINE h == [op |-> "preflight", on |-> m]
  <2>1. h \in Handler
    BY DEF Handler
  <2>2. Backed(h, objects)
    BY <1>15 DEF BeginPreflight, Backed
  <2> QED
    BY <1>0, <1>15, <2>1, <2>2, OnlyHandler DEF BeginPreflight, Begin
<1>16. ASSUME NEW c \in Process, Clear(c) PROVE CopiesInv'
  <2>1. pending[c].on \in Backend /\ Driver[pending[c].on] = "google_drive"
    BY <1>16, HandlerOf DEF Clear, Doing, Backed
  <2>2. cleared' \subseteq Backend /\ \A b \in cleared' : Driver[b] = "google_drive"
    BY <1>0, <1>16, <2>1 DEF Clear
  <2> QED
    BY <1>0, <1>16, <2>2, OnlyHandler DEF Clear, Done
<1>17. ASSUME NEW c \in Process, Abandon(c) PROVE CopiesInv'
  BY <1>0, <1>17, OnlyHandler DEF Abandon, Done
<1>18. ASSUME NEW b \in Backend, Trash(b) PROVE CopiesInv'
  <2>1. b # Local
    BY <1>0, <1>18 DEF Trash, StorageAssumption
  <2>2. objects' = [objects EXCEPT ![b] = "trashed"] /\ cleared' = {}
        /\ UNCHANGED <<source, replicas, pending>>
    BY <1>18 DEF Trash
  <2>3. /\ objects' \in [Backend -> Object] /\ objects'[Local] = "stored"
        /\ Remain(objects, objects')
    BY <1>0, <2>1, <2>2 DEF Object, Remain, CopiesInv, StorageAssumption
  <2>4. ASSUME NEW c \in Process PROVE pending[c] = Idle \/ Backed(pending[c], objects')
    <3>1. pending[c] = Idle \/ (pending[c] \in Handler /\ Backed(pending[c], objects))
      BY <1>0 DEF CopiesInv, Free
    <3> QED
      BY <2>3, <3>1, BackedStays
  <2>5. TypeOK' /\ ListedWasStored'
    BY <1>0, <2>2, <2>3 DEF TypeOK, ListedWasStored, Listed, Remain
  <2>6. OnePrimary'
    BY <2>2 DEF OnePrimary, Listed, CopiesInv, StorageInv
  <2> QED
    BY <2>2, <2>3, <2>4, <2>5, <2>6 DEF CopiesInv, StorageInv, Free
<1> QED
  BY <1>1, <1>2, <1>3, <1>4, <1>5, <1>6, <1>7, <1>8, <1>9, <1>10, <1>11, <1>12, <1>13, <1>14,
     <1>15, <1>16, <1>17, <1>18 DEF Next

LEMMA CopiesStart == Init /\ StorageAssumption => CopiesInv
  BY DEF Init, CopiesInv, StorageInv, TypeOK, OnePrimary, ListedWasStored, Listed, Replica, Object,
         Free, StorageAssumption

-----------------------------------------------------------------------------
(* Storage: what can be read *)

\* One Google archive at most is read-only, as PROVISIONING.md sets them up: the
\* folder that is cleaned up is then never one that adoption turns to.
OneArchive ==
    \A a \in Backend \ Writable, b \in Backend \ Writable :
        Driver[a] = "google_drive" /\ Driver[b] = "google_drive" => a = b

Catalogued == \E b \in Backend : replicas[b].status # "absent"

\* What keeps a copy readable: the one in the private root, listed until an
\* archive takes its place whose object nobody trashes.
Anchored ==
    Catalogued =>
        \/ Listed(Local)
        \/ \E b \in AdoptTarget : Readable(b)

\* What handlers know of it.
Sure(h, known, there) ==
    /\ h.op = "reconcile" => (h.at \in {"mark", "register"} => known)
    /\ h.op = "import" => (h.at \in {"original", "promote"} => known)
    /\ h.op = "adopt" => there[h.on] = "stored"
    /\ h.op = "preflight" => h.on \notin AdoptTarget

ServableInv ==
    /\ CopiesInv /\ Anchored
    /\ cleared \cap AdoptTarget = {}
    /\ \A c \in Process : Free(c) \/ Sure(pending[c], Catalogued, objects)

LEMMA ServableMeans == ASSUME ServableInv, StorageAssumption PROVE AlwaysServable
  BY DEF ServableInv, CopiesInv, Anchored, AlwaysServable, Catalogued, Readable, StorageAssumption

\* Nothing leaves the catalogue, and no archive loses its object.
Endures ==
    /\ Catalogued => Catalogued'
    /\ \A b \in AdoptTarget : objects[b] = "stored" => objects'[b] = "stored"

LEMMA SureStays ==
    ASSUME NEW h \in Handler, NEW known \in BOOLEAN, NEW later \in BOOLEAN, NEW there, NEW then,
           Sure(h, known, there), known => later,
           \A b \in AdoptTarget : there[b] = "stored" => then[b] = "stored"
    PROVE  Sure(h, later, then)
  BY DEF Sure, Handler

\* What one step of a process has to show.
LEMMA ServableKept ==
    ASSUME ServableInv, CopiesInv', NEW c \in Process, NEW h,
           pending' = [pending EXCEPT ![c] = h], h = Idle \/ Sure(h, Catalogued', objects'),
           Endures, Anchored', cleared' \cap AdoptTarget = {}
    PROVE  ServableInv'
<1>1. pending \in [Process -> Handler \cup {Idle}]
  BY DEF ServableInv, CopiesInv, StorageInv, TypeOK
<1>2. ASSUME NEW x \in Process PROVE pending'[x] = Idle \/ Sure(pending'[x], Catalogued', objects')
  <2>1. CASE x = c
    BY <1>1, <2>1
  <2>2. CASE x # c
    <3>1. pending'[x] = pending[x]
      BY <1>1, <2>2
    <3>2. pending[x] = Idle \/ (pending[x] \in Handler /\ Sure(pending[x], Catalogued, objects))
      BY <1>1 DEF ServableInv, Free
    <3>3. Catalogued \in BOOLEAN /\ Catalogued' \in BOOLEAN
      BY DEF Catalogued
    <3> QED
      BY <3>1, <3>2, <3>3, SureStays DEF Endures
  <2> QED
    BY <2>1, <2>2
<1> QED
  BY <1>2 DEF ServableInv, Free

\* The same for a step that leaves catalogue and objects alone.
LEMMA ServableAlone ==
    ASSUME ServableInv, CopiesInv', NEW c \in Process, NEW h,
           pending' = [pending EXCEPT ![c] = h], h = Idle \/ Sure(h, Catalogued, objects),
           UNCHANGED <<replicas, objects>>, cleared' \cap AdoptTarget = {}
    PROVE  ServableInv'
<1>1. Catalogued' = Catalogued /\ Endures /\ Anchored'
  BY DEF Catalogued, Endures, ServableInv, Anchored, Listed, Readable
<1> QED
  BY <1>1, ServableKept

\* And for one that writes the catalogue: rows do not disappear.
LEMMA ServableWritten ==
    ASSUME ServableInv, CopiesInv', NEW c \in Process, NEW h, NEW rows,
           pending' = [pending EXCEPT ![c] = h], h = Idle \/ Sure(h, TRUE, objects),
           Catalogue(rows), \E b \in Backend : rows[b].status # "absent",
           \/ rows[Local].status = "available"
           \/ \E b \in AdoptTarget : rows[b].status = "available" /\ objects[b] = "stored",
           UNCHANGED objects
    PROVE  ServableInv'
<1>1. Catalogued' = TRUE /\ Endures /\ Anchored'
  BY DEF Catalogued, Endures, Anchored, Listed, Readable, Catalogue
<1>2. cleared' \cap AdoptTarget = {}
  BY DEF Catalogue, ServableInv
<1> QED
  BY <1>1, <1>2, ServableKept

LEMMA ServableStep ==
    ASSUME ServableInv, StorageAssumption, OneArchive, Next
    PROVE  ServableInv'
<1> DEFINE at(c, stage) == [pending[c] EXCEPT !.at = stage]
<1>a. CopiesInv /\ CopiesInv'
  BY CopiesStep DEF ServableInv
<1>b. /\ pending \in [Process -> Handler \cup {Idle}] /\ replicas \in [Backend -> Replica]
      /\ objects[Local] = "stored" /\ cleared \cap AdoptTarget = {}
      /\ Local \in Backend \ AdoptTarget /\ AdoptTarget \subseteq Backend
      /\ Writable \cap AdoptTarget = {}
  BY DEF ServableInv, CopiesInv, StorageInv, TypeOK, StorageAssumption
<1>c. ASSUME NEW c \in Process, ~Free(c) PROVE Sure(pending[c], Catalogued, objects)
  BY <1>c DEF ServableInv
<1>1. ASSUME NEW c \in Process, BeginIntake(c) \/ BeginMigrate(c) PROVE ServableInv'
  <2>1. Sure([op |-> "source", at |-> "file"], Catalogued, objects)
    BY DEF Sure
  <2> QED
    BY <1>a, <1>b, <1>1, <2>1, ServableAlone DEF BeginIntake, BeginMigrate, Begin
<1>2. ASSUME NEW c \in Process, NEW b \in Backend, BeginImport(c, b) PROVE ServableInv'
  <2>1. Sure([op |-> "import", on |-> b, at |-> "file"], Catalogued, objects)
    BY DEF Sure
  <2> QED
    BY <1>a, <1>b, <1>2, <2>1, ServableAlone DEF BeginImport, Begin
<1>3. ASSUME NEW c \in Process, FileRow(c) \/ Attach(c) PROVE ServableInv'
  <2>1. PICK stage \in {"attach", "register"} :
           pending' = [pending EXCEPT ![c] = at(c, stage)] /\ UNCHANGED <<replicas, objects, cleared>>
    BY <1>b, <1>3 DEF FileRow, Attach, GoTo
  <2>2. pending[c].op \in {"source", "import"}
    BY <1>3 DEF FileRow, Attach, Ingesting, At, Doing
  <2>3. at(c, stage).op = pending[c].op /\ at(c, stage).at = stage
    BY <1>a, <1>3, HandlerOf, <2>2 DEF FileRow, Attach, Ingesting, At, Doing
  <2>4. Sure(at(c, stage), Catalogued, objects)
    BY <2>2, <2>3 DEF Sure
  <2> HIDE DEF at
  <2> QED
    BY <1>a, <1>b, <2>1, <2>4, ServableAlone
<1>4. ASSUME NEW c \in Process, RegisterSource(c) PROVE ServableInv'
  <2> DEFINE rows == Registered(Local, "available", TRUE)
  <2>1. rows[Local].status = "available"
    BY <1>b DEF Registered
  <2>2. PICK h : pending' = [pending EXCEPT ![c] = h] /\ (h = Idle \/ Sure(h, TRUE, objects))
    <3>1. CASE pending[c].op = "import"
      <4>1. at(c, "original").op = "import" /\ at(c, "original").at = "original"
        BY <1>a, <1>4, <3>1, HandlerOf DEF RegisterSource, Ingesting, At, Doing
      <4>2. Sure(at(c, "original"), TRUE, objects)
        BY <4>1 DEF Sure
      <4> QED
        BY <1>b, <1>4, <3>1, <4>2 DEF RegisterSource, GoTo
    <3>2. CASE pending[c].op # "import"
      BY <1>4, <3>2 DEF RegisterSource, Done
    <3> QED
      BY <3>1, <3>2
  <2>3. Catalogue(rows) /\ UNCHANGED objects
    BY <1>4 DEF RegisterSource
  <2> HIDE DEF rows
  <2> QED
    BY <1>a, <1>b, <2>1, <2>2, <2>3, ServableWritten
<1>5. ASSUME NEW c \in Process, NEW b \in Backend, BeginReconcile(c, b) PROVE ServableInv'
  <2> DEFINE h(stage) == [op |-> "reconcile", on |-> b, at |-> stage]
  <2>1. PICK stage \in {"mark", "classify"} : (stage = "mark" => Listed(b)) /\ Begin(c, h(stage))
    BY <1>5 DEF BeginReconcile
  <2>2. Sure(h(stage), Catalogued, objects)
    BY <2>1 DEF Sure, Catalogued, Listed
  <2> QED
    BY <1>a, <1>b, <2>1, <2>2, ServableAlone DEF Begin
<1>6. ASSUME NEW c \in Process, MarkCorrupt(c) PROVE ServableInv'
  <2> DEFINE b == pending[c].on
             rows == Registered(b, "corrupt", FALSE)
  <2>1. /\ pending[c] \in [op : {"reconcile"}, on : Backend,
                            at : {"mark", "classify", "copy", "register"}]
        /\ b \in Writable /\ b # Local /\ Catalogued
    BY <1>a, <1>c, <1>6, HandlerOf DEF MarkCorrupt, At, Doing, Backed, Sure
  <2>2. ASSUME NEW x \in Backend, x # b PROVE rows[x].status = replicas[x].status
    BY <1>b, <2>2 DEF Registered, Replica
  <2>3. rows[b].status # "absent"
    BY <2>1 DEF Registered
  <2>4. \/ rows[Local].status = "available"
        \/ \E x \in AdoptTarget : rows[x].status = "available" /\ objects[x] = "stored"
    BY <1>b, <2>1, <2>2 DEF ServableInv, Anchored, Listed, Readable
  <2>5. Sure(at(c, "classify"), TRUE, objects)
    BY <2>1 DEF Sure
  <2>6. /\ pending' = [pending EXCEPT ![c] = at(c, "classify")]
        /\ Catalogue(rows) /\ UNCHANGED objects
    BY <1>b, <1>6 DEF MarkCorrupt, GoTo
  <2> HIDE DEF rows, at
  <2> QED
    BY <1>a, <2>1, <2>3, <2>4, <2>5, <2>6, ServableWritten
<1>7. ASSUME NEW c \in Process, Classify(c) PROVE ServableInv'
  <2>1. pending[c] \in [op : {"reconcile"}, on : Backend,
                        at : {"mark", "classify", "copy", "register"}]
    BY <1>a, <1>7, HandlerOf DEF Classify, At, Doing
  <2>2. Sure(at(c, "copy"), Catalogued, objects)
    BY <2>1 DEF Sure
  <2>3. PICK h : pending' = [pending EXCEPT ![c] = h] /\ (h = Idle \/ Sure(h, Catalogued, objects))
    BY <1>b, <1>7, <2>2 DEF Classify, GoTo, Done
  <2> QED
    BY <1>a, <1>b, <1>7, <2>3, ServableAlone DEF Classify
<1>8. ASSUME NEW c \in Process, CopyTo(c) PROVE ServableInv'
  <2>1. pending[c] \in [op : {"reconcile"}, on : Backend,
                        at : {"mark", "classify", "copy", "register"}]
    BY <1>a, <1>8, HandlerOf DEF CopyTo, At, Doing
  <2>2. Catalogued
    BY <1>8 DEF CopyTo, Readable, Listed, Catalogued
  <2>3. /\ objects' = [objects EXCEPT ![pending[c].on] = "stored"]
        /\ UNCHANGED <<replicas, cleared>>
        /\ pending' = [pending EXCEPT ![c] = at(c, "register")]
    BY <1>b, <1>8 DEF CopyTo, GoTo
  <2>4. objects \in [Backend -> Object]
    BY <1>a DEF CopiesInv, StorageInv, TypeOK
  <2>5. \A b \in Backend : objects[b] = "stored" => objects'[b] = "stored"
    BY <2>1, <2>3, <2>4
  <2>6. Catalogued' /\ Endures
    BY <1>b, <2>2, <2>3, <2>5 DEF Endures, Catalogued
  <2>7. Anchored'
    BY <1>b, <2>2, <2>3, <2>5 DEF ServableInv, Anchored, Listed, Readable
  <2>8. Sure(at(c, "register"), Catalogued', objects')
    BY <2>1, <2>6 DEF Sure
  <2> HIDE DEF at
  <2> QED
    BY <1>a, <1>b, <2>3, <2>6, <2>7, <2>8, ServableKept
<1>9. ASSUME NEW c \in Process, RegisterCopy(c) PROVE ServableInv'
  <2> DEFINE b == pending[c].on
             rows == Registered(b, "available", FALSE)
  <2>1. b \in Writable /\ b \in Backend /\ Catalogued
    BY <1>a, <1>c, <1>9, HandlerOf DEF RegisterCopy, At, Doing, Backed, Sure
  <2>2. ASSUME NEW x \in Backend, x # b PROVE rows[x].status = replicas[x].status
    BY <1>b, <2>2 DEF Registered, Replica
  <2>3. rows[b].status = "available"
    BY <2>1 DEF Registered
  <2>4. \/ rows[Local].status = "available"
        \/ \E x \in AdoptTarget : rows[x].status = "available" /\ objects[x] = "stored"
    BY <1>b, <2>1, <2>2, <2>3 DEF ServableInv, Anchored, Listed, Readable
  <2>5. pending' = [pending EXCEPT ![c] = Idle] /\ Catalogue(rows) /\ UNCHANGED objects
    BY <1>9 DEF RegisterCopy, Done
  <2> HIDE DEF rows
  <2> QED
    BY <1>a, <2>1, <2>3, <2>4, <2>5, ServableWritten
<1>10. ASSUME NEW c \in Process, RegisterOriginal(c) PROVE ServableInv'
  <2> DEFINE b == pending[c].on
             rows == Registered(b, "available", FALSE)
  <2>1. /\ pending[c] \in [op : {"import"}, on : Backend,
                            at : {"file", "attach", "register", "original", "promote"}]
        /\ Catalogued /\ objects[b] = "stored"
    BY <1>a, <1>c, <1>10, HandlerOf DEF RegisterOriginal, At, Doing, Sure, Verifiable
  <2>2. ASSUME NEW x \in Backend, x # b PROVE rows[x].status = replicas[x].status
    BY <1>b, <2>2 DEF Registered, Replica
  <2>3. rows[b].status = "available"
    BY <2>1 DEF Registered
  <2>4. \/ rows[Local].status = "available"
        \/ \E x \in AdoptTarget : rows[x].status = "available" /\ objects[x] = "stored"
    <3>1. CASE Listed(Local)
      BY <1>b, <2>2, <2>3, <3>1 DEF Listed
    <3>2. CASE ~Listed(Local)
      <4>1. PICK x \in AdoptTarget : replicas[x].status = "available" /\ objects[x] = "stored"
        BY <2>1, <3>2 DEF ServableInv, Anchored, Listed, Readable
      <4>2. rows[x].status = "available"
        BY <1>b, <2>2, <2>3, <4>1
      <4> QED
        BY <4>1, <4>2
    <3> QED
      BY <3>1, <3>2
  <2>5. Sure(at(c, "promote"), TRUE, objects)
    BY <2>1 DEF Sure
  <2>6. /\ pending' = [pending EXCEPT ![c] = at(c, "promote")]
        /\ Catalogue(rows) /\ UNCHANGED objects
    BY <1>b, <1>10 DEF RegisterOriginal, GoTo
  <2> HIDE DEF rows, at
  <2> QED
    BY <1>a, <2>1, <2>3, <2>4, <2>5, <2>6, ServableWritten
<1>11. ASSUME NEW c \in Process, Promote(c) PROVE ServableInv'
  <2> DEFINE b == pending[c].on
             rows == Registered(b, replicas[b].status, TRUE)
  <2>1. b \in Backend /\ Catalogued
    BY <1>a, <1>c, <1>11, HandlerOf DEF Promote, At, Doing, Sure
  <2>2. pending' = [pending EXCEPT ![c] = Idle] /\ UNCHANGED objects
    BY <1>11 DEF Promote, Done
  <2>3. CASE Listed(b)
    <3>1. ASSUME NEW x \in Backend PROVE rows[x].status = replicas[x].status
      BY <1>b DEF Registered, Replica
    <3>2. \/ rows[Local].status = "available"
          \/ \E x \in AdoptTarget : rows[x].status = "available" /\ objects[x] = "stored"
      BY <1>b, <2>1, <3>1 DEF ServableInv, Anchored, Listed, Readable
    <3>3. Catalogue(rows)
      BY <1>11, <2>3 DEF Promote, Promotable
    <3>4. rows[b].status # "absent"
      BY <2>1, <2>3, <3>1 DEF Listed
    <3> HIDE DEF rows
    <3> QED
      BY <1>a, <2>1, <2>2, <3>2, <3>3, <3>4, ServableWritten
  <2>4. CASE ~Listed(b)
    <3>1. UNCHANGED <<replicas, cleared>>
      BY <1>11, <2>4 DEF Promote, Promotable
    <3> QED
      BY <1>a, <1>b, <2>2, <3>1, ServableAlone
  <2> QED
    BY <2>3, <2>4
<1>12. ASSUME NEW c \in Process, NEW b \in AdoptTarget, NEW R \in SUBSET Backend, BeginAdopt(c, b, R)
       PROVE ServableInv'
  <2>1. Sure([op |-> "adopt", on |-> b, retire |-> {x \in R \ {b} : Kept(x)}], Catalogued, objects)
    BY <1>12 DEF BeginAdopt, Verifiable, Sure
  <2> QED
    BY <1>a, <1>b, <1>12, <2>1, ServableAlone DEF BeginAdopt, Begin
<1>13. ASSUME NEW c \in Process, Adopt(c) PROVE ServableInv'
  <2> DEFINE b == pending[c].on
             rows == Adopted(b, pending[c].retire)
  <2>1. /\ b \in AdoptTarget /\ b \in Backend
        /\ b \notin pending[c].retire /\ objects[b] = "stored"
    BY <1>a, <1>b, <1>c, <1>13, HandlerOf DEF Adopt, Doing, Backed, Sure
  <2>2. rows[b].status = "available"
    BY <2>1 DEF Adopted, Registered
  <2>3. pending' = [pending EXCEPT ![c] = Idle] /\ Catalogue(rows) /\ UNCHANGED objects
    BY <1>13 DEF Adopt, Done
  <2> HIDE DEF rows
  <2> QED
    BY <1>a, <2>1, <2>2, <2>3, ServableWritten
<1>14. ASSUME NEW c \in Process, NEW a \in Backend, NEW y \in Backend, NEW m \in Backend,
              BeginPreflight(c, a, y, m)
       PROVE ServableInv'
  <2>1. m \in Writable
    BY <1>14 DEF BeginPreflight, OneArchive
  <2>2. Sure([op |-> "preflight", on |-> m], Catalogued, objects)
    BY <1>b, <2>1 DEF Sure
  <2> QED
    BY <1>a, <1>b, <1>14, <2>2, ServableAlone DEF BeginPreflight, Begin
<1>15. ASSUME NEW c \in Process, Clear(c) PROVE ServableInv'
  <2>1. pending[c].on \notin AdoptTarget
    BY <1>c, <1>15 DEF Clear, Doing, Sure
  <2>2. cleared' \cap AdoptTarget = {}
    BY <1>b, <1>15, <2>1 DEF Clear
  <2> QED
    BY <1>a, <1>15, <2>2, ServableAlone DEF Clear, Done
<1>16. ASSUME NEW c \in Process, Abandon(c) PROVE ServableInv'
  BY <1>a, <1>b, <1>16, ServableAlone DEF Abandon, Done
<1>17. ASSUME NEW b \in Backend, Trash(b) PROVE ServableInv'
  <2>1. /\ objects' = [objects EXCEPT ![b] = "trashed"] /\ cleared' = {} /\ b \notin AdoptTarget
        /\ UNCHANGED <<source, replicas, pending>>
    BY <1>b, <1>17 DEF Trash
  <2>2. objects \in [Backend -> Object]
    BY <1>a DEF CopiesInv, StorageInv, TypeOK
  <2>3. \A x \in AdoptTarget : objects'[x] = objects[x]
    BY <1>b, <2>1, <2>2
  <2>4. Anchored' /\ Catalogued' = Catalogued
    BY <1>b, <2>1, <2>3 DEF ServableInv, Anchored, Catalogued, Listed, Readable
  <2>5. ASSUME NEW c \in Process PROVE pending[c] = Idle \/ Sure(pending[c], Catalogued, objects')
    <3>1. pending[c] = Idle \/ (pending[c] \in Handler /\ Sure(pending[c], Catalogued, objects))
      BY <1>b, <1>c DEF Free
    <3>2. Catalogued \in BOOLEAN
      BY DEF Catalogued
    <3> QED
      BY <2>3, <3>1, <3>2, SureStays
  <2> QED
    BY <1>a, <2>1, <2>4, <2>5 DEF ServableInv, Free
<1> QED
  BY <1>1, <1>2, <1>3, <1>4, <1>5, <1>6, <1>7, <1>8, <1>9, <1>10, <1>11, <1>12, <1>13, <1>14,
     <1>15, <1>16, <1>17 DEF Next

LEMMA ServableStart == Init /\ StorageAssumption => ServableInv
<1> SUFFICES ASSUME Init, StorageAssumption PROVE ServableInv
  OBVIOUS
<1>1. CopiesInv
  BY CopiesStart
<1>2. ~Catalogued
  BY DEF Init, Catalogued
<1> QED
  BY <1>1, <1>2 DEF ServableInv, Anchored, Init, Free

-----------------------------------------------------------------------------
(* The theorems *)

\* reconcile_file_to_backend, promote_file_replica, adoption and clean-up: the
\* catalogue has one primary copy at most, and lists nothing that was never
\* stored, however handlers cross.
THEOREM CatalogueIsSound == StoresSpec => []StorageInv
<1>1. StoresInit => CopiesInv
  BY CopiesStart, StorageAssumption DEF StoresInit
<1>2. CopiesInv /\ [Copies \/ Roots \/ Schema]_storesVars => CopiesInv'
  <2>1. CASE CopiesInv /\ Copies
    BY <2>1, CopiesStep, StorageAssumption DEF Copies
  <2>2. CASE CopiesInv /\ (UNCHANGED storesVars \/ Roots \/ Schema)
    BY <2>2 DEF storesVars, Roots, Schema, vars, CopiesInv, StorageInv, TypeOK, OnePrimary,
                ListedWasStored, Listed, Free, Backed
  <2> QED
    BY <2>1, <2>2
<1>3. CopiesInv => StorageInv
  BY DEF CopiesInv
<1> QED
  BY <1>1, <1>2, <1>3, PTL DEF StoresSpec

\* resolve_verified_replica: as long as one read-only archive is configured at
\* most, a registered file has a copy that can be read, in every state.
THEOREM ACopyCanBeRead == OneArchive => (StoresSpec => []AlwaysServable)
<1> SUFFICES ASSUME OneArchive PROVE StoresSpec => []AlwaysServable
  OBVIOUS
<1>1. StoresInit => ServableInv
  BY ServableStart, StorageAssumption DEF StoresInit
<1>2. ServableInv /\ [Copies \/ Roots \/ Schema]_storesVars => ServableInv'
  <2>1. CASE ServableInv /\ Copies
    BY <2>1, ServableStep, StorageAssumption DEF Copies
  <2>2. CASE ServableInv /\ (UNCHANGED storesVars \/ Roots \/ Schema)
    BY <2>2 DEF storesVars, Roots, Schema, vars, ServableInv, CopiesInv, StorageInv, TypeOK, OnePrimary,
                ListedWasStored, Listed, Free, Backed, Sure, Anchored, Catalogued, Readable
  <2> QED
    BY <2>1, <2>2
<1>3. ServableInv => AlwaysServable
  BY ServableMeans, StorageAssumption
<1> QED
  BY <1>1, <1>2, <1>3, PTL DEF StoresSpec

\* migrate_private_root: whatever is booked while a root is moved, and however
\* often the move failed before, what the configuration names at last is whole,
\* has all that was there when the move began, and keeps what was booked in it.
THEOREM MovedRootIsSound == StoresSpec => []RelocationInv
<1>1. StoresInit => RootsInv
  BY RootsStart DEF StoresInit
<1>2. RootsInv /\ [Copies \/ Roots \/ Schema]_storesVars => RootsInv'
  <2>1. CASE RootsInv /\ Roots
    BY <2>1, RootsStep DEF Roots
  <2>2. CASE RootsInv /\ (UNCHANGED storesVars \/ Copies \/ Schema)
    BY <2>2 DEF storesVars, Copies, Schema, relocationVars, RootsInv, RootsTyped, RelocationTypeOK, Move,
                GoesOn, Rewriting, Carried, Unmoved, MovedIsWhole, MovedIsAll, EnteredStays, Present
  <2> QED
    BY <2>1, <2>2
<1>3. RootsInv => RelocationInv
  BY DEF RootsInv, RootsTyped, RelocationInv
<1> QED
  BY <1>1, <1>2, <1>3, PTL DEF StoresSpec
-----------------------------------------------------------------------------
(* The schema of the ledger file *)

\* What the running script of a program has made so far.
MadeBy(p) == {Creates[Due(p)][i] : i \in 1..programs[p].step}
Scripts == {p \in Program : InScript(p)}

\* A file whose migrations ran one after the other, each to its end, but for
\* what scripts are making of the next one.
SoundFile(f, making) ==
    /\ UpTo(f.version) \subseteq f.made
    /\ f.made \ UpTo(f.version) \subseteq making \cup (IF f.version = 6 THEN Tables(7) ELSE {})
    /\ f.version >= 7 /\ f.used => f.issues = Deduplicated(Complaint)
    /\ \A r \in Rate : f.proofs[r] = IF f.version >= 19 /\ r \in f.rates THEN 1 ELSE 0

\* What holds of a file also when its migrations were torn.
AnyFile(f) ==
    /\ f \in FileShape
    /\ f.issues \in IF f.used THEN {Complaint, Deduplicated(Complaint)} ELSE {{}}
    /\ \A k, l \in Line : k # l /\ f.recognized[k] # 0 => f.recognized[k] # f.recognized[l]

Programs ==
    [stage : {"away", "migrating", "open"}, next : 0..(Latest + 1), step : Nat, restores : BOOLEAN,
     copy : FileShape, told : SUBSET Rate]

MigrationsTyped ==
    /\ programs \in [Program -> Programs]
    /\ \A p \in Program :
          /\ AnyFile(programs[p].copy)
          /\ programs[p].restores => Migrating(p) /\ programs[p].told \ late \subseteq programs[p].copy.rates
          /\ Migrating(p) => Due(p) >= 1
          /\ InScript(p) => programs[p].step <= Len(Creates[Due(p)])
          /\ ~InScript(p) => programs[p].step = 0
    /\ AnyFile(file)
    /\ saved \subseteq Rate /\ late \subseteq Rate
    /\ loads \in 0..MaxRestores /\ torn \in BOOLEAN

\* No program is ahead of the file, and what its script made is there.
InStep ==
    \A p \in Program :
        /\ Migrating(p) => Due(p) <= file.version + 1
        /\ InScript(p) => MadeBy(p) \subseteq file.made
        /\ InScript(p) /\ Due(p) = 7 /\ programs[p].step > 0 /\ file.used
           => file.issues = Deduplicated(Complaint)

Whole ==
    ~torn =>
        /\ SoundFile(file, UNION {MadeBy(p) : p \in Scripts})
        /\ \A p \in Program : programs[p].restores => SoundFile(programs[p].copy, {})
        /\ InStep

SchemaInv == MigrationsTyped /\ Whole /\ SavedStays
LEMMA LeastOfNat ==
    ASSUME NEW S \in SUBSET Nat, S # {}
    PROVE  \E x \in S : \A y \in S : x =< y
<1> DEFINE R == {ss \in Nat \X Nat : ss[1] < ss[2]}
<1>1. IsWellFoundedOn(R, Nat)
  BY NatLessThanWellFounded DEF OpToRel
<1>2. PICK x \in S : \A y \in S : ~ (<<y, x>> \in R)
  BY <1>1, WFMin
<1>3. ASSUME NEW y \in S PROVE x =< y
  <2>1. <<y, x>> \in Nat \X Nat /\ ~(<<y, x>> \in R)
    BY <1>2
  <2>2. ~(y < x)
    BY <2>1
  <2> QED BY <2>2
<1> QED BY <1>3


-----------------------------------------------------------------------------
(* What the migrations create *)

LEMMA CreatesAll ==
    /\ Creates[1] = Core \o Bookings /\ Creates[2] = TaxColumns /\ Creates[3] = Determinations
    /\ Creates[4] = Sources /\ Creates[5] = Resolutions /\ Creates[6] = Keys /\ Creates[7] = Indexes
    /\ Creates[8] = PaymentSources /\ Creates[9] = Invoicing /\ Creates[10] = Activities
    /\ Creates[11] = BookProfiles /\ Creates[12] = Identities /\ Creates[13] = InvoiceTypes
    /\ Creates[14] = Calendar /\ Creates[15] = Receipts /\ Creates[16] = LegalForms
    /\ Creates[17] = RateSources /\ Creates[18] = Files /\ Creates[19] = Provenance
    /\ Creates[20] = Names /\ Creates[21] = Goods /\ Creates[22] = Drafts
    /\ Creates[23] = ProfileChanges /\ Creates[24] = Verifications /\ Creates[25] = AeatCases
    /\ Creates[26] = ViesChecks /\ Creates[27] = Elections /\ Creates[28] = Attributions
    /\ Creates[29] = Registrations /\ Creates[30] = Disposals /\ Creates[31] = Adjustments
BY DEF Creates

LEMMA Lengths ==
    /\ Len(Creates[1]) = 17 /\ Len(Creates[2]) = 6 /\ Len(Creates[3]) = 3 /\ Len(Creates[4]) = 1
    /\ Len(Creates[5]) = 2 /\ Len(Creates[6]) = 2 /\ Len(Creates[7]) = 2 /\ Len(Creates[8]) = 1
    /\ Len(Creates[9]) = 3 /\ Len(Creates[10]) = 1 /\ Len(Creates[11]) = 1 /\ Len(Creates[12]) = 1
    /\ Len(Creates[13]) = 1 /\ Len(Creates[14]) = 1 /\ Len(Creates[15]) = 1 /\ Len(Creates[16]) = 2
    /\ Len(Creates[17]) = 1 /\ Len(Creates[18]) = 4 /\ Len(Creates[19]) = 1 /\ Len(Creates[20]) = 2
    /\ Len(Creates[21]) = 1 /\ Len(Creates[22]) = 5 /\ Len(Creates[23]) = 1 /\ Len(Creates[24]) = 1
    /\ Len(Creates[25]) = 3 /\ Len(Creates[26]) = 1 /\ Len(Creates[27]) = 3 /\ Len(Creates[28]) = 2
    /\ Len(Creates[29]) = 2 /\ Len(Creates[30]) = 1 /\ Len(Creates[31]) = 2
<1>1. Len(Core \o Bookings) = 17
  BY DEF Core, Bookings
<1>2. /\ Len(TaxColumns) = 6 /\ Len(Determinations) = 3 /\ Len(Sources) = 1 /\ Len(Resolutions) = 2
      /\ Len(Keys) = 2 /\ Len(Indexes) = 2 /\ Len(PaymentSources) = 1
  BY DEF TaxColumns, Determinations, Sources, Resolutions, Keys, Indexes, PaymentSources
<1>3. /\ Len(Invoicing) = 3 /\ Len(Activities) = 1 /\ Len(BookProfiles) = 1 /\ Len(Identities) = 1
      /\ Len(InvoiceTypes) = 1 /\ Len(Calendar) = 1 /\ Len(Receipts) = 1 /\ Len(LegalForms) = 2
      /\ Len(RateSources) = 1 /\ Len(Files) = 4
  BY DEF Invoicing, Activities, BookProfiles, Identities, InvoiceTypes, Calendar, Receipts,
         LegalForms, RateSources, Files
<1>4. /\ Len(Provenance) = 1 /\ Len(Names) = 2 /\ Len(Goods) = 1 /\ Len(Drafts) = 5
      /\ Len(ProfileChanges) = 1 /\ Len(Verifications) = 1 /\ Len(AeatCases) = 3
      /\ Len(ViesChecks) = 1 /\ Len(Elections) = 3 /\ Len(Attributions) = 2
      /\ Len(Registrations) = 2 /\ Len(Disposals) = 1 /\ Len(Adjustments) = 2
  BY DEF Provenance, Names, Goods, Drafts, ProfileChanges, Verifications, AeatCases, ViesChecks,
         Elections, Attributions, Registrations, Disposals, Adjustments
<1> QED BY <1>1, <1>2, <1>3, <1>4, CreatesAll

LEMMA CreatesShape == \A v \in 1..Latest : Len(Creates[v]) \in Nat \ {0}
<1>1. \A v \in 1..Latest : Len(Creates[v]) \in {1, 2, 3, 4, 5, 6, 17}
  BY Lengths DEF Latest
<1>2. \A n \in {1, 2, 3, 4, 5, 6, 17} : n \in Nat \ {0}
  OBVIOUS
<1> QED BY <1>1, <1>2

\* The record of where a rate is from comes with version 19, and not before.
LEMMA ProvenanceIsNew == \A v \in 1..18 : "fx_provenance" \notin Tables(v)
<1>1. \A i \in 1..17 : (Core \o Bookings)[i] # "fx_provenance"
  BY DEF Core, Bookings
<1>2. /\ \A i \in 1..6 : TaxColumns[i] # "fx_provenance"
      /\ \A i \in 1..3 : Determinations[i] # "fx_provenance"
      /\ \A i \in 1..1 : Sources[i] # "fx_provenance"
      /\ \A i \in 1..2 : Resolutions[i] # "fx_provenance" /\ Keys[i] # "fx_provenance"
                         /\ Indexes[i] # "fx_provenance"
      /\ \A i \in 1..1 : PaymentSources[i] # "fx_provenance"
  BY DEF TaxColumns, Determinations, Sources, Resolutions, Keys, Indexes, PaymentSources
<1>3. /\ \A i \in 1..3 : Invoicing[i] # "fx_provenance"
      /\ \A i \in 1..1 : /\ Activities[i] # "fx_provenance" /\ BookProfiles[i] # "fx_provenance"
                         /\ Identities[i] # "fx_provenance" /\ InvoiceTypes[i] # "fx_provenance"
  BY DEF Invoicing, Activities, BookProfiles, Identities, InvoiceTypes
<1>4. /\ \A i \in 1..1 : /\ Calendar[i] # "fx_provenance" /\ Receipts[i] # "fx_provenance"
                         /\ RateSources[i] # "fx_provenance"
      /\ \A i \in 1..2 : LegalForms[i] # "fx_provenance"
      /\ \A i \in 1..4 : Files[i] # "fx_provenance"
  BY DEF Calendar, Receipts, LegalForms, RateSources, Files
<1> DEFINE Without(v) == \A i \in 1..Len(Creates[v]) : Creates[v][i] # "fx_provenance"
<1>5. Without(1) /\ Without(2) /\ Without(3) /\ Without(4) /\ Without(5) /\ Without(6)
  BY <1>1, <1>2, CreatesAll, Lengths
<1>6. Without(7) /\ Without(8) /\ Without(9) /\ Without(10) /\ Without(11) /\ Without(12)
  BY <1>2, <1>3, CreatesAll, Lengths
<1>7. Without(13) /\ Without(14) /\ Without(15) /\ Without(16) /\ Without(17) /\ Without(18)
  BY <1>3, <1>4, CreatesAll, Lengths
<1>8. \A v \in 1..18 : Without(v)
  <2> HIDE DEF Without
  <2> QED BY <1>5, <1>6, <1>7
<1> QED BY <1>8 DEF Tables

LEMMA TablesOf ==
    ASSUME NEW v \in 1..Latest
    PROVE  /\ \A i \in 1..Len(Creates[v]) : Creates[v][i] \in Tables(v)
           /\ Tables(v) # {}
<1>1. 1 \in 1..Len(Creates[v])
  BY CreatesShape
<1> QED BY <1>1 DEF Tables

LEMMA UpToGrows ==
    /\ \A v, w \in 0..Latest : v <= w => UpTo(v) \subseteq UpTo(w)
    /\ \A v \in 1..Latest, w \in 0..Latest : v <= w => Tables(v) \subseteq UpTo(w)
    /\ \A v \in 1..Latest : UpTo(v) = UpTo(v - 1) \cup Tables(v)
<1>1. \A v, w \in 0..Latest : v <= w => UpTo(v) \subseteq UpTo(w)
  BY DEF UpTo, Latest
<1>2. \A v \in 1..Latest, w \in 0..Latest : v <= w => Tables(v) \subseteq UpTo(w)
  BY DEF UpTo, Latest
<1>3. ASSUME NEW v \in 1..Latest PROVE UpTo(v) = UpTo(v - 1) \cup Tables(v)
  <2>1. 1..v = 1..(v - 1) \cup {v}
    BY DEF Latest
  <2> QED BY <2>1 DEF UpTo
<1> QED BY <1>1, <1>2, <1>3

\* Nothing up to version 18, and no script, makes the record.
LEMMA NoProvenanceBefore == \A v \in 0..18 : "fx_provenance" \notin UpTo(v)
BY ProvenanceIsNew DEF UpTo

-----------------------------------------------------------------------------
(* The issues *)

Issue == [subject : Nat, dated : BOOLEAN, at : Nat]

\* Among finitely many issues one is the newest.
LEMMA SomeNewest ==
    ASSUME NEW S \in SUBSET Complaint, S # {}
    PROVE  \E x \in S : \A y \in S : y.at =< x.at
<1> DEFINE Above(x) == {z \in S : z.at > x.at}
           Sizes == {Cardinality(Above(x)) : x \in S}
<1>0. IsFiniteSet(S) /\ \A x \in S : x.at \in Nat
  BY FS_Subset, MigrationsAssumption DEF MigrationsAssumption
<1>1. \A x \in S : IsFiniteSet(Above(x)) /\ Cardinality(Above(x)) \in Nat
  BY <1>0, FS_Subset, FS_CardinalityType
<1>2. PICK x \in S : \A y \in S : Cardinality(Above(x)) =< Cardinality(Above(y))
  <2>1. Sizes \in SUBSET Nat /\ Sizes # {}
    BY <1>1
  <2>2. PICK n \in Sizes : \A k \in Sizes : n =< k
    BY <2>1, LeastOfNat
  <2> QED BY <2>2
<1>3. ASSUME NEW y \in S, ~(y.at =< x.at) PROVE FALSE
  <2>0. x.at \in Nat /\ y.at \in Nat /\ x.at < y.at
    BY <1>0, <1>3
  <2>1. Above(y) \subseteq Above(x)
    <3> SUFFICES ASSUME NEW z \in S, z.at > y.at PROVE z.at > x.at
      OBVIOUS
    <3> QED BY <1>0, <2>0
  <2>2. y \in Above(x) /\ y \notin Above(y)
    BY <2>0
  <2>3. Cardinality(Above(y)) =< Cardinality(Above(x)) /\ Cardinality(Above(y)) # Cardinality(Above(x))
    BY <1>1, <2>1, <2>2, FS_Subset
  <2>4. /\ Cardinality(Above(x)) \in Nat /\ Cardinality(Above(y)) \in Nat
        /\ Cardinality(Above(x)) =< Cardinality(Above(y))
    BY <1>1, <1>2
  <2> HIDE DEF Above
  <2> QED BY <2>3, <2>4
<1> QED BY <1>3

LEMMA DeduplicatedShape ==
    /\ \A i \in Deduplicated(Complaint) :
          /\ i \in Issue /\ ~i.dated
          /\ \E c \in Newest(Complaint) : c.subject = i.subject /\ c.at = i.at
    /\ \A c \in Newest(Complaint) :
          \E i \in Deduplicated(Complaint) : i.subject = c.subject /\ i.at = c.at
<1>1. \A c \in Newest(Complaint) : c \in Issue
  BY MigrationsAssumption DEF MigrationsAssumption, Newest, Issue
<1>2. ASSUME NEW c \in Newest(Complaint)
      PROVE  LET i == [c EXCEPT !.dated = FALSE]
             IN  i \in Issue /\ ~i.dated /\ i.subject = c.subject /\ i.at = c.at
  BY <1>1 DEF Issue
<1> QED BY <1>2 DEF Deduplicated

LEMMA DeduplicatedOnce ==
    \A i, j \in Deduplicated(Complaint) : i.subject = j.subject => i = j
<1> SUFFICES ASSUME NEW i \in Deduplicated(Complaint), NEW j \in Deduplicated(Complaint),
                    i.subject = j.subject
             PROVE  i = j
  OBVIOUS
<1>1. PICK c \in Newest(Complaint) : c.subject = i.subject /\ c.at = i.at
  BY DeduplicatedShape
<1>2. PICK d \in Newest(Complaint) : d.subject = j.subject /\ d.at = j.at
  BY DeduplicatedShape
<1>3. c.at =< d.at /\ d.at =< c.at
  BY <1>1, <1>2 DEF Newest, Subject
<1>4. i \in Issue /\ j \in Issue /\ ~i.dated /\ ~j.dated
  BY DeduplicatedShape
<1>5. i.at = j.at
  BY <1>1, <1>2, <1>3, <1>4 DEF Issue
<1> QED BY <1>4, <1>5 DEF Issue

LEMMA DeduplicatedCovers ==
    \A c \in Complaint : \E i \in Deduplicated(Complaint) :
        Subject(i) = Subject(c) /\ ~i.dated /\ i.at >= c.at
<1> SUFFICES ASSUME NEW c \in Complaint
             PROVE  \E i \in Deduplicated(Complaint) :
                        Subject(i) = Subject(c) /\ ~i.dated /\ i.at >= c.at
  OBVIOUS
<1>1. PICK x \in {d \in Complaint : d.subject = c.subject} :
             \A y \in {d \in Complaint : d.subject = c.subject} : y.at =< x.at
  BY SomeNewest
<1>2. x \in Newest(Complaint)
  BY <1>1 DEF Newest, Subject
<1>3. PICK i \in Deduplicated(Complaint) : i.subject = x.subject /\ i.at = x.at
  BY <1>2, DeduplicatedShape
<1>4. x.at \in Nat /\ c.at \in Nat /\ c.at =< x.at
  BY <1>1, MigrationsAssumption DEF MigrationsAssumption
<1> QED BY <1>1, <1>3, <1>4, DeduplicatedShape DEF Subject

\* The script of version 7 may be begun again.
LEMMA DeduplicatedTwice ==
    /\ Deduplicated(Deduplicated(Complaint)) = Deduplicated(Complaint)
    /\ Deduplicated({}) = {}
<1> DEFINE D == Deduplicated(Complaint)
<1>1. \A i \in D : i.at =< i.at
  BY DeduplicatedShape DEF Issue
<1>2. Newest(D) = D
  BY <1>1, DeduplicatedOnce DEF Newest, Subject
<1>3. \A i \in D : [i EXCEPT !.dated = FALSE] = i
  BY DeduplicatedShape DEF Issue
<1>4. Deduplicated(D) = {[i EXCEPT !.dated = FALSE] : i \in D}
  BY <1>2 DEF Deduplicated
<1>5. Deduplicated(D) = D
  BY <1>3, <1>4
<1>6. Deduplicated({}) = {}
  BY DEF Deduplicated, Newest
<1> QED BY <1>5, <1>6

-----------------------------------------------------------------------------
(* The file *)

LEMMA LatestIs == Latest = 31
BY DEF Latest

LEMMA MigrationConstants ==
    /\ Starts \subseteq 0..Latest /\ Recorded \subseteq Rate /\ 0 \notin Journals
    /\ MaxRestores \in Nat
BY MigrationsAssumption DEF MigrationsAssumption

LEMMA RecognizedOnce ==
    ASSUME NEW f
    PROVE  /\ Recognized(f) \in [Line -> Journals \cup {0}]
           /\ \A k, l \in Line : k # l /\ Recognized(f)[k] # 0 => Recognized(f)[k] # Recognized(f)[l]
BY MigrationConstants DEF Recognized, Unambiguous

\* A file of any version is one whose migrations ran to their ends.
LEMMA FileOfShape ==
    ASSUME NEW v \in 0..Latest
    PROVE  /\ AnyFile(FileOf(v)) /\ SoundFile(FileOf(v), {})
           /\ FileOf(v).version = v /\ FileOf(v).rates = IF v > 0 THEN Recorded ELSE {}
<1> DEFINE used == v > 0
           rates == IF used THEN Recorded ELSE {}
           f0 == [version |-> v, made |-> UpTo(v), used |-> used,
                  issues |-> IF used THEN Complaint ELSE {}, rates |-> rates,
                  proofs |-> [r \in Rate |-> 0], recognized |-> [l \in Line |-> 0]]
           issues == IF v >= 7 THEN Deduplicated(f0.issues) ELSE f0.issues
           proofs == IF v >= 19 THEN Backfilled(f0) ELSE f0.proofs
           recognized == IF v >= 22 THEN Recognized(f0) ELSE f0.recognized
<1> HIDE DEF issues, proofs, recognized
<1>1. FileOf(v) = [version |-> v, made |-> UpTo(v), used |-> used, issues |-> issues, rates |-> rates,
                   proofs |-> proofs, recognized |-> recognized]
  <2>1. FileOf(v) = [f0 EXCEPT !.issues = issues, !.proofs = proofs, !.recognized = recognized]
    BY Zenon DEF FileOf, issues, proofs, recognized
  <2> QED BY <2>1
<1>2. /\ issues \in IF used THEN {Complaint, Deduplicated(Complaint)} ELSE {{}}
      /\ v >= 7 /\ used => issues = Deduplicated(Complaint)
  BY DeduplicatedTwice DEF issues
<1>3. proofs = [r \in Rate |-> IF v >= 19 /\ r \in rates THEN 1 ELSE 0]
  BY DEF proofs, Backfilled
<1>4. /\ recognized \in [Line -> Journals \cup {0}]
      /\ \A k, l \in Line : k # l /\ recognized[k] # 0 => recognized[k] # recognized[l]
  BY RecognizedOnce DEF recognized
<1>5. UpTo(v) \subseteq UpTo(Latest) /\ rates \subseteq Rate
  BY UpToGrows, LatestIs, MigrationConstants
<1>6. FileOf(v) \in FileShape
  BY <1>1, <1>2, <1>3, <1>4, <1>5 DEF FileShape
<1>7. AnyFile(FileOf(v))
  <2>1. FileOf(v).used = used /\ FileOf(v).issues = issues /\ FileOf(v).recognized = recognized
    BY <1>1
  <2> QED BY <1>2, <1>4, <1>6, <2>1 DEF AnyFile
<1>8. SoundFile(FileOf(v), {})
  BY <1>1, <1>2, <1>3 DEF SoundFile
<1> QED BY <1>1, <1>7, <1>8

-----------------------------------------------------------------------------
(* Programs that share the file *)

LEMMA AwayShape ==
    /\ Away \in Programs /\ AnyFile(Away.copy)
    /\ Away.stage = "away" /\ Away.next = 0 /\ Away.step = 0 /\ ~Away.restores
<1>1. AnyFile(FileOf(0))
  BY FileOfShape, LatestIs
<1> QED BY <1>1, LatestIs DEF Away, Programs, AnyFile

LEMMA ProgramShape ==
    ASSUME MigrationsTyped, NEW p \in Program
    PROVE  /\ programs[p] \in Programs /\ Due(p) \in 0..32 /\ programs[p].step \in Nat
           /\ Migrating(p) => Due(p) \in 1..32
           /\ InScript(p) => /\ Due(p) \in 1..7 /\ Len(Creates[Due(p)]) \in Nat \ {0}
                             /\ programs[p].step \in 0..Len(Creates[Due(p)])
                             /\ MadeBy(p) \subseteq Tables(Due(p))
                             /\ programs[p].step = Len(Creates[Due(p)]) => MadeBy(p) = Tables(Due(p))
                             /\ programs[p].step = 0 => MadeBy(p) = {}
<1>1. programs[p] \in Programs /\ Due(p) \in 0..32 /\ programs[p].step \in Nat
  BY LatestIs DEF MigrationsTyped, Programs, Due
<1>2. Migrating(p) => Due(p) \in 1..32
  <2>1. Migrating(p) => Due(p) >= 1
    BY DEF MigrationsTyped
  <2> QED BY <1>1, <2>1
<1>3. ASSUME InScript(p)
      PROVE  /\ Due(p) \in 1..7 /\ Len(Creates[Due(p)]) \in Nat \ {0}
             /\ programs[p].step \in 0..Len(Creates[Due(p)])
  <2>1. Due(p) \in 1..7
    BY <1>1, <1>2, <1>3 DEF InScript
  <2>2. Len(Creates[Due(p)]) \in Nat \ {0}
    <3>1. Due(p) \in 1..Latest
      BY <2>1, LatestIs
    <3> QED BY <3>1, CreatesShape
  <2>3. programs[p].step <= Len(Creates[Due(p)])
    BY <1>3 DEF MigrationsTyped
  <2> QED BY <1>1, <2>1, <2>2, <2>3
<1>4. ASSUME InScript(p)
      PROVE  /\ MadeBy(p) \subseteq Tables(Due(p))
             /\ programs[p].step = Len(Creates[Due(p)]) => MadeBy(p) = Tables(Due(p))
             /\ programs[p].step = 0 => MadeBy(p) = {}
  BY <1>3, <1>4 DEF MadeBy, Tables
<1> QED BY <1>1, <1>2, <1>3, <1>4

\* What a program may become.
Fits(h) ==
    /\ h \in Programs /\ AnyFile(h.copy)
    /\ h.restores => h.stage = "migrating" /\ h.told \ late' \subseteq h.copy.rates
    /\ h.stage = "migrating" => h.next >= 1
    /\ IF h.stage = "migrating" /\ h.next < 8 THEN h.step <= Len(Creates[h.next]) ELSE h.step = 0

LEMMA SchemaTypedStep ==
    ASSUME MigrationsTyped, NEW p \in Program, NEW h, Fits(h), Becomes(p, h), AnyFile(file'),
           late \subseteq late', saved' \subseteq Rate, late' \subseteq Rate,
           loads' \in 0..MaxRestores, torn' \in BOOLEAN
    PROVE  MigrationsTyped'
<1>1. programs' \in [Program -> Programs] /\ programs'[p] = h
      /\ \A q \in Program \ {p} : programs'[q] = programs[q]
  BY DEF MigrationsTyped, Becomes, Fits
<1>2. ASSUME NEW q \in Program
      PROVE  /\ AnyFile(programs'[q].copy)
             /\ programs'[q].restores => Migrating(q)' /\ programs'[q].told \ late' \subseteq programs'[q].copy.rates
             /\ Migrating(q)' => Due(q)' >= 1
             /\ InScript(q)' => programs'[q].step <= Len(Creates[Due(q)'])
             /\ ~InScript(q)' => programs'[q].step = 0
  <2>1. CASE q = p
    BY <1>1, <2>1 DEF Fits, Migrating, Due, InScript
  <2>2. CASE q # p
    BY <1>1, <2>2 DEF MigrationsTyped, Migrating, Due, InScript
  <2> QED BY <2>1, <2>2
<1> QED BY <1>1, <1>2 DEF MigrationsTyped

\* A step of p leaves the others where they are.
LEMMA OthersStay ==
    ASSUME MigrationsTyped, NEW p \in Program, NEW h, Becomes(p, h)
    PROVE  /\ programs'[p] = h
           /\ \A q \in Program \ {p} :
                 /\ programs'[q] = programs[q] /\ Migrating(q)' = Migrating(q) /\ Due(q)' = Due(q)
                 /\ InScript(q)' = InScript(q) /\ MadeBy(q)' = MadeBy(q)
BY DEF MigrationsTyped, Becomes, Migrating, Due, InScript, MadeBy

LEMMA SchemaStart == MigrationsInit => SchemaInv
<1> SUFFICES ASSUME MigrationsInit PROVE SchemaInv
  OBVIOUS
<1>1. PICK v \in Starts : file = FileOf(v) /\ saved = FileOf(v).rates
  BY DEF MigrationsInit
<1>2. /\ AnyFile(file) /\ SoundFile(file, {}) /\ saved = file.rates
  BY <1>1, FileOfShape, MigrationConstants
<1>3. \A p \in Program : programs[p] = Away /\ ~Migrating(p) /\ ~InScript(p)
  BY AwayShape DEF MigrationsInit, Migrating, InScript
<1>4. saved \subseteq Rate
  BY <1>2 DEF AnyFile, FileShape
<1>5. MigrationsTyped
  <2>1. programs = [p \in Program |-> Away] /\ loads = 0 /\ late = {} /\ torn = FALSE
    BY DEF MigrationsInit
  <2>2. programs \in [Program -> Programs] /\ loads \in 0..MaxRestores
    BY <2>1, AwayShape, MigrationConstants
  <2> QED BY <1>2, <1>3, <1>4, <2>1, <2>2, AwayShape DEF MigrationsTyped
<1>6. UNION {MadeBy(p) : p \in Scripts} = {}
  BY <1>3 DEF Scripts
<1>7. Whole
  BY <1>2, <1>3, <1>6, AwayShape DEF Whole, InStep
<1> QED BY <1>2, <1>5, <1>7 DEF SchemaInv, SavedStays

\* The scripts that are running, before and after a step of p that leaves the file.
LEMMA FileStays ==
    ASSUME SchemaInv, NEW p \in Program, NEW h, Becomes(p, h), Fits(h), MigrationsTyped',
           file' = file, late' = late, saved' = saved, torn => torn',
           ~h.restores, h.stage = "migrating" => h.next <= file.version + 1,
           h.step = 0, ~torn' => ~TornBy(p)
    PROVE  SchemaInv'
<1>1. SavedStays'
  BY DEF SchemaInv, SavedStays
<1>2. ASSUME ~torn' PROVE Whole'
  <2>0. ~torn /\ ~TornBy(p)
    BY <1>2 DEF SchemaInv, MigrationsTyped
  <2>1. /\ SoundFile(file, UNION {MadeBy(q) : q \in Scripts}) /\ InStep
        /\ \A q \in Program : programs[q].restores => SoundFile(programs[q].copy, {})
    BY <2>0 DEF SchemaInv, Whole
  <2>2. file.version \in 0..31
    BY LatestIs DEF SchemaInv, MigrationsTyped, AnyFile, FileShape
  <2>3. InScript(p)' => MadeBy(p)' = {}
    BY OthersStay DEF MadeBy, SchemaInv
  <2>4. \A x \in UNION {MadeBy(q) : q \in Scripts} :
           \/ x \in (UNION {MadeBy(q) : q \in Scripts})'
           \/ x \in UpTo(file.version) \/ (file.version = 6 /\ x \in Tables(7))
    <3> SUFFICES ASSUME NEW q \in Program, InScript(q), NEW x \in MadeBy(q),
                        x \notin UNION {MadeBy(r)' : r \in Scripts'}
                 PROVE  x \in UpTo(file.version) \/ (file.version = 6 /\ x \in Tables(7))
      BY DEF Scripts
    <3>1. q = p
      BY OthersStay DEF Scripts, SchemaInv
    <3>2. Due(p) = 7 /\ x \in Tables(7)
      BY <2>0, <3>1, ProgramShape DEF TornBy, SchemaInv
    <3>3. file.version >= 6
      BY <2>1, <2>2, <3>1, <3>2 DEF InStep, InScript
    <3> QED BY <2>2, <3>2, <3>3, UpToGrows, LatestIs
  <2>5. SoundFile(file', (UNION {MadeBy(q) : q \in Scripts})')
    BY <2>1, <2>4 DEF SoundFile
  <2>6. \A q \in Program : programs'[q].restores => SoundFile(programs'[q].copy, {})
    BY <2>1, OthersStay DEF SchemaInv
  <2>7. InStep'
    <3> SUFFICES ASSUME NEW q \in Program
                 PROVE  /\ Migrating(q)' => Due(q)' <= file.version + 1
                        /\ InScript(q)' => MadeBy(q)' \subseteq file.made
                        /\ InScript(q)' /\ Due(q)' = 7 /\ programs'[q].step > 0 /\ file.used
                           => file.issues = Deduplicated(Complaint)
      BY DEF InStep
    <3>1. CASE q = p
      BY <2>3, <3>1, OthersStay DEF SchemaInv, Migrating, Due
    <3>2. CASE q # p
      BY <2>1, <3>2, OthersStay DEF SchemaInv, InStep
    <3> QED BY <3>1, <3>2
  <2> QED BY <2>5, <2>6, <2>7 DEF Whole
<1> QED BY <1>1, <1>2 DEF SchemaInv, Whole

LEMMA OpenKeeps == ASSUME SchemaInv, NEW p \in Program, Open(p) PROVE SchemaInv'
<1> DEFINE h == [Away EXCEPT !.stage = IF file.version = Latest THEN "open" ELSE "migrating",
                             !.next = file.version + 1]
<1>1. /\ Becomes(p, h) /\ programs[p] = Away /\ UNCHANGED <<file, saved, loads, late, torn>>
  BY DEF Open
<1>2. file.version \in 0..31 /\ AnyFile(file)
  BY LatestIs DEF SchemaInv, MigrationsTyped, AnyFile, FileShape
<1>3. /\ h \in Programs /\ h.copy = Away.copy /\ h.step = 0 /\ ~h.restores
      /\ h.next = file.version + 1 /\ h.next \in 1..32
  <2>1. file.version + 1 \in 0..(Latest + 1) /\ file.version + 1 \in 1..32
    BY <1>2, LatestIs
  <2> QED BY <2>1, AwayShape DEF Programs
<1>4. Fits(h)
  <2>1. h.next < 8 => 0 <= Len(Creates[h.next])
    <3> SUFFICES ASSUME h.next < 8 PROVE 0 <= Len(Creates[h.next])
      OBVIOUS
    <3>1. h.next \in 1..Latest
      BY <1>3, LatestIs
    <3>2. Len(Creates[h.next]) \in Nat
      BY <3>1, CreatesShape
    <3> QED BY <3>2
  <2> HIDE DEF h
  <2>2. h.next >= 1
    BY <1>3
  <2> QED BY <1>3, <2>1, <2>2, AwayShape DEF Fits
<1>n. h.next <= file.version + 1
  BY <1>2, <1>3
<1>5. MigrationsTyped'
  BY <1>1, <1>2, <1>4, SchemaTypedStep DEF SchemaInv, MigrationsTyped
<1>6. ~TornBy(p)
  BY <1>1, AwayShape DEF TornBy, InScript, Migrating
<1> HIDE DEF h
<1> QED BY <1>1, <1>n, <1>3, <1>4, <1>5, <1>6, FileStays

LEMMA OpenedKeeps == ASSUME SchemaInv, NEW p \in Program, Opened(p) PROVE SchemaInv'
<1> DEFINE h == [Away EXCEPT !.stage = "open"]
<1>1. /\ Becomes(p, h) /\ Due(p) > Latest /\ UNCHANGED <<file, saved, loads, late, torn>>
  BY DEF Opened
<1>2. Fits(h) /\ h.step = 0 /\ ~h.restores /\ h.stage = "open"
  BY AwayShape DEF Fits, Programs
<1>3. MigrationsTyped'
  BY <1>1, <1>2, SchemaTypedStep DEF SchemaInv, MigrationsTyped
<1>4. ~TornBy(p)
  BY <1>1, LatestIs, ProgramShape DEF TornBy, InScript, SchemaInv
<1> QED BY <1>1, <1>2, <1>3, <1>4, FileStays

LEMMA AwayFits == Fits(Away)
BY AwayShape DEF Fits

LEMMA QuitKeeps == ASSUME SchemaInv, NEW p \in Program, Quit(p) PROVE SchemaInv'
<1>1. /\ Becomes(p, Away) /\ torn' = (torn \/ TornBy(p)) /\ UNCHANGED <<file, saved, loads, late>>
  BY DEF Quit
<1>2. TornBy(p) \in BOOLEAN
  BY DEF TornBy, InScript, Migrating
<1>3. MigrationsTyped'
  BY <1>1, <1>2, AwayFits, SchemaTypedStep DEF SchemaInv, MigrationsTyped
<1> QED BY <1>1, <1>3, AwayFits, AwayShape, FileStays

-----------------------------------------------------------------------------
(* Steps that write the file *)

LEMMA FileFields ==
    ASSUME AnyFile(file)
    PROVE  /\ file.version \in 0..31 /\ file.made \subseteq UpTo(Latest) /\ file.used \in BOOLEAN
           /\ file.rates \subseteq Rate /\ file.proofs \in [Rate -> Nat]
BY LatestIs DEF AnyFile, FileShape

\* The new version of the file: its fields.
LEMMA StatementKeeps == ASSUME SchemaInv, NEW p \in Program, Statement(p) PROVE SchemaInv'
<1> DEFINE v == Due(p)
           s == programs[p].step + 1
           name == Creates[v][s]
           h == [programs[p] EXCEPT !.step = s]
           issues == IF v = 7 /\ s = 1 THEN Deduplicated(file.issues) ELSE file.issues
<1>1. /\ InScript(p) /\ s <= Len(Creates[v]) /\ Becomes(p, h)
      /\ file' = [file EXCEPT !.made = @ \cup {name}, !.issues = issues]
      /\ UNCHANGED <<saved, loads, late, torn>>
  BY DEF Statement
<1>2. /\ programs[p] \in Programs /\ v \in 1..7 /\ Len(Creates[v]) \in Nat
      /\ programs[p].step \in Nat /\ s \in 1..Len(Creates[v]) /\ AnyFile(file)
  BY <1>1, ProgramShape DEF SchemaInv, MigrationsTyped
<1>3. name \in Tables(v) /\ Tables(v) \subseteq UpTo(Latest)
  <2>1. v \in 1..Latest /\ Latest \in 0..Latest /\ v <= Latest
    BY <1>2, LatestIs
  <2> QED BY <1>2, <2>1, TablesOf, UpToGrows
<1> HIDE DEF issues
<1>4. issues \in IF file.used THEN {Complaint, Deduplicated(Complaint)} ELSE {{}}
  BY <1>2, DeduplicatedTwice DEF AnyFile, issues
<1>5. /\ file'.version = file.version /\ file'.made = file.made \cup {name} /\ file'.used = file.used
      /\ file'.issues = issues /\ file'.rates = file.rates /\ file'.proofs = file.proofs
      /\ file'.recognized = file.recognized /\ file' \in FileShape
  <2>1. file.made \cup {name} \subseteq UpTo(Latest)
    BY <1>2, <1>3, FileFields
  <2>2. issues \subseteq Complaint \cup Deduplicated(Complaint)
    BY <1>4
  <2> QED BY <1>1, <1>2, <2>1, <2>2 DEF AnyFile, FileShape
<1>6. AnyFile(file')
  BY <1>2, <1>4, <1>5 DEF AnyFile
<1>7. /\ h \in Programs /\ h.stage = "migrating" /\ h.next = v /\ h.step = s
      /\ h.copy = programs[p].copy /\ h.told = programs[p].told /\ h.restores = programs[p].restores
  BY <1>1, <1>2 DEF Programs, InScript, Migrating, Due
<1>8. Fits(h)
  <2> HIDE DEF h
  <2> QED BY <1>1, <1>2, <1>7 DEF Fits, SchemaInv, MigrationsTyped
<1>9. MigrationsTyped'
  <2> HIDE DEF h
  <2> QED BY <1>1, <1>6, <1>8, SchemaTypedStep DEF SchemaInv, MigrationsTyped
<1>10. SavedStays'
  BY <1>1, <1>5 DEF SchemaInv, SavedStays
<1>11. programs'[p] = h
  BY <1>1, OthersStay DEF SchemaInv
<1> HIDE DEF h
<1>12. InScript(p)' /\ Due(p)' = v /\ MadeBy(p)' = MadeBy(p) \cup {name}
  <2>1. Due(p)' = v /\ InScript(p)'
    BY <1>2, <1>7, <1>11 DEF InScript, Migrating, Due
  <2>2. 1..s = 1..programs[p].step \cup {s}
    BY <1>2
  <2> QED BY <1>7, <1>11, <2>1, <2>2 DEF MadeBy
<1>13. ASSUME ~torn' PROVE Whole'
  <2>1. /\ SoundFile(file, UNION {MadeBy(q) : q \in Scripts}) /\ InStep
        /\ \A q \in Program : programs[q].restores => SoundFile(programs[q].copy, {})
    BY <1>1, <1>13 DEF SchemaInv, Whole
  <2>2. \A q \in Program : InScript(q) => InScript(q)' /\ MadeBy(q) \subseteq MadeBy(q)'
    BY <1>1, <1>12, OthersStay DEF SchemaInv
  <2>3. name \in MadeBy(p)'
    BY <1>12
  <2>4. (UNION {MadeBy(q) : q \in Scripts}) \cup {name} \subseteq (UNION {MadeBy(q) : q \in Scripts})'
    BY <1>12, <2>2, <2>3 DEF Scripts
  <2>5. file.used /\ file.issues = Deduplicated(Complaint) => issues = Deduplicated(Complaint)
    BY DeduplicatedTwice DEF issues
  <2>6. SoundFile(file', (UNION {MadeBy(q) : q \in Scripts})')
    BY <1>5, <2>1, <2>4, <2>5 DEF SoundFile
  <2>7. \A q \in Program : programs'[q].restores => SoundFile(programs'[q].copy, {})
    BY <1>1, <1>7, <1>11, <2>1, OthersStay DEF SchemaInv
  <2>8. InStep'
    <3> SUFFICES ASSUME NEW q \in Program
                 PROVE  /\ Migrating(q)' => Due(q)' <= file.version + 1
                        /\ InScript(q)' => MadeBy(q)' \subseteq file'.made
                        /\ InScript(q)' /\ Due(q)' = 7 /\ programs'[q].step > 0 /\ file.used
                           => issues = Deduplicated(Complaint)
      BY <1>5 DEF InStep
    <3>1. CASE q = p
      <4>1. Due(p) <= file.version + 1 /\ MadeBy(p) \subseteq file.made
        BY <1>1, <2>1 DEF InStep, InScript
      <4>2. ASSUME v = 7, file.used PROVE issues = Deduplicated(Complaint)
        <5>1. CASE s = 1
          BY <1>2, <4>2, <5>1, DeduplicatedTwice DEF issues, AnyFile
        <5>2. CASE s # 1
          <6>1. programs[p].step > 0
            BY <1>2, <5>2
          <6> QED BY <1>1, <2>1, <2>5, <4>2, <6>1 DEF InStep
        <5> QED BY <5>1, <5>2
      <4> QED BY <1>5, <1>12, <3>1, <4>1, <4>2
    <3>2. CASE q # p
      BY <1>1, <1>5, <2>1, <2>5, <3>2, OthersStay DEF SchemaInv, InStep
    <3> QED BY <3>1, <3>2
  <2> QED BY <2>6, <2>7, <2>8 DEF Whole
<1> QED BY <1>9, <1>10, <1>13 DEF SchemaInv, Whole

LEMMA StampScriptKeeps == ASSUME SchemaInv, NEW p \in Program, StampScript(p) PROVE SchemaInv'
<1> DEFINE v == Due(p)
           h == [programs[p] EXCEPT !.next = v + 1, !.step = 0]
<1>1. /\ InScript(p) /\ programs[p].step = Len(Creates[v]) /\ Becomes(p, h)
      /\ file' = [file EXCEPT !.version = v] /\ torn' = (torn \/ file.version # v - 1)
      /\ UNCHANGED <<saved, loads, late>>
  BY DEF StampScript, Stamp
<1>2. /\ programs[p] \in Programs /\ v \in 1..7 /\ Len(Creates[v]) \in Nat \ {0}
      /\ MadeBy(p) = Tables(v) /\ AnyFile(file)
  BY <1>1, ProgramShape DEF SchemaInv, MigrationsTyped
<1>3. /\ file'.version = v /\ file'.made = file.made /\ file'.used = file.used
      /\ file'.issues = file.issues /\ file'.rates = file.rates /\ file'.proofs = file.proofs
      /\ file'.recognized = file.recognized /\ file' \in FileShape
  <2>1. v \in 0..Latest
    BY <1>2, LatestIs
  <2> QED BY <1>1, <1>2, <2>1 DEF AnyFile, FileShape
<1>4. AnyFile(file')
  BY <1>2, <1>3 DEF AnyFile
<1>5. /\ h \in Programs /\ h.stage = "migrating" /\ h.next = v + 1 /\ h.step = 0
      /\ h.copy = programs[p].copy /\ h.told = programs[p].told /\ h.restores = programs[p].restores
  <2>1. v + 1 \in 0..(Latest + 1)
    <3>1. v + 1 \in 2..8
      BY <1>2
    <3>2. \A n \in 2..8 : n \in 0..(Latest + 1)
      BY LatestIs
    <3> QED BY <3>1, <3>2
  <2> QED BY <1>1, <1>2, <2>1 DEF Programs, InScript, Migrating, Due
<1> HIDE DEF h
<1>6. Fits(h)
  <2>1. v + 1 \in 1..Latest /\ v + 1 >= 1
    <3>1. v + 1 \in 2..8
      BY <1>2
    <3>2. \A n \in 2..8 : n \in 1..Latest /\ n >= 1
      BY LatestIs
    <3> QED BY <3>1, <3>2
  <2>2. Len(Creates[h.next]) \in Nat
    BY <1>5, <2>1, CreatesShape
  <2>3. 0 <= Len(Creates[h.next])
    BY <2>2
  <2> QED BY <1>1, <1>5, <2>1, <2>3 DEF Fits, SchemaInv, MigrationsTyped
<1>7. MigrationsTyped'
  <2>1. torn' \in BOOLEAN
    BY <1>1 DEF SchemaInv, MigrationsTyped
  <2> QED BY <1>1, <1>4, <1>6, <2>1, SchemaTypedStep DEF SchemaInv, MigrationsTyped
<1>8. SavedStays'
  BY <1>1, <1>3 DEF SchemaInv, SavedStays
<1>9. programs'[p] = h
  BY <1>1, OthersStay DEF SchemaInv
<1>10. Migrating(p)' /\ Due(p)' = v + 1 /\ programs'[p].step = 0 /\ MadeBy(p)' = {}
  BY <1>5, <1>9 DEF Migrating, Due, MadeBy
<1>11. ASSUME ~torn' PROVE Whole'
  <2>1. /\ SoundFile(file, UNION {MadeBy(q) : q \in Scripts}) /\ InStep /\ file.version = v - 1
        /\ \A q \in Program : programs[q].restores => SoundFile(programs[q].copy, {})
    BY <1>1, <1>11 DEF SchemaInv, Whole, MigrationsTyped
  <2>2. UpTo(v) = UpTo(v - 1) \cup Tables(v)
    <3>1. v \in 1..Latest
      BY <1>2, LatestIs
    <3> QED BY <3>1, UpToGrows
  <2>3. UpTo(v) \subseteq file.made
    BY <1>1, <1>2, <2>1, <2>2 DEF InStep, SoundFile
  <2>4. \A x \in file.made \ UpTo(v) : x \in (UNION {MadeBy(q) : q \in Scripts})'
    <3> SUFFICES ASSUME NEW x \in file.made, x \notin UpTo(v) PROVE \E q \in Program : InScript(q)' /\ x \in MadeBy(q)'
      BY DEF Scripts
    <3>1. x \in UNION {MadeBy(q) : q \in Scripts} \/ (v - 1 = 6 /\ x \in Tables(7))
      BY <2>1, <2>2 DEF SoundFile
    <3>2. ~(v - 1 = 6 /\ x \in Tables(7))
      BY <1>2, <2>2
    <3>3. PICK q \in Scripts : x \in MadeBy(q)
      BY <3>1, <3>2
    <3>4. q # p
      BY <1>2, <2>2, <3>3
    <3> QED BY <1>1, <3>3, <3>4, OthersStay DEF Scripts, SchemaInv
  <2>5. v >= 7 /\ file.used => file.issues = Deduplicated(Complaint)
    BY <1>1, <1>2, <2>1 DEF InStep
  <2>6. \A r \in Rate : file.proofs[r] = 0
    BY <1>2, <2>1 DEF SoundFile
  <2>7. SoundFile(file', (UNION {MadeBy(q) : q \in Scripts})')
    BY <1>2, <1>3, <2>3, <2>4, <2>5, <2>6 DEF SoundFile
  <2>8. \A q \in Program : programs'[q].restores => SoundFile(programs'[q].copy, {})
    BY <1>1, <1>5, <1>9, <2>1, OthersStay DEF SchemaInv
  <2>9. InStep'
    <3> SUFFICES ASSUME NEW q \in Program
                 PROVE  /\ Migrating(q)' => Due(q)' <= v + 1
                        /\ InScript(q)' => MadeBy(q)' \subseteq file.made
                        /\ InScript(q)' /\ Due(q)' = 7 /\ programs'[q].step > 0 /\ file.used
                           => file.issues = Deduplicated(Complaint)
      BY <1>3 DEF InStep
    <3>1. CASE q = p
      BY <1>2, <1>10, <3>1
    <3>2. CASE q # p
      <4>1. Migrating(q) => Due(q) <= v + 1
        <5>1. Migrating(q) => Due(q) <= (v - 1) + 1
          BY <2>1 DEF InStep
        <5>2. (v - 1) + 1 = v /\ v <= v + 1
          BY <1>2
        <5>3. Due(q) \in 0..32 /\ v \in 1..32
          BY <1>2, ProgramShape DEF SchemaInv
        <5> HIDE DEF v
        <5> QED BY <5>1, <5>2, <5>3
      <4> QED BY <1>1, <2>1, <3>2, <4>1, OthersStay DEF InStep, SchemaInv
    <3> QED BY <3>1, <3>2
  <2> QED BY <2>7, <2>8, <2>9 DEF Whole
<1> QED BY <1>7, <1>8, <1>11 DEF SchemaInv, Whole

LEMMA TransactionKeeps == ASSUME SchemaInv, NEW p \in Program, Transaction(p) PROVE SchemaInv'
<1> DEFINE v == Due(p)
           h == [programs[p] EXCEPT !.next = v + 1]
           proofs == IF v = 19 THEN Backfilled(file) ELSE file.proofs
           recognized == IF v = 22 THEN Recognized(file) ELSE file.recognized
<1>1. /\ Migrating(p) /\ v \in 8..Latest /\ ~Exists(Tables(v)) /\ Becomes(p, h)
      /\ file' = Migrated(file, v)
      /\ UNCHANGED <<saved, loads, late, torn>>
  BY DEF Transaction
<1>2. /\ programs[p] \in Programs /\ v \in 8..31 /\ v \in 1..Latest /\ AnyFile(file) /\ ~InScript(p)
      /\ programs[p].step = 0
  BY <1>1, LatestIs, ProgramShape DEF SchemaInv, MigrationsTyped, InScript
<1> HIDE DEF proofs, recognized
<1>3. file' = [file EXCEPT !.version = v, !.made = @ \cup Tables(v), !.proofs = proofs,
                           !.recognized = recognized]
  BY <1>1 DEF Migrated, Stamp, proofs, recognized
<1>4. /\ recognized \in [Line -> Journals \cup {0}]
      /\ \A k, l \in Line : k # l /\ recognized[k] # 0 => recognized[k] # recognized[l]
  BY <1>2, RecognizedOnce DEF AnyFile, FileShape, recognized
<1>5. proofs \in [Rate -> Nat]
  BY <1>2 DEF AnyFile, FileShape, proofs, Backfilled
<1>6. /\ file'.version = v /\ file'.made = file.made \cup Tables(v) /\ file'.used = file.used
      /\ file'.issues = file.issues /\ file'.rates = file.rates /\ file'.proofs = proofs
      /\ file'.recognized = recognized /\ file' \in FileShape
  <2>1. v \in 0..Latest /\ Latest \in 0..Latest /\ v <= Latest
    BY <1>2, LatestIs
  <2>2. file.made \cup Tables(v) \subseteq UpTo(Latest)
    BY <1>2, <2>1, FileFields, UpToGrows
  <2> QED BY <1>2, <1>3, <1>4, <1>5, <2>1, <2>2 DEF AnyFile, FileShape
<1>7. AnyFile(file')
  BY <1>2, <1>4, <1>6 DEF AnyFile
<1>8. /\ h \in Programs /\ h.stage = "migrating" /\ h.next = v + 1 /\ h.step = 0
      /\ h.copy = programs[p].copy /\ h.told = programs[p].told /\ h.restores = programs[p].restores
  <2>1. v + 1 \in 0..(Latest + 1)
    BY <1>2, LatestIs
  <2> QED BY <1>1, <1>2, <2>1 DEF Programs, Migrating, Due
<1> HIDE DEF h
<1>9. Fits(h)
  <2>1. ~(v + 1 < 8) /\ v + 1 >= 1
    BY <1>2
  <2> QED BY <1>1, <1>8, <2>1 DEF Fits, SchemaInv, MigrationsTyped
<1>10. MigrationsTyped'
  BY <1>1, <1>7, <1>9, SchemaTypedStep DEF SchemaInv, MigrationsTyped
<1>11. SavedStays'
  BY <1>1, <1>6 DEF SchemaInv, SavedStays
<1>12. programs'[p] = h
  BY <1>1, OthersStay DEF SchemaInv
<1>13. Due(p)' = v + 1 /\ ~InScript(p)'
  BY <1>2, <1>8, <1>12 DEF Due, InScript
<1>14. ASSUME ~torn' PROVE Whole'
  <2>1. /\ SoundFile(file, UNION {MadeBy(q) : q \in Scripts}) /\ InStep
        /\ \A q \in Program : programs[q].restores => SoundFile(programs[q].copy, {})
    BY <1>1, <1>14 DEF SchemaInv, Whole
  <2>2. file.version = v - 1 /\ file.version \in 0..31
    <3>0. file.version \in 0..31
      BY <1>2, FileFields
    <3>1. v <= file.version + 1
      BY <1>1, <2>1 DEF InStep
    <3>2. ~(v <= file.version)
      <4> SUFFICES ASSUME v <= file.version PROVE FALSE
        OBVIOUS
      <4>1. file.version \in 0..Latest
        BY <3>0, LatestIs
      <4>2. Tables(v) \subseteq UpTo(file.version)
        BY <1>2, <4>1, UpToGrows
      <4>3. Tables(v) # {}
        BY <1>2, TablesOf
      <4> QED BY <1>1, <2>1, <4>2, <4>3 DEF SoundFile, Exists
    <3> QED BY <1>2, <3>0, <3>1, <3>2
  <2>3. UpTo(v) = UpTo(v - 1) \cup Tables(v)
    BY <1>2, UpToGrows
  <2>4. (UNION {MadeBy(q) : q \in Scripts})' = UNION {MadeBy(q) : q \in Scripts}
    <3>1. Scripts' = Scripts /\ \A q \in Scripts : MadeBy(q)' = MadeBy(q)
      BY <1>1, <1>2, <1>13, OthersStay DEF Scripts, SchemaInv
    <3> QED BY <3>1
  <2>5. /\ file.version >= 7 /\ file.version # 6 /\ v >= 7
    BY <1>2, <2>2
  <2>6. \A r \in Rate : proofs[r] = IF v >= 19 /\ r \in file.rates THEN 1 ELSE 0
    <3>1. CASE v = 19
      BY <2>1, <2>2, <3>1 DEF proofs, SoundFile, Backfilled
    <3>2. CASE v # 19
      <4>1. (v >= 19) = (file.version >= 19)
        BY <1>2, <2>2, <3>2
      <4> QED BY <2>1, <3>2, <4>1 DEF proofs, SoundFile
    <3> QED BY <3>1, <3>2
  <2>7. SoundFile(file', (UNION {MadeBy(q) : q \in Scripts})')
    BY <1>6, <2>1, <2>2, <2>3, <2>4, <2>5, <2>6 DEF SoundFile
  <2>8. \A q \in Program : programs'[q].restores => SoundFile(programs'[q].copy, {})
    BY <1>1, <1>8, <1>12, <2>1, OthersStay DEF SchemaInv
  <2>9. InStep'
    <3> SUFFICES ASSUME NEW q \in Program
                 PROVE  /\ Migrating(q)' => Due(q)' <= v + 1
                        /\ InScript(q)' => MadeBy(q)' \subseteq file'.made
                        /\ InScript(q)' /\ Due(q)' = 7 /\ programs'[q].step > 0 /\ file.used
                           => file.issues = Deduplicated(Complaint)
      BY <1>6 DEF InStep
    <3>1. CASE q = p
      BY <1>2, <1>13, <3>1
    <3>2. CASE q # p
      <4>1. Migrating(q) => Due(q) <= v + 1
        <5>1. Migrating(q) => Due(q) <= (v - 1) + 1
          BY <2>1, <2>2 DEF InStep
        <5>2. (v - 1) + 1 = v /\ v <= v + 1
          BY <1>2
        <5>3. Due(q) \in 0..32 /\ v \in 1..32
          BY <1>2, ProgramShape DEF SchemaInv
        <5> HIDE DEF v
        <5> QED BY <5>1, <5>2, <5>3
      <4> QED BY <1>1, <1>6, <2>1, <3>2, <4>1, OthersStay DEF InStep, SchemaInv
    <3> QED BY <3>1, <3>2
  <2> QED BY <2>7, <2>8, <2>9 DEF Whole
<1> QED BY <1>10, <1>11, <1>14 DEF SchemaInv, Whole

\* Where nobody migrates, a sound file leaves nothing to prove.
LEMMA NobodyMigrates ==
    ASSUME \A q \in Program : ~Migrating(q)', MigrationsTyped', SoundFile(file', {})
    PROVE  Whole'
<1>1. Scripts' = {} /\ \A q \in Program : ~InScript(q)'
  BY DEF Scripts, InScript
<1>2. (UNION {MadeBy(q) : q \in Scripts})' = {}
  BY <1>1
<1>3. \A q \in Program : ~programs'[q].restores
  BY DEF MigrationsTyped
<1> QED BY <1>1, <1>2, <1>3 DEF Whole, InStep

LEMMA FailKeeps == ASSUME SchemaInv, NEW p \in Program, Fail(p) PROVE SchemaInv'
<1>1. /\ Migrating(p) /\ file' = PutBack(p) /\ Becomes(p, Away) /\ UNCHANGED <<loads, late>>
      /\ saved' = IF programs[p].restores THEN programs[p].told \cup late ELSE saved
      /\ torn' = (torn \/ TornBy(p)
                  \/ (programs[p].restores /\ \E q \in Program \ {p} : Migrating(q)))
  BY DEF Fail
<1>2. /\ programs[p] \in Programs /\ AnyFile(file) /\ AnyFile(programs[p].copy)
      /\ programs[p].restores \in BOOLEAN /\ programs[p].told \subseteq Rate
      /\ torn \in BOOLEAN /\ late \subseteq Rate /\ saved \subseteq Rate
  BY ProgramShape DEF SchemaInv, MigrationsTyped, Programs
<1>3. torn' \in BOOLEAN /\ (torn => torn') /\ (~torn' => ~TornBy(p))
  BY <1>1, <1>2 DEF TornBy, InScript, Migrating
<1>4. AnyFile(file') /\ saved' \subseteq Rate
  BY <1>1, <1>2 DEF PutBack
<1>5. MigrationsTyped'
  BY <1>1, <1>3, <1>4, AwayFits, SchemaTypedStep DEF SchemaInv, MigrationsTyped
<1>6. CASE ~programs[p].restores
  BY <1>1, <1>3, <1>5, <1>6, AwayFits, AwayShape, FileStays DEF PutBack
<1>7. CASE programs[p].restores
  <2>1. file' = programs[p].copy /\ saved' = programs[p].told \cup late
    BY <1>1, <1>7 DEF PutBack
  <2>2. SavedStays'
    BY <1>1, <1>7, <2>1 DEF SavedStays, SchemaInv, MigrationsTyped
  <2>3. ASSUME ~torn' PROVE Whole'
    <3>1. \A q \in Program : ~Migrating(q)'
      BY <1>1, <1>7, <2>3, OthersStay, AwayShape DEF SchemaInv, Migrating
    <3>2. SoundFile(file', {})
      BY <1>3, <1>7, <2>1, <2>3 DEF SchemaInv, Whole
    <3> QED BY <1>5, <3>1, <3>2, NobodyMigrates
  <2> QED BY <1>5, <2>2, <2>3 DEF SchemaInv, Whole
<1> QED BY <1>6, <1>7

LEMMA LoadKeeps ==
    ASSUME SchemaInv, NEW p \in Program, NEW v \in Starts, Load(p, v) PROVE SchemaInv'
<1> DEFINE h == [Away EXCEPT !.stage = "migrating", !.next = v + 1, !.restores = TRUE,
                             !.copy = file, !.told = saved]
<1>1. /\ programs[p].stage = "open" /\ v \in 1..Latest /\ loads < MaxRestores /\ loads' = loads + 1
      /\ Becomes(p, h) /\ file' = FileOf(v) /\ saved' = Recorded
      /\ torn' = (torn \/ \E q \in Program : Migrating(q)) /\ late' = late
  BY DEF Load, Becomes
<1>2. /\ AnyFile(file') /\ SoundFile(file', {}) /\ file'.version = v /\ file'.rates = Recorded
  <2>1. v \in 0..Latest /\ v > 0
    BY <1>1, LatestIs
  <2> QED BY <1>1, <2>1, FileOfShape
<1>3. /\ AnyFile(file) /\ saved \subseteq Rate /\ late \subseteq Rate /\ loads \in 0..MaxRestores
      /\ torn \in BOOLEAN
  BY DEF SchemaInv, MigrationsTyped
<1>4. /\ h \in Programs /\ h.stage = "migrating" /\ h.next = v + 1 /\ h.step = 0 /\ h.restores
      /\ h.copy = file /\ h.told = saved
  <2>1. v + 1 \in 0..(Latest + 1)
    BY <1>1, LatestIs
  <2> QED BY <1>3, <2>1, AwayShape DEF Programs, AnyFile
<1> HIDE DEF h
<1>5. Fits(h)
  <2>1. v + 1 >= 1
    BY <1>1, LatestIs
  <2>2. v + 1 < 8 => 0 <= Len(Creates[v + 1])
    <3> SUFFICES ASSUME v + 1 < 8 PROVE 0 <= Len(Creates[v + 1])
      OBVIOUS
    <3>1. v + 1 \in 1..Latest
      BY <1>1, LatestIs
    <3>2. Len(Creates[v + 1]) \in Nat
      BY <3>1, CreatesShape
    <3> QED BY <3>2
  <2>3. saved \ late' \subseteq file.rates
    BY <1>1 DEF SchemaInv, SavedStays
  <2> QED BY <1>3, <1>4, <2>1, <2>2, <2>3 DEF Fits
<1>6. MigrationsTyped'
  <2>1. loads' \in 0..MaxRestores
    BY <1>1, <1>3, MigrationConstants
  <2> QED BY <1>1, <1>2, <1>3, <1>5, <2>1, MigrationConstants, SchemaTypedStep DEF SchemaInv
<1>7. SavedStays'
  BY <1>1, <1>2 DEF SavedStays
<1>8. programs'[p] = h
  BY <1>1, OthersStay DEF SchemaInv
<1>9. ASSUME ~torn' PROVE Whole'
  <2>1. ~torn /\ \A q \in Program : ~Migrating(q)
    BY <1>1, <1>9
  <2>2. Scripts = {} /\ UNION {MadeBy(q) : q \in Scripts} = {}
    BY <2>1 DEF Scripts, InScript
  <2>3. SoundFile(file, {})
    BY <2>1, <2>2 DEF SchemaInv, Whole
  <2>4. \A q \in Program \ {p} : ~Migrating(q)' /\ ~InScript(q)' /\ ~programs'[q].restores
    BY <1>1, <2>1, OthersStay DEF SchemaInv, MigrationsTyped, InScript
  <2>5. Due(p)' = v + 1 /\ programs'[p].step = 0 /\ MadeBy(p)' = {}
    BY <1>4, <1>8 DEF Due, MadeBy
  <2>6. (UNION {MadeBy(q) : q \in Scripts})' = {}
    BY <2>4, <2>5 DEF Scripts
  <2>7. \A q \in Program : programs'[q].restores => SoundFile(programs'[q].copy, {})
    BY <1>4, <1>8, <2>3, <2>4
  <2>8. InStep'
    <3>1. v + 1 <= v + 1
      BY <1>1, LatestIs
    <3> QED BY <1>2, <2>4, <2>5, <3>1 DEF InStep
  <2> QED BY <1>2, <2>6, <2>7, <2>8 DEF Whole
<1> QED BY <1>6, <1>7, <1>9 DEF SchemaInv, Whole

LEMMA AddRateKeeps ==
    ASSUME SchemaInv, NEW p \in Program, NEW r \in Rate, AddRate(p, r) PROVE SchemaInv'
<1>1. /\ "fx_provenance" \in file.made /\ r \notin file.rates
      /\ file' = [file EXCEPT !.rates = @ \cup {r}, !.proofs[r] = 1]
      /\ saved' = saved \cup {r} /\ late \subseteq late' /\ late' \subseteq late \cup {r}
      /\ UNCHANGED <<programs, loads, torn>>
  BY DEF AddRate
<1>2. AnyFile(file) /\ file.proofs \in [Rate -> Nat] /\ file.version \in 0..31
  BY FileFields DEF SchemaInv, MigrationsTyped
<1>3. file' = [file EXCEPT !.rates = @ \cup {r}, !.proofs = [file.proofs EXCEPT ![r] = 1]]
  BY <1>1, <1>2 DEF AnyFile, FileShape
<1>4. /\ file'.version = file.version /\ file'.made = file.made /\ file'.used = file.used
      /\ file'.issues = file.issues /\ file'.rates = file.rates \cup {r}
      /\ file'.proofs = [file.proofs EXCEPT ![r] = 1]
      /\ file'.recognized = file.recognized /\ file' \in FileShape
  BY <1>2, <1>3 DEF AnyFile, FileShape
<1>5. AnyFile(file')
  BY <1>2, <1>4 DEF AnyFile
<1>6. \A q \in Program : /\ Migrating(q)' = Migrating(q) /\ Due(q)' = Due(q)
                         /\ InScript(q)' = InScript(q) /\ MadeBy(q)' = MadeBy(q)
  BY <1>1 DEF Migrating, Due, InScript, MadeBy
<1>7. MigrationsTyped'
  BY <1>1, <1>5, <1>6 DEF SchemaInv, MigrationsTyped
<1>8. SavedStays'
  BY <1>1, <1>4 DEF SchemaInv, SavedStays
<1>9. ASSUME ~torn' PROVE Whole'
  <2>1. /\ SoundFile(file, UNION {MadeBy(q) : q \in Scripts}) /\ InStep
        /\ \A q \in Program : programs[q].restores => SoundFile(programs[q].copy, {})
    BY <1>1, <1>9 DEF SchemaInv, Whole
  <2>2. file.version >= 19
    <3> SUFFICES ASSUME ~(file.version >= 19) PROVE FALSE
      OBVIOUS
    <3>1. file.version \in 0..18
      BY <1>2
    <3>2. "fx_provenance" \notin UpTo(file.version)
      BY <3>1, NoProvenanceBefore
    <3>3. \A q \in Scripts : "fx_provenance" \notin MadeBy(q)
      <4> SUFFICES ASSUME NEW q \in Program, InScript(q) PROVE "fx_provenance" \notin MadeBy(q)
        BY DEF Scripts
      <4>1. Due(q) \in 1..18 /\ MadeBy(q) \subseteq Tables(Due(q))
        BY ProgramShape DEF SchemaInv
      <4> QED BY <4>1, ProvenanceIsNew
    <3>4. "fx_provenance" \notin Tables(7)
      BY ProvenanceIsNew
    <3> QED BY <1>1, <2>1, <3>2, <3>3, <3>4 DEF SoundFile
  <2>3. \A s \in Rate : file'.proofs[s] = IF s \in file.rates \cup {r} THEN 1 ELSE 0
    BY <1>2, <1>4, <2>1, <2>2 DEF SoundFile
  <2>4. (UNION {MadeBy(q) : q \in Scripts})' = UNION {MadeBy(q) : q \in Scripts}
    <3>1. Scripts' = Scripts /\ \A q \in Scripts : MadeBy(q)' = MadeBy(q)
      BY <1>6 DEF Scripts
    <3> QED BY <3>1
  <2>5. SoundFile(file', (UNION {MadeBy(q) : q \in Scripts})')
    BY <1>4, <2>1, <2>2, <2>3, <2>4 DEF SoundFile
  <2>6. InStep'
    BY <1>1, <1>4, <1>6, <2>1 DEF InStep
  <2> QED BY <1>1, <2>1, <2>5, <2>6 DEF Whole
<1> QED BY <1>7, <1>8, <1>9 DEF SchemaInv, Whole

LEMMA SchemaStep == SchemaInv /\ MigrationsNext => SchemaInv'
BY OpenKeeps, StatementKeeps, StampScriptKeeps, TransactionKeeps, OpenedKeeps, FailKeeps, QuitKeeps,
   LoadKeeps, AddRateKeeps DEF MigrationsNext

LEMMA SchemaStutter == SchemaInv /\ UNCHANGED migrationsVars => SchemaInv'
BY DEF migrationsVars, SchemaInv, MigrationsTyped, Whole, InStep, Scripts, MadeBy, SavedStays,
       Migrating, Due, InScript

\* The invariant has what the runs check.
LEMMA SchemaHolds == SchemaInv => MigrationsInv
<1> SUFFICES ASSUME SchemaInv PROVE MigrationsInv
  OBVIOUS
<1>1. MigrationsTypeOK
  <2>1. \A p \in Program : programs[p] \in Programs
    BY DEF SchemaInv, MigrationsTyped
  <2> QED BY <2>1 DEF SchemaInv, MigrationsTyped, MigrationsTypeOK, AnyFile, Programs
<1>2. SchemaIsWhole
  <2> SUFFICES ASSUME ~torn PROVE SchemaIsWhole
    BY DEF SchemaIsWhole
  <2>1. SoundFile(file, UNION {MadeBy(p) : p \in Scripts})
    BY DEF SchemaInv, Whole
  <2>2. UNION {MadeBy(p) : p \in Scripts} \subseteq UNION {Tables(Due(p)) : p \in Scripts}
    BY ProgramShape DEF Scripts, SchemaInv
  <2>3. UNION {MadeBy(p) : p \in Scripts} \subseteq UNION {Tables(Due(p)) : p \in {q \in Program : InScript(q)}}
    BY <2>2 DEF Scripts
  <2> HIDE DEF Scripts
  <2>4. UpTo(file.version) \subseteq file.made
    BY <2>1 DEF SoundFile
  <2>5. file.made \ UpTo(file.version) \subseteq (UNION {MadeBy(p) : p \in Scripts}) \cup (IF file.version = 6 THEN Tables(7) ELSE {})
    BY <2>1 DEF SoundFile
  <2>6. file.made \ UpTo(file.version)
           \subseteq (UNION {Tables(Due(p)) : p \in {q \in Program : InScript(q)}})
                     \cup (IF file.version = 6 THEN Tables(7) ELSE {})
    BY <2>3, <2>5
  <2> QED BY <2>4, <2>6 DEF SchemaIsWhole
<1>3. NewestIsKept
  BY DeduplicatedOnce, DeduplicatedCovers
     DEF SchemaInv, Whole, SoundFile, NewestIsKept, Subject
<1>4. ProvenOnce
  <2> SUFFICES ASSUME ~torn, file.version >= 19, NEW r \in file.rates PROVE file.proofs[r] = 1
    BY DEF ProvenOnce
  <2>1. r \in Rate
    BY FileFields DEF SchemaInv, MigrationsTyped
  <2> QED BY <2>1 DEF SchemaInv, Whole, SoundFile
<1>5. AdoptedOnce /\ SavedStays
  BY DEF SchemaInv, MigrationsTyped, AnyFile, AdoptedOnce
<1> QED BY <1>1, <1>2, <1>3, <1>4, <1>5 DEF MigrationsInv

-----------------------------------------------------------------------------
\* migrate and restore: however many programs open one ledger file while it is
\* migrated or restored, and wherever they stop, the file has the tables of its
\* version, keeps the newest complaint of every subject, proves a rate once, and
\* loses nothing a program was told is stored.
THEOREM SchemaIsSound == StoresSpec => []MigrationsInv
<1>1. StoresInit => SchemaInv
  BY SchemaStart DEF StoresInit
<1>2. SchemaInv /\ [Copies \/ Roots \/ Schema]_storesVars => SchemaInv'
  <2>1. CASE SchemaInv /\ Schema
    BY <2>1, SchemaStep DEF Schema
  <2>2. CASE SchemaInv /\ (UNCHANGED storesVars \/ Copies \/ Roots)
    <3>1. UNCHANGED migrationsVars
      BY <2>2 DEF storesVars, Copies, Roots
    <3> QED BY <2>2, <3>1, SchemaStutter
  <2> QED
    BY <2>1, <2>2
<1>3. SchemaInv => MigrationsInv
  BY SchemaHolds
<1> QED
  BY <1>1, <1>2, <1>3, PTL DEF StoresSpec
=============================================================================
