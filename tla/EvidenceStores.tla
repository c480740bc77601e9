--------------------------- MODULE EvidenceStores ---------------------------
(***************************************************************************)
(* Where the data is: the copies of a file at the storage backends         *)
(* (Storage), the move of the whole private root they are registered from  *)
(* (Relocation), and the versions of the ledger file that registers them   *)
(* (Migrations).  The move knows nothing of the backends and runs before   *)
(* any is configured, and a file of an older version is used by no handler *)
(* but its migrations, so a behaviour is about one of the three.           *)
(***************************************************************************)
EXTENDS Storage, Relocation, Migrations

VARIABLE keeping

storesVars == <<vars, relocationVars, migrationsVars, keeping>>

StoresInit ==
    /\ Init /\ RelocationInit /\ MigrationsInit
    /\ keeping \in {"copies", "roots", "schema"}
    /\ keeping # "roots" => ~relative /\ ~pinned
    /\ keeping # "copies" => \A b \in Backend \ {Local} : objects[b] = "none"
    /\ keeping # "schema" => file = FileOf(Latest)

Copies == keeping = "copies" /\ Next
          /\ UNCHANGED <<relocationVars, migrationsVars, keeping>>
Roots == keeping = "roots" /\ RelocationNext
         /\ UNCHANGED <<vars, migrationsVars, keeping>>
Schema == keeping = "schema" /\ MigrationsNext
          /\ UNCHANGED <<vars, relocationVars, keeping>>

StoresSpec == StoresInit /\ [][Copies \/ Roots \/ Schema]_storesVars
=============================================================================
