---------------------------- MODULE Connections -----------------------------
(***************************************************************************)
(* Connections that share the database file: handlers of the ledger that   *)
(* read before they write (LedgerRace), bank imports that restore the      *)
(* whole file when they fail (Statements), and imports of a provider's     *)
(* history that are run again beside the people working on what they       *)
(* brought (HistoryImport).  A behaviour is about one of the three; the    *)
(* others start, and stay, in one state.                                   *)
(***************************************************************************)
EXTENDS LedgerRace, Statements, HistoryImport

VARIABLE shares

connectionsVars == <<vars, statementsVars, historyVars, shares>>

ConnectionsInit ==
    /\ Init /\ StatementsInit /\ HistoryInit
    /\ shares \in {"rows", "statements", "history"}
    /\ shares # "rows" =>
          \A t, u \in Transaction : rows[t].party = rows[u].party /\ rows[t].party = CHOOSE p \in Party : TRUE

Handlers == shares = "rows" /\ Next /\ UNCHANGED <<statementsVars, historyVars, shares>>
Imports == shares = "statements" /\ StatementsNext /\ UNCHANGED <<vars, historyVars, shares>>
Migrations == shares = "history" /\ HistoryNext /\ UNCHANGED <<vars, statementsVars, shares>>

ConnectionsSpec == ConnectionsInit /\ [][Handlers \/ Imports \/ Migrations]_connectionsVars
=============================================================================
