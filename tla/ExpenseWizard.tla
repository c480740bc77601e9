---------------------------- MODULE ExpenseWizard ----------------------------
(***************************************************************************)
(* One equipment expense through the wizard: a server draft edited by      *)
(* several sessions, a preview whose token binds what was seen, a confirm  *)
(* that posts the expense and its due depreciation once, and the later     *)
(* depreciation of the schedule.  Confirm and depreciation carry a request *)
(* key, so that a session that lost the answer can send the same request   *)
(* again.                                                                  *)
(*                                                                         *)
(* A call is a server thread with its own connection.  Confirm looks for a *)
(* saved action and resolves the exchange rate before it takes the write   *)
(* lock, and looks again under the lock; everything under the lock is one  *)
(* step, because a failure rolls all of it back.  Two abandoned threads    *)
(* with the same request at the same stage are one call here.              *)
(***************************************************************************)
EXTENDS Naturals, FiniteSets, Lifecycle

CONSTANTS
    Session,        \* browser tabs, agents, command lines
    Payload,        \* contents a draft can have
    Equipment,      \* the payloads that register an asset
    Request,        \* request keys
    Entry,          \* rows of the depreciation schedule
    EntryDay,       \* entry -> recognition_on
    None,
    LastDay,        \* bound: days are 0 .. LastDay
    MaxVersion,     \* bound: versions of the draft and of the source records
    MaxCalls        \* bound: server threads at work at once

VARIABLES
    source,     \* the expense and its document: [status, version]
    draft,      \* [version, payload, source]; version 0 is no draft
    posted,     \* what was posted: [payload, day], or None
    entries,    \* entry -> [status, version]; status follows its recognition row
    journals,   \* entry -> depreciation rows posted for it
    shut,       \* entries whose quarter is closed
    actions,    \* expense_actions: request -> the input it was saved with, or None
    calls,      \* server threads at work
    clients,    \* session -> [token, sent, told]
    today

records == <<source, draft, posted, entries, journals, shut, actions>>
vars == <<source, draft, posted, entries, journals, shut, actions, calls, clients, today>>

Version == 0..(MaxVersion + 1)

\* The digest of the source, the draft and the date the preview was made on.
Token == [source : Version, draft : Version, payload : Payload, day : 0..LastDay]

\* The fingerprint of a request.
Input == [kind : {"expense"}, token : Token]
             \cup [kind : {"depreciation"}, entry : Entry, version : Version]

Call == [session : Session, request : Request, input : Input,
         stage : {"sent", "looked", "checked"}, live : BOOLEAN]

\* What was posted, and what a session asked for.
Posting == [payload : Payload, day : 0..LastDay]
Asked == [request : Request, input : Input]

ASSUME WizardAssumption ==
    /\ LastDay \in Nat /\ MaxVersion \in Nat \ {0} /\ MaxCalls \in Nat
    /\ Equipment \subseteq Payload
    /\ EntryDay \in [Entry -> 0..LastDay]
    /\ None \notin Token \cup Input \cup Posting \cup Asked

-----------------------------------------------------------------------------
(* Gates *)

Editable == source.status \in Unposted

Saved(version) ==
    /\ Editable
    /\ draft.version = version /\ version > 0
    /\ draft.source = source.version

CurrentToken ==
    [source |-> source.version, draft |-> draft.version, payload |-> draft.payload, day |-> today]

Scheduled(payload) == IF payload \in Equipment THEN Entry ELSE {}
Due(payload) == {e \in Scheduled(payload) : EntryDay[e] <= today}

\* The rehearsal that preview and confirm share: every row of the schedule needs
\* a quarter that is still open.
Prepared(payload) == Scheduled(payload) \cap shut = {}

\* Broken variant: the fingerprint of a saved request is not compared.
Cached_AnyInput(request, input) == actions[request] # None

Cached(request, input) == actions[request] = input

KeyReused(request, input) == actions[request] \notin {None, input}

-----------------------------------------------------------------------------
(* The draft *)

\* A changed draft withdraws an approval, and its document's, in the same commit.
SaveDraft(payload) ==
    /\ Editable
    /\ draft.version < MaxVersion
    /\ source.status = "approved" => source.version < MaxVersion
    /\ <<draft.payload, draft.source>> # <<payload, source.version>>
    /\ source' = IF source.status = "approved"
                 THEN [status |-> "needs_review", version |-> source.version + 1]
                 ELSE source
    /\ draft' = [version |-> draft.version + 1, payload |-> payload, source |-> source'.version]
    /\ UNCHANGED <<posted, entries, journals, shut, actions, calls, clients, today>>

\* Another screen changes the records under the draft: a packet, a batch, a
\* correction.
ChangeSource(status) ==
    /\ source.version < MaxVersion /\ source.status \notin Terminal
    /\ CanMove(source.status, status)
    /\ source' = [status |-> status, version |-> source.version + 1]
    /\ UNCHANGED <<draft, posted, entries, journals, shut, actions, calls, clients, today>>

\* The depreciation row of an entry is voided; the entry keeps its link to it.
VoidJournal(e) ==
    /\ entries[e].status = "recognized" /\ e \notin shut
    /\ entries' = [entries EXCEPT ![e].status = "voided"]
    /\ UNCHANGED <<source, draft, posted, journals, shut, actions, calls, clients, today>>

\* The quarter of an entry closes, or the day passes.
CloseQuarter(e) ==
    /\ e \notin shut
    /\ shut' = shut \cup {e}
    /\ UNCHANGED <<source, draft, posted, entries, journals, actions, calls, clients, today>>

NextDay ==
    /\ today < LastDay
    /\ today' = today + 1
    /\ UNCHANGED <<records, calls, clients>>

-----------------------------------------------------------------------------
(* Sessions *)

Waiting(s) == \E call \in calls : call.session = s /\ call.live
Undecided(s) == clients[s].sent # None /\ clients[s].told = "nothing"

\* A rehearsal rolled back: it leaves only the token.
Preview(s) ==
    /\ ~Undecided(s)
    /\ Saved(draft.version)
    /\ Prepared(draft.payload)
    /\ clients' = [clients EXCEPT ![s] = [@ EXCEPT !.token = CurrentToken]]
    /\ UNCHANGED <<records, calls, today>>

Ask(s, request, input) ==
    /\ Cardinality(calls) < MaxCalls
    /\ clients' = [clients EXCEPT ![s] =
          [token |-> @.token, sent |-> [request |-> request, input |-> input], told |-> "nothing"]]
    /\ calls' = calls \cup {[session |-> s, request |-> request, input |-> input,
                             stage |-> "sent", live |-> TRUE]}
    /\ UNCHANGED <<records, today>>

Confirm(s, request) ==
    /\ ~Undecided(s)
    /\ clients[s].token # None
    /\ Ask(s, request, [kind |-> "expense", token |-> clients[s].token])

\* The schedule row is posted with the version the session reads beside it.
PostDepreciation(s, request, e) ==
    /\ ~Undecided(s)
    /\ entries[e].status # "absent"
    /\ Ask(s, request, [kind |-> "depreciation", entry |-> e, version |-> entries[e].version])

\* The connection breaks; the thread, if it still runs, goes on unheard.
Timeout(s) ==
    /\ Waiting(s)
    /\ calls' = {IF call.session = s THEN [call EXCEPT !.live = FALSE] ELSE call : call \in calls}
    /\ UNCHANGED <<records, clients, today>>

\* The same request, under the same key.
Retry(s) ==
    /\ Undecided(s) /\ ~Waiting(s)
    /\ Ask(s, clients[s].sent.request, clients[s].sent.input)

-----------------------------------------------------------------------------
(* Server threads *)

Finish(call, answer) ==
    /\ calls' = calls \ {call}
    /\ clients' = IF call.live THEN [clients EXCEPT ![call.session].told = answer] ELSE clients

\* No action is saved under the request key.
Fresh(call) == actions[call.request] = None

Refuse(call) == Finish(call, "refused") /\ UNCHANGED <<records, today>>

\* Broken variant: a request that comes again is refused.
AnswerSaved_Refused(call) ==
    Cached(call.request, call.input) /\ Refuse(call)

AnswerSaved(call) ==
    /\ Cached(call.request, call.input)
    /\ Finish(call, "posted")
    /\ UNCHANGED <<records, today>>

Advance(call, stage) ==
    /\ calls' = (calls \ {call}) \cup {[call EXCEPT !.stage = stage]}
    /\ UNCHANGED <<records, clients, today>>

\* confirm_and_post before the lock: the saved action first.
Look(call) ==
    /\ call.stage = "sent" /\ call.input.kind = "expense"
    /\ \/ AnswerSaved(call)
       \/ KeyReused(call.request, call.input) /\ Refuse(call)
       \/ Fresh(call) /\ Advance(call, "looked")

\* Then, in another read, the draft and its exchange rate.
ResolveFx(call) ==
    /\ call.stage = "looked"
    /\ IF Saved(call.input.token.draft) THEN Advance(call, "checked") ELSE Refuse(call)

Remember(call) == actions' = [actions EXCEPT ![call.request] = call.input]

\* Broken variant: the date of the preview is not part of its token.
TokenCurrent_AnyDay(token) == [token EXCEPT !.day = today] = CurrentToken

TokenCurrent(token) == token = CurrentToken

Confirmable(token) == Saved(token.draft) /\ TokenCurrent(token) /\ Prepared(draft.payload)

\* Under the lock: posting, the schedule, the due depreciation and the saved
\* action commit together.
PostExpense(call) ==
    LET payload == draft.payload
    IN  /\ Confirmable(call.input.token)
        /\ source' = [status |-> "posted", version |-> source.version + 1]
        /\ posted' = [payload |-> payload, day |-> today]
        /\ entries' = [e \in Entry |->
              IF e \in Due(payload) THEN [status |-> "recognized", version |-> 2]
              ELSE IF e \in Scheduled(payload) THEN [status |-> "planned", version |-> 1]
              ELSE entries[e]]
        /\ journals' = [e \in Entry |-> IF e \in Due(payload) THEN journals[e] + 1 ELSE journals[e]]
        /\ Remember(call)
        /\ Finish(call, "posted")
        /\ UNCHANGED <<draft, shut, today>>

Commit(call) ==
    /\ call.stage = "checked"
    /\ \/ AnswerSaved(call)
       \/ KeyReused(call.request, call.input) /\ Refuse(call)
       \/ Fresh(call) /\ PostExpense(call)
       \/ Fresh(call) /\ ~Confirmable(call.input.token) /\ Refuse(call)

\* Broken variant: the link to the recognition row is not looked at.
Recognizable_Again(e, version) == entries[e].status # "absent"

\* An entry not recognized yet must be the one the session saw.
Recognizable(e, version) ==
    entries[e].status = "planned" /\ entries[e].version = version

Depreciable(e) ==
    e \notin shut /\ EntryDay[e] <= today /\ source.status \in Booked

PostEntry(call, e) ==
    /\ entries' = [entries EXCEPT ![e] = [status |-> "recognized", version |-> @.version + 1]]
    /\ journals' = [journals EXCEPT ![e] = @ + 1]
    /\ UNCHANGED <<source, draft, posted, shut, today>>

\* recognize_period: all of it under the lock.
Recognize(call) ==
    LET e == call.input.entry
        postable == Recognizable(e, call.input.version) /\ Depreciable(e)
    IN  /\ call.stage = "sent" /\ call.input.kind = "depreciation"
        /\ \/ AnswerSaved(call)
           \/ KeyReused(call.request, call.input) /\ Refuse(call)
           \/ /\ Fresh(call) /\ postable
              /\ PostEntry(call, e)
              /\ Remember(call) /\ Finish(call, "posted")
           \/ /\ Fresh(call) /\ ~postable /\ entries[e].status = "recognized"
              /\ UNCHANGED <<source, draft, posted, entries, journals, shut, today>>
              /\ Remember(call) /\ Finish(call, "posted")
           \/ /\ Fresh(call) /\ ~postable /\ entries[e].status # "recognized"
              /\ Refuse(call)

\* The server process ends; open transactions roll back.
Crash ==
    /\ calls # {}
    /\ calls' = {}
    /\ UNCHANGED <<records, clients, today>>

-----------------------------------------------------------------------------

Init ==
    /\ source \in [status : {"needs_review", "approved"}, version : {1}]
    /\ \E payload \in Payload : draft = [version |-> 0, payload |-> payload, source |-> 0]
    /\ posted = None
    /\ entries = [e \in Entry |-> [status |-> "absent", version |-> 0]]
    /\ journals = [e \in Entry |-> 0]
    /\ shut = {}
    /\ actions = [r \in Request |-> None]
    /\ calls = {}
    /\ clients = [s \in Session |-> [token |-> None, sent |-> None, told |-> "nothing"]]
    /\ today = 0

Records ==
    \/ \E payload \in Payload : SaveDraft(payload)
    \/ \E status \in Status : ChangeSource(status)
    \/ \E e \in Entry : CloseQuarter(e) \/ VoidJournal(e)
    \/ NextDay

SessionStep(s) ==
    \/ Preview(s)
    \/ \E r \in Request : Confirm(s, r) \/ \E e \in Entry : PostDepreciation(s, r, e)
    \/ Timeout(s)
    \/ Retry(s)

Serve(call) == Look(call) \/ ResolveFx(call) \/ Commit(call) \/ Recognize(call)

Next ==
    \/ Records
    \/ \E s \in Session : SessionStep(s)
    \/ \E call \in calls : Serve(call)
    \/ Crash

Spec == Init /\ [][Next]_vars

ServeLive(s, stage) ==
    \E call \in calls :
        call.session = s /\ call.live /\ call.stage = stage /\ Serve(call)

ServeAbandoned == \E call \in calls : ~call.live /\ Serve(call)

\* Server threads run; a session keeps retrying, and now and then its thread
\* reads and commits before the connection breaks.
Fairness ==
    /\ WF_vars(ServeAbandoned)
    /\ \A s \in Session :
          /\ SF_vars(Retry(s))
          /\ \A stage \in {"sent", "looked", "checked"} : SF_vars(ServeLive(s, stage))

FairSpec == Spec /\ Fairness

-----------------------------------------------------------------------------
(* Properties *)

\* The shape of every variable; a saved action holds the request's fingerprint.
TypeOK ==
    /\ source \in [status : Status, version : Version]
    /\ draft \in [version : Version, payload : Payload, source : Version]
    /\ posted \in Posting \cup {None}
    /\ entries \in [Entry -> [status : {"absent", "planned", "recognized", "voided"}, version : 0..2]]
    /\ journals \in [Entry -> Nat]
    /\ shut \subseteq Entry
    /\ actions \in [Request -> Input \cup {None}]
    /\ calls \subseteq Call
    /\ clients \in [Session -> [token : Token \cup {None},
                                 sent : Asked \cup {None},
                                 told : {"nothing", "posted", "refused"}]]
    /\ today \in 0..LastDay

Confirmed == {r \in Request : actions[r] # None /\ actions[r].kind = "expense"}

\* However many sessions edit, preview, confirm and retry, the wizard posts the
\* expense at most once, under one request, with the contents and on the day
\* that request's preview showed (confirm_and_post, _saved).
PostedAsPreviewed ==
    /\ Cardinality(Confirmed) <= 1
    /\ (posted = None) <=> (Confirmed = {})
    /\ \A r \in Confirmed :
           posted = [payload |-> actions[r].token.payload, day |-> actions[r].token.day]

\* A session that was told its request is posted finds exactly that request
\* among the saved actions, whichever delivery of it did the work (_cached).
AnswersTrue ==
    \A s \in Session :
        clients[s].told = "posted" => actions[clients[s].sent.request] = clients[s].sent.input

\* A schedule row is posted at most once, by the confirmation or by a later
\* request, never before its date and only of a posted expense (_recognize).
RecognizedOnce ==
    \A e \in Entry :
        /\ journals[e] <= 1
        /\ journals[e] = 1 => posted # None /\ EntryDay[e] <= today
        /\ entries[e].status \in {"recognized", "voided"} <=> journals[e] = 1

\* No request, however late its thread, posts depreciation into a quarter that
\* closed after the schedule was made (_recognize, add_amortization_entry).
ShutEntriesKept ==
    [][\A e \in shut : journals'[e] = journals[e] /\ entries'[e] = entries[e]]_vars

\* A request was carried out, and the thread its session waited for is gone.
Unheard(s) ==
    Undecided(s) /\ ~Waiting(s) /\ actions[clients[s].sent.request] = clients[s].sent.input

\* A session that lost the answer to a request that was carried out, by the
\* delivery it waited for or by an earlier one, is told in the end that it is
\* posted, never that it is refused, through timeouts and restarts (_cached).
\* Not covered: a retry that already looked for the saved action when an older
\* delivery commits is refused, since its draft is posted by now.
EventuallyTold ==
    \A s \in Session : Unheard(s) ~> clients[s].told = "posted"
=============================================================================
