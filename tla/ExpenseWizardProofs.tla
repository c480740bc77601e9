------------------------- MODULE ExpenseWizardProofs -------------------------
(***************************************************************************)
(* For any number of sessions, request keys, contents and schedule rows,   *)
(* an expense is posted once and as previewed, its depreciation once, and  *)
(* what a session was told is true.                                        *)
(*                                                                         *)
(* The invariant has two halves that meet in the saved actions.  The one   *)
(* about the records says that an expense action exists exactly when the   *)
(* source was posted by it, after which the source is never editable       *)
(* again.  The one about the sessions says that the one thread a session   *)
(* waits for carries the request the session remembers.                    *)
(*                                                                         *)
(* For any number of batches and calculations, a quarter that is not       *)
(* marked as stale shows all that was told to be posted: calculations that *)
(* never overlap write the file in the order they read the ledger, and one *)
(* that read it after the last marker was made saw all of that.            *)
(***************************************************************************)
EXTENDS Browser, FiniteSetTheorems, TLAPS

Client == [token : Token \cup {None}, sent : Asked \cup {None},
           told : {"nothing", "posted", "refused"}]

EntryRow == [status : {"absent", "planned", "recognized", "voided"}, version : 0..2]

RecordsTyped ==
    /\ source \in [status : Status, version : Version]
    /\ draft \in [version : Version, payload : Payload, source : Version]
    /\ posted \in Posting \cup {None}
    /\ entries \in [Entry -> EntryRow]
    /\ journals \in [Entry -> Nat]
    /\ shut \subseteq Entry
    /\ today \in 0..LastDay

SessionsTyped ==
    /\ actions \in [Request -> Input \cup {None}]
    /\ calls \subseteq Call
    /\ clients \in [Session -> Client]

\* Room for the version that posting writes.
RoomToPost == Editable => source.version <= MaxVersion

\* The expense was posted by the request that is saved for it, and by no other.
PostedBy ==
    /\ posted # None => ~Editable
    /\ posted = None => Confirmed = {}
    /\ posted # None =>
          \E r \in Request :
             /\ Confirmed = {r}
             /\ posted = [payload |-> actions[r].token.payload, day |-> actions[r].token.day]

\* A row of the schedule exists once the expense is posted, and follows its journal.
EntrySound(e) ==
    /\ journals[e] \in {0, 1}
    /\ entries[e].status \in {"recognized", "voided"} <=> journals[e] = 1
    /\ entries[e].status = "planned" => entries[e].version = 1
    /\ entries[e].status # "absent" => posted # None
    /\ journals[e] = 1 => EntryDay[e] <= today

\* Past its first stage a thread confirms an expense.
Staged == \A call \in calls : call.stage # "sent" => call.input.kind = "expense"

\* A thread that is waited for carries what its session remembers, and is the
\* only one of that session.
Remembered(call) ==
    call.live =>
        /\ clients[call.session].sent = [request |-> call.request, input |-> call.input]
        /\ clients[call.session].told = "nothing"

OneLive ==
    \A a, b \in calls : a.live /\ b.live /\ a.session = b.session => a = b

\* A session was told about the request it remembers.
TruthTold(s) ==
    /\ clients[s].told # "nothing" => clients[s].sent # None
    /\ clients[s].told = "posted" => actions[clients[s].sent.request] = clients[s].sent.input

RecordsInv ==
    /\ RecordsTyped
    /\ RoomToPost
    /\ PostedBy
    /\ \A e \in Entry : EntrySound(e)

SessionsInv ==
    /\ SessionsTyped
    /\ Staged
    /\ \A call \in calls : Remembered(call)
    /\ OneLive
    /\ \A s \in Session : TruthTold(s)

IInv == RecordsInv /\ SessionsInv

\* Saved actions are never changed or removed.
ActionsKept == \A r \in Request : actions[r] # None => actions'[r] = actions[r]

-----------------------------------------------------------------------------
LEMMA InitHolds == Init => IInv
<1> SUFFICES ASSUME Init PROVE IInv  OBVIOUS
<1> USE WizardAssumption DEF Init
<1>1. RecordsTyped
  BY DEF RecordsTyped, Version, EntryRow, Status, Unposted, InReview
<1>2. SessionsTyped  BY DEF SessionsTyped, Client
<1>3. RoomToPost  BY DEF RoomToPost
<1>4. PostedBy  BY DEF PostedBy, Confirmed
<1>5. \A e \in Entry : EntrySound(e)  BY DEF EntrySound
<1>6. Staged /\ OneLive /\ \A call \in calls : Remembered(call)
  BY DEF Staged, OneLive
<1>7. \A s \in Session : TruthTold(s)  BY DEF TruthTold
<1> QED
  BY <1>1, <1>2, <1>3, <1>4, <1>5, <1>6, <1>7 DEF IInv, RecordsInv, SessionsInv

-----------------------------------------------------------------------------
(* Sessions *)

\* What a session of a waiting thread looks like.
LEMMA WaitingUndecided ==
    ASSUME SessionsInv, NEW s \in Session, Waiting(s)
    PROVE  Undecided(s)
<1>1. PICK call \in calls : call.session = s /\ call.live  BY DEF Waiting
<1>2. /\ clients[s].sent = [request |-> call.request, input |-> call.input]
      /\ clients[s].told = "nothing"
  BY <1>1 DEF SessionsInv, Remembered
<1>3. call.request \in Request /\ call.input \in Input
  BY DEF SessionsInv, SessionsTyped, Call
<1>4. clients[s].sent \in Asked  BY <1>2, <1>3 DEF Asked
<1>5. clients[s].sent # None  BY <1>4, WizardAssumption
<1> QED  BY <1>2, <1>5 DEF Undecided

LEMMA AskKeeps ==
    ASSUME SessionsInv, NEW s \in Session, NEW request \in Request, NEW input \in Input,
           ~Waiting(s), Ask(s, request, input)
    PROVE  SessionsInv'
<1> DEFINE new == [session |-> s, request |-> request, input |-> input,
                   stage |-> "sent", live |-> TRUE]
           client == [token |-> clients[s].token, sent |-> [request |-> request, input |-> input],
                      told |-> "nothing"]
<1>0. clients[s] \in Client  BY DEF SessionsInv, SessionsTyped
<1>1. clients' = [clients EXCEPT ![s] = client]  BY DEF Ask
<1>2. calls' = calls \cup {new} /\ UNCHANGED <<records, today>>  BY DEF Ask
<1>3. new \in Call /\ new.stage = "sent" /\ new.session = s /\ new.live  BY DEF Call
<1>4. client \in Client /\ client.told = "nothing"
      /\ client.sent = [request |-> new.request, input |-> new.input]
  BY <1>0 DEF Client, Asked
<1> HIDE DEF new, client
<1>5. \A call \in calls : call.live => call.session # s  BY DEF Waiting
<1>6. actions' = actions  BY <1>2 DEF records
<1>7. clients'[s] = client /\ \A t \in Session \ {s} : clients'[t] = clients[t]
  BY <1>1 DEF SessionsInv, SessionsTyped
<1>8. SessionsTyped'
  BY <1>1, <1>2, <1>3, <1>4, <1>6 DEF SessionsInv, SessionsTyped
<1>9. Staged'  BY <1>2, <1>3 DEF SessionsInv, Staged
<1>10. OneLive'  BY <1>2, <1>3, <1>5 DEF SessionsInv, OneLive
<1>11. \A call \in calls' : Remembered(call)'
  <2> SUFFICES ASSUME NEW call \in calls', call.live PROVE Remembered(call)'
    BY DEF Remembered
  <2>1. CASE call = new  BY <2>1, <1>3, <1>4, <1>7 DEF Remembered
  <2>2. CASE call \in calls
    <3>1. call.session \in Session  BY <2>2 DEF SessionsInv, SessionsTyped, Call
    <3> QED  BY <2>2, <3>1, <1>5, <1>7 DEF SessionsInv, Remembered
  <2> QED  BY <2>1, <2>2, <1>2
<1>12. \A t \in Session : TruthTold(t)'
  BY <1>4, <1>6, <1>7 DEF SessionsInv, TruthTold
<1> QED  BY <1>8, <1>9, <1>10, <1>11, <1>12 DEF SessionsInv

\* Nothing but the records change, and saved actions stay.
LEMMA RecordStepKeeps ==
    ASSUME SessionsInv, UNCHANGED <<actions, calls, clients>>
    PROVE  SessionsInv'
  BY DEF SessionsInv, SessionsTyped, Staged, OneLive, Remembered, TruthTold

LEMMA SessionStepKeeps ==
    ASSUME SessionsInv, RecordsTyped, NEW s \in Session, SessionStep(s)
    PROVE  SessionsInv' /\ UNCHANGED <<records, today>>
<1>0. clients[s] \in Client  BY DEF SessionsInv, SessionsTyped
<1>1. CASE Preview(s)
  <2> DEFINE client == [clients[s] EXCEPT !.token = CurrentToken]
  <2>1. CurrentToken \in Token
    BY DEF CurrentToken, Token, RecordsTyped
  <2>2. /\ client \in Client
        /\ client.sent = clients[s].sent /\ client.told = clients[s].told
    BY <1>0, <2>1 DEF Client
  <2>3. clients' = [clients EXCEPT ![s] = client] /\ UNCHANGED <<records, calls, today>>
    BY <1>1 DEF Preview, SessionsInv, SessionsTyped
  <2> HIDE DEF client
  <2>4. actions' = actions  BY <2>3 DEF records
  <2>5. /\ clients'[s] = client
        /\ \A t \in Session : clients'[t].sent = clients[t].sent /\ clients'[t].told = clients[t].told
    BY <2>2, <2>3 DEF SessionsInv, SessionsTyped
  <2>6. SessionsTyped'  BY <2>2, <2>3, <2>4 DEF SessionsInv, SessionsTyped
  <2>7. Staged' /\ OneLive'  BY <2>3 DEF SessionsInv, Staged, OneLive
  <2>8. \A call \in calls' : Remembered(call)'
    BY <2>3, <2>5 DEF SessionsInv, SessionsTyped, Call, Remembered
  <2>9. \A t \in Session : TruthTold(t)'
    BY <2>4, <2>5 DEF SessionsInv, TruthTold
  <2> QED  BY <2>3, <2>6, <2>7, <2>8, <2>9 DEF SessionsInv
<1>2. ASSUME NEW r \in Request, Confirm(s, r) PROVE SessionsInv' /\ UNCHANGED <<records, today>>
  <2> DEFINE input == [kind |-> "expense", token |-> clients[s].token]
  <2>1. input \in Input  BY <1>0, <1>2 DEF Confirm, Client, Input
  <2>2. ~Waiting(s) /\ Ask(s, r, input)  BY <1>2, WaitingUndecided DEF Confirm
  <2> QED  BY <2>1, <2>2, AskKeeps DEF Ask
<1>3. ASSUME NEW r \in Request, NEW e \in Entry, PostDepreciation(s, r, e)
      PROVE  SessionsInv' /\ UNCHANGED <<records, today>>
  <2> DEFINE input == [kind |-> "depreciation", entry |-> e, version |-> entries[e].version]
  <2>0. entries[e].version \in Version
    BY WizardAssumption DEF RecordsTyped, EntryRow, Version
  <2>1. input \in Input  BY <2>0 DEF Input
  <2>2. ~Waiting(s) /\ Ask(s, r, input)  BY <1>3, WaitingUndecided DEF PostDepreciation
  <2> QED  BY <2>1, <2>2, AskKeeps DEF Ask
<1>4. CASE Timeout(s)
  <2> DEFINE cut(call) == IF call.session = s THEN [call EXCEPT !.live = FALSE] ELSE call
  <2>1. calls' = {cut(call) : call \in calls} /\ UNCHANGED <<records, clients, today>>
    BY <1>4 DEF Timeout
  <2>2. ASSUME NEW call \in calls
        PROVE  /\ cut(call) \in Call
               /\ cut(call).stage = call.stage /\ cut(call).input = call.input
               /\ cut(call).live => cut(call) = call
    BY DEF SessionsInv, SessionsTyped, Call
  <2> HIDE DEF cut
  <2>3. actions' = actions  BY <2>1 DEF records
  <2>4. SessionsTyped'  BY <2>1, <2>2, <2>3 DEF SessionsInv, SessionsTyped
  <2>5. Staged'  BY <2>1, <2>2 DEF SessionsInv, Staged
  <2>6. OneLive'  BY <2>1, <2>2 DEF SessionsInv, OneLive
  <2>7. \A call \in calls' : Remembered(call)'
    BY <2>1, <2>2 DEF SessionsInv, Remembered
  <2>8. \A t \in Session : TruthTold(t)'  BY <2>1, <2>3 DEF SessionsInv, TruthTold
  <2> QED  BY <2>1, <2>4, <2>5, <2>6, <2>7, <2>8 DEF SessionsInv
<1>5. CASE Retry(s)
  <2>1. clients[s].sent \in Asked  BY <1>0, <1>5 DEF Retry, Undecided, Client
  <2>2. clients[s].sent.request \in Request /\ clients[s].sent.input \in Input
    BY <2>1 DEF Asked
  <2>3. ~Waiting(s) /\ Ask(s, clients[s].sent.request, clients[s].sent.input)
    BY <1>5 DEF Retry
  <2> QED  BY <2>2, <2>3, AskKeeps DEF Ask
<1> QED  BY <1>1, <1>2, <1>3, <1>4, <1>5 DEF SessionStep

-----------------------------------------------------------------------------
(* Server threads, as their sessions see them *)

LEMMA FinishKeeps ==
    ASSUME SessionsInv, NEW call \in calls, NEW answer \in {"posted", "refused"},
           Finish(call, answer),
           actions' \in [Request -> Input \cup {None}], ActionsKept,
           answer = "posted" => actions'[call.request] = call.input
    PROVE  SessionsInv'
<1> DEFINE s == call.session
<1>0. call \in Call /\ s \in Session  BY DEF SessionsInv, SessionsTyped, Call
<1>1. calls' = calls \ {call}  BY DEF Finish
<1>2. /\ clients' \in [Session -> Client]
      /\ \A t \in Session : clients'[t].sent = clients[t].sent
      /\ \A t \in Session : clients'[t].told = IF call.live /\ t = s THEN answer ELSE clients[t].told
  <2>1. CASE ~call.live  BY <2>1 DEF Finish, SessionsInv, SessionsTyped
  <2>2. CASE call.live
    <3> DEFINE client == [clients[s] EXCEPT !.told = answer]
    <3>1. /\ client \in Client
          /\ client.sent = clients[s].sent /\ client.told = answer
      BY <1>0 DEF SessionsInv, SessionsTyped, Client
    <3>2. clients' = [clients EXCEPT ![s] = client]
      BY <2>2 DEF Finish
    <3> HIDE DEF client
    <3> QED  BY <1>0, <2>2, <3>1, <3>2 DEF SessionsInv, SessionsTyped
  <2> QED  BY <2>1, <2>2
<1>3. SessionsTyped'  BY <1>1, <1>2 DEF SessionsInv, SessionsTyped
<1>4. Staged' /\ OneLive'  BY <1>1 DEF SessionsInv, Staged, OneLive
<1>5. \A b \in calls' : Remembered(b)'
  <2> SUFFICES ASSUME NEW b \in calls, b # call, b.live PROVE Remembered(b)'
    BY <1>1 DEF Remembered
  <2>1. b.session \in Session  BY DEF SessionsInv, SessionsTyped, Call
  <2>2. ~(call.live /\ b.session = s)  BY DEF SessionsInv, OneLive
  <2>3. /\ clients'[b.session].sent = clients[b.session].sent
        /\ clients'[b.session].told = clients[b.session].told
    BY <1>2, <2>1, <2>2
  <2> QED  BY <2>3 DEF SessionsInv, Remembered
<1>6. \A t \in Session : TruthTold(t)'
  <2> SUFFICES ASSUME NEW t \in Session PROVE TruthTold(t)'  OBVIOUS
  <2>1. CASE call.live /\ t = s
    <3>1. clients[t].sent = [request |-> call.request, input |-> call.input]
      BY <2>1 DEF SessionsInv, Remembered
    <3>2. clients[t].sent \in Asked  BY <1>0, <3>1 DEF Call, Asked
    <3>3. clients[t].sent # None  BY <3>2, WizardAssumption
    <3>4. clients[t].sent.request = call.request /\ clients[t].sent.input = call.input
      BY <3>1
    <3>5. clients'[t].sent = clients[t].sent /\ clients'[t].told = answer  BY <1>2, <2>1
    <3> QED  BY <3>3, <3>4, <3>5 DEF TruthTold
  <2>2. CASE ~(call.live /\ t = s)
    <3>1. clients'[t].sent = clients[t].sent /\ clients'[t].told = clients[t].told
      BY <1>2, <2>2
    <3>2. TruthTold(t) /\ clients[t] \in Client  BY DEF SessionsInv, SessionsTyped
    <3>3. ASSUME clients[t].told = "posted"
          PROVE  actions'[clients[t].sent.request] = clients[t].sent.input
      <4>1. clients[t].sent \in Asked  BY <3>2, <3>3 DEF TruthTold, Client
      <4>2. clients[t].sent.request \in Request /\ clients[t].sent.input \in Input
        BY <4>1 DEF Asked
      <4>3. actions[clients[t].sent.request] = clients[t].sent.input
        BY <3>2, <3>3 DEF TruthTold
      <4>4. clients[t].sent.input # None  BY <4>2, WizardAssumption
      <4> QED  BY <4>2, <4>3, <4>4 DEF ActionsKept
    <3> QED  BY <3>1, <3>2, <3>3 DEF TruthTold
  <2> QED  BY <2>1, <2>2
<1> QED  BY <1>3, <1>4, <1>5, <1>6 DEF SessionsInv

\* A thread that moves on, or ends without having changed the records.
LEMMA PlainFinishKeeps ==
    ASSUME SessionsInv, NEW call \in calls,
           \/ AnswerSaved(call)
           \/ Refuse(call)
    PROVE  SessionsInv' /\ UNCHANGED <<records, today>>
<1>1. actions' = actions /\ UNCHANGED <<records, today>>
  BY DEF AnswerSaved, Refuse, records
<1>2. actions' \in [Request -> Input \cup {None}] /\ ActionsKept
  BY <1>1 DEF SessionsInv, SessionsTyped, ActionsKept
<1>3. CASE AnswerSaved(call)
  <2>1. actions'[call.request] = call.input /\ Finish(call, "posted")
    BY <1>1, <1>3 DEF AnswerSaved, Cached
  <2> QED  BY <1>1, <1>2, <2>1, FinishKeeps
<1>4. CASE Refuse(call)
  BY <1>1, <1>2, <1>4, FinishKeeps DEF Refuse
<1> QED  BY <1>3, <1>4

LEMMA AdvanceKeeps ==
    ASSUME SessionsInv, NEW call \in calls, NEW stage \in {"looked", "checked"},
           call.input.kind = "expense", Advance(call, stage)
    PROVE  SessionsInv' /\ UNCHANGED <<records, today>>
<1> DEFINE next == [call EXCEPT !.stage = stage]
<1>1. /\ calls' = (calls \ {call}) \cup {next}
      /\ UNCHANGED <<records, clients, today>>
  BY DEF Advance
<1>2. /\ next \in Call /\ next.input = call.input /\ next.session = call.session
      /\ next.live = call.live /\ next.request = call.request
  BY DEF SessionsInv, SessionsTyped, Call
<1> HIDE DEF next
<1>3. actions' = actions  BY <1>1 DEF records
<1>4. SessionsTyped'  BY <1>1, <1>2, <1>3 DEF SessionsInv, SessionsTyped
<1>5. Staged'  BY <1>1, <1>2 DEF SessionsInv, Staged
<1>6. OneLive'  BY <1>1, <1>2 DEF SessionsInv, OneLive
<1>7. \A b \in calls' : Remembered(b)'  BY <1>1, <1>2 DEF SessionsInv, Remembered
<1>8. \A t \in Session : TruthTold(t)'  BY <1>1, <1>3 DEF SessionsInv, TruthTold
<1> QED  BY <1>1, <1>4, <1>5, <1>6, <1>7, <1>8 DEF SessionsInv

-----------------------------------------------------------------------------
(* The records *)

LEMMA RecordsUnchanged ==
    ASSUME RecordsInv, UNCHANGED <<records, today>>
    PROVE  RecordsInv'
  BY DEF records, RecordsInv, RecordsTyped, RoomToPost, Editable, PostedBy, Confirmed, EntrySound

LEMMA CanMoveFacts ==
    ASSUME NEW from \in Status, NEW to \in Status, CanMove(from, to), from \notin Unposted
    PROVE  to \notin Unposted
  BY DEF CanMove, Successors, Status, Unposted, InReview, Booked, Terminal

LEMMA RecordsKeep == ASSUME RecordsInv, Records PROVE RecordsInv'
<1> USE WizardAssumption
<1>1. ASSUME NEW payload \in Payload, SaveDraft(payload) PROVE RecordsInv'
  <2>1. UNCHANGED <<posted, entries, journals, shut, actions, today>>
    BY <1>1 DEF SaveDraft
  <2>2. /\ Editable /\ Editable'
        /\ source' \in [status : Status, version : Version]
        /\ source'.version <= MaxVersion
    <3>1. source \in [status : Status, version : Version] /\ source.version <= MaxVersion
      BY <1>1 DEF SaveDraft, RecordsInv, RecordsTyped, RoomToPost
    <3>2. CASE source.status = "approved"
      BY <1>1, <3>1, <3>2 DEF SaveDraft, Editable, Unposted, InReview, Status, Version
    <3>3. CASE source.status # "approved"  BY <1>1, <3>1, <3>3 DEF SaveDraft, Editable
    <3> QED  BY <3>2, <3>3
  <2>3. draft' \in [version : Version, payload : Payload, source : Version]
    <3>1. draft.version + 1 \in Version
      BY <1>1 DEF SaveDraft, RecordsInv, RecordsTyped, Version
    <3>2. source'.version \in Version  BY <2>2
    <3> QED  BY <1>1, <3>1, <3>2 DEF SaveDraft
  <2>4. posted = None  BY <2>2 DEF RecordsInv, PostedBy
  <2> QED
    BY <2>1, <2>2, <2>3, <2>4
       DEF RecordsInv, RecordsTyped, RoomToPost, PostedBy, Confirmed, EntrySound
<1>2. ASSUME NEW status \in Status, ChangeSource(status) PROVE RecordsInv'
  <2>1. UNCHANGED <<draft, posted, entries, journals, shut, actions, today>>
    BY <1>2 DEF ChangeSource
  <2>2. /\ source'.status = status /\ source'.version = source.version + 1
        /\ source.version < MaxVersion /\ CanMove(source.status, status)
        /\ source' = [status |-> status, version |-> source.version + 1]
    BY <1>2 DEF ChangeSource
  <2>3. source.status \in Status /\ source.version \in Version
    BY DEF RecordsInv, RecordsTyped
  <2>4. source'.version \in Version /\ source'.version <= MaxVersion
    BY <2>2, <2>3 DEF Version
  <2>5. RecordsTyped'  BY <2>1, <2>2, <2>4 DEF RecordsInv, RecordsTyped
  <2>6. Editable' => Editable  BY <2>2, <2>3, CanMoveFacts DEF Editable
  <2>7. PostedBy'  BY <2>1, <2>6 DEF RecordsInv, PostedBy, Confirmed
  <2> QED  BY <2>1, <2>4, <2>5, <2>7 DEF RecordsInv, RoomToPost, EntrySound
<1>3. ASSUME NEW e \in Entry, CloseQuarter(e) PROVE RecordsInv'
  <2>1. shut' = shut \cup {e} /\ UNCHANGED <<source, draft, posted, entries, journals, actions, today>>
    BY <1>3 DEF CloseQuarter
  <2> QED
    BY <2>1 DEF RecordsInv, RecordsTyped, RoomToPost, Editable, PostedBy, Confirmed, EntrySound
<1>4. ASSUME NEW e \in Entry, VoidJournal(e) PROVE RecordsInv'
  <2>1. /\ entries' = [entries EXCEPT ![e].status = "voided"]
        /\ entries[e].status = "recognized"
        /\ UNCHANGED <<source, draft, posted, journals, shut, actions, today>>
    BY <1>4 DEF VoidJournal
  <2>2. /\ entries' \in [Entry -> EntryRow]
        /\ entries'[e].status = "voided"
        /\ \A f \in Entry \ {e} : entries'[f] = entries[f]
    BY <2>1 DEF RecordsInv, RecordsTyped, EntryRow
  <2>3. \A f \in Entry : EntrySound(f)'
    BY <2>1, <2>2 DEF RecordsInv, EntrySound
  <2> QED
    BY <2>1, <2>2, <2>3 DEF RecordsInv, RecordsTyped, RoomToPost, Editable, PostedBy, Confirmed
<1>5. CASE NextDay
  <2>1. today' = today + 1 /\ today < LastDay
        /\ UNCHANGED <<source, draft, posted, entries, journals, shut, actions>>
    BY <1>5 DEF NextDay, records
  <2>2. \A e \in Entry : EntrySound(e)'
    BY <2>1 DEF RecordsInv, RecordsTyped, EntrySound
  <2> QED
    BY <2>1, <2>2 DEF RecordsInv, RecordsTyped, RoomToPost, Editable, PostedBy, Confirmed
<1> QED  BY <1>1, <1>2, <1>3, <1>4, <1>5 DEF Records

-----------------------------------------------------------------------------
(* Posting *)

\* Saving a fresh request leaves the other actions as they are.
LEMMA RememberFacts ==
    ASSUME SessionsInv, NEW call \in calls, Fresh(call), Remember(call)
    PROVE  /\ actions' \in [Request -> Input \cup {None}]
           /\ ActionsKept
           /\ actions'[call.request] = call.input
           /\ \A r \in Request \ {call.request} : actions'[r] = actions[r]
           /\ call.request \in Request /\ call.input \in Input
  BY DEF SessionsInv, SessionsTyped, Call, Fresh, Remember, ActionsKept

LEMMA PostExpenseKeeps ==
    ASSUME IInv, NEW call \in calls, call.input.kind = "expense", Fresh(call), PostExpense(call)
    PROVE  RecordsInv' /\ SessionsInv'
<1> USE WizardAssumption
<1> DEFINE payload == draft.payload
           r == call.request
<1>1. /\ Remember(call) /\ Finish(call, "posted")
      /\ source' = [status |-> "posted", version |-> source.version + 1]
      /\ posted' = [payload |-> payload, day |-> today]
      /\ UNCHANGED <<draft, shut, today>>
      /\ Editable /\ call.input.token = CurrentToken
  BY DEF PostExpense, Confirmable, Saved, TokenCurrent
<1>2. RecordsTyped /\ posted = None /\ Confirmed = {}
  BY <1>1 DEF IInv, RecordsInv, PostedBy
<1>3. /\ actions' \in [Request -> Input \cup {None}] /\ ActionsKept
      /\ actions'[r] = call.input
      /\ \A q \in Request \ {r} : actions'[q] = actions[q]
      /\ r \in Request /\ call.input \in Input
  BY <1>1, RememberFacts DEF IInv
<1>4. SessionsInv'  BY <1>1, <1>3, FinishKeeps DEF IInv
<1>5. \A e \in Entry : entries[e].status = "absent" /\ journals[e] = 0
  BY <1>2 DEF IInv, RecordsInv, EntrySound
<1>6. /\ entries' \in [Entry -> EntryRow] /\ journals' \in [Entry -> Nat]
      /\ \A e \in Entry :
            \/ /\ EntryDay[e] <= today /\ journals'[e] = 1
               /\ entries'[e].status = "recognized"
            \/ /\ journals'[e] = 0
               /\ \/ entries'[e].status = "planned" /\ entries'[e].version = 1
                  \/ entries'[e].status = "absent"
  <2>1. /\ entries' = [e \in Entry |->
              IF e \in Due(payload) THEN [status |-> "recognized", version |-> 2]
              ELSE IF e \in Scheduled(payload) THEN [status |-> "planned", version |-> 1]
              ELSE entries[e]]
        /\ journals' = [e \in Entry |-> IF e \in Due(payload) THEN journals[e] + 1 ELSE journals[e]]
    BY DEF PostExpense
  <2>2. entries \in [Entry -> EntryRow]  BY <1>2 DEF RecordsTyped
  <2>3. \A e \in Entry : e \in Due(payload) => EntryDay[e] <= today
    BY DEF Due
  <2>4. journals' \in [Entry -> Nat]  BY <1>5, <2>1
  <2>5. entries' \in [Entry -> EntryRow]  BY <2>1, <2>2 DEF EntryRow
  <2> QED  BY <1>5, <2>1, <2>3, <2>4, <2>5
<1>7. posted' \in Posting /\ posted' # None
  BY <1>1, <1>2 DEF RecordsTyped, Posting
<1>8. /\ source'.status = "posted" /\ source' \in [status : Status, version : Version]
      /\ ~Editable'
  <2>1. source.version + 1 \in Version
    BY <1>1, <1>2 DEF IInv, RecordsInv, RoomToPost, RecordsTyped, Version
  <2> QED  BY <1>1, <2>1 DEF Status, Booked, Unposted, InReview, Editable
<1>9. RecordsTyped'
  BY <1>1, <1>2, <1>6, <1>7, <1>8 DEF RecordsTyped
<1>10. PostedBy'
  <2>1. Confirmed' = {r}
    <3>1. call.input # None  BY <1>3
    <3> QED  BY <1>2, <1>3, <3>1 DEF Confirmed
  <2>2. call.input.token.payload = payload /\ call.input.token.day = today
    BY <1>1 DEF CurrentToken
  <2>3. posted' = [payload |-> actions'[r].token.payload, day |-> actions'[r].token.day]
    BY <1>1, <1>3, <2>2
  <2> QED  BY <1>3, <1>7, <1>8, <2>1, <2>3 DEF PostedBy
<1>11. \A e \in Entry : EntrySound(e)'
  BY <1>1, <1>6, <1>7 DEF EntrySound
<1> QED  BY <1>4, <1>8, <1>9, <1>10, <1>11 DEF RecordsInv, RoomToPost

LEMMA RecognizeKeeps ==
    ASSUME IInv, NEW call \in calls, Recognize(call)
    PROVE  RecordsInv' /\ SessionsInv'
<1> USE WizardAssumption
<1> DEFINE e == call.input.entry
<1>0. /\ call.input \in Input /\ call.input.kind = "depreciation" /\ e \in Entry
      /\ call.request \in Request
  BY DEF Recognize, IInv, SessionsInv, SessionsTyped, Call, Input
<1>1. CASE AnswerSaved(call) \/ Refuse(call)
  BY <1>1, PlainFinishKeeps, RecordsUnchanged DEF IInv
<1>2. ASSUME Fresh(call), Remember(call), Finish(call, "posted"), posted' = posted
      PROVE  SessionsInv' /\ Confirmed' = Confirmed
             /\ \A q \in Confirmed : actions'[q] = actions[q]
  <2>1. SessionsInv'  BY <1>2, RememberFacts, FinishKeeps DEF IInv
  <2>2. Confirmed' = Confirmed
    BY <1>0, <1>2, RememberFacts DEF IInv, Confirmed, Fresh
  <2>3. \A q \in Confirmed : actions'[q] = actions[q]
    BY <1>2, RememberFacts DEF IInv, Confirmed, ActionsKept
  <2> QED  BY <2>1, <2>2, <2>3
<1>3. CASE /\ Fresh(call) /\ Recognizable(e, call.input.version) /\ Depreciable(e)
           /\ PostEntry(call, e) /\ Remember(call) /\ Finish(call, "posted")
  <2>1. /\ entries' = [entries EXCEPT ![e] = [status |-> "recognized", version |-> @.version + 1]]
        /\ journals' = [journals EXCEPT ![e] = @ + 1]
        /\ UNCHANGED <<source, draft, posted, shut, today>>
        /\ entries[e].status = "planned" /\ EntryDay[e] <= today
    BY <1>3 DEF PostEntry, Recognizable, Depreciable
  <2>2. entries[e].version = 1 /\ journals[e] = 0 /\ posted # None
    BY <1>0, <2>1 DEF IInv, RecordsInv, EntrySound
  <2>3. [status |-> "recognized", version |-> entries[e].version + 1] \in EntryRow
    BY <2>2 DEF EntryRow
  <2>4. /\ entries' \in [Entry -> EntryRow] /\ journals' \in [Entry -> Nat]
        /\ entries'[e].status = "recognized" /\ journals'[e] = 1
        /\ \A f \in Entry \ {e} : entries'[f] = entries[f] /\ journals'[f] = journals[f]
    BY <1>0, <2>1, <2>2, <2>3 DEF IInv, RecordsInv, RecordsTyped
  <2>5. RecordsTyped'  BY <2>1, <2>4 DEF IInv, RecordsInv, RecordsTyped
  <2>6. \A f \in Entry : EntrySound(f)'
    BY <2>1, <2>2, <2>4 DEF IInv, RecordsInv, EntrySound
  <2>7. SessionsInv' /\ PostedBy'
    BY <1>2, <1>3, <2>1 DEF IInv, RecordsInv, PostedBy, Editable, Confirmed
  <2> QED  BY <2>1, <2>5, <2>6, <2>7 DEF IInv, RecordsInv, RoomToPost, Editable
<1>4. CASE /\ Fresh(call) /\ UNCHANGED <<source, draft, posted, entries, journals, shut, today>>
           /\ Remember(call) /\ Finish(call, "posted")
  <2>1. SessionsInv' /\ PostedBy'
    BY <1>2, <1>4 DEF IInv, RecordsInv, PostedBy, Editable, Confirmed
  <2> QED
    BY <1>4, <2>1 DEF IInv, RecordsInv, RecordsTyped, RoomToPost, Editable, EntrySound
<1> QED  BY <1>1, <1>3, <1>4 DEF Recognize

LEMMA ServeKeeps ==
    ASSUME IInv, NEW call \in calls, Serve(call)
    PROVE  RecordsInv' /\ SessionsInv'
<1>1. CASE AnswerSaved(call) \/ Refuse(call)
  BY <1>1, PlainFinishKeeps, RecordsUnchanged DEF IInv
<1>2. CASE Look(call) /\ Advance(call, "looked")
  BY <1>2, AdvanceKeeps, RecordsUnchanged DEF IInv, Look
<1>3. CASE ResolveFx(call) /\ Advance(call, "checked")
  <2>1. call.input.kind = "expense"  BY <1>3 DEF ResolveFx, IInv, SessionsInv, Staged
  <2> QED  BY <1>3, <2>1, AdvanceKeeps, RecordsUnchanged DEF IInv
<1>4. CASE Commit(call) /\ Fresh(call) /\ PostExpense(call)
  <2>1. call.input.kind = "expense"  BY <1>4 DEF Commit, IInv, SessionsInv, Staged
  <2> QED  BY <1>4, <2>1, PostExpenseKeeps
<1> QED  BY <1>1, <1>2, <1>3, <1>4, RecognizeKeeps DEF Serve, Look, ResolveFx, Commit

LEMMA NextKeeps == IInv /\ [Next]_vars => IInv'
<1> SUFFICES ASSUME IInv, [Next]_vars PROVE RecordsInv' /\ SessionsInv'
  BY DEF IInv
<1>1. CASE Records
  <2>1. UNCHANGED <<actions, calls, clients>>
    BY <1>1 DEF Records, SaveDraft, ChangeSource, CloseQuarter, VoidJournal, NextDay, records
  <2> QED  BY <1>1, <2>1, RecordsKeep, RecordStepKeeps DEF IInv
<1>2. ASSUME NEW s \in Session, SessionStep(s) PROVE RecordsInv' /\ SessionsInv'
  BY <1>2, SessionStepKeeps, RecordsUnchanged DEF IInv, RecordsInv
<1>3. ASSUME NEW call \in calls, Serve(call) PROVE RecordsInv' /\ SessionsInv'
  BY <1>3, ServeKeeps
<1>4. CASE Crash
  <2>1. calls' = {} /\ UNCHANGED <<records, clients, today>>  BY <1>4 DEF Crash
  <2>2. SessionsInv'
    BY <2>1 DEF records, IInv, SessionsInv, SessionsTyped, Staged, OneLive, TruthTold
  <2> QED  BY <2>1, <2>2, RecordsUnchanged DEF IInv
<1>5. CASE UNCHANGED vars
  <2>1. UNCHANGED <<records, today>> /\ UNCHANGED <<actions, calls, clients>>
    BY <1>5 DEF vars, records
  <2> QED  BY <2>1, RecordsUnchanged, RecordStepKeeps DEF IInv
<1> QED  BY <1>1, <1>2, <1>3, <1>4, <1>5 DEF Next

LEMMA IInvAlways == Spec => []IInv
  BY InitHolds, NextKeeps, PTL DEF Spec

-----------------------------------------------------------------------------
(* The theorems *)

\* Records, saved actions, threads and sessions keep their shape.
THEOREM TypeCorrect == Spec => []TypeOK
<1>1. IInv => TypeOK
  BY DEF IInv, RecordsInv, SessionsInv, RecordsTyped, SessionsTyped, Client, EntryRow, TypeOK
<1> QED  BY IInvAlways, <1>1, PTL

\* Whatever the sessions edit, confirm and retry, the expense is posted under at
\* most one request, as that request's preview showed it (confirm_and_post).
THEOREM PostedOnceAsPreviewed == Spec => []PostedAsPreviewed
<1>1. IInv => PostedAsPreviewed
  <2> SUFFICES ASSUME IInv PROVE PostedAsPreviewed  OBVIOUS
  <2>1. CASE posted = None
    <3>1. Confirmed = {}  BY <2>1 DEF IInv, RecordsInv, PostedBy
    <3> QED  BY <2>1, <3>1, FS_EmptySet DEF PostedAsPreviewed
  <2>2. CASE posted # None
    <3>1. PICK r \in Request :
             /\ Confirmed = {r}
             /\ posted = [payload |-> actions[r].token.payload, day |-> actions[r].token.day]
      BY <2>2 DEF IInv, RecordsInv, PostedBy
    <3>2. Cardinality(Confirmed) <= 1  BY <3>1, FS_Singleton
    <3> QED  BY <2>2, <3>1, <3>2 DEF PostedAsPreviewed
  <2> QED  BY <2>1, <2>2
<1> QED  BY IInvAlways, <1>1, PTL

\* A session told that its request is posted finds that request saved (_cached).
THEOREM AnswersStayTrue == Spec => []AnswersTrue
<1>1. IInv => AnswersTrue  BY DEF IInv, SessionsInv, TruthTold, AnswersTrue
<1> QED  BY IInvAlways, <1>1, PTL

\* A schedule row is posted at most once, not before its date, and of a posted
\* expense only (_recognize).
THEOREM DepreciatedOnce == Spec => []RecognizedOnce
<1>1. IInv => RecognizedOnce
  BY DEF IInv, RecordsInv, EntrySound, RecognizedOnce
<1> QED  BY IInvAlways, <1>1, PTL

EntriesKept == \A e \in shut : journals'[e] = journals[e] /\ entries'[e] = entries[e]

LEMMA ClosedEntriesStep == IInv /\ [Next]_vars => EntriesKept
<1> SUFFICES ASSUME IInv, [Next]_vars PROVE EntriesKept  OBVIOUS
<1>0. /\ shut \subseteq Entry /\ entries \in [Entry -> EntryRow] /\ journals \in [Entry -> Nat]
  BY DEF IInv, RecordsInv, RecordsTyped
<1>1. CASE UNCHANGED <<entries, journals>>  BY <1>1 DEF EntriesKept
<1>2. CASE Records
  <2>1. ASSUME NEW e \in Entry, VoidJournal(e) PROVE EntriesKept
    BY <1>0, <2>1 DEF VoidJournal, EntriesKept
  <2> QED
    BY <1>1, <1>2, <2>1 DEF Records, SaveDraft, ChangeSource, CloseQuarter, NextDay, records
<1>3. ASSUME NEW s \in Session, SessionStep(s) PROVE EntriesKept
  <2>1. UNCHANGED records  BY <1>3, SessionStepKeeps DEF IInv, RecordsInv
  <2> QED  BY <1>1, <2>1 DEF records
<1>4. ASSUME NEW call \in calls, Serve(call) PROVE EntriesKept
  <2>1. CASE AnswerSaved(call) \/ Refuse(call) \/ UNCHANGED records
    BY <1>1, <2>1 DEF AnswerSaved, Refuse, records
  <2>2. CASE PostExpense(call)
    <3>1. \A e \in shut : e \notin Scheduled(draft.payload) /\ e \notin Due(draft.payload)
      BY <2>2 DEF PostExpense, Confirmable, Prepared, Due
    <3> QED  BY <1>0, <2>2, <3>1 DEF PostExpense, EntriesKept
  <2>3. CASE Recognize(call)
    <3>1. CASE PostEntry(call, call.input.entry) /\ Depreciable(call.input.entry)
      BY <1>0, <3>1 DEF PostEntry, Depreciable, EntriesKept
    <3> QED  BY <1>1, <2>1, <2>3, <3>1 DEF Recognize
  <2> QED
    BY <1>4, <2>1, <2>2, <2>3 DEF Serve, Look, ResolveFx, Commit, Advance
<1>5. CASE Crash  BY <1>1, <1>5 DEF Crash, records
<1>6. CASE UNCHANGED vars  BY <1>1, <1>6 DEF vars
<1> QED  BY <1>2, <1>3, <1>4, <1>5, <1>6 DEF Next

\* No thread, however late, posts depreciation into a quarter that closed
\* after the schedule was made (_recognize, add_amortization_entry).
THEOREM ClosedEntriesKept == Spec => ShutEntriesKept
<1>1. EntriesKept =>
        [\A e \in shut : journals'[e] = journals[e] /\ entries'[e] = entries[e]]_vars
  BY DEF EntriesKept
<1> QED  BY IInvAlways, ClosedEntriesStep, <1>1, PTL DEF Spec, ShutEntriesKept
-----------------------------------------------------------------------------
(* The figures of the quarter *)

\* A calculation, asked for with one of the markers made so far.
Calculating == [by : Asker, token : Nat, seen : Nat,
                answer : {"queued", "waiting", "ended"},
                server : {"none", "sent", "read", "torn", "written", "rejected", "done"}]

FiguresTyped ==
    /\ rows \in 0..MaxBatches /\ told \in 0..rows
    /\ marks \in Nat /\ marker \in {0, marks}
    /\ dashboard \in [whole : BOOLEAN, counts : 0..rows]
    /\ calcs \in Seq(Calculating) /\ Len(calcs) <= MaxCalcs
    /\ \A c \in Calc : calcs[c].token <= marks /\ calcs[c].seen <= rows
    /\ screen \in [view : {"review", "page"}, waits : 0..Len(calcs)]
    /\ batch \in [stage : {"none", "sent", "posted", "calculates"}, here : BOOLEAN,
                  calc : 0..Len(calcs)]
    /\ batch.stage = "sent" => rows < MaxBatches
    /\ overlapped \in BOOLEAN

\* A calculation is in the queue at most once and until it ends, and the one
\* whose request is sent is the first.
InTurn ==
    /\ queue \in Seq(Calc)
    /\ \A i \in 1..Len(queue) :
          /\ calcs[queue[i]].by = "queue" /\ calcs[queue[i]].answer # "ended"
          /\ \A j \in 1..Len(queue) : queue[i] = queue[j] => i = j
    /\ \A c \in Calc : calcs[c].by = "queue" /\ calcs[c].answer = "waiting" =>
                          queue # <<>> /\ Head(queue) = c

\* What read the ledger since the last marker was made saw every batch that is
\* told.
SawMarked ==
    marker # 0 =>
        \A c \in Calc : calcs[c].server \in {"read", "torn", "written"} /\ calcs[c].token = marker
                            => told <= calcs[c].seen

\* While no two were at work at once, the file was written in the order the
\* ledger was read.
InOrder ==
    ~overlapped =>
        /\ \A c \in Calc : calcs[c].server = "written" => calcs[c].seen <= dashboard.counts
        /\ \A c \in AtWork : dashboard.counts <= calcs[c].seen
        /\ \A c, d \in AtWork : c = d

\* The figures written last count what is told, whole or not.
Counted == marker = 0 /\ ~overlapped => told <= dashboard.counts

FiguresInv == FiguresTyped /\ InTurn /\ SawMarked /\ InOrder /\ Counted

\* One calculation changes, and the others and their places stay.
LEMMA OneChanges ==
    ASSUME FiguresTyped, NEW c \in Calc, NEW k \in Calculating,
           calcs' = [calcs EXCEPT ![c] = k]
    PROVE  /\ calcs' \in Seq(Calculating) /\ Len(calcs') = Len(calcs) /\ Calc' = Calc
           /\ \A d \in Calc : calcs'[d] = IF d = c THEN k ELSE calcs[d]
<1>1. calcs \in Seq(Calculating) /\ Len(calcs) \in Nat /\ c \in 1..Len(calcs)
  BY DEF FiguresTyped, Calc
<1>2. calcs' \in Seq(Calculating) /\ Len(calcs') = Len(calcs)
  BY <1>1
<1>3. \A d \in 1..Len(calcs) : calcs'[d] = IF d = c THEN k ELSE calcs[d]
  BY <1>1
<1> QED  BY <1>2, <1>3 DEF Calc

\* One more calculation comes after the others.
LEMMA OneMore ==
    ASSUME FiguresTyped, NEW k \in Calculating, calcs' = Append(calcs, k)
    PROVE  /\ calcs' \in Seq(Calculating) /\ Len(calcs') = Len(calcs) + 1
           /\ Calc' = Calc \cup {Len(calcs) + 1} /\ Len(calcs) + 1 \notin Calc
           /\ Len(calcs) \in Nat
           /\ calcs'[Len(calcs) + 1] = k
           /\ \A d \in Calc : calcs'[d] = calcs[d]
<1>1. calcs \in Seq(Calculating) /\ Len(calcs) \in Nat
  BY DEF FiguresTyped
<1>2. calcs' \in Seq(Calculating) /\ Len(calcs') = Len(calcs) + 1
  BY <1>1
<1>3. calcs'[Len(calcs) + 1] = k /\ \A d \in 1..Len(calcs) : calcs'[d] = calcs[d]
  BY <1>1
<1>4. 1..(Len(calcs) + 1) = (1..Len(calcs)) \cup {Len(calcs) + 1}
  BY <1>1
<1>5. Len(calcs) + 1 \notin 1..Len(calcs)
  BY <1>1
<1> QED  BY <1>1, <1>2, <1>3, <1>4, <1>5 DEF Calc

\* What the calculations asked for are.
LEMMA CalcShape ==
    ASSUME FiguresTyped, NEW c \in Calc
    PROVE  /\ calcs[c] \in Calculating /\ calcs[c].token \in Nat /\ calcs[c].seen \in Nat
           /\ calcs[c].token <= marks /\ calcs[c].seen <= rows
           /\ rows \in Nat /\ told \in Nat /\ marks \in Nat /\ marker \in Nat
           /\ dashboard.counts \in Nat /\ dashboard.counts <= rows /\ told <= rows
<1>1. calcs[c] \in Calculating
  BY DEF FiguresTyped, Calc
<1> QED  BY <1>1, CalculationAssumption DEF FiguresTyped, Calculating

\* The queue stands while those who wait in it do.
LEMMA TurnKept ==
    ASSUME InTurn, queue' = queue, Calc' = Calc,
           \A d \in Calc : /\ calcs'[d].answer = calcs[d].answer
                           /\ calcs[d].answer # "ended" => calcs'[d].by = calcs[d].by
    PROVE  InTurn'
<1>1. \A i \in 1..Len(queue) : queue[i] \in Calc
  BY DEF InTurn
<1>2. \A d \in Calc : calcs'[d].by = "queue" /\ calcs'[d].answer = "waiting" =>
                          queue # <<>> /\ Head(queue) = d
  BY DEF InTurn
<1> QED  BY <1>1, <1>2 DEF InTurn

\* One more that waits for no place in the queue leaves it as it is.
LEMMA TurnBeside ==
    ASSUME FiguresTyped, InTurn, queue' = queue, NEW k \in Calculating, k.by # "queue",
           calcs' = Append(calcs, k)
    PROVE  InTurn'
<1>1. /\ Calc' = Calc \cup {Len(calcs) + 1} /\ calcs'[Len(calcs) + 1] = k
      /\ \A d \in Calc : calcs'[d] = calcs[d]
  BY OneMore
<1>2. \A i \in 1..Len(queue) : queue[i] \in Calc
  BY DEF InTurn
<1>3. queue' \in Seq(Calc')
  BY <1>1 DEF InTurn
<1> QED  BY <1>1, <1>2, <1>3 DEF InTurn

LEMMA FiguresStart == CalculationInit => FiguresInv
<1> SUFFICES ASSUME CalculationInit PROVE FiguresInv
  OBVIOUS
<1>1. calcs = <<>> /\ Len(calcs) = 0 /\ Calc = {} /\ queue = <<>> /\ Len(queue) = 0
  BY DEF CalculationInit, Calc
<1>2. FiguresTyped
  <2>1. calcs \in Seq(Calculating) /\ Len(calcs) <= MaxCalcs
    BY <1>1, CalculationAssumption
  <2>2. rows \in 0..MaxBatches /\ told \in 0..rows /\ marks \in Nat /\ marker \in {0, marks}
    BY CalculationAssumption DEF CalculationInit
  <2>3. /\ dashboard \in [whole : BOOLEAN, counts : 0..rows]
        /\ screen \in [view : {"review", "page"}, waits : 0..Len(calcs)]
        /\ batch \in [stage : {"none", "sent", "posted", "calculates"}, here : BOOLEAN,
                      calc : 0..Len(calcs)]
        /\ batch.stage # "sent" /\ overlapped \in BOOLEAN
    <3> 0 \in 0..0
      OBVIOUS
    <3> QED  BY <1>1 DEF CalculationInit
  <2> QED  BY <1>1, <2>1, <2>2, <2>3 DEF FiguresTyped
<1> QED  BY <1>1, <1>2 DEF CalculationInit, FiguresInv, InTurn, SawMarked, InOrder, Counted, AtWork

\* Screens and batches come and go beside the calculations.
LEMMA ScreensKeep ==
    ASSUME FiguresInv,
           (\E view \in {"review", "page"} : Navigate(view)) \/ Submit \/ PostBatch \/ LoseBatch
    PROVE  FiguresInv'
<1>0. /\ Len(calcs) \in Nat /\ rows \in Nat /\ rows <= MaxBatches
      /\ screen \in [view : {"review", "page"}, waits : 0..Len(calcs)]
      /\ batch \in [stage : {"none", "sent", "posted", "calculates"}, here : BOOLEAN,
                    calc : 0..Len(calcs)]
      /\ batch.stage = "sent" => rows < MaxBatches
  BY CalculationAssumption DEF FiguresInv, FiguresTyped
<1>1. UNCHANGED <<dashboard, calcs, queue, marker, marks, told, overlapped>>
  BY DEF Navigate, Submit, PostBatch, LoseBatch
<1> DEFINE Kept ==
              /\ rows' \in 0..MaxBatches /\ rows <= rows'
              /\ screen' \in [view : {"review", "page"}, waits : 0..Len(calcs)]
              /\ batch' \in [stage : {"none", "sent", "posted", "calculates"}, here : BOOLEAN,
                             calc : 0..Len(calcs)]
              /\ batch'.stage = "sent" => rows' < MaxBatches
<1>2. Kept
  <2>1. ASSUME NEW view \in {"review", "page"}, Navigate(view) PROVE Kept
    <3>1. 0 \in 0..Len(calcs)
      BY <1>0
    <3>2. screen' \in [view : {"review", "page"}, waits : 0..Len(calcs)]
      BY <2>1, <3>1 DEF Navigate
    <3>3. batch' = [batch EXCEPT !.here = FALSE] /\ rows' = rows
      BY <2>1 DEF Navigate
    <3>4. batch' \in [stage : {"none", "sent", "posted", "calculates"}, here : BOOLEAN,
                      calc : 0..Len(calcs)] /\ batch'.stage = batch.stage
      BY <1>0, <3>3
    <3> QED  BY <1>0, <3>2, <3>3, <3>4, CalculationAssumption
  <2>2. CASE Submit
    BY <1>0, <2>2, CalculationAssumption DEF Submit
  <2>3. CASE PostBatch
    BY <1>0, <2>3, CalculationAssumption DEF PostBatch
  <2>4. CASE LoseBatch
    BY <1>0, <2>4, CalculationAssumption DEF LoseBatch
  <2> QED  BY <2>1, <2>2, <2>3, <2>4
<1>5. /\ told \in 0..rows' /\ dashboard \in [whole : BOOLEAN, counts : 0..rows']
      /\ \A c \in Calc : calcs[c].seen <= rows'
  <2>1. told \in 0..rows /\ dashboard \in [whole : BOOLEAN, counts : 0..rows]
    BY DEF FiguresInv, FiguresTyped
  <2>2. 0..rows \subseteq 0..rows'
    BY <1>0, <1>2, CalculationAssumption
  <2>3. \A c \in Calc : calcs[c].seen <= rows'
    <3> SUFFICES ASSUME NEW c \in Calc PROVE calcs[c].seen <= rows'
      OBVIOUS
    <3>1. calcs[c].seen \in Nat /\ calcs[c].seen <= rows
      BY CalcShape DEF FiguresInv
    <3> QED  BY <1>0, <1>2, <3>1, CalculationAssumption
  <2> QED  BY <2>1, <2>2, <2>3
<1>6. FiguresTyped'
  BY <1>1, <1>2, <1>5 DEF FiguresInv, FiguresTyped, Calc
<1>7. InTurn'
  BY <1>1, TurnKept DEF FiguresInv, Calc
<1> QED  BY <1>1, <1>6, <1>7 DEF FiguresInv, SawMarked, InOrder, Counted, AtWork, Calc

\* A calculation that is asked for has read nothing yet.
LEMMA AskedIsNew ==
    ASSUME NEW by \in Asker, NEW token \in Nat, NEW answer \in {"queued", "waiting"}
    PROVE  /\ Wanted(by, token, answer) \in Calculating
           /\ Wanted(by, token, answer).by = by /\ Wanted(by, token, answer).token = token
           /\ Wanted(by, token, answer).answer = answer /\ Wanted(by, token, answer).seen = 0
           /\ Wanted(by, token, answer).server \in {"none", "sent"}
BY DEF Wanted, Calculating

\* Of the calculations, what is not about their places in the queue.
LEMMA FiguresBeside ==
    ASSUME FiguresInv, NEW k \in Calculating, k.server \in {"none", "sent"}, k.seen = 0,
           Len(calcs) < MaxCalcs, calcs' = Append(calcs, k),
           \/ marks' = marks /\ marker' = marker /\ told' = told
           \/ marks' = marks + 1 /\ marker' = marks + 1 /\ told' = rows,
           k.token <= marks', UNCHANGED <<rows, dashboard, overlapped>>
    PROVE  /\ marks' \in Nat /\ marker' \in {0, marks'} /\ told' \in 0..rows
           /\ calcs' \in Seq(Calculating) /\ Len(calcs') <= MaxCalcs
           /\ \A c \in Calc' : calcs'[c].token <= marks' /\ calcs'[c].seen <= rows
           /\ SawMarked' /\ InOrder' /\ Counted'
<1>1. /\ calcs' \in Seq(Calculating) /\ Len(calcs') = Len(calcs) + 1 /\ Len(calcs) \in Nat
      /\ Calc' = Calc \cup {Len(calcs) + 1} /\ calcs'[Len(calcs) + 1] = k
      /\ Len(calcs) + 1 \notin Calc
      /\ \A d \in Calc : calcs'[d] = calcs[d]
  BY OneMore DEF FiguresInv
<1>2. rows \in Nat /\ told \in 0..rows /\ marks \in Nat /\ marker \in {0, marks}
  BY CalculationAssumption DEF FiguresInv, FiguresTyped
<1>3. marks' \in Nat /\ marker' \in {0, marks'} /\ told' \in 0..rows /\ marks <= marks'
  BY <1>2
<1>4. Len(calcs') <= MaxCalcs
  BY <1>1, CalculationAssumption
<1>5. \A c \in Calc' : calcs'[c].token <= marks' /\ calcs'[c].seen <= rows
  <2>1. k.token <= marks' /\ k.seen <= rows
    BY <1>2
  <2>2. ASSUME NEW c \in Calc PROVE calcs[c].token <= marks' /\ calcs[c].seen <= rows
    <3>1. calcs[c].token \in Nat /\ calcs[c].token <= marks /\ calcs[c].seen <= rows
      BY CalcShape DEF FiguresInv
    <3> QED  BY <1>2, <1>3, <3>1
  <2> QED  BY <1>1, <2>1, <2>2
<1>6. SawMarked'
  <2>1. CASE marks' = marks /\ marker' = marker /\ told' = told
    BY <1>1, <2>1 DEF FiguresInv, SawMarked
  <2>2. CASE marker' = marks + 1
    <3>1. \A c \in Calc : calcs[c].token # marks + 1
      <4> SUFFICES ASSUME NEW c \in Calc PROVE calcs[c].token # marks + 1
        OBVIOUS
      <4>1. calcs[c].token \in Nat /\ calcs[c].token <= marks
        BY CalcShape DEF FiguresInv
      <4> QED  BY <1>2, <4>1
    <3> QED  BY <1>1, <2>2, <3>1 DEF SawMarked
  <2> QED  BY <2>1, <2>2
<1>7. AtWork' = AtWork
  BY <1>1 DEF AtWork
<1>8. InOrder'
  BY <1>1, <1>7 DEF FiguresInv, InOrder, AtWork
<1>9. Counted'
  BY <1>2 DEF FiguresInv, Counted
<1> QED  BY <1>1, <1>3, <1>4, <1>5, <1>6, <1>8, <1>9

LEMMA RetryKeeps == ASSUME FiguresInv, RetryRefresh PROVE FiguresInv'
<1> DEFINE k == Wanted("screen", marker, "waiting")
<1>1. /\ Len(calcs) < MaxCalcs /\ calcs' = Append(calcs, k)
      /\ screen' = [screen EXCEPT !.waits = Len(calcs) + 1]
      /\ UNCHANGED <<rows, dashboard, queue, marker, marks, batch, told, overlapped>>
  BY DEF RetryRefresh, Room
<1>2. marker \in Nat /\ marks \in Nat /\ marker <= marks
  BY DEF FiguresInv, FiguresTyped
<1>3. /\ k \in Calculating /\ k.by = "screen" /\ k.token = marker /\ k.seen = 0
      /\ k.server \in {"none", "sent"}
  <2>1. "screen" \in Asker /\ "waiting" \in {"queued", "waiting"}
    BY DEF Asker
  <2> QED  BY <1>2, <2>1, AskedIsNew
<1> HIDE DEF k
<1>4. /\ calcs' \in Seq(Calculating) /\ Len(calcs') <= MaxCalcs
      /\ \A c \in Calc' : calcs'[c].token <= marks' /\ calcs'[c].seen <= rows
      /\ SawMarked' /\ InOrder' /\ Counted'
  BY <1>1, <1>2, <1>3, FiguresBeside
<1>5. Len(calcs') = Len(calcs) + 1 /\ Len(calcs) \in Nat
  BY <1>1, <1>3, OneMore DEF FiguresInv
<1>6. InTurn'
  BY <1>1, <1>3, TurnBeside DEF FiguresInv
<1>7. screen' \in [view : {"review", "page"}, waits : 0..Len(calcs')]
  <2>1. Len(calcs) + 1 \in 0..Len(calcs')
    BY <1>5
  <2> QED  BY <1>1, <2>1 DEF FiguresInv, FiguresTyped
<1>8. batch \in [stage : {"none", "sent", "posted", "calculates"}, here : BOOLEAN,
                 calc : 0..Len(calcs')]
  <2>1. 0..Len(calcs) \subseteq 0..Len(calcs')
    BY <1>5
  <2> QED  BY <2>1 DEF FiguresInv, FiguresTyped
<1>9. FiguresTyped'
  BY <1>1, <1>4, <1>7, <1>8 DEF FiguresInv, FiguresTyped
<1> QED  BY <1>4, <1>6, <1>9 DEF FiguresInv

LEMMA EnqueueKeeps == ASSUME FiguresInv, Enqueue PROVE FiguresInv'
<1> DEFINE k == Wanted("queue", 0, "queued")
           n == Len(calcs) + 1
<1>1. /\ Len(calcs) < MaxCalcs /\ calcs' = Append(calcs, k)
      /\ screen' = screen \/ screen' = [screen EXCEPT !.waits = n]
      /\ queue' = Append(queue, n)
      /\ queue = <<>> \/ screen.view = "page"
      /\ UNCHANGED <<rows, dashboard, marker, marks, batch, told, overlapped>>
  BY DEF Enqueue, Room
<1>2. marker \in Nat /\ marks \in Nat /\ 0 <= marks
  BY DEF FiguresInv, FiguresTyped
<1>3. /\ k \in Calculating /\ k.by = "queue" /\ k.token = 0 /\ k.seen = 0 /\ k.answer = "queued"
      /\ k.server \in {"none", "sent"}
  <2>1. "queue" \in Asker /\ "queued" \in {"queued", "waiting"} /\ 0 \in Nat
    BY DEF Asker
  <2> QED  BY <2>1, AskedIsNew
<1> HIDE DEF k
<1>4. /\ calcs' \in Seq(Calculating) /\ Len(calcs') <= MaxCalcs
      /\ \A c \in Calc' : calcs'[c].token <= marks' /\ calcs'[c].seen <= rows
      /\ SawMarked' /\ InOrder' /\ Counted'
  BY <1>1, <1>2, <1>3, FiguresBeside
<1>5. /\ Len(calcs') = n /\ Len(calcs) \in Nat /\ Calc' = Calc \cup {n} /\ n \notin Calc
      /\ calcs'[n] = k /\ \A d \in Calc : calcs'[d] = calcs[d]
  BY <1>1, <1>3, OneMore DEF FiguresInv
<1>7. screen' \in [view : {"review", "page"}, waits : 0..Len(calcs')]
  <2>1. n \in 0..Len(calcs') /\ 0..Len(calcs) \subseteq 0..Len(calcs')
    BY <1>5
  <2>2. screen \in [view : {"review", "page"}, waits : 0..Len(calcs)]
    BY DEF FiguresInv, FiguresTyped
  <2> HIDE DEF n
  <2> QED  BY <1>1, <2>1, <2>2
<1>8. batch \in [stage : {"none", "sent", "posted", "calculates"}, here : BOOLEAN,
                 calc : 0..Len(calcs')]
  <2>1. 0..Len(calcs) \subseteq 0..Len(calcs')
    BY <1>5
  <2> QED  BY <2>1 DEF FiguresInv, FiguresTyped
<1>6. InTurn'
  <2> HIDE DEF n
  <2>1. /\ queue \in Seq(Calc) /\ Len(queue) \in Nat
        /\ \A i \in 1..Len(queue) : queue[i] \in Calc
    BY DEF InTurn, FiguresInv
  <2>2. /\ queue' \in Seq(Calc') /\ Len(queue') = Len(queue) + 1
        /\ queue'[Len(queue) + 1] = n /\ \A i \in 1..Len(queue) : queue'[i] = queue[i]
    <3>1. queue \in Seq(Calc') /\ n \in Calc'
      BY <1>5, <2>1
    <3> QED  BY <1>1, <3>1
  <2>3. \A i \in 1..Len(queue') : i \in 1..Len(queue) \/ i = Len(queue) + 1
    BY <2>1, <2>2
  <2>4. ASSUME NEW i \in 1..Len(queue')
        PROVE  /\ calcs'[queue'[i]].by = "queue" /\ calcs'[queue'[i]].answer # "ended"
               /\ \A j \in 1..Len(queue') : queue'[i] = queue'[j] => i = j
    <3>1. CASE i \in 1..Len(queue)
      <4>1. calcs[queue[i]].by = "queue" /\ calcs[queue[i]].answer # "ended"
        BY <3>1 DEF FiguresInv, InTurn
      <4>2. ASSUME NEW j \in 1..Len(queue'), queue'[i] = queue'[j] PROVE i = j
        <5>1. j \in 1..Len(queue)
          BY <1>5, <2>1, <2>2, <2>3, <3>1, <4>2
        <5> QED  BY <2>2, <3>1, <4>2, <5>1 DEF FiguresInv, InTurn
      <4> QED  BY <1>5, <2>1, <2>2, <3>1, <4>1, <4>2
    <3>2. CASE i = Len(queue) + 1
      <4>1. ASSUME NEW j \in 1..Len(queue'), queue'[i] = queue'[j] PROVE i = j
        BY <1>5, <2>1, <2>2, <2>3, <3>2, <4>1
      <4> QED  BY <1>3, <1>5, <2>2, <3>2, <4>1
    <3> QED  BY <2>3, <3>1, <3>2
  <2>5. ASSUME NEW c \in Calc', calcs'[c].by = "queue", calcs'[c].answer = "waiting"
        PROVE  queue' # <<>> /\ Head(queue') = c
    <3>1. c \in Calc /\ calcs'[c] = calcs[c]
      BY <1>3, <1>5, <2>5
    <3>2. queue # <<>> /\ Head(queue) = c
      BY <2>5, <3>1 DEF FiguresInv, InTurn
    <3>3. queue[1] = c /\ 1 \in 1..Len(queue)
      BY <2>1, <3>2
    <3> QED  BY <2>2, <3>3
  <2> QED  BY <2>2, <2>4, <2>5 DEF InTurn
<1>9. FiguresTyped'
  BY <1>1, <1>4, <1>7, <1>8 DEF FiguresInv, FiguresTyped
<1> QED  BY <1>4, <1>6, <1>9 DEF FiguresInv

LEMMA HearKeeps == ASSUME FiguresInv, HearBatch PROVE FiguresInv'
<1> DEFINE k == Wanted("batch", marks + 1, "waiting")
<1>1. /\ marks' = marks + 1 /\ marker' = marks + 1 /\ told' = rows
      /\ UNCHANGED <<rows, dashboard, queue, screen, overlapped>>
  BY DEF HearBatch, MarkStale
<1>2. /\ rows \in 0..MaxBatches /\ rows \in Nat /\ marks \in Nat /\ marks + 1 \in Nat /\ Len(calcs) \in Nat
      /\ batch \in [stage : {"none", "sent", "posted", "calculates"}, here : BOOLEAN,
                    calc : 0..Len(calcs)]
  BY CalculationAssumption DEF FiguresInv, FiguresTyped
<1>3. CASE batch.here
  <2>1. /\ Len(calcs) < MaxCalcs /\ calcs' = Append(calcs, k)
        /\ batch' = [batch EXCEPT !.stage = "calculates", !.calc = Len(calcs) + 1]
    BY <1>3 DEF HearBatch, Room
  <2>2. /\ k \in Calculating /\ k.by = "batch" /\ k.token = marks + 1 /\ k.seen = 0
        /\ k.server \in {"none", "sent"}
    <3>1. "batch" \in Asker /\ "waiting" \in {"queued", "waiting"}
      BY DEF Asker
    <3> QED  BY <1>2, <3>1, AskedIsNew
  <2> HIDE DEF k
  <2>3. k.token <= marks'
    BY <1>1, <1>2, <2>2
  <2>4. /\ calcs' \in Seq(Calculating) /\ Len(calcs') <= MaxCalcs
        /\ \A c \in Calc' : calcs'[c].token <= marks' /\ calcs'[c].seen <= rows
        /\ SawMarked' /\ InOrder' /\ Counted'
    BY <1>1, <2>1, <2>2, <2>3, FiguresBeside
  <2>5. Len(calcs') = Len(calcs) + 1
    BY <2>1, <2>2, OneMore DEF FiguresInv
  <2>6. InTurn'
    BY <1>1, <2>1, <2>2, TurnBeside DEF FiguresInv
  <2>7. screen \in [view : {"review", "page"}, waits : 0..Len(calcs')]
    <3>1. 0..Len(calcs) \subseteq 0..Len(calcs')
      BY <1>2, <2>5
    <3> QED  BY <3>1 DEF FiguresInv, FiguresTyped
  <2>8. batch' \in [stage : {"none", "sent", "posted", "calculates"}, here : BOOLEAN,
                    calc : 0..Len(calcs')] /\ batch'.stage # "sent"
    <3>1. Len(calcs) + 1 \in 0..Len(calcs')
      BY <1>2, <2>5
    <3>2. 0..Len(calcs) \subseteq 0..Len(calcs')
      BY <1>2, <2>5
    <3> QED  BY <1>2, <2>1, <3>1, <3>2
  <2>9. FiguresTyped'
    BY <1>1, <1>2, <2>4, <2>7, <2>8 DEF FiguresInv, FiguresTyped
  <2> QED  BY <2>4, <2>6, <2>9 DEF FiguresInv
<1>4. CASE ~batch.here
  <2>1. calcs' = calcs /\ batch' = [batch EXCEPT !.stage = "none"]
    BY <1>4 DEF HearBatch
  <2>2. \A c \in Calc : calcs[c].token <= marks /\ calcs[c].token \in Nat /\ calcs[c].seen <= rows
    BY CalcShape DEF FiguresInv
  <2>3. \A c \in Calc : calcs[c].token <= marks + 1 /\ calcs[c].token # marks + 1
    <3> SUFFICES ASSUME NEW c \in Calc PROVE calcs[c].token <= marks + 1 /\ calcs[c].token # marks + 1
      OBVIOUS
    <3> QED  BY <1>2, <2>2
  <2>4. batch' \in [stage : {"none", "sent", "posted", "calculates"}, here : BOOLEAN,
                    calc : 0..Len(calcs)] /\ batch'.stage # "sent"
    BY <1>2, <2>1
  <2>5. told' \in 0..rows
    BY <1>1, <1>2
  <2>6. FiguresTyped'
    BY <1>1, <1>2, <2>1, <2>2, <2>3, <2>4, <2>5 DEF FiguresInv, FiguresTyped, Calc
  <2>7. InTurn'
    BY <1>1, <2>1, TurnKept DEF FiguresInv, Calc
  <2>8. SawMarked' /\ InOrder' /\ Counted'
    BY <1>1, <1>2, <2>1, <2>3 DEF FiguresInv, SawMarked, InOrder, Counted, AtWork, Calc
  <2> QED  BY <2>6, <2>7, <2>8 DEF FiguresInv
<1> QED  BY <1>2, <1>3, <1>4

\* What is said of the shape of a calculation that changes in place.
LEMMA ChangesTyped ==
    ASSUME FiguresTyped, NEW c \in Calc, NEW k \in Calculating,
           k.token <= marks, k.seen <= rows,
           calcs' = [calcs EXCEPT ![c] = k], UNCHANGED <<rows, marks>>
    PROVE  /\ calcs' \in Seq(Calculating) /\ Len(calcs') = Len(calcs) /\ Len(calcs') <= MaxCalcs
           /\ \A d \in Calc' : calcs'[d].token <= marks' /\ calcs'[d].seen <= rows'
<1>1. /\ calcs' \in Seq(Calculating) /\ Len(calcs') = Len(calcs) /\ Calc' = Calc
      /\ \A d \in Calc : calcs'[d] = IF d = c THEN k ELSE calcs[d]
  BY OneChanges
<1>2. \A d \in Calc : calcs[d].token <= marks /\ calcs[d].seen <= rows
  BY DEF FiguresTyped
<1> QED  BY <1>1, <1>2 DEF FiguresTyped

\* Start: the first of the queue waits from here on.
LEMMA StartKeeps == ASSUME FiguresInv, Start PROVE FiguresInv'
<1> DEFINE c == Head(queue)
           k == Wanted("queue", marker, "waiting")
<1>1. /\ queue # <<>> /\ calcs[c].answer = "queued" /\ calcs' = [calcs EXCEPT ![c] = k]
      /\ UNCHANGED <<rows, dashboard, queue, marker, marks, screen, batch, told, overlapped>>
  BY DEF Start
<1>2. /\ queue \in Seq(Calc) /\ 1 \in 1..Len(queue) /\ c = queue[1] /\ c \in Calc
      /\ Len(queue) \in Nat
  BY <1>1 DEF FiguresInv, InTurn
<1>3. marker \in Nat /\ marks \in Nat /\ marker <= marks /\ rows \in Nat
  BY CalculationAssumption DEF FiguresInv, FiguresTyped
<1>4. /\ k \in Calculating /\ k.by = "queue" /\ k.token = marker /\ k.seen = 0
      /\ k.answer = "waiting" /\ k.server \in {"none", "sent"}
  <2>1. "queue" \in Asker /\ "waiting" \in {"queued", "waiting"}
    BY DEF Asker
  <2> QED  BY <1>3, <2>1, AskedIsNew
<1>5. c \in Calc
  BY <1>2
<1> HIDE DEF c, k
<1>6. /\ Calc' = Calc /\ \A d \in Calc : calcs'[d] = IF d = c THEN k ELSE calcs[d]
  BY <1>1, <1>4, <1>5, OneChanges DEF FiguresInv
<1>7. FiguresTyped'
  <2>1. k.token <= marks /\ k.seen <= rows
    BY <1>3, <1>4
  <2>2. /\ calcs' \in Seq(Calculating) /\ Len(calcs') = Len(calcs) /\ Len(calcs') <= MaxCalcs
        /\ \A d \in Calc' : calcs'[d].token <= marks' /\ calcs'[d].seen <= rows'
    BY <1>1, <1>4, <1>5, <2>1, ChangesTyped DEF FiguresInv
  <2> QED  BY <1>1, <2>2 DEF FiguresInv, FiguresTyped
<1>8. InTurn'
  <2>1. ASSUME NEW d \in Calc, calcs'[d].by = "queue", calcs'[d].answer = "waiting" PROVE Head(queue) = d
    BY <1>6, <2>1 DEF c, FiguresInv, InTurn
  <2>2. \A i \in 1..Len(queue) : queue[i] \in Calc
    BY <1>2
  <2> QED  BY <1>1, <1>2, <1>4, <1>6, <2>1, <2>2 DEF FiguresInv, InTurn
<1>9. AtWork' = {d \in AtWork : d # c}
  BY <1>4, <1>6 DEF AtWork
<1>10. SawMarked' /\ InOrder' /\ Counted'
  BY <1>1, <1>4, <1>5, <1>6, <1>9 DEF FiguresInv, SawMarked, InOrder, Counted, AtWork
<1> QED  BY <1>7, <1>8, <1>10 DEF FiguresInv

\* What the server does changes neither who waits nor in which order.
LEMMA ServedTyped ==
    ASSUME FiguresInv, NEW c \in Calc, NEW k \in Calculating,
           k.token <= marks, k.seen <= rows, calcs' = [calcs EXCEPT ![c] = k],
           k.answer = calcs[c].answer, k.answer # "ended" => k.by = calcs[c].by,
           dashboard' \in [whole : BOOLEAN, counts : 0..rows], overlapped' \in BOOLEAN,
           UNCHANGED <<rows, queue, marker, marks, screen, batch, told>>
    PROVE  /\ FiguresTyped' /\ InTurn'
           /\ Calc' = Calc /\ \A d \in Calc : calcs'[d] = IF d = c THEN k ELSE calcs[d]
<1>1. /\ Calc' = Calc /\ \A d \in Calc : calcs'[d] = IF d = c THEN k ELSE calcs[d]
  BY OneChanges DEF FiguresInv
<1>2. /\ calcs' \in Seq(Calculating) /\ Len(calcs') = Len(calcs) /\ Len(calcs') <= MaxCalcs
      /\ \A d \in Calc' : calcs'[d].token <= marks' /\ calcs'[d].seen <= rows'
  BY ChangesTyped DEF FiguresInv
<1>3. FiguresTyped'
  BY <1>2 DEF FiguresInv, FiguresTyped
<1>4. InTurn'
  BY <1>1, TurnKept DEF FiguresInv
<1> QED  BY <1>1, <1>3, <1>4

LEMMA ReadKeeps == ASSUME FiguresInv, NEW c \in Calc, Read(c) PROVE FiguresInv'
<1> DEFINE k == [calcs[c] EXCEPT !.server = "read", !.seen = rows]
<1>1. /\ calcs[c].server = "sent"
      /\ overlapped' = (overlapped \/ AtWork # {})
      /\ UNCHANGED <<rows, dashboard, queue, marker, marks, screen, batch, told>>
  BY DEF Read
<1>2. /\ calcs[c] \in Calculating /\ rows \in Nat /\ told <= rows /\ dashboard.counts <= rows
      /\ calcs[c].token <= marks
  BY CalcShape DEF FiguresInv
<1>3. /\ k \in Calculating /\ k.by = calcs[c].by /\ k.token = calcs[c].token /\ k.seen = rows
      /\ k.answer = calcs[c].answer /\ k.server = "read" /\ k.seen <= rows
  <2>1. /\ k.by = calcs[c].by /\ k.token = calcs[c].token /\ k.seen = rows
        /\ k.answer = calcs[c].answer /\ k.server = "read"
    BY <1>2 DEF Calculating
  <2>2. k \in Calculating
    BY <1>2 DEF Calculating
  <2>3. rows <= rows
    BY <1>2
  <2> QED  BY <2>1, <2>2, <2>3
<1>4. calcs' = [calcs EXCEPT ![c] = k]
  <2>1. calcs \in Seq(Calculating) /\ c \in 1..Len(calcs)
    BY DEF FiguresInv, FiguresTyped, Calc
  <2>2. calcs' = [calcs EXCEPT ![c].server = "read", ![c].seen = rows]
    BY DEF Read
  <2> QED  BY <1>2, <2>1, <2>2 DEF Calculating
<1>5. /\ dashboard' \in [whole : BOOLEAN, counts : 0..rows] /\ overlapped' \in BOOLEAN
  BY <1>1 DEF FiguresInv, FiguresTyped
<1> HIDE DEF k
<1>6. /\ FiguresTyped' /\ InTurn'
      /\ Calc' = Calc /\ \A d \in Calc : calcs'[d] = IF d = c THEN k ELSE calcs[d]
  BY <1>1, <1>2, <1>3, <1>4, <1>5, ServedTyped
<1>7. SawMarked'
  BY <1>1, <1>2, <1>3, <1>6 DEF FiguresInv, SawMarked
<1>8. AtWork' = AtWork \cup {c}
  BY <1>3, <1>6 DEF AtWork
<1>9. InOrder'
  <2> SUFFICES ASSUME ~overlapped' PROVE InOrder'
    BY DEF InOrder
  <2>1. ~overlapped /\ AtWork = {} /\ AtWork' = {c}
    BY <1>1, <1>8
  <2>2. \A d \in Calc : calcs[d].server = "written" => calcs[d].seen <= dashboard.counts
    BY <2>1 DEF FiguresInv, InOrder
  <2> QED  BY <1>1, <1>2, <1>3, <1>6, <2>1, <2>2 DEF InOrder
<1>10. Counted'
  BY <1>1 DEF FiguresInv, Counted
<1> QED  BY <1>6, <1>7, <1>9, <1>10 DEF FiguresInv

LEMMA TruncateKeeps == ASSUME FiguresInv, NEW c \in Calc, Truncate(c) PROVE FiguresInv'
<1> DEFINE k == [calcs[c] EXCEPT !.server = "torn"]
<1>1. /\ calcs[c].server = "read" /\ dashboard' = [dashboard EXCEPT !.whole = FALSE]
      /\ UNCHANGED <<rows, queue, marker, marks, screen, batch, told, overlapped>>
  BY DEF Truncate
<1>2. /\ calcs[c] \in Calculating /\ calcs[c].token <= marks /\ calcs[c].seen <= rows
  BY CalcShape DEF FiguresInv
<1>3. /\ k \in Calculating /\ k.by = calcs[c].by /\ k.token = calcs[c].token
      /\ k.seen = calcs[c].seen /\ k.answer = calcs[c].answer /\ k.server = "torn"
  BY <1>2 DEF Calculating
<1>4. calcs' = [calcs EXCEPT ![c] = k]
  BY <1>3 DEF Truncate, Reach, Put
<1>5. /\ dashboard' \in [whole : BOOLEAN, counts : 0..rows] /\ dashboard'.counts = dashboard.counts
      /\ overlapped' \in BOOLEAN
  BY <1>1 DEF FiguresInv, FiguresTyped
<1> HIDE DEF k
<1>6. /\ FiguresTyped' /\ InTurn'
      /\ Calc' = Calc /\ \A d \in Calc : calcs'[d] = IF d = c THEN k ELSE calcs[d]
  BY <1>1, <1>2, <1>3, <1>4, <1>5, ServedTyped
<1>7. SawMarked'
  BY <1>1, <1>3, <1>6 DEF FiguresInv, SawMarked
<1>8. AtWork' = AtWork
  BY <1>1, <1>3, <1>6 DEF AtWork
<1>9. InOrder' /\ Counted'
  BY <1>1, <1>3, <1>5, <1>6, <1>8 DEF FiguresInv, InOrder, Counted, AtWork
<1> QED  BY <1>6, <1>7, <1>9 DEF FiguresInv

LEMMA WriteKeeps == ASSUME FiguresInv, NEW c \in Calc, Write(c) PROVE FiguresInv'
<1> DEFINE w == [calcs[c] EXCEPT !.server = "written"]
           k == IF w.answer = "ended" THEN Over ELSE w
<1>1. /\ calcs[c].server = "torn" /\ dashboard' = [whole |-> TRUE, counts |-> calcs[c].seen]
      /\ UNCHANGED <<rows, queue, marker, marks, screen, batch, told, overlapped>>
  BY DEF Write
<1>2. /\ calcs[c] \in Calculating /\ calcs[c].token <= marks /\ calcs[c].seen <= rows
      /\ calcs[c].seen \in Nat /\ rows \in Nat /\ marks \in Nat /\ told \in Nat /\ dashboard.counts \in Nat
  BY CalcShape DEF FiguresInv
<1>3. /\ w \in Calculating /\ w.by = calcs[c].by /\ w.token = calcs[c].token
      /\ w.seen = calcs[c].seen /\ w.answer = calcs[c].answer /\ w.server = "written"
  BY <1>2 DEF Calculating
<1>4. calcs' = [calcs EXCEPT ![c] = k]
  BY <1>3 DEF Write, Reach, Put
<1>5. /\ Over \in Calculating /\ Over.token = 0 /\ Over.seen = 0 /\ Over.answer = "ended"
      /\ Over.server = "done"
  BY DEF Over, Calculating, Asker
<1>6. /\ dashboard' \in [whole : BOOLEAN, counts : 0..rows] /\ dashboard'.counts = calcs[c].seen
      /\ overlapped' \in BOOLEAN
  <2>1. calcs[c].seen \in 0..rows
    BY <1>2
  <2> QED  BY <1>1, <2>1 DEF FiguresInv, FiguresTyped
<1> HIDE DEF w
<1>7. /\ k \in Calculating /\ k.token <= marks /\ k.seen <= rows /\ k.answer = calcs[c].answer
      /\ k.answer # "ended" => k.by = calcs[c].by
      /\ k.server \in {"written", "done"}
      /\ k.server = "written" => k.seen = calcs[c].seen /\ k.token = calcs[c].token
  BY <1>2, <1>3, <1>5
<1> HIDE DEF k
<1>8. /\ FiguresTyped' /\ InTurn'
      /\ Calc' = Calc /\ \A d \in Calc : calcs'[d] = IF d = c THEN k ELSE calcs[d]
  BY <1>1, <1>4, <1>6, <1>7, ServedTyped
<1>9. SawMarked'
  BY <1>1, <1>7, <1>8 DEF FiguresInv, SawMarked
<1>10. ASSUME ~overlapped
       PROVE  /\ \A d \in Calc : calcs'[d].server = "written" => calcs'[d].seen <= dashboard'.counts
              /\ AtWork' = {} /\ dashboard.counts <= dashboard'.counts
  <2>1. c \in AtWork
    BY <1>1 DEF AtWork
  <2>2. AtWork = {c} /\ dashboard.counts <= calcs[c].seen
    BY <1>10, <2>1 DEF FiguresInv, InOrder
  <2>3. AtWork' = {}
    BY <1>7, <1>8, <2>2 DEF AtWork
  <2>4. ASSUME NEW d \in Calc, calcs'[d].server = "written" PROVE calcs'[d].seen <= dashboard'.counts
    <3>1. CASE d = c
      BY <1>2, <1>6, <1>7, <1>8, <2>4, <3>1
    <3>2. CASE d # c
      <4>1. calcs[d].seen \in Nat /\ calcs[d].seen <= dashboard.counts
        BY <1>8, <1>10, <2>4, <3>2, CalcShape DEF FiguresInv, InOrder
      <4> QED  BY <1>2, <1>6, <1>8, <2>2, <3>2, <4>1
    <3> QED  BY <3>1, <3>2
  <2> QED  BY <1>6, <2>2, <2>3, <2>4
<1>11. InOrder'
  BY <1>1, <1>8, <1>10 DEF InOrder
<1>12. Counted'
  <2> SUFFICES ASSUME marker = 0, ~overlapped PROVE told <= dashboard'.counts
    BY <1>1 DEF Counted
  <2>1. told <= dashboard.counts /\ dashboard.counts <= dashboard'.counts
    BY <1>10 DEF FiguresInv, Counted
  <2>2. dashboard'.counts \in Nat
    BY <1>2, <1>6
  <2> QED  BY <1>2, <2>1, <2>2
<1> QED  BY <1>8, <1>9, <1>11, <1>12 DEF FiguresInv

LEMMA RejectKeeps == ASSUME FiguresInv, NEW c \in Calc, Reject(c) PROVE FiguresInv'
<1> DEFINE w == [calcs[c] EXCEPT !.server = "rejected"]
           k == IF w.answer = "ended" THEN Over ELSE w
<1>1. /\ calcs[c].server = "sent"
      /\ UNCHANGED <<rows, dashboard, queue, marker, marks, screen, batch, told, overlapped>>
  BY DEF Reject
<1>2. /\ calcs[c] \in Calculating /\ calcs[c].token <= marks /\ calcs[c].seen <= rows
      /\ rows \in Nat /\ marks \in Nat
  BY CalcShape DEF FiguresInv
<1>3. /\ w \in Calculating /\ w.by = calcs[c].by /\ w.token = calcs[c].token
      /\ w.seen = calcs[c].seen /\ w.answer = calcs[c].answer /\ w.server = "rejected"
  BY <1>2 DEF Calculating
<1>4. calcs' = [calcs EXCEPT ![c] = k]
  BY <1>3 DEF Reject, Reach, Put
<1>5. /\ Over \in Calculating /\ Over.token = 0 /\ Over.seen = 0 /\ Over.answer = "ended"
      /\ Over.server = "done"
  BY DEF Over, Calculating, Asker
<1>6. dashboard' \in [whole : BOOLEAN, counts : 0..rows] /\ overlapped' \in BOOLEAN
  BY <1>1 DEF FiguresInv, FiguresTyped
<1> HIDE DEF w
<1>7. /\ k \in Calculating /\ k.token <= marks /\ k.seen <= rows /\ k.answer = calcs[c].answer
      /\ k.answer # "ended" => k.by = calcs[c].by
      /\ k.server \in {"rejected", "done"}
  BY <1>2, <1>3, <1>5
<1> HIDE DEF k
<1>8. /\ FiguresTyped' /\ InTurn'
      /\ Calc' = Calc /\ \A d \in Calc : calcs'[d] = IF d = c THEN k ELSE calcs[d]
  BY <1>1, <1>4, <1>6, <1>7, ServedTyped
<1>9. AtWork' = AtWork
  BY <1>1, <1>7, <1>8 DEF AtWork
<1>10. SawMarked' /\ InOrder' /\ Counted'
  BY <1>1, <1>7, <1>8, <1>9 DEF FiguresInv, SawMarked, InOrder, Counted, AtWork
<1> QED  BY <1>8, <1>10 DEF FiguresInv

\* The queue loses the one that ends, and no other.
LEMMA QueueEnds ==
    ASSUME FiguresInv, NEW c \in Calc, calcs[c].answer = "waiting", NEW answer,
           NEW k \in Calculating, k.answer = "ended", queue' = Off(c, answer),
           Calc' = Calc, \A d \in Calc : calcs'[d] = IF d = c THEN k ELSE calcs[d]
    PROVE  InTurn'
<1>1. /\ queue \in Seq(Calc) /\ Len(queue) \in Nat /\ \A i \in 1..Len(queue) : queue[i] \in Calc
      /\ \A i \in 1..Len(queue) : \A j \in 1..Len(queue) : queue[i] = queue[j] => i = j
      /\ \A i \in 1..Len(queue) : calcs[queue[i]].by = "queue" /\ calcs[queue[i]].answer # "ended"
      /\ \A d \in Calc : calcs[d].by = "queue" /\ calcs[d].answer = "waiting"
                            => queue # <<>> /\ Head(queue) = d
  BY DEF FiguresInv, InTurn
<1>2. CASE calcs[c].by # "queue"
  <2>1. queue' = queue
    BY <1>2 DEF Off
  <2>2. \A i \in 1..Len(queue) : queue[i] # c
    BY <1>1, <1>2
  <2> QED  BY <1>1, <2>1, <2>2 DEF InTurn
<1>3. CASE calcs[c].by = "queue"
  <2>1. queue' = Tail(queue) /\ queue # <<>> /\ Head(queue) = c
    BY <1>1, <1>3 DEF Off
  <2>2. /\ Tail(queue) \in Seq(Calc) /\ Len(Tail(queue)) = Len(queue) - 1
        /\ queue[1] = c /\ 1 \in 1..Len(queue)
        /\ \A i \in 1..Len(Tail(queue)) : Tail(queue)[i] = queue[i + 1]
    BY <1>1, <2>1
  <2>3. \A i \in 1..Len(Tail(queue)) : i + 1 \in 1..Len(queue) /\ i + 1 # 1
    BY <1>1, <2>2
  <2>4. \A i \in 1..Len(Tail(queue)) : queue[i + 1] # c /\ queue[i + 1] \in Calc
    BY <1>1, <2>2, <2>3
  <2>5. \A i \in 1..Len(Tail(queue)) : \A j \in 1..Len(Tail(queue)) :
            Tail(queue)[i] = Tail(queue)[j] => i = j
    <3> SUFFICES ASSUME NEW i \in 1..Len(Tail(queue)), NEW j \in 1..Len(Tail(queue)),
                        queue[i + 1] = queue[j + 1]
                 PROVE  i = j
      BY <2>2
    <3>1. i + 1 = j + 1
      BY <1>1, <2>3
    <3> QED  BY <3>1
  <2>6. \A d \in Calc : ~(calcs'[d].by = "queue" /\ calcs'[d].answer = "waiting")
    BY <1>1, <2>1
  <2>7. \A i \in 1..Len(Tail(queue)) :
           /\ calcs'[Tail(queue)[i]].by = "queue" /\ calcs'[Tail(queue)[i]].answer # "ended"
    BY <1>1, <2>2, <2>3, <2>4
  <2> QED  BY <2>1, <2>2, <2>5, <2>6, <2>7 DEF InTurn
<1> QED  BY <1>2, <1>3

\* What ends leaves the screen, the batch and the queue in order.
LEMMA EndKeeps ==
    ASSUME FiguresInv, NEW c \in Calc, calcs[c].answer = "waiting", NEW answer, End(c, answer),
           marks' \in Nat, marks <= marks', marker' \in {0, marks'}
    PROVE  /\ FiguresTyped' /\ InTurn' /\ InOrder'
           /\ Calc' = Calc
           /\ \A d \in Calc : calcs'[d] = calcs[d] \/ d = c
           /\ \/ calcs'[c].server = "done"
              \/ /\ calcs'[c].server = calcs[c].server /\ calcs'[c].token = calcs[c].token
                 /\ calcs'[c].seen = calcs[c].seen
<1> DEFINE w == [calcs[c] EXCEPT !.answer = "ended"]
           k == IF w.server \in {"written", "rejected"} THEN Over ELSE w
<1>1. /\ UNCHANGED <<rows, dashboard, told, overlapped>> /\ queue' = Off(c, answer)
      /\ screen' = screen \/ screen' = [screen EXCEPT !.waits = 0]
      /\ \/ batch' = [batch EXCEPT !.stage = "none"]
         \/ batch' = [batch EXCEPT !.here = @ /\ ~Reloads(c, answer)]
  BY DEF End
<1>2. /\ calcs[c] \in Calculating /\ calcs[c].token <= marks /\ calcs[c].seen <= rows
      /\ calcs[c].token \in Nat /\ rows \in Nat /\ marks \in Nat
  BY CalcShape DEF FiguresInv
<1>3. /\ w \in Calculating /\ w.by = calcs[c].by /\ w.token = calcs[c].token
      /\ w.seen = calcs[c].seen /\ w.answer = "ended" /\ w.server = calcs[c].server
  BY <1>2 DEF Calculating
<1>4. calcs' = [calcs EXCEPT ![c] = k]
  BY <1>3 DEF End, Put
<1>5. /\ Over \in Calculating /\ Over.token = 0 /\ Over.seen = 0 /\ Over.answer = "ended"
      /\ Over.server = "done"
  BY DEF Over, Calculating, Asker
<1> HIDE DEF w
<1>6. /\ k \in Calculating /\ k.token <= marks /\ k.seen <= rows /\ k.answer = "ended"
      /\ \/ k.server = "done"
         \/ k.server = calcs[c].server /\ k.token = calcs[c].token /\ k.seen = calcs[c].seen
  <2>1. Over.token <= marks /\ Over.seen <= rows
    BY <1>2, <1>5
  <2>2. CASE w.server \in {"written", "rejected"}
    <3>1. k = Over
      BY <2>2
    <3> HIDE DEF k
    <3> QED  BY <1>5, <2>1, <3>1
  <2>3. CASE w.server \notin {"written", "rejected"}
    <3>1. k = w
      BY <2>3
    <3> HIDE DEF k
    <3> QED  BY <1>2, <1>3, <3>1
  <2> QED  BY <2>2, <2>3
<1> HIDE DEF k
<1>7. /\ calcs' \in Seq(Calculating) /\ Len(calcs') = Len(calcs)
      /\ Calc' = Calc /\ \A d \in Calc : calcs'[d] = IF d = c THEN k ELSE calcs[d]
  BY <1>4, <1>6, OneChanges DEF FiguresInv
<1>8. InTurn'
  BY <1>1, <1>6, <1>7, QueueEnds
<1>9. \A d \in Calc' : calcs'[d].token <= marks' /\ calcs'[d].seen <= rows
  <2> SUFFICES ASSUME NEW d \in Calc PROVE calcs'[d].token <= marks' /\ calcs'[d].seen <= rows
    BY <1>7
  <2>1. /\ calcs[d].token \in Nat /\ calcs[d].token <= marks /\ calcs[d].seen <= rows
    BY CalcShape DEF FiguresInv
  <2>2. k.token \in Nat
    BY <1>6 DEF Calculating
  <2> QED  BY <1>2, <1>6, <1>7, <2>1, <2>2
<1>10. /\ screen' \in [view : {"review", "page"}, waits : 0..Len(calcs)]
       /\ batch' \in [stage : {"none", "sent", "posted", "calculates"}, here : BOOLEAN,
                      calc : 0..Len(calcs)]
       /\ batch'.stage = "sent" => batch.stage = "sent"
  <2>1. /\ screen \in [view : {"review", "page"}, waits : 0..Len(calcs)]
        /\ batch \in [stage : {"none", "sent", "posted", "calculates"}, here : BOOLEAN,
                      calc : 0..Len(calcs)]
        /\ Len(calcs) \in Nat
    BY DEF FiguresInv, FiguresTyped
  <2>2. 0 \in 0..Len(calcs)
    BY <2>1
  <2>3. screen' \in [view : {"review", "page"}, waits : 0..Len(calcs)]
    BY <1>1, <2>1, <2>2
  <2>4. CASE batch' = [batch EXCEPT !.stage = "none"]
    BY <2>1, <2>3, <2>4
  <2>5. CASE batch' = [batch EXCEPT !.here = @ /\ ~Reloads(c, answer)]
    <3>1. (batch.here /\ ~Reloads(c, answer)) \in BOOLEAN
      OBVIOUS
    <3> QED  BY <2>1, <2>3, <2>5, <3>1
  <2> QED  BY <1>1, <2>4, <2>5
<1>11. FiguresTyped'
  <2>1. batch'.stage = "sent" => rows < MaxBatches
    BY <1>10 DEF FiguresInv, FiguresTyped
  <2>2. Len(calcs) <= MaxCalcs
    BY DEF FiguresInv, FiguresTyped
  <2>3. /\ rows \in 0..MaxBatches /\ told \in 0..rows /\ overlapped \in BOOLEAN
        /\ dashboard \in [whole : BOOLEAN, counts : 0..rows]
    BY DEF FiguresInv, FiguresTyped
  <2> QED  BY <1>1, <1>7, <1>9, <1>10, <2>1, <2>2, <2>3 DEF FiguresTyped
<1>12. AtWork' \subseteq AtWork
  BY <1>6, <1>7 DEF AtWork
<1>13. InOrder'
  <2> SUFFICES ASSUME ~overlapped PROVE InOrder'
    BY <1>1 DEF InOrder
  <2>1. \A d \in Calc : calcs'[d].server = "written" => calcs'[d].seen <= dashboard.counts
    BY <1>6, <1>7 DEF FiguresInv, InOrder
  <2>2. \A d \in AtWork' : dashboard.counts <= calcs'[d].seen
    BY <1>6, <1>7, <1>12 DEF FiguresInv, InOrder, AtWork
  <2>3. \A d, e \in AtWork' : d = e
    BY <1>12 DEF FiguresInv, InOrder
  <2> QED  BY <1>1, <1>7, <2>1, <2>2, <2>3 DEF InOrder
<1> QED  BY <1>6, <1>7, <1>8, <1>11, <1>13

\* An answer that arrives clears the marker it was asked under, and no newer one.
LEMMA SucceedKeeps == ASSUME FiguresInv, NEW c \in Calc, Succeed(c) PROVE FiguresInv'
<1>1. /\ calcs[c].answer = "waiting" /\ calcs[c].server = "written" /\ marks' = marks
      /\ marker' = IF marker = calcs[c].token THEN 0 ELSE marker
      /\ End(c, "ok") /\ UNCHANGED <<dashboard, told, overlapped>>
  BY DEF Succeed, Cleared, End
<1>2. /\ marks \in Nat /\ marker \in {0, marks}
      /\ told \in Nat /\ dashboard.counts \in Nat /\ calcs[c].seen \in Nat
  BY CalcShape DEF FiguresInv, FiguresTyped
<1>3. marks' \in Nat /\ marks <= marks' /\ marker' \in {0, marks'}
  BY <1>1, <1>2
<1>4. /\ FiguresTyped' /\ InTurn' /\ InOrder' /\ Calc' = Calc
      /\ \A d \in Calc : calcs'[d] = calcs[d] \/ d = c
      /\ \/ calcs'[c].server = "done"
         \/ /\ calcs'[c].server = calcs[c].server /\ calcs'[c].token = calcs[c].token
            /\ calcs'[c].seen = calcs[c].seen
  BY <1>1, <1>3, EndKeeps
<1>5. SawMarked'
  BY <1>1, <1>4 DEF FiguresInv, SawMarked
<1>6. Counted'
  <2> SUFFICES ASSUME marker' = 0, ~overlapped PROVE told <= dashboard.counts
    BY <1>1 DEF Counted
  <2>1. CASE marker = 0
    BY <2>1 DEF FiguresInv, Counted
  <2>2. CASE marker # 0
    <3>1. marker = calcs[c].token
      BY <1>1, <2>2
    <3>2. told <= calcs[c].seen
      BY <1>1, <2>2, <3>1 DEF FiguresInv, SawMarked
    <3>3. calcs[c].seen <= dashboard.counts
      BY <1>1 DEF FiguresInv, InOrder
    <3> QED  BY <1>2, <3>2, <3>3
  <2> QED  BY <2>1, <2>2
<1> QED  BY <1>4, <1>5, <1>6 DEF FiguresInv

\* A failure leaves the quarter as stale as it was, or staler.
LEMMA FailureKeeps == ASSUME FiguresInv, NEW c \in Calc, Fail(c) PROVE FiguresInv'
<1>1. /\ calcs[c].answer = "waiting"
      /\ \/ marks' = marks + 1 /\ marker' = marks + 1
         \/ marks' = marks /\ marker' = marker
      /\ End(c, "failed") /\ UNCHANGED <<dashboard, told, overlapped>>
  BY DEF Fail, MarkStale, End
<1>2. marks \in Nat /\ marker \in {0, marks}
  BY DEF FiguresInv, FiguresTyped
<1>3. marks' \in Nat /\ marks <= marks' /\ marker' \in {0, marks'}
  BY <1>1, <1>2
<1>4. /\ FiguresTyped' /\ InTurn' /\ InOrder' /\ Calc' = Calc
      /\ \A d \in Calc : calcs'[d] = calcs[d] \/ d = c
      /\ \/ calcs'[c].server = "done"
         \/ /\ calcs'[c].server = calcs[c].server /\ calcs'[c].token = calcs[c].token
            /\ calcs'[c].seen = calcs[c].seen
  BY <1>1, <1>3, EndKeeps
<1>5. SawMarked'
  <2>1. CASE marker' = marks + 1
    <3>1. \A d \in Calc : calcs[d].token # marks + 1
      <4> SUFFICES ASSUME NEW d \in Calc PROVE calcs[d].token # marks + 1
        OBVIOUS
      <4>1. calcs[d].token \in Nat /\ calcs[d].token <= marks
        BY CalcShape DEF FiguresInv
      <4> QED  BY <1>2, <4>1
    <3> QED  BY <1>4, <2>1, <3>1 DEF SawMarked
  <2>2. CASE marker' = marker
    BY <1>1, <1>4, <2>2 DEF FiguresInv, SawMarked
  <2> QED  BY <1>1, <2>1, <2>2
<1>6. Counted'
  BY <1>1, <1>2 DEF FiguresInv, Counted
<1> QED  BY <1>4, <1>5, <1>6 DEF FiguresInv

LEMMA FiguresStep == FiguresInv /\ CalculationNext => FiguresInv'
BY EnqueueKeeps, StartKeeps, RetryKeeps, ScreensKeep, HearKeeps, ReadKeeps, TruncateKeeps,
   WriteKeeps, RejectKeeps, SucceedKeeps, FailureKeeps DEF CalculationNext, Work

LEMMA FiguresStutter == FiguresInv /\ UNCHANGED calculationVars => FiguresInv'
<1> SUFFICES ASSUME FiguresInv, UNCHANGED calculationVars PROVE FiguresInv'
  OBVIOUS
<1> USE DEF calculationVars, Calc
<1>1. FiguresTyped'
  BY DEF FiguresInv, FiguresTyped
<1>2. InTurn'
  BY DEF FiguresInv, InTurn
<1>3. SawMarked' /\ InOrder' /\ Counted'
  BY DEF FiguresInv, SawMarked, InOrder, Counted, AtWork
<1> QED  BY <1>1, <1>2, <1>3 DEF FiguresInv

\* The invariant has what the run checks.
LEMMA FiguresHold == FiguresInv => CalculationInv
<1> SUFFICES ASSUME FiguresInv PROVE CalculationInv
  OBVIOUS
<1>1. UnmarkedIsCounted
  <2>1. told \in Nat /\ dashboard.counts \in Nat
    BY CalculationAssumption DEF FiguresInv, FiguresTyped
  <2> QED  BY <2>1 DEF FiguresInv, Counted, UnmarkedIsCounted
<1>2. \A c \in Calc :
         calcs[c] \in [by : Asker, token : 0..marks, seen : 0..rows,
                       answer : {"queued", "waiting", "ended"},
                       server : {"none", "sent", "read", "torn", "written", "rejected", "done"}]
  <2> SUFFICES ASSUME NEW c \in Calc
               PROVE  calcs[c] \in [by : Asker, token : 0..marks, seen : 0..rows,
                                    answer : {"queued", "waiting", "ended"},
                                    server : {"none", "sent", "read", "torn", "written",
                                              "rejected", "done"}]
    OBVIOUS
  <2>1. /\ calcs[c] \in Calculating /\ calcs[c].token \in 0..marks /\ calcs[c].seen \in 0..rows
    BY CalcShape DEF FiguresInv
  <2> QED  BY <2>1 DEF Calculating
<1>3. \A i \in 1..Len(queue) : calcs[queue[i]].by = "queue" /\ calcs[queue[i]].answer # "ended"
  BY DEF FiguresInv, InTurn
<1>4. marker \in 0..marks
  BY DEF FiguresInv, FiguresTyped
<1> QED  BY <1>1, <1>2, <1>3, <1>4 DEF FiguresInv, FiguresTyped, CalculationInv, CalculationTypeOK

-----------------------------------------------------------------------------
(* What a browser waits for *)

\* A browser's steps are those of its sessions, or leave what they see alone.
LEMMA BrowserIsWizard == BrowserSpec => Spec
<1>1. BrowserInit => Init
  BY DEF BrowserInit
<1>2. [BrowserNext]_browserVars => [Next]_vars
  BY DEF BrowserNext, Expense, Figures, browserVars
<1> QED  BY <1>1, <1>2, PTL DEF BrowserSpec, Spec

\* confirm, useIdempotentRequest: whichever screen a browser shows, its expense
\* is posted as previewed, its depreciation once, and its answers are true.
THEOREM BrowserIsSound ==
    BrowserSpec => [](PostedAsPreviewed /\ AnswersTrue /\ RecognizedOnce)
<1>1. BrowserSpec => Spec
  BY BrowserIsWizard
<1> QED
  BY <1>1, PostedOnceAsPreviewed, AnswersStayTrue, DepreciatedOnce, PTL

\* controller.ts calculate, refresh_dashboard: however batches, retries, screens
\* and threads interleave, a quarter without a stale marker counts every batch
\* whose answer arrived, and only what has not ended is in the queue.
THEOREM FiguresAreCounted == BrowserSpec => []CalculationInv
<1>1. BrowserInit => FiguresInv
  BY FiguresStart DEF BrowserInit
<1>2. FiguresInv /\ [BrowserNext]_browserVars => FiguresInv'
  <2>1. CASE FiguresInv /\ Figures
    BY <2>1, FiguresStep DEF Figures
  <2>2. CASE FiguresInv /\ (UNCHANGED browserVars \/ Expense)
    <3>1. UNCHANGED calculationVars
      BY <2>2 DEF browserVars, Expense
    <3> QED  BY <2>2, <3>1, FiguresStutter
  <2> QED  BY <2>1, <2>2 DEF BrowserNext
<1>3. FiguresInv => CalculationInv
  BY FiguresHold
<1> QED
  BY <1>1, <1>2, <1>3, PTL DEF BrowserSpec
=============================================================================
