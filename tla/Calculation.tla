---------------------------- MODULE Calculation -----------------------------
(***************************************************************************)
(* The figures a quarter shows and whether they count what was posted: the *)
(* review screen posts a batch, marks the quarter stale and asks for a     *)
(* calculation; the top bar and the pages queue theirs; the server reads   *)
(* the ledger and then rewrites dashboard.json, one thread per request.    *)
(* One browser tab, one quarter.                                           *)
(***************************************************************************)
EXTENDS Naturals, Sequences

CONSTANTS
    MaxBatches,     \* batches the tab posts
    MaxCalcs        \* calculations asked for

ASSUME CalculationAssumption == MaxBatches \in Nat /\ MaxCalcs \in Nat

VARIABLES
    rows,           \* batches the ledger holds
    dashboard,      \* dashboard.json: whole or not, and the batches it counts
    calcs,          \* the calculations asked for, oldest first
    queue,          \* those the shell runs one after another
    marker,         \* the quarter's stale marker, 0 for none
    marks,          \* markers made so far
    screen,         \* the screen shown, and the calculation it waits for
    batch,          \* the batch being posted, and whether its screen is still there
    told,           \* ghost: batches whose answer arrived
    overlapped      \* ghost: two calculations were at work on the file at once

calculationVars ==
    <<rows, dashboard, calcs, queue, marker, marks, screen, batch, told, overlapped>>

Calc == 1..Len(calcs)
Asker == {"queue", "screen", "batch"}

\* A calculation: who asked, the marker then, the server's stage, the answer.
Wanted(by, token, answer) ==
    [by |-> by, token |-> token, answer |-> answer, seen |-> 0,
     server |-> IF answer = "waiting" THEN "sent" ELSE "none"]

\* A calculation that ended on both sides; nothing looks at it again.
Over == [by |-> "queue", token |-> 0, answer |-> "ended", seen |-> 0, server |-> "done"]

Put(c, calc) ==
    calcs' = [calcs EXCEPT ![c] =
        IF calc.answer = "ended" /\ calc.server \in {"written", "rejected"} THEN Over ELSE calc]

Room == Len(calcs) < MaxCalcs
AtWork == {c \in Calc : calcs[c].server \in {"read", "torn"}}

\* markStale
MarkStale == /\ marks' = marks + 1
             /\ marker' = marks + 1

-----------------------------------------------------------------------------
(* Asking *)

\* calculate: behind the others; the top bar waits until none is running, a
\* page until its own has ended.
Enqueue ==
    /\ Room
    /\ \/ queue = <<>> /\ UNCHANGED screen
       \/ /\ screen.view = "page" /\ screen.waits = 0
          /\ screen' = [screen EXCEPT !.waits = Len(calcs) + 1]
    /\ calcs' = Append(calcs, Wanted("queue", 0, "queued"))
    /\ queue' = Append(queue, Len(calcs) + 1)
    /\ UNCHANGED <<rows, dashboard, marker, marks, batch, told, overlapped>>

\* The first in the queue: notes the marker and sends the request.
Start ==
    /\ queue # <<>> /\ calcs[Head(queue)].answer = "queued"
    /\ calcs' = [calcs EXCEPT ![Head(queue)] = Wanted("queue", marker, "waiting")]
    /\ UNCHANGED <<rows, dashboard, queue, marker, marks, screen, batch, told, overlapped>>

\* retryRefresh: the review screen asks past the queue.
RetryRefresh ==
    /\ Room /\ marker # 0
    /\ screen.view = "review" /\ screen.waits = 0
    /\ calcs' = Append(calcs, Wanted("screen", marker, "waiting"))
    /\ screen' = [screen EXCEPT !.waits = Len(calcs) + 1]
    /\ UNCHANGED <<rows, dashboard, queue, marker, marks, batch, told, overlapped>>

\* showRoute: another screen, or the same one anew, which waits for nothing yet.
Navigate(view) ==
    /\ screen' = [view |-> view, waits |-> 0]
    /\ batch' = [batch EXCEPT !.here = FALSE]
    /\ UNCHANGED <<rows, dashboard, calcs, queue, marker, marks, told, overlapped>>

-----------------------------------------------------------------------------
(* Posting *)

\* submit: one batch at a time, whichever screen it was sent from.
Submit ==
    /\ screen.view = "review" /\ batch.stage = "none" /\ rows < MaxBatches
    /\ batch' = [stage |-> "sent", here |-> TRUE, calc |-> 0]
    /\ UNCHANGED <<rows, dashboard, calcs, queue, marker, marks, screen, told, overlapped>>

PostBatch ==
    /\ batch.stage = "sent"
    /\ batch' = [batch EXCEPT !.stage = "posted"]
    /\ rows' = rows + 1
    /\ UNCHANGED <<dashboard, calcs, queue, marker, marks, screen, told, overlapped>>

\* The answer: the quarter is stale; a screen that is still there asks at once.
HearBatch ==
    /\ batch.stage = "posted"
    /\ MarkStale
    /\ told' = rows
    /\ IF batch.here
       THEN /\ Room
            /\ calcs' = Append(calcs, Wanted("batch", marks + 1, "waiting"))
            /\ batch' = [batch EXCEPT !.stage = "calculates", !.calc = Len(calcs) + 1]
       ELSE /\ batch' = [batch EXCEPT !.stage = "none"]
            /\ UNCHANGED calcs
    /\ UNCHANGED <<rows, dashboard, queue, screen, overlapped>>

\* No answer: nothing is marked, whether the batch was posted or not.
LoseBatch ==
    /\ batch.stage \in {"sent", "posted"}
    /\ batch' = [batch EXCEPT !.stage = "none"]
    /\ UNCHANGED <<rows, dashboard, calcs, queue, marker, marks, screen, told, overlapped>>

-----------------------------------------------------------------------------
(* The server: refresh_dashboard *)

Reach(c, stage) == Put(c, [calcs[c] EXCEPT !.server = stage])

Read(c) ==
    /\ calcs[c].server = "sent"
    /\ calcs' = [calcs EXCEPT ![c].server = "read", ![c].seen = rows]
    /\ overlapped' = (overlapped \/ AtWork # {})
    /\ UNCHANGED <<rows, dashboard, queue, marker, marks, screen, batch, told>>

\* write_text empties the file before it fills it.
Truncate(c) ==
    /\ calcs[c].server = "read"
    /\ Reach(c, "torn")
    /\ dashboard' = [dashboard EXCEPT !.whole = FALSE]
    /\ UNCHANGED <<rows, queue, marker, marks, screen, batch, told, overlapped>>

Write(c) ==
    /\ calcs[c].server = "torn"
    /\ Reach(c, "written")
    /\ dashboard' = [whole |-> TRUE, counts |-> calcs[c].seen]
    /\ UNCHANGED <<rows, queue, marker, marks, screen, batch, told, overlapped>>

Reject(c) ==
    /\ calcs[c].server = "sent"
    /\ Reach(c, "rejected")
    /\ UNCHANGED <<rows, dashboard, queue, marker, marks, screen, batch, told, overlapped>>

-----------------------------------------------------------------------------
(* Answers *)

\* Broken variant: whatever marker is there goes.
Cleared_Any(c) == TRUE

\* clearRefresh: the marker that was there at the start, not a newer one.
Cleared(c) == marker = calcs[c].token

\* Broken variant: a failed calculation is never taken off the queue.
Off_Success(c, answer) ==
    IF calcs[c].by = "queue" /\ answer = "ok" THEN Tail(queue) ELSE queue

\* The next one starts whatever became of this one.
Off(c, answer) == IF calcs[c].by = "queue" THEN Tail(queue) ELSE queue

\* retryRefresh loads the screen again, which then disowns a batch under way.
Reloads(c, answer) == answer = "ok" /\ calcs[c].by = "screen" /\ screen.waits = c

End(c, answer) ==
    /\ Put(c, [calcs[c] EXCEPT !.answer = "ended"])
    /\ queue' = Off(c, answer)
    /\ screen' = IF screen.waits = c THEN [screen EXCEPT !.waits = 0] ELSE screen
    /\ batch' = IF batch.stage = "calculates" /\ batch.calc = c
                THEN [batch EXCEPT !.stage = "none"]
                ELSE [batch EXCEPT !.here = @ /\ ~Reloads(c, answer)]
    /\ UNCHANGED <<rows, dashboard, told, overlapped>>

Succeed(c) ==
    /\ calcs[c].answer = "waiting" /\ calcs[c].server = "written"
    /\ marker' = IF Cleared(c) THEN 0 ELSE marker
    /\ End(c, "ok")
    /\ UNCHANGED marks

\* The server refused, or the connection broke, also after the file was written;
\* the review screen replaces its own marker by one that names the failure.
Fail(c) ==
    /\ calcs[c].answer = "waiting"
    /\ IF calcs[c].by # "queue" /\ marker = calcs[c].token
       THEN MarkStale
       ELSE UNCHANGED <<marker, marks>>
    /\ End(c, "failed")

-----------------------------------------------------------------------------

CalculationInit ==
    /\ rows = 0 /\ told = 0
    /\ dashboard = [whole |-> TRUE, counts |-> 0]
    /\ calcs = <<>> /\ queue = <<>>
    /\ marker = 0 /\ marks = 0
    /\ screen = [view |-> "review", waits |-> 0]
    /\ batch = [stage |-> "none", here |-> FALSE, calc |-> 0]
    /\ overlapped = FALSE

Work(c) == Read(c) \/ Truncate(c) \/ Write(c)
Answer(c) == Succeed(c) \/ (calcs[c].server = "rejected" /\ Fail(c))

CalculationNext ==
    \/ Enqueue \/ Start \/ RetryRefresh
    \/ \E view \in {"review", "page"} : Navigate(view)
    \/ Submit \/ PostBatch \/ HearBatch \/ LoseBatch
    \/ \E c \in Calc : Work(c) \/ Reject(c) \/ Succeed(c) \/ Fail(c)

\* The shell goes on with its queue, threads run to their end, and what the
\* server answered arrives unless the connection breaks.
CalculationFairness ==
    /\ WF_calculationVars(Start)
    /\ \A c \in 1..MaxCalcs :
          /\ WF_calculationVars(c \in Calc /\ Work(c))
          /\ WF_calculationVars(c \in Calc /\ Answer(c))

-----------------------------------------------------------------------------
(* Properties *)

\* The calculations, the file, the screen and the batch keep their shape; what
\* waits in the queue has not ended.
CalculationTypeOK ==
    /\ rows \in 0..MaxBatches /\ told \in 0..rows /\ marker \in 0..marks
    /\ dashboard \in [whole : BOOLEAN, counts : 0..rows]
    /\ Len(calcs) <= MaxCalcs
    /\ \A c \in Calc :
          calcs[c] \in [by : Asker, token : 0..marks, seen : 0..rows,
                        answer : {"queued", "waiting", "ended"},
                        server : {"none", "sent", "read", "torn", "written", "rejected", "done"}]
    /\ \A i \in 1..Len(queue) : calcs[queue[i]].by = "queue" /\ calcs[queue[i]].answer # "ended"
    /\ screen \in [view : {"review", "page"}, waits : 0..Len(calcs)]
    /\ batch \in [stage : {"none", "sent", "posted", "calculates"}, here : BOOLEAN,
                  calc : 0..Len(calcs)]
    /\ overlapped \in BOOLEAN

\* controller.ts calculate, ReviewOverviewView.vue submit: a quarter without a
\* stale marker shows every batch whose answer arrived, whichever calculations
\* were queued, retried or failed meanwhile and whichever screens were left,
\* unless two calculations were at work on its file at once.
UnmarkedIsCounted ==
    marker = 0 /\ ~overlapped /\ dashboard.whole => dashboard.counts >= told

\* controller.ts calculate: a calculation in the queue has its turn, whatever
\* becomes of those before it.
QueuedHasItsTurn ==
    \A c \in 1..MaxCalcs :
        (c \in Calc /\ calcs[c].answer = "queued") ~> (c \in Calc /\ calcs[c].answer = "ended")

\* The shell keeps its shape, and a quarter without a marker is up to date.
CalculationInv == CalculationTypeOK /\ UnmarkedIsCounted
=============================================================================
