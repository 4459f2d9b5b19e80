------------------------------ MODULE SessionRuns ------------------------------
(***************************************************************************)
(* The runs of a chat session (apps/runtime/src/agent): the send queue of  *)
(* ChatAgent and QueueService, the rows of a run in SQLite, the executions *)
(* RunLauncher keeps in memory, questions to the user, and restart.        *)
(*                                                                         *)
(* Commands interleave with running executions.  A handler is atomic up to *)
(* its first await; the only await inside a handler that matters here is   *)
(* the check of a plan's files in resumeInteraction, which PlanChecked     *)
(* completes.  What a run does between two questions is one phase here;    *)
(* its approvals, turns and tool calls are not part of this module.        *)
(***************************************************************************)
EXTENDS Naturals, Sequences, SequencesExt, FiniteSets

CONSTANTS
    Sessions,
    Runs,        \* identifiers of run rows
    Messages,    \* identifiers of user messages, sent or queued
    Executions,  \* identifiers of running RunRunner.execute calls, reused
    Kinds,       \* kinds of question an execution may ask
    None,
    MaxAnswers,  \* bound: answers to one plan under check at a time
    MaxOrphans,  \* bound: runs whose terminal state could not be saved
    MaxRestarts  \* bound: process crashes

ASSUME ConstantsAssumption ==
    /\ None \notin Sessions \cup Runs \cup Messages \cup Executions
    /\ Kinds \subseteq {"user_question", "plan_approval"}
    /\ MaxAnswers \in Nat /\ MaxOrphans \in Nat /\ MaxRestarts \in Nat

VARIABLES
    \* SQLite
    sessions,     \* sessions that have a row
    status,       \* runs.status, "none" before the row, "deleted" after it
    sessionOf,    \* runs.session_id
    origin,       \* the user message the run answers
    supersededBy, \* runs.superseded_by_run_id
    lastSent,     \* the session's last user message
    question,     \* status of the run's user_interactions row
    kind,         \* kind of that row
    \* memory
    queue,        \* QueueService.queues
    paused,       \* QueueService.paused, with the reason of the pause
    stream,       \* RunLauncher.streams: the execution its controller aborts
    work,         \* the run an execution works on
    phase,        \* what an execution is doing
    checking,     \* answers whose plan is being checked
    \* bounds
    orphans,      \* runs whose terminal state was lost since the last start
    restarts

rows == <<sessions, sessionOf, origin, supersededBy, lastSent>>
executing == <<stream, work, phase>>
asked == <<question, kind>>
queues == <<queue, paused>>
vars == <<rows, status, asked, queues, executing, checking, orphans, restarts>>

Active == {"running", "awaiting_user_input"}
Terminal == {"completed", "failed", "cancelled", "interrupted"}

\* Mutant: waiting for the user counts as idle.
ActiveInRunningOnly(st, s) == {r \in Runs : sessionOf[r] = s /\ st[r] = "running"}

\* RunStore.activeForSession: waiting for the user counts as active.
ActiveIn(st, s) == {r \in Runs : sessionOf[r] = s /\ st[r] \in Active}

Asking(r) == {e \in Executions : work[e] = r /\ phase[e] = "asking"}

Queued == UNION {Range(queue[s]) : s \in Sessions}

Fresh == {r \in Runs : status[r] = "none"}

\* Bound: a run identifier stays reserved for every queued message.
Room == Cardinality(Fresh) > Cardinality(Queued)

New(m) == m \notin Queued /\ \A r \in Runs : origin[r] # m

Init ==
    /\ sessions = Sessions
    /\ status = [r \in Runs |-> "none"]
    /\ sessionOf = [r \in Runs |-> None]
    /\ origin = [r \in Runs |-> None]
    /\ supersededBy = [r \in Runs |-> None]
    /\ lastSent = [s \in Sessions |-> None]
    /\ question = [r \in Runs |-> "none"]
    /\ kind = [r \in Runs |-> "user_question"]
    /\ queue = [s \in Sessions |-> <<>>]
    /\ paused = [s \in Sessions |-> "no"]
    /\ stream = [r \in Runs |-> None]
    /\ work = [e \in Executions |-> None]
    /\ phase = [e \in Executions |-> "idle"]
    /\ checking = [r \in Runs |-> 0]
    /\ orphans = {}
    /\ restarts = 0

--------------------------------------------------------------------------------
(* Launching and starting, given what the handler has changed already. *)

\* Execution e starts working on run r.
Launch(r, e, str, wk, ph) ==
    /\ wk[e] = None
    /\ stream' = [str EXCEPT ![r] = e]
    /\ work' = [wk EXCEPT ![e] = r]
    /\ phase' = [ph EXCEPT ![e] = "working"]

CreatedStatus == "running"

\* A run row for message m of session s, launched at once.
CreateRun(s, m, r, e, st, str, wk, ph) ==
    /\ st[r] = "none"
    /\ status' = [st EXCEPT ![r] = CreatedStatus]
    /\ sessionOf' = [sessionOf EXCEPT ![r] = s]
    /\ origin' = [origin EXCEPT ![r] = m]
    /\ Launch(r, e, str, wk, ph)

\* A new user message and its run.
StartSend(s, m, st, str, wk, ph) ==
    /\ \E r \in Runs, e \in Executions : CreateRun(s, m, r, e, st, str, wk, ph)
    /\ lastSent' = [lastSent EXCEPT ![s] = m]
    /\ UNCHANGED <<sessions, supersededBy>>

\* Mutant: any run of the session holds its queue.
HeldByHistory(s, q, p, st) ==
    q[s] = <<>> \/ p[s] # "no" \/ \E r \in Runs : sessionOf[r] = s

Held(s, q, p, st) == q[s] = <<>> \/ p[s] # "no" \/ ActiveIn(st, s) # {}

\* Mutant: the accepted item stays queued.
DequeueNothing(q, s) == q

Dequeue(q, s) == [q EXCEPT ![s] = Tail(@)]

\* Send the head of the queue if nothing holds it.  A refused admission
\* (provider, skill or attachment gone) keeps the item and pauses the queue.
PumpQueue(s, q, p, st, str, wk, ph) ==
    \/ /\ Held(s, q, p, st)
       /\ queue' = q /\ paused' = p /\ status' = st
       /\ stream' = str /\ work' = wk /\ phase' = ph
       /\ UNCHANGED rows
    \/ /\ ~Held(s, q, p, st)
       /\ StartSend(s, Head(q[s]), st, str, wk, ph)
       /\ queue' = Dequeue(q, s)
       /\ paused' = p
    \/ /\ ~Held(s, q, p, st)
       /\ queue' = q /\ paused' = [p EXCEPT ![s] = "refused"] /\ status' = st
       /\ stream' = str /\ work' = wk /\ phase' = ph
       /\ UNCHANGED rows

--------------------------------------------------------------------------------
(* Commands. *)

\* message.send: start at once in an idle session, else append to the queue.
Send(s, m) ==
    /\ s \in sessions /\ New(m) /\ Room
    /\ \/ /\ ActiveIn(status, s) = {}
          /\ StartSend(s, m, status, stream, work, phase)
          /\ UNCHANGED queue
       \/ /\ ActiveIn(status, s) # {}
          /\ queue' = [queue EXCEPT ![s] = Append(@, m)]
          /\ UNCHANGED <<rows, status, executing>>
    /\ UNCHANGED <<paused, asked, checking, orphans, restarts>>

\* queue.pause
PauseQueue(s) ==
    /\ paused[s] = "no"
    /\ paused' = [paused EXCEPT ![s] = "asked"]
    /\ UNCHANGED <<rows, status, asked, queue, executing, checking, orphans,
                   restarts>>

\* Mutant: the pause ends without a pump.
ResumeWithoutPump(s) ==
    /\ paused[s] # "no"
    /\ paused' = [paused EXCEPT ![s] = "no"]
    /\ UNCHANGED <<rows, status, asked, queue, executing, checking, orphans,
                   restarts>>

\* queue.resume
ResumeQueue(s) ==
    /\ paused[s] # "no"
    /\ PumpQueue(s, queue, [paused EXCEPT ![s] = "no"],
                 status, stream, work, phase)
    /\ UNCHANGED <<asked, checking, orphans, restarts>>

\* queue.remove
RemoveQueue(s) ==
    /\ \E i \in 1..Len(queue[s]) :
          queue' = [queue EXCEPT ![s] = RemoveAt(@, i)]
    /\ UNCHANGED <<rows, status, asked, paused, executing, checking, orphans,
                   restarts>>

\* queue.send_now: to the front, unpause, pump.
SendNow(s) ==
    /\ \E i \in 1..Len(queue[s]) :
          PumpQueue(s, [queue EXCEPT ![s] = <<@[i]>> \o RemoveAt(@, i)],
                    [paused EXCEPT ![s] = "no"], status, stream, work, phase)
    /\ UNCHANGED <<asked, checking, orphans, restarts>>

\* Mutant: the question outlives the abort.
WithdrawnLate(e) == question

Withdrawn(e) ==
    IF phase[e] = "asking" THEN [question EXCEPT ![work[e]] = "none"]
    ELSE question

\* The abort signal of execution e fires.  A pending question is withdrawn:
\* its row is deleted before the waiting tool call is rejected.
Abort(e) ==
    /\ phase' = [phase EXCEPT ![e] = "stopping"]
    /\ question' = Withdrawn(e)

\* run.cancel: accepted only while the run has a stream; pauses a queue that
\* is not empty.
Cancel(r) ==
    /\ stream[r] # None
    /\ Abort(stream[r])
    /\ paused' = [s \in Sessions |->
                     IF s = sessionOf[r] /\ queue[s] # <<>> /\ paused[s] = "no"
                     THEN "stopped" ELSE paused[s]]
    /\ UNCHANGED <<rows, status, kind, queue, stream, work, checking, orphans,
                   restarts>>

Replaceable(old) == status[old] \in Terminal /\ supersededBy[old] = None

\* run.retry: a new run supersedes a finished one that nothing superseded yet.
Retry(old) ==
    /\ Replaceable(old)
    /\ ActiveIn(status, sessionOf[old]) = {}
    /\ Room
    /\ \E r \in Runs, e \in Executions :
          /\ CreateRun(sessionOf[old], origin[old], r, e,
                       status, stream, work, phase)
          /\ supersededBy' = [supersededBy EXCEPT ![old] = r]
    /\ UNCHANGED <<sessions, lastSent, asked, queues, checking, orphans, restarts>>

\* message.edit_resend: message m replaces the session's last user message;
\* the visible run of the replaced message is superseded.
EditResend(s, m) ==
    /\ s \in sessions /\ New(m) /\ Room
    /\ lastSent[s] # None
    /\ ActiveIn(status, s) = {}
    /\ \E r \in Runs, e \in Executions :
          /\ CreateRun(s, m, r, e, status, stream, work, phase)
          /\ supersededBy' =
                [q \in Runs |->
                    IF origin[q] = lastSent[s] /\ supersededBy[q] = None
                    THEN r ELSE supersededBy[q]]
    /\ lastSent' = [lastSent EXCEPT ![s] = m]
    /\ UNCHANGED <<sessions, asked, queues, checking, orphans, restarts>>

\* session.delete: refused while a run is active; drops rows and queue.
DeleteSession(s) ==
    /\ s \in sessions
    /\ ActiveIn(status, s) = {}
    /\ sessions' = sessions \ {s}
    /\ status' = [r \in Runs |-> IF sessionOf[r] = s THEN "deleted"
                                 ELSE status[r]]
    /\ question' = [r \in Runs |-> IF sessionOf[r] = s THEN "none"
                                   ELSE question[r]]
    /\ queue' = [queue EXCEPT ![s] = <<>>]
    /\ paused' = [paused EXCEPT ![s] = "no"]
    /\ UNCHANGED <<sessionOf, origin, supersededBy, lastSent, kind, executing,
                   checking, orphans, restarts>>

--------------------------------------------------------------------------------
(* Questions to the user. *)

\* RunStore.setIntermediateStatus: only between non-terminal statuses.
Intermediate(r, st) ==
    IF status[r] \in Active THEN [status EXCEPT ![r] = st] ELSE status

\* ask_user or a plan approval: the row is committed, then the call waits.
\* One execution asks one question at a time, the call is never batched.
Ask(e, k) ==
    LET r == work[e] IN
    /\ phase[e] = "working"
    /\ sessionOf[r] \in sessions
    /\ question[r] # "pending"
    /\ question' = [question EXCEPT ![r] = "pending"]
    /\ kind' = [kind EXCEPT ![r] = k]
    /\ status' = Intermediate(r, "awaiting_user_input")
    /\ phase' = [phase EXCEPT ![e] = "asking"]
    /\ UNCHANGED <<rows, queues, stream, work, checking, orphans, restarts>>

Answerable(r) == question[r] = "pending" /\ status[r] = "awaiting_user_input"

\* interaction.respond while the asking execution waits in this process.
AnswerLive(e) ==
    /\ phase[e] = "asking"
    /\ Answerable(work[e])
    /\ question' = [question EXCEPT ![work[e]] = "resolved"]
    /\ status' = Intermediate(work[e], "running")
    /\ phase' = [phase EXCEPT ![e] = "working"]
    /\ UNCHANGED <<rows, kind, queues, stream, work, checking, orphans, restarts>>

\* Mutant: the waiting execution is not looked up.
RecoveredAlways(r) == Answerable(r)

\* The question was asked by a process that is gone.
Recovered(r) == Answerable(r) /\ Asking(r) = {}

\* The transaction and the launch that resume a run after its answer.
Resume(r, e) ==
    /\ question' = [question EXCEPT ![r] = IF @ = "pending" THEN "resolved" ELSE @]
    /\ status' = Intermediate(r, "running")
    /\ Launch(r, e, stream, work, phase)

\* interaction.respond after a restart, no await before the transaction.
AnswerRecovered(r) ==
    /\ Recovered(r) /\ kind[r] = "user_question"
    /\ \E e \in Executions : Resume(r, e)
    /\ UNCHANGED <<rows, kind, queues, checking, orphans, restarts>>

\* The same for a plan: its files are checked first, nothing is written yet.
AnswerPlan(r) ==
    /\ Recovered(r) /\ kind[r] = "plan_approval"
    /\ checking[r] < MaxAnswers
    /\ checking' = [checking EXCEPT ![r] = @ + 1]
    /\ UNCHANGED <<rows, status, asked, queues, executing, orphans, restarts>>

\* The check is done.  Nothing is read again before the run is resumed; the
\* assistant message of a deleted session cannot be inserted.
PlanChecked(r) ==
    /\ checking[r] > 0
    /\ checking' = [checking EXCEPT ![r] = @ - 1]
    /\ \/ /\ sessionOf[r] \in sessions
          /\ \E e \in Executions : Resume(r, e)
       \/ /\ sessionOf[r] \notin sessions
          /\ UNCHANGED <<question, status, executing>>
    /\ UNCHANGED <<rows, kind, queues, orphans, restarts>>

--------------------------------------------------------------------------------
(* The end of an execution, and of the process. *)

\* RunFinalizer, then the finally block of launch: drop the stream of the run,
\* whichever execution it belongs to, and pump.  saved is FALSE when both
\* attempts at the terminal transaction fail.  A stop that comes after the final
\* answer, while the reads it gave up settle, no longer changes the outcome; a
\* run stopped while it asks is thrown out of its tool call.
Finish(e, outcome, saved) ==
    LET r == work[e]
        st == IF saved /\ status[r] # "deleted"
              THEN [status EXCEPT ![r] = outcome] ELSE status
    IN  /\ \/ phase[e] = "working" /\ outcome \in {"completed", "failed"}
           \/ phase[e] = "stopping" /\ outcome \in {"cancelled", "failed"}
           \/ /\ phase[e] = "stopping" /\ outcome = "completed"
              /\ status[r] # "awaiting_user_input"
        /\ orphans' = IF saved THEN orphans ELSE orphans \cup {r}
        /\ Cardinality(orphans') <= MaxOrphans
        /\ PumpQueue(sessionOf[r], queue, paused, st,
                     [stream EXCEPT ![r] = None], [work EXCEPT ![e] = None],
                     [phase EXCEPT ![e] = "idle"])
        /\ UNCHANGED <<asked, checking, restarts>>

\* The run's total time limit.
Timeout(e) ==
    /\ phase[e] \in {"working", "asking"}
    /\ Abort(e)
    /\ UNCHANGED <<rows, status, kind, queues, stream, work, checking, orphans,
                   restarts>>

\* Mutant: the OR of the statement binds too loosely.
RecoveredStatusPrecedence(r) ==
    IF status[r] = "running" \/ question[r] # "pending" THEN "interrupted"
    ELSE status[r]

\* RunStore.recoverInterrupted
RecoveredStatus(r) ==
    IF \/ status[r] = "running"
       \/ status[r] = "awaiting_user_input" /\ question[r] # "pending"
    THEN "interrupted" ELSE status[r]

\* The process dies and starts again: memory is lost, Store recovers the rows.
Restart ==
    /\ restarts < MaxRestarts
    /\ restarts' = restarts + 1
    /\ status' = [r \in Runs |-> RecoveredStatus(r)]
    /\ question' = [r \in Runs |->
                       IF question[r] = "pending"
                          /\ status'[r] # "awaiting_user_input"
                       THEN "cancelled" ELSE question[r]]
    /\ queue' = [s \in Sessions |-> <<>>]
    /\ paused' = [s \in Sessions |-> "no"]
    /\ stream' = [r \in Runs |-> None]
    /\ work' = [e \in Executions |-> None]
    /\ phase' = [e \in Executions |-> "idle"]
    /\ checking' = [r \in Runs |-> 0]
    /\ orphans' = {}
    /\ UNCHANGED <<rows, kind>>

Next ==
    \/ \E s \in Sessions :
          \/ \E m \in Messages : Send(s, m) \/ EditResend(s, m)
          \/ PauseQueue(s) \/ ResumeQueue(s) \/ RemoveQueue(s) \/ SendNow(s)
          \/ DeleteSession(s)
    \/ \E r \in Runs :
          Cancel(r) \/ Retry(r) \/ AnswerRecovered(r) \/ AnswerPlan(r)
          \/ PlanChecked(r)
    \/ \E e \in Executions :
          \/ \E k \in Kinds : Ask(e, k)
          \/ AnswerLive(e) \/ Timeout(e)
          \/ \E outcome \in Terminal, saved \in BOOLEAN :
                Finish(e, outcome, saved)
    \/ Restart

Spec == Init /\ [][Next]_vars

\* A run has a total time limit, and what it waits for when stopped (provider
\* request, tool call) settles after an abort.  Users owe nothing.
Fairness ==
    \A e \in Executions :
       /\ WF_vars(Timeout(e))
       /\ WF_vars(\E outcome \in Terminal, saved \in BOOLEAN :
                     Finish(e, outcome, saved))

FairSpec == Spec /\ Fairness

--------------------------------------------------------------------------------
(* Properties. *)

Statuses == {"none", "deleted"} \cup Active \cup Terminal

\* Every variable keeps its shape; statuses stay within those the code writes.
TypeOK ==
    /\ sessions \subseteq Sessions
    /\ status \in [Runs -> Statuses]
    /\ sessionOf \in [Runs -> Sessions \cup {None}]
    /\ origin \in [Runs -> Messages \cup {None}]
    /\ supersededBy \in [Runs -> Runs \cup {None}]
    /\ lastSent \in [Sessions -> Messages \cup {None}]
    /\ question \in [Runs -> {"none", "pending", "resolved", "cancelled"}]
    /\ kind \in [Runs -> {"user_question", "plan_approval"}]
    /\ queue \in [Sessions -> Seq(Messages)]
    /\ paused \in [Sessions -> {"no", "stopped", "asked", "refused"}]
    /\ stream \in [Runs -> Executions \cup {None}]
    /\ work \in [Executions -> Runs \cup {None}]
    /\ phase \in [Executions -> {"idle", "working", "asking", "stopping"}]
    /\ checking \in [Runs -> 0..MaxAnswers]
    /\ orphans \subseteq Runs
    /\ restarts \in 0..MaxRestarts

\* A session never has two active runs, although sends, retries, resends, the
\* pump of a finished run and answers to recovered questions each check and
\* create on their own (requireIdleSession, pumpQueue).
OneActiveRun ==
    \A r, q \in Runs :
        status[r] \in Active /\ status[q] \in Active /\ sessionOf[r] = sessionOf[q]
        => r = q

\* A session never has two executions, even of one run: an answer to a
\* question must not launch a run that still executes here.
OneExecution ==
    \A e, f \in Executions :
        /\ work[e] # None /\ work[f] # None
        /\ sessionOf[work[e]] = sessionOf[work[f]]
        => e = f

\* No run blocks its session with nobody working on it: an active run is
\* executing, or waits for an answer that would resume it, or its terminal
\* state could not be saved since the last start.
NoZombie ==
    \A r \in Runs : status[r] \in Active =>
        \/ \E e \in Executions : work[e] = r
        \/ question[r] = "pending"
        \/ r \in orphans

\* Whatever starts, answers, loses or restarts a run: it has one worker while it
\* is active, never two and never silently none.
OneWorker == OneExecution /\ NoZombie

\* A queue that nothing pauses is only ever waiting for an active run: every
\* way a session becomes idle, and every way a pause ends, pumps the queue.
IdleQueueIsHeld ==
    \A s \in Sessions :
        queue[s] # <<>> /\ paused[s] = "no" => ActiveIn(status, s) # {}

\* Of all attempts at one message at most one is current (not superseded):
\* retries form a chain and never fork.
OneVisibleAttempt ==
    \A r, q \in Runs :
        /\ origin[r] = origin[q] /\ origin[r] # None
        /\ supersededBy[r] = None /\ supersededBy[q] = None
        => r = q

\* A message is sent at most once, across the queue, retries, resends and
\* crashes: a queued message has no run, and all runs of a message but one are
\* attempts that a later attempt replaced.
SentOnce ==
    /\ \A r \in Runs : origin[r] \notin Queued
    /\ OneVisibleAttempt

\* Every question shown to the user can be answered: its run still waits for
\* it, in this process or after a restart.
QuestionsAnswerable ==
    \A r \in Runs : question[r] = "pending" =>
        /\ status[r] = "awaiting_user_input"
        /\ \A e \in Executions : work[e] = r => phase[e] = "asking"

\* The terminal status of a run is never overwritten (until its session is
\* deleted).
TerminalIrreversible ==
    [][\A r \in Runs : status[r] \in Terminal =>
          status'[r] \in {status[r], "deleted"}]_vars

\* A queued message is eventually sent or removed, or its queue is paused, or
\* the session waits for an answer no execution is waiting for, or for a run
\* whose terminal state was lost.
QueueDrains ==
    \A m \in Messages :
        m \in Queued ~>
            \/ m \notin Queued
            \/ \E s \in Sessions :
                  /\ m \in Range(queue[s])
                  /\ \/ paused[s] # "no"
                     \/ \E r \in ActiveIn(status, s) :
                           \A e \in Executions : work[e] # r

Serial == INSTANCE SerialSession WITH
    current <- [s \in Sessions |->
                   IF ActiveIn(status, s) = {} THEN None
                   ELSE CHOOSE r \in ActiveIn(status, s) : TRUE],
    ended <- {r \in Runs : status[r] \in Terminal \cup {"deleted"}}

\* A session is a serial session: one run at a time, no run started twice, no
\* ended run working again.
ImplementsSerial == Serial!Spec

================================================================================
