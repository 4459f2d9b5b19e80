----------------------------- MODULE RunExecution -----------------------------
(***************************************************************************)
(* One top-level run inside its session: RunRunner (agent/run/runner.ts)   *)
(* drives model turns and batches of tool calls, waits for approvals and   *)
(* answers, is stopped by the user or by a limit, and is finalized in one  *)
(* transaction; a process that starts again repairs what it finds table by *)
(* table.                                                                  *)
(*                                                                         *)
(* The rows of the database are told apart from what only the process      *)
(* knows.  Tool calls are numbered in the order the model declares them.   *)
(***************************************************************************)
EXTENDS Naturals, Sequences, FiniteSets, FiniteSetsExt

CONSTANTS
    MaxTurns,        \* maxTurns; bound: resumed executions count on
    MaxCalls,        \* bound: tool calls the model declares
    MaxCrashes,      \* bound
    MaxSaveFailures  \* bound: finalizations whose transaction fails twice

ASSUME RunAssumption ==
    /\ MaxTurns \in Nat \ {0} /\ MaxCalls \in Nat
    /\ MaxCrashes \in Nat /\ MaxSaveFailures \in Nat

VARIABLES
    \* rows
    run,        \* runs.status
    turns,      \* turn_executions.phase, by attempt
    drafts,     \* number of its messages that are pending or streaming
    row,        \* tool_calls.status of each call, "none" without a row
    questions,  \* the calls whose user_interactions row is pending
    \* process
    stage,      \* where RunRunner.execute stands
    reply,      \* how the model turn ended, while it is processed
    verdict,    \* the terminal decision
    stop,       \* why the signal of the run fired
    fresh,      \* the draft made with the run waits for its first turn
    slot,       \* where each call of this turn stands
    kind,       \* read, write (of one file) or ask
    early,      \* reads started from the stream of this turn
    stale,      \* reads started from a stream that was given up
    boot,       \* the next step of Store.recoverRuntimeState
    unsaved,    \* this process could not save the end of the run
    crashes,
    saveFailures

tables == <<run, turns, drafts, row, questions>>
runner == <<stage, reply, verdict, stop, fresh>>
calls == <<slot, kind, early, stale>>
startup == <<boot, unsaved>>
process == <<runner, calls, startup>>
bounds == <<crashes, saveFailures>>
vars == <<tables, process, bounds>>

Calls == 1..MaxCalls
Kinds == {"read", "write", "ask"}

Live == {"running", "awaiting_approval", "awaiting_user_input"}
Terminal == {"completed", "failed", "cancelled", "interrupted"}
OpenPhases == {"awaiting_model_response", "streaming", "scheduling_tools",
               "executing_tools", "awaiting_permission", "awaiting_user_input"}
OpenRows == {"pending", "running", "awaiting_approval", "awaiting_user_input"}
Busy == {"entered", "approval", "approved", "denied", "rejected", "asking",
         "running"}

With(state) == {c \in Calls : slot[c] = state}
Engaged == {c \in Calls : slot[c] \in Busy}

\* setIntermediateStatus: never over a terminal status.
Intermediate(status) == IF run \in Live THEN status ELSE run

\* transition of the latest turn.
Phase(to) == [turns EXCEPT ![Len(turns)] = to]

NoSlots == [c \in Calls |-> "none"]

Init ==
    /\ run = "running" /\ turns = <<>> /\ drafts = 1
    /\ row = [c \in Calls |-> "none"] /\ questions = {}
    /\ stage = "between" /\ reply = "none" /\ verdict = "none" /\ stop = "none"
    /\ fresh = TRUE
    /\ slot = NoSlots /\ kind = [c \in Calls |-> "read"]
    /\ early = {} /\ stale = {}
    /\ boot = "up" /\ unsaved = FALSE
    /\ crashes = 0 /\ saveFailures = 0

--------------------------------------------------------------------------------
(* Model turns. *)

\* The reads of the stream are aborted; what follows waits for them.
GiveUpEarly == early' = {} /\ stale' = stale \cup early

\* The catch block of execute: abandon() first, the decision after it.
Unwind ==
    /\ stage' = "unwind"
    /\ GiveUpEarly

\* callModel: a turn is opened, then its draft; a request that is over budget
\* throws between the two.  The first turn of an execution has its draft.
StartTurn ==
    /\ stage = "between" /\ stop = "none" /\ Len(turns) < MaxTurns
    /\ turns' = Append(turns, "awaiting_model_response")
    /\ slot' = NoSlots
    /\ \/ /\ stage' = "model"
          /\ drafts' = IF fresh THEN drafts ELSE drafts + 1
          /\ fresh' = FALSE
          /\ UNCHANGED <<early, stale>>
       \/ Unwind /\ UNCHANGED <<drafts, fresh>>
    /\ UNCHANGED <<run, row, questions, reply, verdict, stop, kind, startup,
                   bounds>>

\* The loop stops before a turn: the turns are used up.
OutOfTurns ==
    /\ stage = "between" /\ stop = "none" /\ Len(turns) = MaxTurns
    /\ stage' = "ending" /\ verdict' = "failed"
    /\ UNCHANGED <<tables, reply, stop, fresh, calls, startup, bounds>>

\* The loop, or what builds its messages, finds the signal fired or throws.
Interrupted ==
    /\ stage = "between"
    /\ Unwind
    /\ UNCHANGED <<tables, reply, verdict, stop, fresh, slot, kind, startup,
                   bounds>>

\* The first chunk of the answer (markStreaming).
Stream ==
    /\ stage = "model" /\ turns[Len(turns)] = "awaiting_model_response"
    /\ turns' = Phase("streaming")
    /\ UNCHANGED <<run, drafts, row, questions, process, bounds>>

NextCall == Cardinality({c \in Calls : row[c] # "none" \/ slot[c] # "none"}) + 1

\* StreamingReadCoordinator.accept: a closed read, all before it accepted too,
\* is executed while the model is still talking, or blocked by the loop guard,
\* which may end the run.
EarlyRead ==
    /\ stage = "model" /\ stop = "none" /\ turns[Len(turns)] = "streaming"
    /\ LET c == NextCall IN
       /\ c \in Calls
       /\ kind' = [kind EXCEPT ![c] = "read"]
       /\ early' = early \cup {c}
       /\ \/ /\ row' = [row EXCEPT ![c] = "running"]
             /\ slot' = [slot EXCEPT ![c] = "running"]
          \/ /\ row' = [row EXCEPT ![c] = "failed"]
             /\ slot' \in {[slot EXCEPT ![c] = "done"], [slot EXCEPT ![c] = "threw"]}
    /\ UNCHANGED <<run, turns, drafts, questions, runner, stale, startup,
                   bounds>>

\* onRetry: the provider starts the request again.
Retry ==
    /\ stage = "model" /\ early # {}
    /\ GiveUpEarly
    /\ UNCHANGED <<tables, runner, slot, kind, startup, bounds>>

\* The request fails, by the provider, its time-outs or the signal.
ModelFails ==
    /\ stage = "model"
    /\ Unwind
    /\ UNCHANGED <<tables, reply, verdict, stop, fresh, slot, kind, startup,
                   bounds>>

\* The answer is complete: finish() waits for the early reads it keeps, or
\* gives them up when no tools are to be executed.
ModelReplies ==
    /\ stage = "model"
    /\ stage' = "draining"
    /\ \/ /\ reply' \in {"final", "continue", "halt"}
          /\ GiveUpEarly
          /\ UNCHANGED <<fresh, slot, kind>>
       \/ \E n \in 0..MaxCalls, ks \in [Calls -> Kinds] :
             LET new == {c \in Calls : NextCall <= c /\ c < NextCall + n} IN
             /\ n > 0 \/ early # {}
             /\ Cardinality(new) = n
             /\ \A c \in Calls \ new : ks[c] = kind[c]
             /\ reply' = "tools"
             /\ kind' = ks
             /\ slot' = [c \in Calls |-> IF c \in new THEN "declared" ELSE slot[c]]
             /\ UNCHANGED <<early, stale>>
    /\ UNCHANGED <<tables, verdict, stop, fresh, startup, bounds>>

\* Mutant: a read that was given up is recorded as cancelled, ended or not.
DropOpen(given) ==
    [c \in Calls |-> IF c \in given THEN "cancelled" ELSE row[c]]

\* drainAbandoned: what a given-up read left open is cancelled.
DropGivenUp(given) ==
    [c \in Calls |-> IF c \in given /\ row[c] \in OpenRows THEN "cancelled"
                     ELSE row[c]]

Settled(cs) == \A c \in cs : slot[c] \in {"done", "threw"}

CloseDraft == drafts - 1

\* What became of a read that was given up is nobody's result.
Forget(given) == [c \in Calls |-> IF c \in given THEN "none" ELSE slot[c]]

\* The early reads have settled.  One that failed makes the turn fail; so does
\* a final answer that differs from what was streamed or breaks the protocol.
\* Otherwise the draft becomes a message and the turn goes on or is over.
Drained ==
    /\ stage = "draining"
    /\ Settled(early \cup stale)
    /\ \/ Unwind /\ reply' = "none" /\ UNCHANGED <<tables, slot>>
       \/ /\ \A c \in early : slot[c] = "done"
          /\ drafts' = CloseDraft
          /\ stale' = {} /\ slot' = Forget(stale)
          /\ \/ /\ reply = "tools"
                /\ turns' = Phase("scheduling_tools")
                /\ row' = [c \in Calls |-> IF slot[c] = "declared" THEN "pending"
                                           ELSE DropGivenUp(stale)[c]]
                /\ stage' = "scheduled"
             \/ /\ reply # "tools"
                /\ \/ reply # "halt" /\ turns' = Phase("completed")
                   \/ reply # "final" /\ turns' = Phase("failed")
                /\ row' = DropGivenUp(stale)
                /\ stage' = "judged"
          /\ early' = {}
          /\ UNCHANGED <<run, questions, reply>>
    /\ UNCHANGED <<verdict, stop, fresh, kind, startup, bounds>>

\* The token budget of the run is checked, then the answer is acted on:
\* the run ends, or another turn continues a truncated answer.
Judge ==
    /\ stage = "judged"
    /\ \/ /\ stop' = IF stop = "none" THEN "limit" ELSE stop
          /\ Unwind
          /\ UNCHANGED verdict
       \/ /\ reply = "final"
          /\ stage' = "ending" /\ verdict' = "completed"
          /\ UNCHANGED <<stop, early, stale>>
       \/ /\ reply \in {"continue", "halt"}
          /\ stage' = "ending" /\ verdict' = "failed"
          /\ UNCHANGED <<stop, early, stale>>
       \/ /\ reply = "continue"
          /\ stage' = "between"
          /\ UNCHANGED <<verdict, stop, early, stale>>
    /\ reply' = "none"
    /\ UNCHANGED <<tables, fresh, slot, kind, startup, bounds>>

--------------------------------------------------------------------------------
(* Tool calls. *)

\* executeToolBatch: the budgets admit the whole batch, or fail the run.
StartBatch ==
    /\ stage = "scheduled"
    /\ reply' = "none"
    /\ \/ /\ turns' = Phase("executing_tools")
          /\ stage' = "batch"
          /\ UNCHANGED <<stop, early, stale>>
       \/ Unwind /\ UNCHANGED <<turns, stop>>
       \/ /\ Unwind
          /\ stop' = IF stop = "none" THEN "limit" ELSE stop
          /\ UNCHANGED turns
    /\ UNCHANGED <<run, drafts, row, questions, verdict, fresh, slot, kind,
                   startup, bounds>>

\* Mutant: calls of any kind share a batch.
ShareAny(cs) == cs # {}

\* planBatches: adjacent reads, or adjacent writes of different files.
Share(cs) ==
    \/ Cardinality(cs) = 1
    \/ /\ cs # {}
       /\ \E k \in {"read", "write"} : \A c \in cs : kind[c] = k

\* allSettled: nothing of this batch is under way.
BatchSettled == Engaged = {}

\* The next batch: the first calls that wait for one.
NextBatch ==
    /\ stage = "batch" /\ stop = "none"
    /\ BatchSettled /\ With("threw") = {}
    /\ \E cs \in SUBSET With("declared") :
          /\ Share(cs)
          /\ \A c \in cs, d \in With("declared") \ cs : c < d
          /\ slot' = [c \in Calls |-> IF c \in cs THEN "entered" ELSE slot[c]]
    /\ UNCHANGED <<tables, runner, kind, early, stale, startup, bounds>>

\* A call of the batch failed, or the signal fired before the next batch.
BatchFails ==
    /\ stage = "batch" /\ BatchSettled
    /\ With("threw") # {} \/ (stop # "none" /\ With("declared") # {})
    /\ Unwind
    /\ UNCHANGED <<tables, reply, verdict, stop, fresh, slot, kind, startup,
                   bounds>>

CompleteTurn == Phase("completed")

\* All calls of the turn have their results.  After the last turn the run is
\* over, whether or not its signal has fired.
BatchDone ==
    /\ stage = "batch" /\ BatchSettled
    /\ With("threw") = {} /\ With("declared") = {}
    /\ turns' = CompleteTurn
    /\ IF Len(turns) = MaxTurns
       THEN stage' = "ending" /\ verdict' = "failed"
       ELSE stage' = "between" /\ UNCHANGED verdict
    /\ UNCHANGED <<run, drafts, row, questions, reply, stop, fresh, calls,
                   startup, bounds>>

\* executeToolCall: blocked by the guard, invalid, or denied by the policy; put
\* to the user, where a card for the network alone finds the row running; or
\* executed.  The guard may end the run instead.
Begin(c) ==
    /\ slot[c] = "entered"
    /\ \/ /\ row' = [row EXCEPT ![c] = "failed"]
          /\ slot' \in {[slot EXCEPT ![c] = "done"], [slot EXCEPT ![c] = "threw"]}
          /\ UNCHANGED <<run, turns, questions>>
       \/ /\ stop = "none" /\ kind[c] # "ask"
          /\ row' \in {[row EXCEPT ![c] = "awaiting_approval"],
                       [row EXCEPT ![c] = "running"]}
          /\ run' = Intermediate("awaiting_approval")
          /\ turns' = Phase("awaiting_permission")
          /\ slot' = [slot EXCEPT ![c] = "approval"]
          /\ UNCHANGED questions
       \/ /\ stop = "none" /\ kind[c] # "ask"
          /\ row' = [row EXCEPT ![c] = "running"]
          /\ slot' = [slot EXCEPT ![c] = "running"]
          /\ UNCHANGED <<run, turns, questions>>
       \/ /\ stop = "none" /\ kind[c] = "ask"
          /\ questions' = questions \cup {c}
          /\ row' = [row EXCEPT ![c] = "awaiting_user_input"]
          /\ run' = Intermediate("awaiting_user_input")
          /\ turns' = Phase("awaiting_user_input")
          /\ slot' = [slot EXCEPT ![c] = "asking"]
       \/ /\ stop # "none"
          /\ row' \in {row, [row EXCEPT ![c] = "running"],
                       [row EXCEPT ![c] = "awaiting_approval"]}
          /\ slot' = [slot EXCEPT ![c] = "threw"]
          /\ UNCHANGED <<run, turns, questions>>
    /\ UNCHANGED <<drafts, runner, kind, early, stale, startup, bounds>>

\* approval.resolve: the promise of one pending card is settled.
Resolve(c) ==
    /\ slot[c] = "approval"
    /\ slot' \in {[slot EXCEPT ![c] = "approved"], [slot EXCEPT ![c] = "denied"]}
    /\ UNCHANGED <<tables, runner, kind, early, stale, startup, bounds>>

\* ApprovalGateway.hasPendingRun
HasPending == With("approval") # {}

\* requestToolApproval goes on: the run is running again unless another card is
\* pending.  A denied call fails, an approved one is executed, unless the
\* signal has fired or the user is shown a second card (network, then command).
Continue(c) ==
    /\ slot[c] \in {"approved", "denied", "rejected"}
    /\ \/ /\ slot[c] = "approved" /\ stop = "none"
          /\ run' = Intermediate("awaiting_approval")
          /\ turns' = Phase("awaiting_permission")
          /\ slot' = [slot EXCEPT ![c] = "approval"]
          /\ UNCHANGED row
       \/ /\ run' = IF HasPending THEN run ELSE Intermediate("running")
          /\ turns' = IF HasPending THEN turns ELSE Phase("executing_tools")
          /\ \/ /\ slot[c] = "denied"
                /\ row' = [row EXCEPT ![c] = "failed"]
                /\ slot' = [slot EXCEPT ![c] = "done"]
             \/ /\ slot[c] = "approved" /\ stop = "none"
                /\ row' = [row EXCEPT ![c] = "running"]
                /\ slot' = [slot EXCEPT ![c] = "running"]
             \/ /\ slot[c] = "approved" /\ stop # "none"
                /\ row' \in {row, [row EXCEPT ![c] = "running"]}
                /\ slot' = [slot EXCEPT ![c] = "threw"]
             \/ /\ slot[c] = "rejected"
                /\ slot' = [slot EXCEPT ![c] = "threw"]
                /\ UNCHANGED row
    /\ UNCHANGED <<drafts, questions, runner, kind, early, stale, startup,
                   bounds>>

\* interaction.respond while the call waits in this process.
Answer(c) ==
    /\ slot[c] = "asking"
    /\ questions' = questions \ {c}
    /\ run' = Intermediate("running")
    /\ row' = [row EXCEPT ![c] = "running"]
    /\ turns' = Phase("executing_tools")
    /\ slot' = [slot EXCEPT ![c] = "running"]
    /\ UNCHANGED <<drafts, runner, kind, early, stale, startup, bounds>>

\* The tool returns, or throws because its signal fired.
CallEnds(c) ==
    /\ slot[c] = "running"
    /\ \/ /\ row' \in {[row EXCEPT ![c] = "completed"], [row EXCEPT ![c] = "failed"]}
          /\ slot' = [slot EXCEPT ![c] = "done"]
       \/ /\ stop # "none" \/ c \in stale
          /\ slot' = [slot EXCEPT ![c] = "threw"]
          /\ UNCHANGED row
    /\ UNCHANGED <<run, turns, drafts, questions, runner, kind, early, stale,
                   startup, bounds>>

--------------------------------------------------------------------------------
(* The end of a run. *)

\* Mutant: only questions are withdrawn when the signal fires.
WithdrawQuestions(c) == IF slot[c] = "asking" THEN "threw" ELSE slot[c]

\* What waits for the user is given up at once.
Withdraw(c) ==
    IF slot[c] = "approval" THEN "rejected"
    ELSE IF slot[c] = "asking" THEN "threw" ELSE slot[c]

\* run.cancel, or the time limit of the run.
Abort ==
    /\ stage \notin {"idle", "ending"} /\ stop = "none"
    /\ stop' \in IF stage = "unwind" THEN {"cancel"} ELSE {"cancel", "limit"}
    /\ slot' = [c \in Calls |-> Withdraw(c)]
    /\ questions' = questions \ With("asking")
    /\ UNCHANGED <<run, turns, drafts, row, stage, reply, verdict, fresh, kind,
                   early, stale, startup, bounds>>

\* The given-up reads have settled; the signal tells what to call the end.
Unwound ==
    /\ stage = "unwind"
    /\ Settled(stale)
    /\ row' = DropGivenUp(stale)
    /\ stale' = {}
    /\ stage' = "ending"
    /\ verdict' = IF stop = "cancel" THEN "cancelled" ELSE "failed"
    /\ UNCHANGED <<run, turns, drafts, questions, reply, stop, fresh, slot,
                   kind, early, startup, bounds>>

\* Mutant: calls that wait for an approval are not listed.
UnfinishedRows == {c \in Calls : row[c] \in OpenRows \ {"awaiting_approval"}}

\* The rows a finalization closes.
NonTerminal == {c \in Calls : row[c] \in OpenRows}

\* The transaction of RunFinalizer.
Commit ==
    /\ drafts' = 0
    /\ row' = [c \in Calls |-> IF c \in NonTerminal THEN "cancelled" ELSE row[c]]
    /\ run' = verdict
    /\ turns' = IF turns # <<>> /\ turns[Len(turns)] \in OpenPhases
                THEN Phase(verdict) ELSE turns
    /\ UNCHANGED <<questions, unsaved, saveFailures>>

\* It fails, and fails again: the rows stay, the execution is over.
CommitFails ==
    /\ saveFailures < MaxSaveFailures
    /\ saveFailures' = saveFailures + 1
    /\ unsaved' = TRUE
    /\ UNCHANGED tables

Rest ==
    /\ stage' = "idle" /\ reply' = "none" /\ verdict' = "none" /\ stop' = "none"
    /\ slot' = NoSlots /\ early' = {} /\ stale' = {} /\ fresh' = FALSE

Finalize ==
    /\ stage = "ending"
    /\ Commit \/ CommitFails
    /\ Rest
    /\ UNCHANGED <<kind, boot, crashes>>

--------------------------------------------------------------------------------
(* Crashes and recovery. *)

Crash ==
    /\ crashes < MaxCrashes
    /\ crashes' = crashes + 1
    /\ Rest
    /\ boot' = "turns" /\ unsaved' = FALSE
    /\ UNCHANGED <<tables, kind, saveFailures>>

\* A turn may be resumed that waits for an answer which is still pending.
ResumableTurn(t) == turns[t] = "awaiting_user_input" /\ questions # {}

RecoverTurns ==
    /\ boot = "turns" /\ boot' = "runs"
    /\ turns' = [t \in DOMAIN turns |->
                    IF turns[t] \in OpenPhases /\ ~ResumableTurn(t)
                    THEN "interrupted" ELSE turns[t]]
    /\ UNCHANGED <<run, drafts, row, questions, runner, calls, unsaved, bounds>>

\* Mutant: a run that waits for an answer is taken at its word.
ResumableByStatus == run = "awaiting_user_input"

ResumableRun == run = "awaiting_user_input" /\ questions # {}

RecoverRuns ==
    /\ boot = "runs" /\ boot' = "interactions"
    /\ run' = IF run \in Live /\ ~ResumableRun THEN "interrupted" ELSE run
    /\ UNCHANGED <<turns, drafts, row, questions, runner, calls, unsaved, bounds>>

RecoverInteractions ==
    /\ boot = "interactions" /\ boot' = "messages"
    /\ questions' = IF run = "awaiting_user_input" THEN questions ELSE {}
    /\ UNCHANGED <<run, turns, drafts, row, runner, calls, unsaved, bounds>>

RecoverMessages ==
    /\ boot = "messages" /\ boot' = "calls"
    /\ drafts' = 0
    /\ UNCHANGED <<run, turns, row, questions, runner, calls, unsaved, bounds>>

RecoverCalls ==
    /\ boot = "calls" /\ boot' = "up"
    /\ row' = [c \in Calls |->
                  IF row[c] \in OpenRows
                     /\ ~(row[c] = "awaiting_user_input" /\ c \in questions)
                  THEN "cancelled" ELSE row[c]]
    /\ UNCHANGED <<run, turns, drafts, questions, runner, calls, unsaved, bounds>>

\* resumeInteraction: the answer to a question of an earlier process ends the
\* call and its turn, and the run is executed again with a new draft.
Resume(c) ==
    /\ boot = "up" /\ stage = "idle"
    /\ c \in questions /\ run = "awaiting_user_input"
    /\ questions' = questions \ {c}
    /\ row' = [row EXCEPT ![c] = "completed"]
    /\ run' = "running"
    /\ turns' = IF turns[Len(turns)] \in OpenPhases THEN Phase("completed") ELSE turns
    /\ drafts' = drafts + 1
    /\ fresh' = TRUE
    /\ stage' = "between"
    /\ UNCHANGED <<reply, verdict, stop, calls, startup, bounds>>

--------------------------------------------------------------------------------
Runner ==
    \/ StartTurn \/ OutOfTurns \/ Stream \/ ModelFails \/ ModelReplies \/ Drained
    \/ Judge \/ StartBatch \/ NextBatch \/ BatchFails \/ BatchDone \/ Unwound
    \/ Finalize \/ (stop # "none" /\ Interrupted)

CallStep(c) == Begin(c) \/ Continue(c) \/ CallEnds(c)

Recovery ==
    RecoverTurns \/ RecoverRuns \/ RecoverInteractions \/ RecoverMessages \/ RecoverCalls

User == \E c \in Calls : Resolve(c) \/ Answer(c) \/ Resume(c)

Next ==
    \/ Runner \/ Interrupted \/ EarlyRead \/ Retry \/ Abort \/ User
    \/ \E c \in Calls : CallStep(c)
    \/ Recovery \/ Crash

Spec == Init /\ [][Next]_vars

\* The event loop runs, a model request and a tool end (by their time-outs and
\* by the signal at the latest); nobody is obliged to answer.
Fairness == WF_vars(Runner) /\ WF_vars(Recovery) /\ \A c \in Calls : WF_vars(CallStep(c))

FairSpec == Spec /\ Fairness

--------------------------------------------------------------------------------
(* Properties. *)

\* Every variable keeps its shape; a run never has two open drafts.
RunTypeOK ==
    /\ run \in Live \cup Terminal
    /\ turns \in Seq(OpenPhases \cup Terminal) /\ Len(turns) <= MaxTurns
    /\ drafts \in 0..1
    /\ row \in [Calls -> {"none"} \cup OpenRows \cup {"completed", "failed", "cancelled"}]
    /\ questions \subseteq Calls
    /\ slot \in [Calls -> Busy \cup {"none", "declared", "done", "threw"}]
    /\ kind \in [Calls -> Kinds]
    /\ early \subseteq Calls /\ stale \subseteq Calls
    /\ stop \in {"none", "cancel", "limit"}

Closed ==
    /\ \A t \in DOMAIN turns : turns[t] \in Terminal
    /\ drafts = 0
    /\ \A c \in Calls : row[c] \notin OpenRows
    /\ questions = {}

\* A run whose terminal status is durable has no open turn, draft, tool call
\* or question left behind, whichever way it ended.
ClosedAtEnd == run \in Terminal /\ boot = "up" => Closed

\* After recovery, and whenever nothing executes, an unfinished run is one that
\* waits for an answer, and all five tables agree that it does - unless this
\* process failed to save its end.
RecoveryAgrees ==
    stage = "idle" /\ boot = "up" /\ run \in Live /\ ~unsaved =>
        /\ run = "awaiting_user_input"
        /\ turns[Len(turns)] = "awaiting_user_input"
        /\ Cardinality(questions) = 1
        /\ {c \in Calls : row[c] \in OpenRows} = questions
        /\ drafts = 0

\* The status shown to the user tells what the run waits for, however many
\* cards are pending and in whatever order they are answered.
StatusTellsWait ==
    stage = "batch" =>
        /\ With("approval") # {} =>
              run = "awaiting_approval" /\ turns[Len(turns)] = "awaiting_permission"
        /\ run = "awaiting_approval" =>
              \E c \in Calls : slot[c] \in {"approval", "approved", "denied", "rejected"}
        /\ With("asking") # {} => run = "awaiting_user_input"

\* Only the latest turn is ever open, which is the one that finalization and
\* the gateways look at, and the calls of the turns before it are all closed.
OnlyLatestTurnOpen ==
    /\ \A t \in DOMAIN turns : turns[t] \in OpenPhases => t = Len(turns)
    /\ stage = "between" => \A c \in Calls : row[c] \notin OpenRows

\* While a run executes, while it waits and after a recovery its tables tell one
\* story: the status names what it waits for, and only what is named is open.
TablesAgree == RunTypeOK /\ RecoveryAgrees /\ StatusTellsWait /\ OnlyLatestTurnOpen

\* No tool call is under way when the run is finalized: nothing writes to the
\* workspace or to its rows after the end of a run.
NoOrphanCalls == stage \in {"between", "ending", "idle"} => Engaged = {}

\* A call that writes or asks begins only when every call declared before it
\* has settled or shares its batch, and never beside a read or a question.
BarrierOrder ==
    /\ \A c, d \in Engaged : c # d => kind[c] = kind[d] /\ kind[c] # "ask"
    /\ \A c \in Engaged, d \in With("declared") : c < d

\* Calls keep to their place: behind the writes and questions declared before
\* them, and before the end of their run.
CallsInPlace == NoOrphanCalls /\ BarrierOrder

\* What has ended keeps its end, through retries, withdrawal, finalization, crashes
\* in the middle of a recovery and a later answer: every call, turn and the run.
FinalRowStays ==
    [][/\ \A c \in Calls : row[c] \in {"completed", "failed", "cancelled"}
                           => row'[c] = row[c]
       /\ \A t \in DOMAIN turns : turns[t] \in Terminal
                           => t \in DOMAIN turns' /\ turns'[t] = turns[t]
       /\ run \in Terminal => run' = run]_vars

\* A run that is stopped ends: neither a card, a question, a lock nor a batch
\* keeps it.
StoppedRunsEnd == stop # "none" ~> stage = "idle"

================================================================================
