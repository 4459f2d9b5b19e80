# Verification of Reflexion OS Studio

TLA+ models of the parts of Reflexion OS Studio that keep state and act concurrently, model-checked
with TLC on small instances and, where listed, proved for all of them with TLAPS. Paths are
relative to the repository; `runtime/` stands for `apps/runtime/src/`.

## 1. Inventory

The product is three processes. A Tauri host shows the frontend and supervises a **Node runtime**
(`apps/runtime`), which owns the SQLite database and all domain state; the runtime spawns a Rust
**system runtime** (`crates/system-runtime`) that executes file, git, shell and terminal requests
over JSON lines. Node is single-threaded: handlers are atomic between awaits. What interleaves is
promises, timers, child-process events, and commands of the user.

| Component | State | Operations | What is hard, and what must hold |
|---|---|---|---|
| Session runs (`runtime/agent/index.ts`, `launcher.ts`, `session/queue.ts`, `run/resubmission.ts`) | run rows, streams of executing runs, in-memory queue and pause mark per session | send, queue, pause, resume, send now, remove, cancel, retry, edit and resend, delete | several handlers start runs after their own idle test; the queue moves when a run ends. One active run per session; each message sent once; an idle session with a queue is paused |
| Interactions (`agent/interactions`) | pending promises, `user_interactions` rows | ask, answer, recovered answer, withdraw on stop | an answer may come after a restart, or while a previous answer awaits; a terminal run never changes again |
| Run execution (`agent/run`, `packages/agent-core`) | run, turn, message, tool call and question rows; drafts, early reads, batches | model turns, streaming, early reads, tool batches, cards, stop, finalization, recovery | parallel calls, retries of streams, a stop at any await, a crash at any write, recovery table by table. All tables agree at the end and after recovery; nothing executes after the end |
| Mutation locks (`agent/delegation/mutations.ts`) | set of pending entries with footprints | `run` with a signal | exclusion, no overtaking, cancelled waiters, no deadlock |
| System runtime client (`runtime/system.ts`) | child, generation, status, pending requests, three kinds of timers | spawn, handshake, request, time-out, abort, exit, restart, shutdown | stale events of earlier children, late replies, restart budget. Honest refusals; no request waits for a dead child |
| Operation receipts (`runtime/operations`) | durable receipts, bounded result cache, git queue | execute, running, end, recovery | crash or failing save around the effect. At most one execution; no success without proof |
| File dispatcher (`crates/system-runtime/src/filesystem/dispatch.rs`) | bounded channel, read threads, cancellation flags | submit, cancel, execute | threads and cancellation. Mutations alone and in order; one answer per job |
| Store recovery (`runtime/store/index.ts`) | all tables | `recoverRuntimeState` | order of repairs; part of the two run models |
| Delegation (`agent/delegation`, `store/agents/delegations.ts`) | delegation and child run rows, tree budget, launcher's depths, abort signals | spawn, settle, cancel, time limit, question of a child, recovery, resume | a child ends by itself, by its limit, by its parent's stop or by a crash. The budget counts what runs; rows, runs and waiting calls tell one story; children end before their parents |
| Permissions, danger leases, grants (`agent/permissions`, `run/tool-executor.ts`, `grant.rs`) | challenges, leases, session rules, role presets, the grant of a call | prepare, enable, disable, expire, ask, answer, execute | a call is admitted at one time and executed at another, behind cards and locks. Nothing crosses a boundary without a lease, rule or card of its own |
| Terminals (`runtime/terminal`, `system-runtime/src/terminal`, `features/terminal`) | output queue with its window, pacing queue, record, page; input numbers and pending batches | spawn, attach, frame, acknowledge, write, close, reload | three processes, two pipes, reloads. Output without gap or repetition in bounded space; input in order; no orphaned shells |
| Shell execution (`system-runtime/src/shell`) | table of process groups | run, kill | a command is cancelled before its process exists. Effects keep the order of the locks |
| MCP, workspace index, workflows, remote access, process lifecycle | see `PROJECT.json` | | not modelled (section 8) |
| Providers, context, plugins, skills, assets, browser, archive, network, contracts, frontend, scripts | data transformations, external engines, presentation | | left out, reasons in `PROJECT.json` |

Interactions between the parts: `ChatAgent` launches a run through `RunLauncher`; its end calls
`onRunSettled`, which pumps the queue. A run's tools pass the mutation locks and then become
requests of the system runtime client, which the Rust process dispatches. `spawn_agent` is such a
tool: it launches a child run with a loop of its own, in the same process. Workspace commands of
the user go through the operation receipts to the same client.

## 2. Modules

| Module | Models | Composition |
|---|---|---|
| `SessionRuns` | handlers of one or more sessions and the life of their runs | implements `SerialSession` |
| `SerialSession` | abstract: one run at a time, none started twice, what has ended stays ended | |
| `RunExecution` | one run inside its session, with finalization, crashes and recovery | refines what `SessionRuns` treats as "an execution works" |
| `MutationLocks` | `RootMutationCoordinator.run` | implements `ConflictLock` |
| `ConflictLock` | abstract: conflicting operations are never under way together | |
| `FileDispatch` | the Rust file dispatcher and its read threads | implements `ConflictLock` |
| `MutationEffects` | the request behind each lock, its cancellation, the dispatcher line and the threads of commands | EXTENDS `MutationLocks`: locks, pipe and system runtime in one state machine; still implements `ConflictLock` |
| `SystemLink` | the client, its timers and the processes it spawned | |
| `OperationReceipts` | receipts, cache, git queue | EXTENDS `SystemLink`: one joint state machine |
| `DelegationTree` | the tree of child runs below one run, budget, signals, settlement, recovery | composes the rows of every level with the launcher and the tool calls that wait |
| `DangerAccess` | leases, policy, cards, rules, lock wait and the grant's check in Rust | both processes in one state machine |
| `TerminalOutput` | output of one terminal through four stages, its acknowledgements, and the life of its shell | reader, sender and exit threads, main loop, Runtime and page |
| `TerminalInput` | the numbered input batches of one terminal | page, Runtime and system runtime |
| `MC*` | instances for TLC | |
| `SessionRunsProofs`, `RunExecutionProofs`, `DelegationTreeProofs`, `MutationEffectsProofs`, `SystemRuntimeProofs`, `DangerAccessProofs`, `OperationReceiptsProofs`, `TerminalInputProofs` | theorems | EXTEND their component; those of `MutationLocks` and `SystemLink` stand with the module that extends them, those of `FileDispatch` and `TerminalOutput` both in `SystemRuntimeProofs` |

How state and actions correspond to the code (every definition with its lines is in
`PROJECT.json`, `map`):

- **SessionRuns.** `status`, `supersededBy` and questions are rows; `stream`, `queue`, `paused` and
  the phases of executions live in the process and are lost by `Restart`, which also applies
  `recoverInterrupted`. Each command is one action, since the handlers do not await between their
  test and their write; the exception, a recovered plan approval, is two (`AnswerPlan`,
  `PlanChecked`), as `resumeInteraction` awaits in between. `Finish` is the finalization together
  with the launcher's `finally` and its pump; a finalization that fails twice leaves the row.
- **RunExecution.** `stage` is the program counter of `RunRunner.execute`; `slot[c]` is the
  counter of one `executeToolCall`. `Drained` is what `executeModelTurn` does after the early
  reads have settled; `StartBatch`, `NextBatch`, `BatchFails` and `BatchDone` are the scheduler; `Begin`,
  `Continue`, `Answer` and `CallEnds` the executor; `Unwind` and `Unwound` the catch block with its
  `abandon()`. Recovery is five actions that a crash may separate.
- **MutationLocks.** `Advance` is the synchronous part after a wait, `Abort` the signal, a
  cancelled waiter keeps its place until its predecessors have settled, as `ready.then` does.
- **MutationEffects.** Every action of `MutationLocks` is extended by what it sends: a call writes its
  request in the turn it starts in; `AbortCall` and `TimeOut` settle it locally and write a cancel line.
  `ReadLine` is the main loop of the system runtime, which hands a job to the dispatcher (`BeginFile`)
  or to a thread of its own (`BeginShell`). `missed` remembers cancels that found no process yet.
- **FileDispatch.** `readers` is the vector of join handles, whose order is that of `seat`. One action per step of the dispatcher thread, one per step of a read thread,
  and the two entry points of the IPC thread.
- **SystemLink.** `proc` holds every process ever spawned, so that the exit of an old generation
  can arrive late; `outcome` is how a request was settled for its caller, `work` what became of
  it in the process.
- **DelegationTree.** Run 0 is the top-level run, run *d* the child of delegation *d*. `Spawn` is
  `DelegationStarter.start` up to the launch, with its refusals; `Finish` is the end of a run with the two
  writes that may fail, and settles the promise; `Return` is the `finally` of the waiting call that
  gives back the lease. `stop` is the reason of the signal of each run, which reaches down the tree.
  `Crash` forgets the process; `RecoverRuns` and `RecoverDelegation` are the steps of
  `recoverRuntimeState` that concern the tree.
- **DangerAccess.** `call[c]` is what `executeToolCall` knows of one call. `Begin` is the synchronous
  admission, `AnswerNetwork` and `AnswerMain` the two cards, `Preflighted` the policy read again with
  the grant issued on it, `Invoke` the moment after the lock, `Execute` `require_grant`.
  `held` is a history: the ticks at which a lease was in force.
- **TerminalOutput.** `Read`, `Push` are the reader thread, `Take`, `WriteFrame`, `MarkDelivered` the sender, `Leave`
  and `Report` the exit thread, one action each between two holds of the queue's mutex. `Spawn` starts the process and
  announces it, and `SpawnReply` is the reply after it, so that frames and the exit may come first. `OnFrame` to
  `OnReaped` are the handlers of the Runtime, `OnStale` the generation filter before them (after a restart of the system runtime
  the record learns the generation of its lines with the reply), `Pump` one turn of the pacing queue, `Render` and `SendAck` the page.
- **TerminalInput.** `wire` and `replies` are sets, as requests of a page may overtake one another;
  `writing` is a sequence, as the pipe to the system runtime keeps its order. `pending` are the
  batches whose writes wait for earlier numbers, `taken` what the shell gets. `awaited` are the batches whose replies a page
  awaits and `timers` the armed ones for a repetition, which a reply may arm after `Halt` as in the code: `dispatch`
  finds the channel halted only when its answer comes.
- **OperationReceipts.** `receipt` is the table, `memory` the cache and `before` its insertion
  order (what an entry found there), `task` the async function behind an entry. A settled promise is the first of its
  `gitQueue`, as only the first has begun.

## 3. Runs

Bounds are constants of the modules, commented where they are declared.

| Run | Instance | Shows |
|---|---|---|
| `locks` | 3 operations, one of them a command, 3 footprints (two files, unknown), 2 calls cancelled or timed out | progress, the abstract lock, and effects in the order of the locks |
| `dispatch` | 3 reads, 2 mutations, queue of 2, 2 read slots | order of acceptance, every job answered, and the abstract lock with shared reads, so that a mutation has the workspace alone |
| `session_safety` | 1 session, 3 runs, 2 messages, 2 executions, questions and plan approvals, 1 lost finalization, 2 restarts | six properties of the session and the abstract serial session |
| `session_fair` | the same, 2 runs, with fairness | queued messages are sent |
| `session_double_answer` | see findings | a defect |
| `run_execution` | 2 turns, 3 calls, 2 crashes, 1 lost finalization | agreement of the tables, order of calls, no orphans, stopped runs end |
| `delegation` | 3 delegations, limit 2, depth 2, 1 crash, 2 failing writes | exact budget, one story in all tables, children first, a stop reaches all |
| `link` | 2 requests, 2 restarts, 5 processes, 1 failing kill | a coherent client, honest refusals, return to service |
| `receipts` | 2 operations, cache of 1, 2 failing saves, 1 failing kill, 1 crash | at most one execution, receipts that tell the truth, every operation ends |
| `danger` | 2 calls of 5 kinds, 1 challenge, lives of 1 to 2 ticks, 3 ticks, 1 change of role or provider | no boundary crossed without consent, at the moment of execution |
| `terminal_output` | window of 1, 3 frames, 2 pages, 1 time-out | continuous output in bounded space, tail before exit, no orphaned shell, acknowledgements take effect |
| `terminal_input` | 2 in flight, 1 pending, 3 batches, 2 pages, 2 refused or timed out | a prefix of what was typed, honest confirmations, every batch answered |

Why these bounds suffice for the questions asked: three lock operations are the least that lets
one overtake another past a cancelled waiter; a queue of two and two slots reach "full", "all slots
taken" and "mutation waiting for reads"; three runs allow a retry of a retry, and two executions
the double launch; three calls allow two that wait in parallel and one behind them; two crashes
allow one during recovery; a cache of one evicts at the second operation; five processes exceed
the budget of two restarts and its renewal; three delegations with a limit of two give a refusal, a
grandchild and a sibling; two failing writes lose both last rows of a child; two calls let the card of
one leave a rule that covers the other, and three ticks outlast every grant and lease; a window of one frame
is full at once and three frames fill it twice; two pages give one reload, and three batches with
two in flight and one pending reach reordering, the gap timer and an overflow of the pending ones.
Symmetry is used only in `session_safety` and `danger`, which have no liveness property, over sets
whose members the models never compare otherwise.

Deadlock is checked in `locks` and `dispatch`, where the end of all work is an explicit stuttering
step. In the other models the system really may stop: all messages are sent, the run has
ended, the user does not answer, the clock has reached its bound, the terminal is closed, or the
client was shut down.

### Fairness

- `MutationLocks`: operations that execute return (tools have time limits and a signal), and
  microtasks run.
- `FileDispatch`: the two kinds of threads are scheduled, and file operations return.
- `SessionRuns`: an execution ends by the run's total time limit at the latest
  (`maxRunTimeoutSec`, 7200 s by default; a user can turn it off, and then only the user ends a run
  that makes no progress) and then finishes. Nobody is obliged to answer a question.
- `RunExecution`: the event loop runs; model requests and tools end, by their own time-outs and by
  the signal at the latest. Cards and questions may stay unanswered for ever; a fired signal withdraws
  them, which is what `StoppedRunsEnd` relies on.
- `SystemLink`: timers fire, exit events of dead or killed processes arrive. Nothing is assumed of
  the process itself, which need neither reply nor stay alive.
- `OperationReceipts`: in addition the microtasks behind an entry run.
- `MutationEffects`: continuations run, the threads of the system runtime are scheduled, handlers
  return and commands end by their own time limit. The exclusion is safety and needs none of it.
- `DelegationTree`: settled promises are delivered, the start runs to its end, and a run whose signal has
  fired finishes, since its model request, card or tool is rejected by that signal. No run without a
  fired signal owes an end.
- `TerminalOutput`: each thread, the main loop, the Runtime and the page go on. Neither shell nor user
  nor the attachment of a page is owed; the attach timer and the reaping do the rest.
- `TerminalInput`: Runtime and system runtime serve their requests and timers fire; the page takes its replies.
- `DangerAccess` states safety only and assumes nothing.

## 4. Findings

`session_double_answer`: `resumeInteraction` tests the interaction, awaits `applyPlanApproval`,
and commits without testing again. Two answers during the await launch one run twice, and the
later end overwrites the terminal status. The run checks the one property that the quoted line
states, and TLC prints the shortest way to it.

Met while modelling, without a run of their own; the properties are stated so that they hold with them:

- *Double restart* (`runtime/system.ts:348`): `error` (a failed kill) and `exit` of one child both reach
  `onUnexpectedExit` with the current generation, although the comment at the field says the
  generation prevents it; two restarts are scheduled, and a pending request can then be carried over to
  another process. `link` and `receipts` have one failing kill, hence two processes at a time and late lines and exits
  of the first; `ClientCoherent` claims `PendingOwned` until a kill has failed, and the rest of it always.
- *Failed receipts at shutdown* (`runtime/system.ts:213`): `shutdown` rejects pending requests with a plain error, so an
  operation whose effect took place is recorded as failed. `ReceiptsHonest` excepts it.
- *Ghost pause* (`runtime/agent/session/queue.ts:73`): deleting the last queued message leaves the session
  paused with an empty queue, the state that the comment in `cancel` says must not exist.
- *Effects of calls that were given up*: `mutations.ts:9` calls the shell a global barrier, and
  `tool-policies.ts:20` says it crosses with no mutation. A cancel that reaches the main loop before
  the thread of the command has entered its process in the table is lost (`shell/handlers.rs:111`
  against `handle_cancel`), so the command goes on while later mutations run; and a file operation
  that is given up while it executes can overlap a later command. `EffectsInOrder` shows that these
  two (`Escaped`) are the only ways.
- *Grants without the lease's end* (`tool-executor.ts:448`): `grants.ts:27` offers to cap a grant by `notAfter`, but the
  danger grant is issued without it, so it can be used shortly after its lease is over.
  `DangerOnlyUnderLease` bounds how long: one life of a grant after an admission under the lease.
- *Input after a reload* (`terminal/input-order.ts:29`): a page numbers its batches from 1 again while the record keeps
  the last number applied, so the first batches of the new page are confirmed as duplicates and never
  written. `InputIsPrefix` and `ConfirmedIsTaken` are stated for the first page.
- *Frames before the reply to an attachment* carry the consumer `detached` (`terminal/egress.ts:190`) and the page drops them;
  and a reload while a whole window is emitted and not acknowledged leaves the reader paused until the
  next attachment's acknowledgement. `NoGapNoRepeat` speaks of what a page shows, from its first frame on.
- *Lines dropped before the spawn reply* (`terminal/inbound.ts:28`): until the reply to its spawn a record has the generation
  of the client, which counts the processes it started, and its lines carry that of the process, which is always 1. After a restart of
  the system runtime the two differ, and the lines that come before the reply are dropped as stale, so a shell that exits at once
  stays shown as running (`OnStale`). `TailFirst` and `NoOrphanShell` hold with it: they speak of exits that were reported, and of the shell itself.
- A status `closing` can be followed by a late `running` line of the spawn (`terminal/service.ts`); no property depends on it.

## 5. Proofs

`SessionRunsProofs`, for any sets of sessions, runs, messages and executions and any bounds:
`TypeCorrect`, `SessionSerial` (never two active runs in a session), `QueueHeld` (no unpaused queue
in front of an idle session), `MessagesOnce` (each message sent once); and, while plans are answered one at a
time, `WorkerEach`, `QuestionsOpen`, `EndsStay` and `Implementation` (of `SerialSession`). The properties are
not inductive alone. The invariants are conjunctions of named parts with the state they speak of as arguments.
`IInv` has the types; every execution works on a run of its own row (*Attached*), since the end of an
execution writes the row it was started for; at most one active run per session (*OneActive*), which every
handler that creates a run re-establishes by its own idle test; and queues are held or the session is
busy (*AllHeld*). The last one is broken in the middle of `Finish` and restored by its pump, so the pump has a
lemma of its own (`PumpInv`) over the state that the handler leaves behind.
`WorkInv` adds that executions, active runs and questions fit one another (*Staffed*), that what is not
deleted has its session (*Sited*), and that a plan under check still waits and has no execution (*Checked*).
The last part is what a second answer breaks, hence the assumption `MaxAnswers <= 1`; the run
`session_double_answer` shows that it is needed. Each step also moves statuses only forward (*Moves*), from
which `EndsStay` and the refinement follow.
`SentInv` says that a message has one place in the queues (*Distinct*), that what is queued has no run
(*Unsent*), and that of the runs of a message one is not superseded (*Single*). Removing, reordering and
dequeuing are all rearrangements of a queue (*Rearranged*), and one lemma covers them.

`RunExecutionProofs`, for any numbers of turns, calls, crashes and failed saves: `EndsClosed` (an ended run and a
restart leave nothing open), `OneStory` (the five tables never contradict one another), `InPlace` (calls keep to
their batch and their order) and `FinalRows` (an ended call, turn or run keeps its end). None of the four is inductive: what they
say of the rows rests on what the process knows in each stage. `IInv` says so table by table: which turn may be
open (*Turning*), when the run has a draft (*Drafting*), what its status owes to a card or a question (*Reporting*),
that calls under way outside a batch are early reads (*Reading*), where calls stand in their order (*Placing*,
*Counting*), that what is under way has an open row and an open row belongs to this turn (*Recording*), that
pending questions are those the run waits for (*Asking*), and what each step of a recovery has repaired for the next
(*Repairing*). The attempt to prove `FinalRows` corrected the model: reads that were given up were
still held when the next turn began, where the code has forgotten them (`Forget`). For turns it rests on a
further invariant: while a turn is worked on, the latest is open (`InTurn`), so no transition meets an ended one.

`MutationEffectsProofs` proves first of the locks alone, for any operations and footprints: `TypeCorrect`, `Exclusion`, `Fifo` (no
conflicting operation starts before one that registered earlier), `Cancellation` (a cancelled
waiter never executes), and `Implementation` (every step is a step of `ConflictLock` or a stutter).
`IInv` ties the predecessors a waiter remembers to the order of registration: whatever conflicts and
registered earlier is remembered, or has left. The one mathematical fact needed is that conflict is symmetric.

`SystemRuntimeProofs` proves of the dispatcher, for any jobs, channel capacity and number of read threads: `TypeCorrect`,
`ProgramOrder`, `Exclusion` and `Implementation` (every step is a step of `ConflictLock` or a stutter).
`IInv` describes the line: seats are unique; the channel is ordered by seat and behind the job in
hand (*Lined*); what has left the queue has smaller seats than what is in it (*Behind*); every read
that has not finished has a handle the dispatcher holds (*Covered*), which is what the joins before a
mutation rest on; and of two jobs one of which is a mutation the later leaves the queue only when
the earlier is finished (*Ordered*), from which order, exclusion and the refinement follow. What has
begun has a seat, so a job that was refused as busy never executes.

Then, of a terminal's output, for any number of frames, window, pages, queue limit and time-outs: `RunOfOutput`, `ExitBehindTail` and `Windowed`.
Frames are numbered as they are read, and the invariant `OInv` says which numbers stand at each stage, up to two marks
that no variable holds: *w*, the last frame written to the pipe, and *b*, the last one released. The events carry neighbouring runs that end
with `out` (*Chained*), the queue the next ones, the pipe those up to *w* (*Piped*; lines the generation filter will drop are excepted, which
is why a spawn that is awaited either stands first or has its reply before all frames, *Spawning*), the batch and the window
what comes after *w* and *b* (*Unwritten*, *Positions*). A page that shows anything shows up to the frame before its first event, and all
events are for it (*Showing*): this rests on pages asking for and being told of their attachment in their order
(*Addressed*, *Announced*, *Asked*). Acknowledgements speak of what has left the events (*Acked*), so what is released does too and
the window holds end to end (*Ahead*): the places between reader and screen map one to one to numbers
that are within the window. The exit line stands behind the last frame (*Leaving*, *Exited*).
What happens to the pipe is the same in a dozen actions, a first part is taken and lines are put behind, and has lemmas of its own (*Moved*).

`DelegationTreeProofs`, for any number of delegations, limit, depth and faults: `TypeCorrect`, `ExactBudget`,
`OneStory`, `NobodyOutlivesItsParent`. Each property leans on the others, so `IInv` is one conjunction: the
counter is the number of open leases (*Pool*); the parent of a delegation has a smaller number, and a row,
and open leases belong to executing parents (*Linked*); what executes has an unfinished row
and a promise that is not settled (*Executing*); nothing is left in a process that is starting (*Quiet*);
and the three parts of `SameStory`. The budget needs `Cardinality` facts for adding and removing one lease.

`DangerAccessProofs`, for any calls, kinds and times to live: `TypeCorrect`, `DangerOnlyOnLease`, `NothingBeyondUnasked`,
`StillAllowed`. The invariant says of each call, by its phase (*Prepared*, *AtCard*, *Granted*, *Online*), from which read of the lease, which card or which rule
its sandbox and grant come. As rules and the history of leases only grow, it is monotone in both, which
one lemma shows for all actions that leave a call alone; a lease in force now is in the history, and
no rule names the escalated sandbox.

Then, of the locks with the requests behind them, for any calls, footprints, classes, cancellations and time-outs: `EffectsTypeCorrect`,
`OrderedEffects`, `EffectsImplementation`. `EInv` follows a call *o* that was registered before a call *p* in conflict with
it, from the locks through the pipe to the effect. When *p* is sent, *o* has returned (*Handed*): it is answered, or
given up, and then its cancel line is in the pipe in front of the request of *p* (*Requested*, *CancelFirst*).
When *p* is read, the cancel line has been read: *o* is flagged, was missed, or is over (*Told*). Two file
operations are ordered besides by the line of the dispatcher (*Lined*). What is left for an overlap are the two
cases of `Escaped`.

`OperationReceiptsProofs` proves first of the client alone, for any requests, processes and bounds: `RefusalsAreHonest`, also when kills fail, as a step
gives a request an outcome only from what the process did with it (`StepSettles`); and `Coherent`, also
when they fail: a client that starts holds a process that boots or whose end is due (*Rising*), which late events of others do not
change. That pending requests belong to the process it holds needs more, and is claimed until a kill fails (`OwnedInv`): that process is the
only one alive (*Held*), and the one restart timer belongs to the end of the current generation (*Down*). A kill that
fails breaks *Held*, which is the double restart of section 4.

Then, of the client with the receipts, for any requests, cache and faults: `Once` and `ReceiptsTellTheTruth`. `ReceiptInv` speaks of one
request id at a time: outcomes are true of the work (*Truthful*), without a receipt nothing was
begun and a task has its open receipt (*Accounted*), a final receipt speaks of work that is over (*Closed*), and the
snapshot in memory is no more definite (*Modest*). The steps of the client come from `StepSettles`. `ShapeInv` adds the shapes:
the order of the entries is total among those that are left (*Mapped*), which are operations with a receipt and so never
entered twice; only the first of a chain has begun (*Chained*), so what settles is the first or not in the chain at all; and
while `shutdown()` waits for a process none is spawned (*Linked*), without which the process it waits for would not be the
current one.

`TerminalInputProofs`, for any numbers of batches, refusals, time-outs and pages: `InputInOrder` and
`OnlyTakenConfirmed`. That the shell gets a prefix follows neither from the numbers the Runtime applies nor from the
order of the pipe alone, as a write may be given up and be taken all the same, and the page sends again what was refused for
lack of space. `IInv` follows the batches of the first page: none is beyond what the page has sent (*OnlySent*); the shell has
taken exactly the first ones, up to the number before the next expected or to that number itself (*InOrder*); a write in the pipe is the
next one (*Underway*); a batch is in one place, be it the wire, the pending ones, a write, a reply or an armed timer (*OnePlace*);
the next number is never answered with a request to send it again while its write may still be taken
(*NextIsSettled*); and a confirmed number has been taken (*Honest*).

Assumptions are the named `ASSUME`s of the constants, which TLC evaluates, and the bound `MaxAnswers <= 1` named above. Every invariant and every action property of the runs, and each of the
refinements, is stated by a theorem. Only model-checked are the liveness properties, which are out of the prover's
reach (fairness is about ENABLED): `EveryWaiterProceeds`, `EveryJobAnswered`, `QueueDrains`, `ReturnsToService`,
`EveryOperationEnds`, `StoppedRunsEnd`, `StopReachesAll`, `NoOrphanShell`, `AckLands` and `WritesAnswered`.

## 6. What the models leave out

- `SessionRuns`: one unanswered question per run; edits of queued items; texts, attachments and models of
  messages; waiting for an approval counts as running. The safety run answers one
  plan at a time, because two answers are the finding above; `session_double_answer` lifts that bound.
- `RunExecution`: a top-level run (recovery also interrupts the waits of delegated runs); writes
  to the store do not fail except in finalization; consecutive writes without an await between
  them are one step; a card for network access and the card for its command are the same card asked
  again; budgets and the loop guard are nondeterministic refusals; resumed executions continue the
  count of turns, where the code starts a new one.
- `FileDispatch`: the contents of jobs; poisoned mutexes; requests with equal ids; a read thread has
  ended when it has answered (nothing but bookkeeping of the thread follows).
- `MutationEffects`: reads (`FileDispatch` has them); the death of the system runtime, which ends all effects at once;
  refusals of a full channel; daemons that leave their process group; reuse of process ids.
- `DelegationTree`: token accounting, team plans, prompts and results; one top-level run.
- `DangerAccess`: one session, one workspace and one command prefix, so that a rule matches by sandbox and network alone;
  `Begin` may see the clock advance between its reads; deletion of the session, plan mode, MCP and browser tools.
- `TerminalOutput`, `TerminalInput`: resizing, quotas, creation by a known id, fairness between terminals, and the
  bytes of a frame; a frame is one unit of the window.
- `SystemLink`: a missing binary (the status is then `unavailable` for good); malformed lines.
- `OperationReceipts`: joins of known request ids, which change nothing; the variant without a
  store; errors whose text mentions a time-out are treated like time-outs.
- Known and without state in a model, hence without a property: `pendingApprovalId` is overwritten by the later of two parallel
  cards (`run/tool-execution-context.ts:105`); a run that waits for an answer after a restart has no
  stream, so `run.cancel` refuses it (`launcher.ts:131`); git requests execute on the main loop and
  delay everything behind them (`system-runtime/src/main.rs:64`).

## 7. Plan: order of the modules

1. Core, done: `SessionRuns` with `SerialSession` (the behaviour users notice first: one run, each
   message once), its runs and its first theorems.
2. Done: `MutationLocks` with `ConflictLock` and its proofs; `FileDispatch`, which implements the same
   abstract lock, and its proofs.
3. Done: `SystemLink`, and `OperationReceipts` composed with it.
4. Done: `RunExecution`.
5. Done: `DelegationTree` and its proofs, the tree of runs above `RunExecution`.
6. Done: `TerminalOutput` and `TerminalInput`, the second protocol between the three processes.
7. Done: `DangerAccess` and its proofs, from the user's consent to the check in the system runtime.
8. Done: `MutationEffects`, which composes the locks with the pipe and the system runtime.

## 8. Plan: what is left

- One abstract life of a run (launched, asking, stopped, ended, recovered, deleted) that both a run of
  `SessionRuns` and the single run of `RunExecution` implement, with recovery as one abstract step;
  the two modules now agree on it only by their separate properties.
- Loop guard and turn budgets as functions, checked against reference definitions.
- MCP reconnects, remote event streams, host supervision, the workspace index with its watches, workflows.

The map names a small share of the lines. Most of the repository is data and
presentation: contracts and their schemas, SQL of stores, prompts, React components, style, provider
formats and acceptance scripts. They hold no state that actions of several actors could bring out of
step, and a model of them would repeat the source.
