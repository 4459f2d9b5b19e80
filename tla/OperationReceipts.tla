---------------------------- MODULE OperationReceipts ----------------------------
(***************************************************************************)
(* OperationRegistry (apps/runtime/src/operations/registry.ts) over the    *)
(* link to the sidecar: core mutations of the workspace are admitted once  *)
(* per request id, leave a durable receipt, and are never replayed.  Each  *)
(* operation is one sidecar request; a git operation first waits in the    *)
(* queue of its workspace (git-queue.ts), any other is sent at once.  The  *)
(* kind of an operation is drawn when its task starts.                     *)
(*                                                                         *)
(* A call with the id of a known operation joins it or is rejected and     *)
(* changes nothing, so Submit is the call that finds no entry and no       *)
(* receipt.                                                                *)
(***************************************************************************)
EXTENDS SystemLink, Sequences, SequencesExt

CONSTANTS
    Cap,                \* results kept in memory (256)
    MaxSaveFailures,    \* bound: writes of a receipt that throw
    MaxRuntimeCrashes   \* bound

ASSUME ReceiptAssumption ==
    /\ Cap \in Nat /\ MaxSaveFailures \in Nat /\ MaxRuntimeCrashes \in Nat

VARIABLES
    receipt,   \* operation_receipts: the phase, "none" without a row
    memory,    \* phase of the entry's snapshot, "none" without an entry
    before,    \* the entries that an entry found in the map
    task,      \* the async task behind an entry
    gitQueue,  \* operations in the git queue, the running one first
    admitted,  \* history: how often an operation was scheduled
    saveFailures,
    crashes

registry == <<receipt, memory, before, task, gitQueue, admitted>>
receiptVars == <<linkVars, registry, saveFailures, crashes>>

Open == {"queued", "running"}
Final == {"succeeded", "failed", "uncertain"}

ReceiptInit ==
    /\ LinkInit
    /\ receipt = [i \in Requests |-> "none"]
    /\ memory = [i \in Requests |-> "none"]
    /\ before = [i \in Requests |-> {}]
    /\ task = [i \in Requests |-> "none"]
    /\ gitQueue = <<>>
    /\ admitted = [i \in Requests |-> 0]
    /\ saveFailures = 0
    /\ crashes = 0

--------------------------------------------------------------------------------
(* Receipts in memory and on disk. *)

Entries == {i \in Requests : memory[i] # "none"}

\* The entries that make room: the oldest finished ones, never an open one.
Evictable(mem) ==
    LET finished == {i \in Entries : mem[i] \in Final}
    IN  {i \in finished :
            Cardinality(finished \cap before[i]) + Cap < Cardinality(Entries)}

\* remember() with snapshots mem: the receipt is saved, the map is trimmed.
Remember(i, phase, mem) ==
    /\ receipt' = [receipt EXCEPT ![i] = phase]
    /\ memory' = [j \in Requests |-> IF j \in Evictable(mem) THEN "none" ELSE mem[j]]

Update(i, phase) ==
    /\ Remember(i, phase, [memory EXCEPT ![i] = phase])
    /\ UNCHANGED saveFailures

\* The next n writes of a receipt throw.
SaveFails(n) ==
    /\ saveFailures + n <= MaxSaveFailures
    /\ saveFailures' = saveFailures + n

\* No receipt can be saved: only the snapshot is marked, as uncertain.
OnlySnapshot(i, phase) ==
    /\ memory' = [memory EXCEPT ![i] = "uncertain"]
    /\ UNCHANGED receipt

\* The catch block: the task ends with phase.
Close(i, phase, failuresBefore) ==
    \/ /\ Remember(i, phase, [memory EXCEPT ![i] = phase])
       /\ IF failuresBefore = 0 THEN UNCHANGED saveFailures
          ELSE SaveFails(failuresBefore)
    \/ SaveFails(failuresBefore + 1) /\ OnlySnapshot(i, phase)

--------------------------------------------------------------------------------
(* Operations. *)

\* Mutant: a receipt without an entry is not looked up.
KnownInMemory(i) == memory[i] # "none"

Known(i) == memory[i] # "none" \/ receipt[i] # "none"

NotScheduled(i) == UNCHANGED task

\* execute of an unknown operation: no receipt, no task.
Submit(i) ==
    /\ ~Known(i)
    /\ \/ /\ receipt' = [receipt EXCEPT ![i] = "queued"]
          /\ memory' = [j \in Requests |-> IF j = i THEN "queued"
                                           ELSE IF j \in Evictable(memory) THEN "none"
                                           ELSE memory[j]]
          /\ before' = [before EXCEPT ![i] = Entries \ Evictable(memory)]
          /\ task' = [task EXCEPT ![i] = "scheduled"]
          /\ admitted' = [admitted EXCEPT ![i] = @ + 1]
          /\ UNCHANGED saveFailures
       \/ /\ SaveFails(1)
          /\ NotScheduled(i)
          /\ UNCHANGED <<receipt, before, memory, admitted>>
    /\ UNCHANGED <<linkVars, gitQueue, crashes>>

\* The promise of i settles: in its chain the next one is first.
Unchained(i) ==
    IF gitQueue # <<>> /\ Head(gitQueue) = i THEN Tail(gitQueue) ELSE gitQueue

\* update("running"), then the request.  If the receipt cannot be saved the
\* operation has failed and nothing is sent.
Run(i) ==
    \/ /\ Update(i, "running")
       /\ task' = [task EXCEPT ![i] = "sent"]
       /\ Request(i)
       /\ UNCHANGED gitQueue
    \/ /\ Close(i, "failed", 1)
       /\ task' = [task EXCEPT ![i] = "none"]
       /\ gitQueue' = Unchained(i)
       /\ UNCHANGED linkVars

Begin(i) ==
    /\ task[i] = "scheduled"
    /\ Run(i)
    /\ UNCHANGED <<before, admitted, crashes>>

\* withGitQueue: chained behind the mutations of the same workspace.
Enqueue(i) ==
    /\ task[i] = "scheduled"
    /\ task' = [task EXCEPT ![i] = "chained"]
    /\ gitQueue' = Append(gitQueue, i)
    /\ UNCHANGED <<linkVars, receipt, memory, before, admitted, saveFailures,
                   crashes>>

GitTurn(i) == task[i] = "chained" /\ Head(gitQueue) = i

BeginGit(i) ==
    /\ GitTurn(i)
    /\ Run(i)
    /\ UNCHANGED <<before, admitted, crashes>>

\* Mutant: an uncertain outcome counts as a failure.
FailurePhasePlain(how) == "failed"

FailurePhase(how) == IF how = "uncertain" THEN "uncertain" ELSE "failed"

\* The request is settled, and the task with it.  A receipt that cannot say
\* "succeeded" says "uncertain".
Settle(i) ==
    /\ task[i] = "sent"
    /\ \/ /\ outcome[i] = "ok"
          /\ Update(i, "succeeded") \/ Close(i, "uncertain", 1)
       \/ /\ outcome[i] \in {"error", "uncertain", "stopped", "unavailable"}
          /\ Close(i, FailurePhase(outcome[i]), 0)
    /\ task' = [task EXCEPT ![i] = "none"]
    /\ gitQueue' = Unchained(i)
    /\ UNCHANGED <<linkVars, before, admitted, crashes>>

\* Mutant: operations still queued are forgotten by recovery.
RecoveredRunningOnly(i) ==
    IF receipt[i] = "running" THEN "uncertain" ELSE receipt[i]

\* OperationReceiptStore.recover
RecoveredReceipt(i) == IF receipt[i] \in Open THEN "uncertain" ELSE receipt[i]

\* The Runtime dies and starts again.  Its sidecar ends with it, some of what
\* it had received done, the rest lost.
RuntimeCrash ==
    /\ crashes < MaxRuntimeCrashes
    /\ crashes' = crashes + 1
    /\ \E late \in SUBSET {r \in Requests : work[r] = "queued"} :
          work' = [r \in Requests |->
                      IF work[r] # "queued" THEN work[r]
                      ELSE IF r \in late THEN "done" ELSE "dropped"]
    /\ status' = "starting" /\ generation' = 0 /\ child' = 0 /\ restarts' = 0
    /\ timers' = 0 /\ handshake' = 0 /\ stopping' = FALSE /\ closing' = 0
    /\ outcome' = [r \in Requests |-> IF r \in Waiting THEN "none" ELSE outcome[r]]
    /\ proc' = [g \in Generations |-> "none"]
    /\ to' = [r \in Requests |-> 0]
    /\ receipt' = [i \in Requests |-> RecoveredReceipt(i)]
    /\ memory' = [i \in Requests |-> "none"]
    /\ before' = [i \in Requests |-> {}]
    /\ task' = [i \in Requests |-> "none"]
    /\ gitQueue' = <<>>
    /\ UNCHANGED <<killFailures, admitted, saveFailures>>

ReceiptNext ==
    \/ \E i \in Requests :
          Submit(i) \/ Begin(i) \/ Enqueue(i) \/ BeginGit(i) \/ Settle(i)
    \/ LinkStep /\ UNCHANGED <<registry, saveFailures, crashes>>
    \/ RuntimeCrash

ReceiptSpec == ReceiptInit /\ [][ReceiptNext]_receiptVars

\* Microtasks run, settled promises resume their tasks, and request timers
\* fire.
ReceiptFairness ==
    \A i \in Requests :
       /\ WF_receiptVars(Begin(i) \/ Enqueue(i))
       /\ WF_receiptVars(BeginGit(i)) /\ WF_receiptVars(Settle(i))
       /\ WF_receiptVars(TimeOut(i) /\ UNCHANGED <<registry, saveFailures, crashes>>)

FairReceipts == ReceiptSpec /\ ReceiptFairness

--------------------------------------------------------------------------------
(* Properties. *)

\* Every variable of the registry keeps its shape: the map has one order, and an
\* operation stands at most once in the chain of its workspace.
ReceiptTypeOK ==
    /\ LinkTypeOK
    /\ receipt \in [Requests -> {"none"} \cup Open \cup Final]
    /\ memory \in [Requests -> {"none"} \cup Open \cup Final]
    /\ task \in [Requests -> {"none", "scheduled", "chained", "sent"}]
    /\ before \in [Requests -> SUBSET Requests]
    /\ \A i, j \in Entries : i \in before[j] <=> i # j /\ j \notin before[i]
    /\ gitQueue \in Seq(Requests) /\ IsInjective(gitQueue)
    /\ saveFailures \in 0..MaxSaveFailures /\ crashes \in 0..MaxRuntimeCrashes

\* An operation is scheduled at most once per request id, across evictions,
\* failed writes and restarts.
AtMostOnce == \A i \in Requests : admitted[i] <= 1

\* Nothing runs that a crash could make the Runtime forget, or that a call could
\* not join: behind a task there is an open receipt, and its entry is not evicted.
NoTaskWithoutReceipt ==
    \A i \in Requests :
        task[i] # "none" => receipt[i] \in Open /\ memory[i] = receipt[i]

\* A durable receipt is honest: "succeeded" means the sidecar carried the
\* request out, "failed" means that it did not and never will, unless the
\* client was being shut down.
HonestReceipt ==
    \A i \in Requests :
        /\ receipt[i] = "succeeded" => work[i] = "done"
        /\ receipt[i] = "failed" /\ outcome[i] # "stopped"
              => work[i] \notin {"queued", "done"}

\* What operation.get shows is never more definite than what a restart would
\* find.
NoOptimism ==
    \A i \in Requests :
        memory[i] \in {"succeeded", "failed"} => receipt[i] = memory[i]

\* What is recorded, what is shown and what is under way never contradict the
\* sidecar or one another, through failing saves, evictions and crashes.
ReceiptsHonest ==
    ReceiptTypeOK /\ HonestReceipt /\ NoTaskWithoutReceipt /\ NoOptimism

\* What operation.get shows of a known operation.
Shown(i) == IF memory[i] # "none" THEN memory[i] ELSE receipt[i]

\* Every admitted operation comes to show how it ended: no task, git queue,
\* silent sidecar or restart leaves it open forever.  A receipt that could not
\* be saved is the exception: its entry shows the end only until it is evicted.
EveryOperationEnds ==
    \A i \in Requests :
        receipt[i] # "none" ~> Shown(i) \in Final \/ saveFailures > 0

================================================================================
