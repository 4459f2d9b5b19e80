---------------------------- MODULE DelegationTree ----------------------------
(***************************************************************************)
(* The tree of sub-agent runs below one top-level run.  Every delegation   *)
(* is a row of the database, a child run with its own session and loop,    *)
(* and a promise the delegating tool call waits for (delegation/starter).  *)
(* One budget coordinator is shared by the whole tree, one abort signal    *)
(* reaches down from every run to all the runs below it, and a process     *)
(* that starts again settles the delegations its predecessor left open     *)
(* from the rows of their child runs.                                      *)
(*                                                                         *)
(* Run 0 is the top-level run; run d > 0 is the child of delegation d, and *)
(* delegations are numbered in the order they are made.                    *)
(***************************************************************************)
EXTENDS Naturals, FiniteSets

CONSTANTS
    MaxDelegations,   \* bound: delegations ever made in the tree
    Limit,            \* the smaller of maxChildRuns and maxParallelChildren
    MaxDepth,         \* settings.maxDepth, at most 4
    MaxCrashes,       \* bound
    MaxWriteFailures  \* bound: writes at the end of a run that fail

ASSUME TreeAssumption ==
    /\ MaxDelegations \in Nat /\ Limit \in Nat /\ MaxDepth \in 0..4
    /\ MaxCrashes \in Nat /\ MaxWriteFailures \in Nat

VARIABLES
    \* rows
    run,       \* runs.status, "none" without a row
    deleg,     \* delegations.status, "none" without a row
    parent,    \* delegations.parent_run_id
    asked,     \* runs with a pending row in user_interactions
    \* process
    exec,      \* how far RunRunner.execute is with each run
    stop,      \* why the signal of a run fired: AbortSignal.reason
    depth,     \* RunLauncher.runDepth
    open,      \* delegations whose lease is not released yet
    told,      \* how the promise of a delegation settled
    active,    \* DelegationBudgetCoordinator.active
    boot,      \* the next step of Store.recoverRuntimeState
    lost,      \* delegations whose last row this process could not write
    \* bounds
    crashes,
    writeFailures

rows == <<run, deleg, parent, asked>>
runner == <<exec, stop, depth>>
budget == <<open, told, active>>
bounds == <<crashes, writeFailures>>
vars == <<rows, runner, budget, boot, lost, bounds>>

Delegations == 1..MaxDelegations
Runs == {0} \cup Delegations
Final == {"completed", "failed", "cancelled", "interrupted"}
Unfinished == {"running", "waiting"}

TreeTypeOK ==
    /\ run \in [Runs -> {"none"} \cup Unfinished \cup Final]
    /\ deleg \in [Delegations ->
                    {"none", "running", "completed", "failed", "cancelled"}]
    /\ parent \in [Delegations -> Runs]
    /\ exec \in [Runs -> {"idle", "working", "answered"}]
    /\ stop \in [Runs -> {"none", "cancel", "limit"}]
    /\ depth \in [Runs -> Nat]
    /\ asked \subseteq Runs
    /\ open \subseteq Delegations /\ lost \subseteq Delegations
    /\ told \in [Delegations -> {"none", "result", "error"}]
    /\ active \in Nat
    /\ boot \in {"runs", "delegations", "up"}
    /\ crashes \in Nat /\ writeFailures \in Nat

Init ==
    /\ run = [r \in Runs |-> IF r = 0 THEN "running" ELSE "none"]
    /\ deleg = [d \in Delegations |-> "none"]
    /\ parent = [d \in Delegations |-> 0]
    /\ exec = [r \in Runs |-> IF r = 0 THEN "working" ELSE "idle"]
    /\ stop = [r \in Runs |-> "none"]
    /\ depth = [r \in Runs |-> 0]
    /\ asked = {} /\ open = {} /\ lost = {}
    /\ told = [d \in Delegations |-> "none"]
    /\ active = 0
    /\ boot = "up"
    /\ crashes = 0 /\ writeFailures = 0

\* Mutant: the batch waits for executing children, not for settled calls.
ChildrenExecuting(r) == {d \in open : parent[d] = r /\ exec[d] # "idle"}

\* The delegations a run made and still waits for: the tool batch it executes
\* ends only when every call of it has settled.
Children(r) == {d \in open : parent[d] = r}

\* The runs above the child run of a delegation.
Above[d \in Delegations] ==
    {parent[d]} \cup IF parent[d] \in Delegations THEN Above[parent[d]] ELSE {}

Below(r) == {d \in Delegations : deleg[d] # "none" /\ r \in Above[d]}

-----------------------------------------------------------------------------
(* Delegating.                                                             *)

\* Mutant: an off-by-one at the limit.
MayAcquireOneMore == active <= Limit

\* DelegationBudgetCoordinator.acquire.
MayAcquire == active < Limit

\* The checks of the starter before it writes anything.
MaySpawn(r) ==
    /\ boot = "up"
    /\ exec[r] = "working" /\ run[r] = "running" /\ stop[r] = "none"
    /\ depth[r] + 1 <= MaxDepth
    /\ MayAcquire

\* The lease, and the rows of the delegation and of its run in one transaction.
\* A transaction that fails gives the lease back and leaves nothing.
Record(r, d) ==
    /\ deleg[d] = "none" /\ \A e \in 1..(d - 1) : deleg[e] # "none"
    /\ MaySpawn(r)
    /\ active' = active + 1
    /\ open' = open \cup {d}
    /\ parent' = [parent EXCEPT ![d] = r]
    /\ run' = [run EXCEPT ![d] = "running"]
    /\ UNCHANGED asked

Spawn(r, d) ==
    /\ Record(r, d)
    /\ deleg' = [deleg EXCEPT ![d] = "running"]
    /\ exec' = [exec EXCEPT ![d] = "working"]
    /\ depth' = [depth EXCEPT ![d] = depth[r] + 1]
    /\ UNCHANGED <<stop, told, boot, lost, bounds>>

\* launch itself throws: the delegation fails, and the row of a run that never
\* executes is left for the next start.
SpawnThrows(r, d) ==
    /\ writeFailures < MaxWriteFailures
    /\ Record(r, d)
    /\ deleg' = [deleg EXCEPT ![d] = "failed"]
    /\ told' = [told EXCEPT ![d] = "error"]
    /\ writeFailures' = writeFailures + 1
    /\ UNCHANGED <<runner, boot, lost, crashes>>

\* The promise of the starter has settled: its finally block gives back the
\* lease and takes the child off the signal of its parent.
Return(d) ==
    /\ d \in open /\ told[d] # "none"
    /\ open' = open \ {d}
    /\ active' = active - 1
    /\ told' = [told EXCEPT ![d] = "none"]
    /\ UNCHANGED <<rows, runner, boot, lost, bounds>>

-----------------------------------------------------------------------------
(* Stopping: the signal of a run fires once, with the reason given first,  *)
(* and fires the signals of all the runs below it at once.                 *)

\* Mutant: the signal of a run is not linked to those of its sub-agents.
ReachedAlone(r) == {x \in {r} : exec[x] # "idle" /\ stop[x] = "none"}

\* The runs the signal of r reaches.
Reached(r) == {x \in {r} \cup Below(r) : exec[x] # "idle" /\ stop[x] = "none"}

\* A question that waits is withdrawn.
Abort(r, why) ==
    /\ stop' = [x \in Runs |-> IF x \in Reached(r) THEN why ELSE stop[x]]
    /\ asked' = asked \ Reached(r)
    /\ UNCHANGED <<run, deleg, parent, exec, depth, budget, boot, lost, bounds>>

\* run.cancel of the top-level run, delegation.cancel of a delegation.
Cancel(r) ==
    /\ exec[r] # "idle" /\ stop[r] = "none"
    /\ r \in Delegations => deleg[r] = "running"
    /\ Abort(r, "cancel")

\* The time limit of a child or of a run, or its token budget.
Expire(r) ==
    /\ exec[r] # "idle" /\ stop[r] = "none"
    /\ Abort(r, "limit")

-----------------------------------------------------------------------------
(* The end of a run.                                                       *)

\* The model has given its last answer: a signal that fires now is too late.
Answer(r) ==
    /\ exec[r] = "working" /\ run[r] = "running" /\ stop[r] = "none"
    /\ Children(r) = {}
    /\ exec' = [exec EXCEPT ![r] = "answered"]
    /\ UNCHANGED <<rows, stop, depth, budget, boot, lost, bounds>>

\* What RunRunner decides: a run whose signal fired is cancelled, or failed
\* when the reason is a limit.
Decisions(r) ==
    IF exec[r] = "answered" THEN {"completed"}
    ELSE IF stop[r] = "cancel" THEN {"cancelled"} ELSE {"failed"}

\* The settlement callbacks: the row of the delegation, then the promise.
\* onResult resolves only when the row was written.
Settle(d, outcome, written) ==
    /\ deleg' = IF written THEN [deleg EXCEPT ![d] = outcome] ELSE deleg
    /\ lost' = IF written THEN lost ELSE lost \cup {d}
    /\ told' = [told EXCEPT ![d] = IF outcome = "completed" /\ written
                                   THEN "result" ELSE "error"]

\* RunFinalizer: one transaction, tried twice.  A run whose end could not be
\* saved keeps its row and is reported as failed.  The launcher then forgets
\* its stream and its depth.
Finish(r, saved, written) ==
    /\ exec[r] \in {"working", "answered"}
    /\ Children(r) = {} /\ r \notin asked
    /\ LET failures == (IF saved THEN 0 ELSE 1) + (IF written THEN 0 ELSE 1)
       IN  /\ writeFailures + failures <= MaxWriteFailures
           /\ writeFailures' = writeFailures + failures
    /\ \E decision \in Decisions(r) :
         /\ run' = IF saved THEN [run EXCEPT ![r] = decision] ELSE run
         /\ IF r \in Delegations
            THEN Settle(r, IF saved THEN decision ELSE "failed", written)
            ELSE written /\ UNCHANGED <<deleg, lost, told>>
    /\ exec' = [exec EXCEPT ![r] = "idle"]
    /\ stop' = [stop EXCEPT ![r] = "none"]
    /\ depth' = [depth EXCEPT ![r] = 0]
    /\ UNCHANGED <<parent, asked, open, active, boot, crashes>>

\* A question to the user, and its answer while the process lives.
Ask(r) ==
    /\ exec[r] = "working" /\ run[r] = "running" /\ stop[r] = "none"
    /\ Children(r) = {}
    /\ run' = [run EXCEPT ![r] = "waiting"]
    /\ asked' = asked \cup {r}
    /\ UNCHANGED <<deleg, parent, runner, budget, boot, lost, bounds>>

Reply(r) ==
    /\ exec[r] = "working" /\ r \in asked
    /\ run' = [run EXCEPT ![r] = "running"]
    /\ asked' = asked \ {r}
    /\ UNCHANGED <<deleg, parent, runner, budget, boot, lost, bounds>>

-----------------------------------------------------------------------------
(* Crash and start.                                                        *)

Crash ==
    /\ crashes < MaxCrashes
    /\ crashes' = crashes + 1
    /\ exec' = [r \in Runs |-> "idle"]
    /\ stop' = [r \in Runs |-> "none"]
    /\ depth' = [r \in Runs |-> 0]
    /\ open' = {} /\ lost' = {}
    /\ told' = [d \in Delegations |-> "none"]
    /\ active' = 0
    /\ boot' = "runs"
    /\ UNCHANGED <<rows, writeFailures>>

\* RunStore.recoverInterrupted and InteractionStore.recoverUnresumable: only a
\* top-level run that waits for an answer survives.
RecoverRuns ==
    /\ boot = "runs" /\ boot' = "delegations"
    /\ run' = [r \in Runs |->
                 IF run[r] = "running" \/ (run[r] = "waiting" /\ r \notin asked \cap {0})
                 THEN "interrupted" ELSE run[r]]
    /\ asked' = asked \cap {0}
    /\ UNCHANGED <<deleg, parent, runner, budget, lost, bounds>>

\* Mutant: a cancelled child is recovered as a failure.
ConvergedFailed(d) == IF run[d] = "completed" THEN "completed" ELSE "failed"

\* How DelegationStore.recoverInterrupted reads the row of the child run.
Converged(d) ==
    IF run[d] \in {"completed", "cancelled"} THEN run[d] ELSE "failed"

RecoverDelegation(d) ==
    /\ boot = "delegations" /\ deleg[d] = "running"
    /\ deleg' = [deleg EXCEPT ![d] = Converged(d)]
    /\ UNCHANGED <<run, parent, asked, runner, budget, boot, lost, bounds>>

Recovered ==
    /\ boot = "delegations" /\ \A d \in Delegations : deleg[d] # "running"
    /\ boot' = "up"
    /\ UNCHANGED <<rows, runner, budget, lost, bounds>>

\* An answer after the restart launches the waiting run again, with a
\* coordinator that counts the rows of the tree that are not settled.
Resume ==
    /\ boot = "up" /\ exec[0] = "idle" /\ 0 \in asked
    /\ asked' = asked \ {0}
    /\ run' = [run EXCEPT ![0] = "running"]
    /\ exec' = [exec EXCEPT ![0] = "working"]
    /\ active' = Cardinality({d \in Delegations : deleg[d] = "running"})
    /\ UNCHANGED <<deleg, parent, stop, depth, open, told, boot, lost, bounds>>

Next ==
    \/ \E r \in Runs, d \in Delegations : Spawn(r, d) \/ SpawnThrows(r, d)
    \/ \E d \in Delegations : Return(d) \/ RecoverDelegation(d)
    \/ \E r \in Runs : Cancel(r) \/ Expire(r) \/ Answer(r) \/ Ask(r) \/ Reply(r)
    \/ \E r \in Runs, saved, written \in BOOLEAN : Finish(r, saved, written)
    \/ Crash \/ RecoverRuns \/ Recovered \/ Resume

\* Settled promises are delivered, a run whose signal fired winds up (its
\* model call, approval or tool call is rejected by the signal), and a start
\* runs to its end.
Fairness ==
    /\ \A d \in Delegations : WF_vars(Return(d)) /\ WF_vars(RecoverDelegation(d))
    /\ \A r \in Runs : WF_vars(stop[r] # "none"
                               /\ \E s, w \in BOOLEAN : Finish(r, s, w))
    /\ WF_vars(RecoverRuns) /\ WF_vars(Recovered)

Spec == Init /\ [][Next]_vars /\ Fairness

-----------------------------------------------------------------------------
(* Properties.                                                             *)

\* The coordinator of the tree counts exactly the sub-agents that have not
\* given back their lease, and there are never more than the limit, also when
\* a run is resumed after a crash that interrupted sub-agents, or one whose
\* last row could not be written.
BudgetExact ==
    exec[0] # "idle" => active = Cardinality(open) /\ active <= Limit

\* Outside a start, an unsettled row belongs to a sub-agent that executes or
\* to one whose last row this process could not write: nothing else shows as
\* running for ever.
NoPhantom ==
    boot = "up" => \A d \in Delegations :
        deleg[d] = "running" => exec[d] # "idle" \/ d \in lost

RowsAgree ==
    \A d \in Delegations :
        /\ deleg[d] \in {"completed", "cancelled"} => run[d] = deleg[d]
        /\ deleg[d] = "failed" => run[d] \in {"failed", "interrupted"} \cup Unfinished

ToldAsRecorded ==
    \A d \in open :
        /\ told[d] = "result" => deleg[d] = "completed" /\ run[d] = "completed"
        /\ told[d] = "error" => deleg[d] # "completed"

\* The delegation, its child run and the call that waits for it tell the same
\* story, whoever wrote last: the run itself, a save that failed, or the start
\* after a crash.
SameStory == NoPhantom /\ RowsAgree /\ ToldAsRecorded

\* No run of this process, and no lease, outlives the run it works for.
BottomUp ==
    \A d \in Delegations :
        exec[d] # "idle" \/ d \in open => exec[parent[d]] # "idle"

\* A signal that fires ends the run and every run below it, and gives back all
\* their leases.
StopReachesAll ==
    \A r \in Runs :
        stop[r] # "none" ~>
            exec[r] = "idle" /\ \A d \in Below(r) : exec[d] = "idle" /\ d \notin open
=============================================================================
