------------------------- MODULE DelegationTreeProofs -------------------------
(***************************************************************************)
(* Proofs about DelegationTree, for any number of delegations, any limit,  *)
(* depth, crashes and failing writes: types, the exact budget, the one     *)
(* story that rows and promises tell, and that no run outlives its parent. *)
(*                                                                         *)
(* The inductive invariant adds what connects the three records of a       *)
(* sub-agent (a run that executes holds its lease, an unsettled delegation *)
(* and an unsettled promise) and that nothing executes while the process   *)
(* starts or while a top-level run waits to be resumed.                    *)
(***************************************************************************)
EXTENDS DelegationTree, FiniteSetTheorems, TLAPS

\* The budget counts the leases.
Pool == active = Cardinality(open) /\ active <= Limit

LinkedAt(d) ==
    /\ deleg[d] # "none" => run[d] # "none"
    /\ d \in open => deleg[d] # "none" /\ exec[parent[d]] # "idle"
    /\ exec[d] # "idle" => d \in open /\ deleg[d] = "running" /\ told[d] = "none"
    /\ told[d] # "none" => d \in open

Linked == \A d \in Delegations : LinkedAt(d)

Executing == \A r \in Runs : exec[r] # "idle" => run[r] \in Unfinished

AllIdle == open = {} /\ \A r \in Runs : exec[r] = "idle"

Quiet ==
    /\ boot # "up" => AllIdle
    /\ 0 \in asked /\ exec[0] = "idle" =>
          /\ AllIdle
          /\ boot = "up" => \A d \in Delegations : deleg[d] # "running"

IInv ==
    /\ TreeTypeOK
    /\ Pool
    /\ Linked
    /\ Executing
    /\ Quiet
    /\ NoPhantom /\ RowsAgree /\ ToldAsRecorded

-----------------------------------------------------------------------------
(* The budget. *)

LEMMA OpenFinite ==
    ASSUME TreeTypeOK
    PROVE  IsFiniteSet(open)
<1>1. IsFiniteSet(Delegations)
  BY TreeAssumption, FS_Interval DEF Delegations
<1>2. open \subseteq Delegations
  BY DEF TreeTypeOK
<1> QED BY <1>1, <1>2, FS_Subset

\* A new lease is counted once, and only below the limit.
LEMMA AcquirePool ==
    ASSUME TreeTypeOK, Pool, NEW d \in Delegations, d \notin open,
           MayAcquire, active' = active + 1, open' = open \cup {d}
    PROVE  Pool'
<1>1. IsFiniteSet(open)
  BY OpenFinite
<1>2. Cardinality(open \cup {d}) = Cardinality(open) + 1
  BY <1>1, FS_AddElement, Zenon
<1>3. active \in Nat /\ Limit \in Nat
  BY TreeAssumption DEF TreeTypeOK
<1>4. Cardinality(open') = Cardinality(open) + 1
  BY <1>2
<1> QED BY <1>3, <1>4 DEF Pool, MayAcquire

\* A lease that is given back is no longer counted.
LEMMA ReleasePool ==
    ASSUME TreeTypeOK, Pool, NEW d \in open,
           active' = active - 1, open' = open \ {d}
    PROVE  Pool' /\ active' \in Nat
<1>1. IsFiniteSet(open)
  BY OpenFinite
<1>2. Cardinality(open \ {d}) = Cardinality(open) - 1
  BY <1>1, FS_RemoveElement, Zenon
<1>3. IsFiniteSet(open \ {d})
  BY <1>1, FS_RemoveElement, Zenon
<1>4. Cardinality(open') \in Nat
  BY <1>3, FS_CardinalityType, Zenon
<1>5. Cardinality(open') = Cardinality(open) - 1
  BY <1>2
<1>6. active \in Nat /\ Limit \in Nat
  BY TreeAssumption DEF TreeTypeOK
<1> QED BY <1>4, <1>5, <1>6 DEF Pool

LEMMA EmptyPool ==
    ASSUME active' = 0, open' = {}
    PROVE  Pool'
<1>1. Cardinality({}) = 0
  BY FS_EmptySet, Zenon
<1>2. Cardinality(open') = 0
  BY <1>1
<1> QED BY <1>2, TreeAssumption DEF Pool

-----------------------------------------------------------------------------
(* The actions. *)

LEMMA InitInv == Init => IInv
<1> SUFFICES ASSUME Init PROVE IInv
  OBVIOUS
<1>1. TreeTypeOK
  BY TreeAssumption DEF Init, TreeTypeOK, Runs, Unfinished, Final
<1>2. Pool
  <2>1. Cardinality({}) = 0
    BY FS_EmptySet, Zenon
  <2>2. Cardinality(open) = 0
    BY <2>1 DEF Init
  <2> QED BY <2>2, TreeAssumption DEF Init, Pool
<1>3. Linked /\ Executing
  BY DEF Init, Linked, LinkedAt, Executing, Runs, Delegations, Unfinished
<1>4. Quiet
  BY DEF Init, Quiet
<1>5. NoPhantom /\ RowsAgree /\ ToldAsRecorded
  BY DEF Init, NoPhantom, RowsAgree, ToldAsRecorded
<1> QED BY <1>1, <1>2, <1>3, <1>4, <1>5 DEF IInv

\* What the writing of a delegation does to types and budget.
LEMMA RecordFacts ==
    ASSUME IInv, NEW r \in Runs, NEW d \in Delegations, Record(r, d)
    PROVE  /\ d \notin open /\ exec[d] = "idle" /\ exec[r] = "working"
           /\ boot = "up" /\ ~(0 \in asked /\ exec[0] = "idle")
           /\ parent' \in [Delegations -> Runs] /\ active' \in Nat /\ open' \subseteq Delegations
           /\ run' \in [Runs -> {"none"} \cup Unfinished \cup Final] /\ asked' = asked
           /\ Pool'
<1>1. deleg[d] = "none" /\ exec[r] = "working" /\ boot = "up" /\ MayAcquire
  BY DEF Record, MaySpawn
<1>2. d \notin open /\ exec[d] = "idle"
  BY <1>1 DEF IInv, Linked, LinkedAt
<1>3. ~(0 \in asked /\ exec[0] = "idle")
  BY <1>1, exec[r] # "idle" DEF IInv, Quiet, AllIdle
<1>4. /\ parent' \in [Delegations -> Runs] /\ active' \in Nat /\ open' \subseteq Delegations
      /\ run' \in [Runs -> {"none"} \cup Unfinished \cup Final] /\ asked' = asked
  <2>1. /\ parent \in [Delegations -> Runs] /\ active \in Nat /\ open \subseteq Delegations
        /\ run \in [Runs -> {"none"} \cup Unfinished \cup Final]
    BY DEF IInv, TreeTypeOK
  <2>2. "running" \in {"none"} \cup Unfinished \cup Final
    BY DEF Unfinished
  <2>3. /\ active' = active + 1 /\ open' = open \cup {d} /\ asked' = asked
        /\ parent' = [parent EXCEPT ![d] = r] /\ run' = [run EXCEPT ![d] = "running"]
    BY DEF Record
  <2>4. run' \in [Runs -> {"none"} \cup Unfinished \cup Final]
    <3> DEFINE Statuses == {"none"} \cup Unfinished \cup Final
    <3>1. run \in [Runs -> Statuses] /\ "running" \in Statuses
      BY <2>1, <2>2
    <3> HIDE DEF Statuses
    <3>2. run' \in [Runs -> Statuses]
      BY <3>1, <2>3
    <3> QED BY <3>2 DEF Statuses
  <2>5. parent' \in [Delegations -> Runs]
    BY <2>1, <2>3
  <2>6. active' \in Nat /\ open' \subseteq Delegations /\ asked' = asked
    BY <2>1, <2>3
  <2> QED BY <2>4, <2>5, <2>6
<1>5. Pool'
  BY <1>1, <1>2, AcquirePool DEF IInv, Record
<1> QED BY <1>1, <1>2, <1>3, <1>4, <1>5

LEMMA SpawnInv ==
    ASSUME IInv, NEW r \in Runs, NEW d \in Delegations, Spawn(r, d)
    PROVE  IInv'
<1>0. Record(r, d) /\ d \in Runs
  BY DEF Spawn, Runs
<1>1. /\ d \notin open /\ exec[d] = "idle" /\ exec[r] = "working"
      /\ boot = "up" /\ ~(0 \in asked /\ exec[0] = "idle") /\ Pool'
  BY <1>0, RecordFacts
<1>2. TreeTypeOK'
  BY <1>0, RecordFacts DEF Spawn, IInv, TreeTypeOK, bounds
<1>3. Linked'
  <2> SUFFICES ASSUME NEW e \in Delegations PROVE LinkedAt(e)'
    BY DEF Linked
  <2>1. CASE e = d
    <3>1. parent'[d] = r /\ run'[d] = "running" /\ deleg'[d] = "running" /\ d \in open'
      BY <1>0 DEF Spawn, Record, IInv, TreeTypeOK, Runs
    <3>2. exec'[r] = "working" /\ told'[d] = "none"
      BY <1>0, <1>1 DEF Spawn, IInv, Linked, LinkedAt, TreeTypeOK, Runs
    <3> QED BY <2>1, <3>1, <3>2 DEF LinkedAt
  <2>2. CASE e # d
    BY <2>2, <1>0, <1>1 DEF Spawn, Record, IInv, Linked, LinkedAt, TreeTypeOK, Runs
  <2> QED BY <2>1, <2>2
<1>4. Executing'
  BY <1>0, <1>1 DEF Spawn, Record, IInv, Executing, TreeTypeOK, Runs, Unfinished
<1>5. Quiet'
  BY <1>0, <1>1 DEF Spawn, Record, IInv, Quiet, TreeTypeOK, Runs, Delegations
<1>6. NoPhantom'
  BY <1>0 DEF Spawn, IInv, NoPhantom, TreeTypeOK, Runs
<1>7. RowsAgree'
  BY <1>0, <1>1 DEF Spawn, Record, IInv, RowsAgree, TreeTypeOK, Runs, Unfinished
<1>8. ToldAsRecorded'
  BY <1>0, <1>1 DEF Spawn, Record, IInv, Linked, LinkedAt, ToldAsRecorded, TreeTypeOK
<1> QED BY <1>1, <1>2, <1>3, <1>4, <1>5, <1>6, <1>7, <1>8 DEF IInv

LEMMA SpawnThrowsInv ==
    ASSUME IInv, NEW r \in Runs, NEW d \in Delegations, SpawnThrows(r, d)
    PROVE  IInv'
<1>0. Record(r, d) /\ d \in Runs
  BY DEF SpawnThrows, Runs
<1>1. /\ d \notin open /\ exec[d] = "idle" /\ exec[r] = "working"
      /\ boot = "up" /\ ~(0 \in asked /\ exec[0] = "idle") /\ Pool'
  BY <1>0, RecordFacts
<1>2. TreeTypeOK'
  BY <1>0, RecordFacts DEF SpawnThrows, IInv, TreeTypeOK, runner
<1>3. Linked'
  <2> SUFFICES ASSUME NEW e \in Delegations PROVE LinkedAt(e)'
    BY DEF Linked
  <2>1. CASE e = d
    BY <2>1, <1>0, <1>1 DEF SpawnThrows, Record, IInv, LinkedAt, TreeTypeOK, Runs, runner
  <2>2. CASE e # d
    BY <2>2, <1>0, <1>1 DEF SpawnThrows, Record, IInv, Linked, LinkedAt, TreeTypeOK, Runs, runner
  <2> QED BY <2>1, <2>2
<1>4. Executing'
  BY <1>0, <1>1 DEF SpawnThrows, Record, IInv, Executing, TreeTypeOK, Runs, Unfinished, runner
<1>5. Quiet'
  BY <1>0, <1>1 DEF SpawnThrows, Record, IInv, Quiet, runner
<1>6. NoPhantom'
  BY <1>0 DEF SpawnThrows, IInv, NoPhantom, TreeTypeOK, runner
<1>7. RowsAgree'
  BY <1>0, <1>1 DEF SpawnThrows, Record, IInv, RowsAgree, TreeTypeOK, Runs, Unfinished
<1>8. ToldAsRecorded'
  BY <1>0, <1>1 DEF SpawnThrows, Record, IInv, ToldAsRecorded, TreeTypeOK
<1> QED BY <1>1, <1>2, <1>3, <1>4, <1>5, <1>6, <1>7, <1>8 DEF IInv

LEMMA ReturnInv ==
    ASSUME IInv, NEW d \in Delegations, Return(d)
    PROVE  IInv'
<1>1. Pool' /\ active' \in Nat
  BY ReleasePool DEF Return, IInv
<1>2. TreeTypeOK'
  BY <1>1 DEF Return, IInv, TreeTypeOK, rows, runner, bounds
<1>3. exec[d] = "idle"
  BY DEF Return, IInv, Linked, LinkedAt
<1>4. Linked'
  BY <1>3 DEF Return, IInv, Linked, LinkedAt, TreeTypeOK, rows, runner
<1>5. Executing' /\ NoPhantom' /\ RowsAgree'
  BY DEF Return, IInv, Executing, NoPhantom, RowsAgree, rows, runner
<1>6. Quiet'
  BY DEF Return, IInv, Quiet, AllIdle, rows, runner
<1>7. ToldAsRecorded'
  BY DEF Return, IInv, ToldAsRecorded, TreeTypeOK, rows
<1> QED BY <1>1, <1>2, <1>4, <1>5, <1>6, <1>7 DEF IInv

LEMMA AbortInv ==
    ASSUME IInv, NEW r \in Runs, NEW why \in {"cancel", "limit"}, Abort(r, why)
    PROVE  IInv'
<1>1. TreeTypeOK'
  BY DEF Abort, IInv, TreeTypeOK, budget, bounds
<1>2. Pool' /\ Linked' /\ Executing' /\ NoPhantom' /\ RowsAgree' /\ ToldAsRecorded'
  BY DEF Abort, IInv, Pool, Linked, LinkedAt, Executing, NoPhantom, RowsAgree, ToldAsRecorded,
         budget
<1>3. Quiet'
  BY DEF Abort, IInv, Quiet, AllIdle, budget
<1> QED BY <1>1, <1>2, <1>3 DEF IInv

LEMMA AnswerInv ==
    ASSUME IInv, NEW r \in Runs, Answer(r)
    PROVE  IInv'
<1>1. TreeTypeOK' /\ exec[r] = "working"
  BY DEF Answer, IInv, TreeTypeOK, rows, budget, bounds
<1>2. \A x \in Runs : exec'[x] = "idle" <=> exec[x] = "idle"
  BY <1>1 DEF Answer, IInv, TreeTypeOK
<1>3. Pool' /\ RowsAgree' /\ ToldAsRecorded'
  BY DEF Answer, IInv, Pool, RowsAgree, ToldAsRecorded, rows, budget
<1>4. Linked' /\ Executing' /\ NoPhantom'
  BY <1>2 DEF Answer, IInv, Linked, LinkedAt, Executing, NoPhantom, TreeTypeOK, Runs, rows, budget
<1>5. Quiet'
  BY <1>2 DEF Answer, IInv, Quiet, AllIdle, Runs, rows, budget
<1> QED BY <1>1, <1>3, <1>4, <1>5 DEF IInv

\* A question and its answer move a run between its two unfinished statuses.
LEMMA QuestionInv ==
    ASSUME IInv, NEW r \in Runs, Ask(r) \/ Reply(r)
    PROVE  IInv'
<1>1. /\ exec[r] = "working" /\ asked' \subseteq asked \cup {r}
      /\ \E next \in Unfinished : run' = [run EXCEPT ![r] = next]
      /\ UNCHANGED <<deleg, parent, runner, budget, boot, lost, bounds>>
  BY DEF Ask, Reply, Unfinished
<1>2. PICK next \in Unfinished : run' = [run EXCEPT ![r] = next]
  BY <1>1
<1>3. TreeTypeOK'
  BY <1>1, <1>2 DEF IInv, TreeTypeOK, runner, budget, bounds
<1>4. Pool' /\ NoPhantom'
  BY <1>1 DEF IInv, Pool, NoPhantom, runner, budget
<1>5. Linked' /\ Executing'
  BY <1>1, <1>2 DEF IInv, Linked, LinkedAt, Executing, TreeTypeOK, Runs, Unfinished, runner, budget
<1>6. Quiet'
  BY <1>1 DEF IInv, Quiet, AllIdle, runner, budget
<1>7. r \in Delegations => deleg[r] = "running" /\ told[r] = "none"
  BY <1>1 DEF IInv, Linked, LinkedAt
<1>8. RowsAgree' /\ ToldAsRecorded'
  BY <1>1, <1>2, <1>7 DEF IInv, RowsAgree, ToldAsRecorded, TreeTypeOK, Runs, budget
<1> QED BY <1>3, <1>4, <1>5, <1>6, <1>8 DEF IInv

LEMMA CrashInv ==
    ASSUME IInv, Crash
    PROVE  IInv'
<1>1. TreeTypeOK'
  BY DEF Crash, IInv, TreeTypeOK, rows
<1>2. Pool'
  BY EmptyPool DEF Crash
<1>3. Linked' /\ Executing' /\ Quiet'
  BY DEF Crash, IInv, Linked, LinkedAt, Executing, Quiet, AllIdle, Runs, rows
<1>4. NoPhantom' /\ RowsAgree' /\ ToldAsRecorded'
  BY DEF Crash, IInv, NoPhantom, RowsAgree, ToldAsRecorded, rows
<1> QED BY <1>1, <1>2, <1>3, <1>4 DEF IInv

LEMMA RecoverRunsInv ==
    ASSUME IInv, RecoverRuns
    PROVE  IInv'
<1>1. AllIdle
  BY DEF RecoverRuns, IInv, Quiet
<1>2. TreeTypeOK'
  BY DEF RecoverRuns, IInv, TreeTypeOK, Final, Unfinished, runner, budget, bounds
<1>3. Pool' /\ Linked' /\ Executing' /\ Quiet'
  BY <1>1 DEF RecoverRuns, IInv, AllIdle, Pool, Linked, LinkedAt, Executing, Quiet, TreeTypeOK, Runs,
              runner, budget
<1>4. NoPhantom' /\ ToldAsRecorded'
  BY <1>1 DEF RecoverRuns, AllIdle, NoPhantom, ToldAsRecorded, budget
<1>5. RowsAgree'
  BY DEF RecoverRuns, IInv, RowsAgree, TreeTypeOK, Runs, Unfinished
<1> QED BY <1>2, <1>3, <1>4, <1>5 DEF IInv

LEMMA RecoverDelegationInv ==
    ASSUME IInv, NEW d \in Delegations, RecoverDelegation(d)
    PROVE  IInv'
<1>1. AllIdle /\ boot = "delegations" /\ d \in Runs
  BY DEF RecoverDelegation, IInv, Quiet, Runs
<1>2. TreeTypeOK'
  BY DEF RecoverDelegation, Converged, IInv, TreeTypeOK, runner, budget, bounds
<1>3. Pool' /\ Linked' /\ Executing' /\ Quiet'
  BY <1>1 DEF RecoverDelegation, IInv, AllIdle, Pool, Linked, LinkedAt, Executing, Quiet, TreeTypeOK,
              runner, budget
<1>4. NoPhantom' /\ ToldAsRecorded'
  BY <1>1 DEF RecoverDelegation, AllIdle, NoPhantom, ToldAsRecorded, budget
<1>5. run[d] \in Unfinished \cup Final
  BY <1>1 DEF RecoverDelegation, IInv, Linked, LinkedAt, TreeTypeOK
<1>6. RowsAgree'
  BY <1>5 DEF RecoverDelegation, Converged, IInv, RowsAgree, TreeTypeOK, Unfinished, Final
<1> QED BY <1>2, <1>3, <1>4, <1>6 DEF IInv

LEMMA RecoveredInv ==
    ASSUME IInv, Recovered
    PROVE  IInv'
<1>1. TreeTypeOK'
  BY DEF Recovered, IInv, TreeTypeOK, rows, runner, budget, bounds
<1>2. Pool' /\ Linked' /\ Executing' /\ Quiet'
  BY DEF Recovered, IInv, Pool, Linked, LinkedAt, Executing, Quiet, AllIdle, rows, runner, budget
<1>3. NoPhantom' /\ RowsAgree' /\ ToldAsRecorded'
  BY DEF Recovered, IInv, NoPhantom, RowsAgree, ToldAsRecorded, rows, budget
<1> QED BY <1>1, <1>2, <1>3 DEF IInv

\* The run that is resumed finds nothing of its tree unsettled.
LEMMA ResumeInv ==
    ASSUME IInv, Resume
    PROVE  IInv'
<1>0. 0 \in Runs /\ 0 \notin Delegations
  BY TreeAssumption DEF Runs, Delegations
<1>1. AllIdle /\ \A d \in Delegations : deleg[d] # "running"
  BY DEF Resume, IInv, Quiet
<1>2. active' = 0
  <2>1. {d \in Delegations : deleg[d] = "running"} = {}
    BY <1>1
  <2>2. Cardinality({}) = 0
    BY FS_EmptySet, Zenon
  <2> QED BY <2>1, <2>2 DEF Resume
<1>3. Pool'
  BY <1>1, <1>2, EmptyPool DEF Resume, AllIdle
<1>4. TreeTypeOK'
  BY <1>2, <1>0 DEF Resume, IInv, TreeTypeOK, Unfinished, bounds
<1>5. Linked' /\ Executing' /\ Quiet'
  BY <1>0, <1>1 DEF Resume, IInv, AllIdle, Linked, LinkedAt, Executing, Quiet, TreeTypeOK, Unfinished
<1>6. NoPhantom' /\ RowsAgree' /\ ToldAsRecorded'
  BY <1>0, <1>1 DEF Resume, IInv, AllIdle, NoPhantom, RowsAgree, ToldAsRecorded, TreeTypeOK
<1> QED BY <1>3, <1>4, <1>5, <1>6 DEF IInv

\* The end of a run: its own row, the row of its delegation and the promise.
LEMMA FinishInv ==
    ASSUME IInv, NEW r \in Runs, NEW saved \in BOOLEAN, NEW written \in BOOLEAN,
           Finish(r, saved, written)
    PROVE  IInv'
<1> PICK decision \in Decisions(r) :
       /\ run' = IF saved THEN [run EXCEPT ![r] = decision] ELSE run
       /\ IF r \in Delegations
          THEN Settle(r, IF saved THEN decision ELSE "failed", written)
          ELSE written /\ UNCHANGED <<deleg, lost, told>>
  BY DEF Finish
<1> DEFINE outcome == IF saved THEN decision ELSE "failed"
<1>1. /\ exec[r] # "idle" /\ r \notin asked /\ exec' = [exec EXCEPT ![r] = "idle"]
      /\ \A d \in open : parent[d] # r
      /\ UNCHANGED <<parent, asked, open, active, boot, crashes>>
  BY DEF Finish, Children
<1>2. decision \in {"completed", "cancelled", "failed"}
  BY DEF Decisions
<1>3. /\ outcome \in {"completed", "cancelled", "failed"}
      /\ outcome \in {"completed", "cancelled"} => saved /\ outcome = decision
  BY <1>2
<1>4. /\ exec'[r] = "idle" /\ \A x \in Runs : x # r => exec'[x] = exec[x]
      /\ run[r] \in Unfinished
      /\ run' \in [Runs -> {"none"} \cup Unfinished \cup Final]
      /\ run'[r] = IF saved THEN decision ELSE run[r]
      /\ \A x \in Runs : x # r => run'[x] = run[x]
  BY <1>1, <1>2 DEF IInv, Executing, TreeTypeOK, Final
<1>5. /\ deleg' \in [Delegations -> {"none", "running", "completed", "failed", "cancelled"}]
      /\ told' \in [Delegations -> {"none", "result", "error"}]
      /\ lost' \subseteq Delegations
      /\ \A d \in Delegations : d # r =>
            deleg'[d] = deleg[d] /\ told'[d] = told[d] /\ (d \in lost => d \in lost')
  BY <1>3 DEF Settle, IInv, TreeTypeOK
<1>6. ASSUME r \in Delegations
      PROVE  /\ deleg[r] = "running" /\ r \in open
             /\ deleg'[r] = IF written THEN outcome ELSE "running"
             /\ written \/ r \in lost'
             /\ told'[r] = IF outcome = "completed" /\ written THEN "result" ELSE "error"
  BY <1>1, <1>6 DEF Settle, IInv, Linked, LinkedAt, TreeTypeOK
<1>7. TreeTypeOK'
  <2>1. writeFailures' \in Nat
    BY DEF Finish, IInv, TreeTypeOK
  <2> QED BY <1>1, <1>4, <1>5, <2>1 DEF Finish, IInv, TreeTypeOK
<1>8. Pool'
  BY <1>1 DEF IInv, Pool
<1>9. Linked'
  <2> SUFFICES ASSUME NEW d \in Delegations PROVE LinkedAt(d)'
    BY DEF Linked
  <2>0. d \in Runs /\ parent[d] \in Runs /\ LinkedAt(d)
    BY DEF Runs, IInv, TreeTypeOK, Linked
  <2>1. CASE d = r
    BY <2>0, <2>1, <1>1, <1>2, <1>3, <1>4, <1>6 DEF LinkedAt, Unfinished
  <2>2. CASE d # r
    BY <2>0, <2>2, <1>1, <1>4, <1>5 DEF LinkedAt
  <2> QED BY <2>1, <2>2
<1>10. Executing'
  BY <1>4 DEF IInv, Executing
<1>11. Quiet'
  <2>1. boot = "up" /\ ~(0 \in asked /\ exec[0] = "idle")
    BY <1>1 DEF IInv, Quiet, AllIdle
  <2>2. ~(0 \in asked' /\ exec'[0] = "idle")
    BY <2>1, <1>1, <1>4 DEF IInv, TreeTypeOK, Runs
  <2> QED BY <2>1, <2>2, <1>1 DEF Quiet
<1>12. NoPhantom'
  <2> SUFFICES ASSUME NEW d \in Delegations, boot' = "up", deleg'[d] = "running"
               PROVE  exec'[d] # "idle" \/ d \in lost'
    BY DEF NoPhantom
  <2>1. CASE d = r
    BY <2>1, <1>3, <1>6
  <2>2. CASE d # r
    BY <2>2, <1>1, <1>4, <1>5 DEF IInv, NoPhantom, Runs
  <2> QED BY <2>1, <2>2
<1>13. RowsAgree'
  <2> SUFFICES ASSUME NEW d \in Delegations
               PROVE  /\ deleg'[d] \in {"completed", "cancelled"} => run'[d] = deleg'[d]
                      /\ deleg'[d] = "failed" => run'[d] \in {"failed", "interrupted"} \cup Unfinished
    BY DEF RowsAgree, Unfinished
  <2>1. CASE d = r
    BY <2>1, <1>2, <1>3, <1>4, <1>6 DEF Unfinished
  <2>2. CASE d # r
    BY <2>2, <1>4, <1>5 DEF IInv, RowsAgree, Runs
  <2> QED BY <2>1, <2>2
<1>14. ToldAsRecorded'
  <2> SUFFICES ASSUME NEW d \in Delegations, d \in open
               PROVE  /\ told'[d] = "result" => deleg'[d] = "completed" /\ run'[d] = "completed"
                      /\ told'[d] = "error" => deleg'[d] # "completed"
    BY <1>1 DEF ToldAsRecorded, IInv, TreeTypeOK
  <2>1. CASE d = r
    BY <2>1, <1>3, <1>4, <1>6
  <2>2. CASE d # r
    BY <2>2, <1>4, <1>5 DEF IInv, ToldAsRecorded, Runs
  <2> QED BY <2>1, <2>2
<1> QED BY <1>7, <1>8, <1>9, <1>10, <1>11, <1>12, <1>13, <1>14 DEF IInv

-----------------------------------------------------------------------------
(* The theorems. *)

LEMMA StepInv == IInv /\ [Next]_vars => IInv'
<1> SUFFICES ASSUME IInv, [Next]_vars PROVE IInv'
  OBVIOUS
<1>1. ASSUME NEW r \in Runs, NEW d \in Delegations, Spawn(r, d) \/ SpawnThrows(r, d)
      PROVE  IInv'
  BY <1>1, SpawnInv, SpawnThrowsInv
<1>2. ASSUME NEW d \in Delegations, Return(d) \/ RecoverDelegation(d)
      PROVE  IInv'
  BY <1>2, ReturnInv, RecoverDelegationInv
<1>3. ASSUME NEW r \in Runs, Cancel(r) \/ Expire(r)
      PROVE  IInv'
  BY <1>3, AbortInv DEF Cancel, Expire
<1>4. ASSUME NEW r \in Runs, Answer(r) \/ Ask(r) \/ Reply(r)
      PROVE  IInv'
  BY <1>4, AnswerInv, QuestionInv
<1>5. ASSUME NEW r \in Runs, NEW saved \in BOOLEAN, NEW written \in BOOLEAN,
             Finish(r, saved, written)
      PROVE  IInv'
  BY <1>5, FinishInv
<1>6. CASE Crash \/ RecoverRuns \/ Recovered \/ Resume
  BY <1>6, CrashInv, RecoverRunsInv, RecoveredInv, ResumeInv
<1>7. CASE UNCHANGED vars
  BY <1>7 DEF vars, rows, runner, budget, bounds, IInv, TreeTypeOK, Pool, Linked, LinkedAt, Executing,
              Quiet, AllIdle, NoPhantom, RowsAgree, ToldAsRecorded
<1> QED BY <1>1, <1>2, <1>3, <1>4, <1>5, <1>6, <1>7 DEF Next

\* The invariant holds in every reachable state.
LEMMA Invariant == Spec => []IInv
<1>1. Init => IInv
  BY InitInv
<1>2. IInv /\ [Next]_vars => IInv'
  BY StepInv
<1> QED BY <1>1, <1>2, PTL DEF Spec

\* Every variable keeps its type.
THEOREM TypeCorrect == Spec => []TreeTypeOK
<1>1. IInv => TreeTypeOK
  BY DEF IInv
<1> QED BY <1>1, Invariant, PTL

\* The coordinator counts exactly the leases that are out, within the limit:
\* DelegationBudgetCoordinator over spawning, settlement, crash and resumption.
THEOREM ExactBudget == Spec => []BudgetExact
<1>1. IInv => BudgetExact
  BY DEF IInv, Pool, BudgetExact
<1> QED BY <1>1, Invariant, PTL

\* The delegation, its child run and the waiting call never contradict each
\* other, whoever settles the delegation.
THEOREM OneStory == Spec => []SameStory
<1>1. IInv => SameStory
  BY DEF IInv, SameStory
<1> QED BY <1>1, Invariant, PTL

\* No sub-agent and no lease outlives the run it works for.
THEOREM NobodyOutlivesItsParent == Spec => []BottomUp
<1>1. IInv => BottomUp
  BY DEF IInv, Linked, LinkedAt, BottomUp
<1> QED BY <1>1, Invariant, PTL

=============================================================================
