---------------------------- MODULE MutationLocks ----------------------------
(***************************************************************************)
(* RootMutationCoordinator: the fair conflict locks that order the mutating *)
(* tool calls of one delegation tree.                                       *)
(*                                                                          *)
(* An operation is one call of run().  It registers an entry, remembers the *)
(* conflicting entries registered before it, and executes when all of them  *)
(* have settled.  An aborted waiter fails at once for its caller, but its   *)
(* entry stays until its own predecessors have settled.                     *)
(***************************************************************************)
EXTENDS Naturals, Sequences, SequencesExt

CONSTANTS
  Ops,        \* the calls of run(), each made at most once
  Footprints  \* the key sets a call may declare; a key is a path, a sequence
              \* of segments, and the empty set is an unknown footprint

ASSUME FootprintsAssumption ==
  \A f \in Footprints : \A p \in f : p \in Seq(STRING)

VARIABLES
  phase,     \* where each call of run() stands
  keys,      \* options.keys of each registered call
  ahead,     \* predecessors: the entries a call waits for
  aborted,   \* options.signal of each call has fired
  arrival,   \* history: the position at which each call registered
  clock      \* history: the number of registrations

vars == <<phase, keys, ahead, aborted, arrival, clock>>

\* "cancelled" is a rejected waiter whose entry still holds its place;
\* "done" has left the pending set, or was refused before entering it.
Phases == {"idle", "waiting", "cancelled", "running", "done"}

Pending == {o \in Ops : phase[o] \in {"waiting", "cancelled", "running"}}

Overlap(p, q) == IsPrefix(p, q) \/ IsPrefix(q, p)

ResourcesConflict(a, b) ==
  \/ a = {}
  \/ b = {}
  \/ \E p \in a, q \in b : Overlap(p, q)

Settled(o) == ahead[o] \cap Pending = {}

Init ==
  /\ phase = [o \in Ops |-> "idle"]
  /\ keys = [o \in Ops |-> {}]
  /\ ahead = [o \in Ops |-> {}]
  /\ aborted = [o \in Ops |-> FALSE]
  /\ arrival = [o \in Ops |-> 0]
  /\ clock = 0

\* run() on a signal that already fired throws before it registers anything.
Refuse(o) ==
  /\ phase[o] = "idle"
  /\ aborted[o]
  /\ phase' = [phase EXCEPT ![o] = "done"]
  /\ UNCHANGED <<keys, ahead, aborted, arrival, clock>>

Enter(o, footprint, predecessors) ==
  /\ phase[o] = "idle"
  /\ ~aborted[o]
  /\ keys' = [keys EXCEPT ![o] = footprint]
  /\ ahead' = [ahead EXCEPT ![o] = predecessors]
  /\ clock' = clock + 1
  /\ arrival' = [arrival EXCEPT ![o] = clock + 1]
  /\ phase' = [phase EXCEPT ![o] =
                 IF predecessors = {} THEN "running" ELSE "waiting"]
  /\ UNCHANGED aborted

\* Mutant of Register: only the operations executing now are waited for.
RegisterBehindHolders(o, footprint) ==
  Enter(o, footprint, {p \in Pending : phase[p] = "running"
                                      /\ ResourcesConflict(keys[p], footprint)})

\* run() registers; without predecessors the operation starts in the same turn.
Register(o, footprint) ==
  Enter(o, footprint, {p \in Pending : ResourcesConflict(keys[p], footprint)})

\* ready won the race and the signal is still quiet: operation() is called.
Start(o) ==
  /\ phase[o] = "waiting"
  /\ Settled(o)
  /\ ~aborted[o]
  /\ phase' = [phase EXCEPT ![o] = "running"]
  /\ UNCHANGED <<keys, ahead, aborted, arrival, clock>>

\* ready won, but onWait threw: the finally block releases an operation that
\* never ran.
StartFails(o) ==
  /\ phase[o] = "waiting"
  /\ Settled(o)
  /\ phase' = [phase EXCEPT ![o] = "done"]
  /\ UNCHANGED <<keys, ahead, aborted, arrival, clock>>

\* operation() settled, with a result or an error: ready is already resolved,
\* so the entry leaves and releases its successors.
Finish(o) ==
  /\ phase[o] = "running"
  /\ phase' = [phase EXCEPT ![o] = "done"]
  /\ UNCHANGED <<keys, ahead, aborted, arrival, clock>>

\* The signal fires.  A waiter is rejected and keeps its place; a running
\* operation settles by itself, in its own time.
Abort(o) ==
  /\ ~aborted[o]
  /\ phase[o] # "done"
  /\ aborted' = [aborted EXCEPT ![o] = TRUE]
  /\ phase' = [phase EXCEPT ![o] = IF @ = "waiting" THEN "cancelled" ELSE @]
  /\ UNCHANGED <<keys, ahead, arrival, clock>>

\* Mutant of Leave: the finally block forgets an entry that never ran.
LeaveForgotten(o) == phase[o] = "cancelled" /\ Settled(o) /\ UNCHANGED vars

\* A cancelled waiter's predecessors have settled: its entry leaves.
Leave(o) ==
  /\ phase[o] = "cancelled"
  /\ Settled(o)
  /\ phase' = [phase EXCEPT ![o] = "done"]
  /\ UNCHANGED <<keys, ahead, aborted, arrival, clock>>

\* Every call has returned: nothing is left to do.
AllDone == (\A o \in Ops : phase[o] = "done") /\ UNCHANGED vars

Next ==
  \/ \E o \in Ops, f \in Footprints : Register(o, f)
  \/ \E o \in Ops :
       \/ Refuse(o) \/ Start(o) \/ StartFails(o)
       \/ Finish(o) \/ Abort(o) \/ Leave(o)
  \/ AllDone

\* Promise continuations run (ready is awaited by the event loop) and every
\* tool operation settles, by its result, its timeout or its abort.
Fairness ==
  /\ \A o \in Ops : WF_vars(Start(o))
  /\ \A o \in Ops : WF_vars(Finish(o))
  /\ \A o \in Ops : WF_vars(Leave(o))

Spec == Init /\ [][Next]_vars
FairSpec == Spec /\ Fairness

-----------------------------------------------------------------------------
\* Every variable keeps its shape: phases, declared keys, entries and positions.
TypeOK ==
  /\ phase \in [Ops -> Phases]
  /\ keys \in [Ops -> Footprints \cup {{}}]
  /\ ahead \in [Ops -> SUBSET Ops]
  /\ aborted \in [Ops -> BOOLEAN]
  /\ arrival \in [Ops -> Nat]
  /\ clock \in Nat

\* Two conflicting mutations of one tree never execute at the same time
\* (RootMutationCoordinator.run): an unknown footprint is alone.
MutualExclusion ==
  \A o, p \in Ops :
    /\ o # p
    /\ phase[o] = "running"
    /\ phase[p] = "running"
    => ~ResourcesConflict(keys[o], keys[p])

\* No running mutation has overtaken a conflicting one that registered before
\* it, not even one whose caller gave up waiting: the entry is really gone.
NoOvertaking ==
  \A o, p \in Ops :
    /\ phase[o] = "running"
    /\ p \in Pending
    /\ arrival[p] < arrival[o]
    => ~ResourcesConflict(keys[o], keys[p])

\* A call aborted while it waited never executes its operation (the second
\* throwIfAborted of run()).
CancelledNeverRuns ==
  [][\A o \in Ops :
       /\ phase[o] \in {"waiting", "cancelled"}
       /\ aborted[o]
       => phase'[o] # "running"]_vars

\* Locks are fair: a call that registered and is not aborted executes (or is
\* released by a failing onWait), whatever arrives after it.
EveryWaiterProceeds ==
  \A o \in Ops : phase[o] \in {"waiting", "cancelled"} ~> phase[o] \in {"running", "done"}

\* The mapping to ConflictLock: cancelled entries keep standing until they leave.
StageName ==
  [idle |-> "new", waiting |-> "standing", cancelled |-> "standing",
   running |-> "holding", done |-> "gone"]

StageOf == [o \in Ops |-> StageName[phase[o]]]

Lock == INSTANCE ConflictLock WITH
  stage <- StageOf, place <- arrival, wants <- keys, last <- clock,
  Conflict <- ResourcesConflict

\* The coordinator implements the abstract fair conflict lock.
ImplementsLock == Lock!Spec
=============================================================================
