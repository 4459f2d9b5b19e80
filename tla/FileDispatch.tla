---------------------------- MODULE FileDispatch -----------------------------
(***************************************************************************)
(* The bounded FIFO file executor of the Rust System Runtime: one dispatcher *)
(* thread takes jobs in order; reads run on at most ReadSlots threads, a     *)
(* mutation waits for every read before it and runs on the dispatcher itself.*)
(* The IPC main thread submits and cancels, and is never blocked.            *)
(***************************************************************************)
EXTENDS Naturals, Sequences, FiniteSets

CONSTANTS
  Reads,       \* jobs whose method is file.read, read_binary, list, glob, grep
  Mutations,   \* jobs of every other file.* method
  QueueLimit,  \* capacity of the channel (64 in the code)
  ReadSlots,   \* read threads at a time (4 in the code)
  None         \* the dispatcher holds no job

ASSUME DispatchAssumption ==
  /\ Reads \cap Mutations = {}
  /\ None \notin Reads \cup Mutations
  /\ QueueLimit \in Nat \ {0}
  /\ ReadSlots \in Nat \ {0}

Jobs == Reads \cup Mutations

VARIABLES
  state,      \* of each job: see States
  outcome,    \* what its response says
  channel,    \* the jobs sent to the dispatcher and not yet received
  hand,       \* the job the dispatcher has received and not yet disposed of
  readers,    \* the jobs whose join handles the dispatcher holds
  active,     \* the ACTIVE map: jobs a cancel can still reach
  cancelled,  \* the unfinished jobs whose cancellation flag is set
  seat,       \* the position at which a job was accepted
  seats       \* the number of accepted jobs

vars == <<state, outcome, channel, hand, readers, active, cancelled, seat, seats>>

States == {"new", "queued", "spawned", "executing", "finished"}
Outcomes == {"none", "busy", "cancelled", "ran"}

Init ==
  /\ state = [j \in Jobs |-> "new"]
  /\ outcome = [j \in Jobs |-> "none"]
  /\ channel = <<>>
  /\ hand = None
  /\ readers = {}
  /\ active = {}
  /\ cancelled = {}
  /\ seat = [j \in Jobs |-> 0]
  /\ seats = 0

\* The map entry and the job, which hold the flag, are dropped.
Respond(j, how) ==
  /\ state' = [state EXCEPT ![j] = "finished"]
  /\ outcome' = [outcome EXCEPT ![j] = how]
  /\ active' = active \ {j}
  /\ cancelled' = cancelled \ {j}

\* Mutant of Unfinished: a cancelled thread is never seen to end.
UnfinishedForever(j) == state[j] # "finished" \/ outcome[j] = "cancelled"

Unfinished(j) == state[j] # "finished"

Accept(j, line) ==
  /\ state' = [state EXCEPT ![j] = "queued"]
  /\ channel' = line
  /\ active' = active \cup {j}
  /\ seats' = seats + 1
  /\ seat' = [seat EXCEPT ![j] = seats + 1]
  /\ UNCHANGED <<outcome, cancelled>>

\* Mutant of Submit: the newest job goes first.
SubmitLifo(j) ==
  /\ state[j] = "new" /\ Len(channel) < QueueLimit
  /\ Accept(j, <<j>> \o channel) /\ UNCHANGED <<hand, readers>>

\* submit(): a full channel is answered "busy" and nothing is executed.
Submit(j) ==
  /\ state[j] = "new"
  /\ \/ Len(channel) < QueueLimit /\ Accept(j, Append(channel, j))
     \/ /\ Len(channel) = QueueLimit
        /\ Respond(j, "busy")
        /\ UNCHANGED <<channel, seat, seats>>
  /\ UNCHANGED <<hand, readers>>

\* cancel(): sets the flag of a job the map still holds, and does nothing else.
Cancel(j) ==
  /\ j \in active
  /\ cancelled' = cancelled \cup {j}
  /\ UNCHANGED <<state, outcome, channel, hand, readers, active, seat, seats>>

Receive ==
  /\ hand = None
  /\ channel # <<>>
  /\ hand' = Head(channel)
  /\ channel' = Tail(channel)
  /\ UNCHANGED <<state, outcome, readers, active, cancelled, seat, seats>>

StartThread(kept) ==
  /\ hand \in Reads
  /\ readers' = {j \in kept \cup {hand} : Unfinished(j)}
  /\ state' = [state EXCEPT ![hand] = "spawned"]
  /\ hand' = None
  /\ UNCHANGED <<outcome, channel, active, cancelled, seat, seats>>

\* Handles are kept in the order of their jobs.
Oldest(j) == j \in readers /\ \A i \in readers : seat[j] <= seat[i]

\* A read gets a thread; with every slot taken the oldest one is joined first.
SpawnRead ==
  \/ Cardinality(readers) < ReadSlots /\ StartThread(readers)
  \/ /\ Cardinality(readers) = ReadSlots
     /\ \E j \in readers : Oldest(j) /\ ~Unfinished(j) /\ StartThread(readers \ {j})

\* execute() looks at the flag once, then calls the handler.
Begin(j) ==
  \/ j \in cancelled /\ Respond(j, "cancelled")
  \/ /\ j \notin cancelled
     /\ state' = [state EXCEPT ![j] = "executing"]
     /\ UNCHANGED <<outcome, active, cancelled>>

BeginRead(j) ==
  /\ state[j] = "spawned"
  /\ Begin(j)
  /\ UNCHANGED <<channel, hand, readers, seat, seats>>

\* Mutant of Joined: only the oldest read thread is joined.
JoinedOne == \A j \in readers : Oldest(j) => ~Unfinished(j)

\* The drain of the read handles has joined them all.
Joined == \A j \in readers : ~Unfinished(j)

\* A mutation joins every read thread, then runs on the dispatcher thread; one
\* found cancelled is answered and the dispatcher goes on.
BeginMutation ==
  /\ hand \in Mutations
  /\ state[hand] = "queued"
  /\ Joined
  /\ readers' = {}
  /\ Begin(hand)
  /\ hand' = IF hand \in cancelled THEN None ELSE hand
  /\ UNCHANGED <<channel, seat, seats>>

\* The handler of a read returns, or notices the flag (check_cancelled).
EndRead(j) ==
  /\ j \in Reads
  /\ state[j] = "executing"
  /\ \/ Respond(j, "ran")
     \/ j \in cancelled /\ Respond(j, "cancelled")
  /\ UNCHANGED <<channel, hand, readers, seat, seats>>

\* No mutation handler looks at the flag: once begun it runs to its end.
EndMutation ==
  /\ hand \in Mutations
  /\ state[hand] = "executing"
  /\ Respond(hand, "ran")
  /\ hand' = None
  /\ UNCHANGED <<channel, readers, seat, seats>>

Dispatcher == Receive \/ SpawnRead \/ BeginMutation \/ EndMutation
ReadThread(j) == BeginRead(j) \/ EndRead(j)

AllAnswered == (\A j \in Jobs : state[j] = "finished") /\ UNCHANGED vars

Next ==
  \/ \E j \in Jobs : Submit(j) \/ Cancel(j)
  \/ Dispatcher
  \/ \E j \in Reads : ReadThread(j)
  \/ AllAnswered

\* Threads are scheduled and handlers return; nobody is obliged to submit.
Fairness == WF_vars(Dispatcher) /\ \A j \in Reads : WF_vars(ReadThread(j))

Spec == Init /\ [][Next]_vars
FairSpec == Spec /\ Fairness

-----------------------------------------------------------------------------
Executing == {j \in Jobs : state[j] = "executing"}

\* Every variable keeps its shape; the channel its capacity, and the read
\* threads their limit.
TypeOK ==
  /\ state \in [Jobs -> States]
  /\ outcome \in [Jobs -> Outcomes]
  /\ channel \in Seq(Jobs) /\ Len(channel) <= QueueLimit
  /\ hand \in Jobs \cup {None}
  /\ readers \subseteq Reads /\ Cardinality(readers) <= ReadSlots
  /\ active \subseteq Jobs
  /\ cancelled \subseteq Jobs
  /\ seat \in [Jobs -> Nat]
  /\ seats \in Nat

\* A mutation executes alone (dispatch::sender): no read and no other mutation
\* has its handler running meanwhile.
MutationsAlone ==
  \A j \in Executing \cap Mutations : Executing = {j}

Begun(j) == state[j] = "executing" \/ outcome[j] = "ran"

\* Program order is what a client sees: a job that has begun was accepted, never
\* refused as busy; it is past every accepted mutation before it, and a mutation
\* is past every job before it.
SubmissionOrder ==
  \A j \in Jobs : Begun(j) =>
    /\ seat[j] # 0
    /\ \A i \in Jobs :
         seat[i] \in 1..seat[j] - 1 /\ (i \in Mutations \/ j \in Mutations)
         => state[i] = "finished"

\* Every accepted job is answered: no join blocks the dispatcher for ever.
EveryJobAnswered ==
  \A j \in Jobs : state[j] = "queued" ~> state[j] = "finished"

\* The mapping to ConflictLock: an accepted job stands until its handler runs,
\* and a mutation conflicts with everything.
Footprint(j) == IF j \in Mutations THEN {"write"} ELSE {"read"}

Exclusive(f, g) == "write" \in f \cup g

StageName ==
  [new |-> "new", queued |-> "standing", spawned |-> "standing",
   executing |-> "holding", finished |-> "gone"]

StageOf == [j \in Jobs |-> StageName[state[j]]]

Wanted == [j \in Jobs |-> IF seat[j] = 0 THEN {} ELSE Footprint(j)]

Lock == INSTANCE ConflictLock WITH
  Ops <- Jobs, Footprints <- {{"read"}, {"write"}}, Conflict <- Exclusive,
  stage <- StageOf, place <- seat, wants <- Wanted, last <- seats

\* The executor implements the abstract lock that the delegation coordinator
\* implements too: the dispatcher, its channel and its joins amount to a fair
\* lock with shared reads.
ImplementsLock == Lock!Spec
=============================================================================
