------------------------------- MODULE SystemLink -------------------------------
(***************************************************************************)
(* SystemRuntimeClient (apps/runtime/src/system.ts): the owner of the Rust *)
(* sidecar process.  It spawns one process per generation, waits for its   *)
(* handshake, restarts it a limited number of times, correlates requests   *)
(* with replies, and settles what a dead, slow or stopped process leaves   *)
(* unanswered.                                                             *)
(*                                                                         *)
(* The sidecar itself is what the client can tell of it: a request that    *)
(* reached a live process takes effect at most once, or is refused without *)
(* effect, or is dropped by a cancellation that comes in time.             *)
(***************************************************************************)
EXTENDS Naturals, FiniteSets

CONSTANTS
    Requests,         \* request identifiers, never reused
    MaxRestarts,      \* MAX_RESTARTS
    MaxGenerations,   \* bound: processes spawned
    MaxKillFailures   \* bound: child.kill() that ends in an 'error' event

ASSUME LinkAssumption ==
    /\ MaxRestarts \in Nat /\ MaxKillFailures \in Nat
    /\ MaxGenerations \in Nat \ {0}

VARIABLES
    \* SystemRuntimeClient
    status,
    generation,
    child,        \* generation of the process it holds, 0 for null
    restarts,
    timers,       \* restart timers that are armed
    handshake,    \* generation of the armed handshake timer, or 0
    stopping,
    closing,      \* generation of the process shutdown() waits for, or 0
    outcome,      \* how a request was settled; "waiting" while in pending
    \* the processes
    proc,
    to,           \* the generation a request was written to
    work,         \* what became of it there
    \* bound
    killFailures

client == <<status, generation, child, restarts, timers, handshake, stopping,
            closing>>
linkVars == <<client, outcome, proc, to, work, killFailures>>

Generations == 1..MaxGenerations

Alive(g) == g \in Generations /\ proc[g] \in {"booting", "serving"}

Waiting == {r \in Requests : outcome[r] = "waiting"}

LinkInit ==
    /\ status = "starting" /\ generation = 0 /\ child = 0
    /\ restarts = 0 /\ timers = 0 /\ handshake = 0 /\ stopping = FALSE
    /\ closing = 0
    /\ outcome = [r \in Requests |-> "none"]
    /\ proc = [g \in Generations |-> "none"]
    /\ to = [r \in Requests |-> 0]
    /\ work = [r \in Requests |-> "none"]
    /\ killFailures = 0

--------------------------------------------------------------------------------
(* Processes. *)

\* Mutant: what the process did not answer stays pending.
RejectPendingNever(how) == outcome

RejectPending(how) ==
    [r \in Requests |-> IF r \in Waiting THEN how ELSE outcome[r]]

\* What a process that dies had not executed is lost.
Lost(g) ==
    [r \in Requests |-> IF to[r] = g /\ work[r] = "queued" THEN "dropped"
                        ELSE work[r]]

\* Mutant: the restart is forgotten when the budget is not yet used up.
ScheduleNever(used) == UNCHANGED timers /\ restarts' = used

\* Back off and restart, while the budget lasts.
ScheduleRestart(used) ==
    IF used >= MaxRestarts
    THEN UNCHANGED timers /\ restarts' = used
    ELSE timers' = timers + 1 /\ restarts' = used + 1

\* onUnexpectedExit for the current generation.  A process that was ready for
\* long gives the whole budget back (bound: while generations are left).
Degrade ==
    /\ outcome' = RejectPending("uncertain")
    /\ child' = 0
    /\ status' = "degraded"
    /\ \/ ScheduleRestart(restarts)
       \/ /\ status = "ready"
          /\ generation + timers + MaxRestarts + MaxKillFailures <= MaxGenerations
          /\ ScheduleRestart(0)

\* spawnChild: a new generation, or a spawn that fails at once.
SpawnChild ==
    /\ generation < MaxGenerations
    /\ generation' = generation + 1
    /\ handshake' = generation'
    /\ \/ /\ proc' = [proc EXCEPT ![generation'] = "booting"]
          /\ child' = generation'
          /\ status' = "starting"
          /\ timers' = IF generation = 0 THEN timers ELSE timers - 1
          /\ UNCHANGED <<restarts, outcome>>
       \/ /\ proc' = [proc EXCEPT ![generation'] = "gone"]
          /\ child' = 0
          /\ status' = "degraded"
          /\ LET left == IF generation = 0 THEN timers ELSE timers - 1 IN
             IF restarts >= MaxRestarts
             THEN timers' = left /\ UNCHANGED restarts
             ELSE timers' = left + 1 /\ restarts' = restarts + 1
          /\ outcome' = RejectPending("uncertain")

Start ==
    /\ generation = 0 /\ ~stopping
    /\ SpawnChild
    /\ UNCHANGED <<stopping, closing, to, work, killFailures>>

\* A restart timer fires.
RestartTimer ==
    /\ timers > 0
    /\ \/ ~stopping /\ SpawnChild
       \/ /\ stopping
          /\ timers' = timers - 1
          /\ UNCHANGED <<status, generation, child, restarts, handshake,
                         outcome, proc>>
    /\ UNCHANGED <<stopping, closing, to, work, killFailures>>

\* child.kill() of process g, with the handshake timer cleared: the process
\* dies, or has died already, or the call fails with an 'error' event.
Kill(g) ==
    /\ handshake' = 0
    /\ \/ /\ Alive(g)
          /\ proc' = [proc EXCEPT ![g] = "dead"]
          /\ work' = Lost(g)
          /\ UNCHANGED <<status, child, restarts, timers, outcome, killFailures>>
       \/ /\ ~Alive(g)
          /\ UNCHANGED <<status, child, restarts, timers, outcome, proc, work,
                         killFailures>>
       \/ /\ Alive(g) /\ g = generation
          /\ killFailures < MaxKillFailures
          /\ killFailures' = killFailures + 1
          /\ Degrade
          /\ UNCHANGED <<proc, work>>

\* The handshake timer of the current generation fires.
HandshakeTimeout ==
    /\ handshake # 0
    /\ \/ status = "starting" /\ handshake = generation /\ Kill(handshake)
       \/ /\ ~(status = "starting" /\ handshake = generation)
          /\ handshake' = 0
          /\ UNCHANGED <<status, child, restarts, timers, outcome, proc, work,
                         killFailures>>
    /\ UNCHANGED <<generation, stopping, closing, to>>

\* A handshake with another protocol version: its process is killed.
RejectReady(g) ==
    /\ proc[g] = "booting"
    /\ Kill(child)
    /\ UNCHANGED <<generation, stopping, closing, to>>

Ready(g) ==
    /\ proc[g] = "booting"
    /\ proc' = [proc EXCEPT ![g] = "serving"]
    /\ status' = "ready"
    /\ handshake' = 0
    /\ UNCHANGED <<generation, child, restarts, timers, stopping, closing, outcome,
                   to, work, killFailures>>

\* The process ends on its own, by a crash or after system.shutdown.
Crash(g) ==
    /\ Alive(g)
    /\ proc' = [proc EXCEPT ![g] = "dead"]
    /\ work' = Lost(g)
    /\ UNCHANGED <<client, outcome, to, killFailures>>

\* Its 'exit' event: current generation only, and not while stopping.
Exit(g) ==
    /\ proc[g] = "dead"
    /\ proc' = [proc EXCEPT ![g] = "gone"]
    /\ \/ /\ g = generation /\ ~stopping
          /\ handshake' = 0
          /\ Degrade
          /\ UNCHANGED <<generation, stopping, closing>>
       \/ /\ g # generation \/ stopping
          /\ UNCHANGED <<client, outcome>>
    /\ UNCHANGED <<to, work, killFailures>>

--------------------------------------------------------------------------------
(* Requests. *)

Request(r) ==
    /\ outcome[r] = "none"
    /\ \/ /\ status = "ready" /\ child # 0
          /\ outcome' = [outcome EXCEPT ![r] = "waiting"]
          /\ to' = [to EXCEPT ![r] = child]
          /\ work' = [work EXCEPT ![r] = IF Alive(child) THEN "queued"
                                         ELSE "dropped"]
       \/ /\ ~(status = "ready" /\ child # 0)
          /\ outcome' = [outcome EXCEPT ![r] = "unavailable"]
          /\ UNCHANGED <<to, work>>
    /\ UNCHANGED <<client, proc, killFailures>>

\* The sidecar carries a request out, or refuses it.
Execute(r) ==
    /\ work[r] = "queued"
    /\ work' = [work EXCEPT ![r] = "done"]
    /\ UNCHANGED <<client, outcome, proc, to, killFailures>>

Refuse(r) ==
    /\ work[r] = "queued"
    /\ work' = [work EXCEPT ![r] = "refused"]
    /\ UNCHANGED <<client, outcome, proc, to, killFailures>>

\* A reply is read.  Lines left in the pipe of a dead process are still read
\* until its exit event.
Reply(r) ==
    /\ r \in Waiting
    /\ work[r] \in {"done", "refused"} /\ proc[to[r]] # "gone"
    /\ outcome' = [outcome EXCEPT ![r] = IF work[r] = "done" THEN "ok" ELSE "error"]
    /\ UNCHANGED <<client, proc, to, work, killFailures>>

\* system.cancel is sent after the promise was rejected; it comes in time to
\* drop the request or it does not.
Cancel(r) ==
    \/ UNCHANGED work
    \/ work[r] = "queued" /\ to[r] = child /\ work' = [work EXCEPT ![r] = "dropped"]

\* Mutant: a time-out is reported like a refusal.
GaveUpPlainly == "error"

GaveUp == "uncertain"

TimeOut(r) ==
    /\ r \in Waiting
    /\ outcome' = [outcome EXCEPT ![r] = GaveUp]
    /\ Cancel(r)
    /\ UNCHANGED <<client, proc, to, killFailures>>

AbortRequest(r) ==
    /\ r \in Waiting
    /\ outcome' = [outcome EXCEPT ![r] = "aborted"]
    /\ Cancel(r)
    /\ UNCHANGED <<client, proc, to, killFailures>>

\* The write callback reports a broken pipe.
WriteFails(r) ==
    /\ r \in Waiting
    /\ work[r] = "dropped" /\ ~Alive(to[r])
    /\ outcome' = [outcome EXCEPT ![r] = "uncertain"]
    /\ UNCHANGED <<client, proc, to, work, killFailures>>

--------------------------------------------------------------------------------
(* Shutdown. *)

\* shutdown(): nothing to wait for, or system.shutdown is sent.
Shutdown ==
    /\ ~stopping
    /\ stopping' = TRUE
    /\ timers' = IF timers = 0 THEN 0 ELSE timers - 1
    /\ handshake' = 0
    /\ closing' = child
    /\ \/ /\ child = 0
          /\ outcome' = RejectPending("stopped")
          /\ status' = "stopped"
       \/ child # 0 /\ UNCHANGED <<outcome, status>>
    /\ UNCHANGED <<generation, child, restarts, proc, to, work, killFailures>>

\* The process exited, or its grace period ended and it is killed; what it
\* did not answer is rejected with an ordinary error.
Stopped ==
    /\ closing # 0
    /\ closing' = 0
    /\ proc' = [proc EXCEPT ![closing] = IF Alive(closing) THEN "dead" ELSE @]
    /\ work' = Lost(closing)
    /\ outcome' = RejectPending("stopped")
    /\ status' = "stopped"
    /\ UNCHANGED <<generation, child, restarts, timers, handshake, stopping, to,
                   killFailures>>

\* What the processes and the timers do, and what becomes of a sent request.
LinkStep ==
    \/ Start \/ RestartTimer \/ HandshakeTimeout \/ Shutdown \/ Stopped
    \/ \E g \in Generations : Ready(g) \/ RejectReady(g) \/ Crash(g) \/ Exit(g)
    \/ \E r \in Requests :
          Execute(r) \/ Refuse(r) \/ Reply(r) \/ TimeOut(r) \/ WriteFails(r)

LinkNext == LinkStep \/ \E r \in Requests : Request(r) \/ AbortRequest(r)

LinkSpec == LinkInit /\ [][LinkNext]_linkVars

\* Timers fire, exit events arrive, and a shutdown ends.
LinkFairness ==
    /\ WF_linkVars(Start) /\ WF_linkVars(RestartTimer)
    /\ WF_linkVars(HandshakeTimeout) /\ WF_linkVars(Stopped)
    /\ \A g \in Generations : WF_linkVars(Exit(g))
    /\ \A r \in Requests : WF_linkVars(TimeOut(r))

FairLink == LinkSpec /\ LinkFairness

--------------------------------------------------------------------------------
(* Properties. *)

\* Every variable keeps its shape, and the client holds no process but one of
\* the current generation.
LinkTypeOK ==
    /\ status \in {"starting", "ready", "degraded", "stopped"}
    /\ generation \in 0..MaxGenerations
    /\ child \in {0, generation}
    /\ restarts \in 0..MaxRestarts
    /\ timers \in Nat
    /\ handshake \in {0, generation}
    /\ stopping \in BOOLEAN
    /\ closing \in {0, generation}
    /\ outcome \in [Requests -> {"none", "waiting", "ok", "error", "uncertain",
                                 "aborted", "stopped", "unavailable"}]
    /\ proc \in [Generations -> {"none", "booting", "serving", "dead", "gone"}]
    /\ to \in [Requests -> 0..MaxGenerations]
    /\ work \in [Requests -> {"none", "queued", "done", "refused", "dropped"}]
    /\ killFailures \in 0..MaxKillFailures

\* A request is pending only at the process the client holds, so no reply and
\* no cancellation ever crosses a restart.
PendingOwned == \A r \in Waiting : to[r] = child

\* The outcomes that callers take for "it did not happen" are true, and stay
\* true: what was refused or never sent does not execute later either.
HonestRefusal ==
    \A r \in Requests :
        outcome[r] \in {"error", "unavailable"} => work[r] \notin {"queued", "done"}

\* The client is never down without a way up while its budget lasts: degraded
\* means a restart is scheduled, starting means a handshake timer is armed or
\* an exit event is due.
NeverStranded ==
    ~stopping =>
        /\ status = "degraded" => timers > 0 \/ restarts = MaxRestarts
        /\ status = "starting" /\ generation > 0 =>
              handshake = generation \/ proc[generation] = "dead"

\* The client's own state is coherent across restarts, also when an error and
\* an exit of one process both schedule one and events of an earlier process
\* come late: its variables keep their shape, whenever it is down something that
\* brings it back is armed, and every request belongs to the process it holds.
\* A failed kill ends the last: it schedules a restart besides that of the exit,
\* and the second one replaces a process that may have requests.
ClientCoherent ==
    /\ LinkTypeOK
    /\ NeverStranded
    /\ killFailures = 0 => PendingOwned

\* The client keeps returning to a process it may use or to a state in which
\* it has given up.
ReturnsToService ==
    []<>(\/ status \in {"ready", "stopped"}
         \/ status = "degraded" /\ restarts = MaxRestarts /\ timers = 0)

================================================================================
