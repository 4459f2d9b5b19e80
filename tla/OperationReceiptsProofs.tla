------------------------ MODULE OperationReceiptsProofs ------------------------
(***************************************************************************)
(* The client of the system runtime and the operation receipts over it,    *)
(* for any requests, any budget of restarts, any number of processes and   *)
(* any cache and bounds: refusals are honest, a request is executed at     *)
(* most once per request id and receipts tell the truth.                   *)
(***************************************************************************)
EXTENDS OperationReceipts, TLAPS

-----------------------------------------------------------------------------
(***************************************************************************)
(* The link.  Refusals are honest and the client comes up again also when  *)
(* kills fail; that requests belong to the process it holds needs kills    *)
(* that work, since a failed one makes it forget a process that lives on.  *)
(***************************************************************************)

(* Refusals. *)

Outcomes == {"none", "waiting", "ok", "error", "uncertain", "aborted", "stopped",
             "unavailable"}
Works == {"none", "queued", "done", "refused", "dropped"}

\* How requests are settled and what became of them is always one of these.
LinkTypes ==
  outcome \in [Requests -> Outcomes] /\ work \in [Requests -> Works]

\* What a step of the link does to requests: it settles some that wait, with
\* what their process answered if it says so, and moves work that is queued.
Settles ==
  /\ LinkTypes'
  /\ \A r \in Requests :
       /\ \/ outcome'[r] = outcome[r]
          \/ /\ outcome[r] = "waiting"
             /\ outcome'[r] \in {"ok", "error", "uncertain", "aborted", "stopped"}
             /\ outcome'[r] = "ok" => work[r] = "done"
             /\ outcome'[r] = "error" => work[r] = "refused"
       /\ work'[r] = work[r] \/ work[r] = "queued"

LEMMA RejectSettles ==
  ASSUME LinkTypes, NEW how \in {"uncertain", "stopped"}, outcome' = RejectPending(how)
  PROVE  /\ outcome' \in [Requests -> Outcomes]
         /\ \A r \in Requests :
              outcome'[r] = outcome[r] \/ (outcome[r] = "waiting" /\ outcome'[r] = how)
BY DEF LinkTypes, RejectPending, Waiting, Outcomes

LEMMA LostSettles ==
  ASSUME LinkTypes, NEW g, work' = Lost(g)
  PROVE  /\ work' \in [Requests -> Works]
         /\ \A r \in Requests : work'[r] = work[r] \/ work[r] = "queued"
BY DEF LinkTypes, Lost, Works

LEMMA StepSettles ==
  ASSUME LinkTypes, LinkStep \/ \E r \in Requests : AbortRequest(r)
  PROVE  Settles
<1> USE DEF Settles
<1>1. ASSUME SpawnChild, work' = work PROVE Settles
  <2>1. outcome' = outcome \/ outcome' = RejectPending("uncertain")
    BY <1>1 DEF SpawnChild
  <2>2. CASE outcome' = outcome
    BY <1>1, <2>2 DEF LinkTypes
  <2>3. CASE outcome' = RejectPending("uncertain")
    BY <1>1, <2>3, RejectSettles DEF LinkTypes
  <2>4. QED
    BY <2>1, <2>2, <2>3
<1>2. ASSUME NEW g, Kill(g) PROVE Settles
  <2>1. CASE outcome' = outcome /\ work' = Lost(g)
    BY <2>1, LostSettles DEF LinkTypes
  <2>2. CASE outcome' = outcome /\ work' = work
    BY <2>2 DEF LinkTypes
  <2>3. CASE outcome' = RejectPending("uncertain") /\ work' = work
    BY <2>3, RejectSettles DEF LinkTypes
  <2>4. QED
    BY <1>2, <2>1, <2>2, <2>3 DEF Kill, Degrade
<1>3. CASE Start \/ RestartTimer
  <2>1. CASE SpawnChild
    BY <1>1, <1>3, <2>1 DEF Start, RestartTimer
  <2>2. CASE outcome' = outcome /\ work' = work
    BY <2>2 DEF LinkTypes
  <2>3. QED
    BY <1>3, <2>1, <2>2 DEF Start, RestartTimer
<1>4. CASE HandshakeTimeout
  <2>1. CASE outcome' = outcome /\ work' = work
    BY <2>1 DEF LinkTypes
  <2>2. QED
    BY <1>2, <1>4, <2>1 DEF HandshakeTimeout
<1>5. CASE Shutdown
  <2>1. work' = work /\ (outcome' = outcome \/ outcome' = RejectPending("stopped"))
    BY <1>5 DEF Shutdown
  <2>2. CASE outcome' = outcome
    BY <2>1, <2>2 DEF LinkTypes
  <2>3. CASE outcome' = RejectPending("stopped")
    BY <2>1, <2>3, RejectSettles DEF LinkTypes
  <2>4. QED
    BY <2>1, <2>2, <2>3
<1>6. CASE Stopped
  <2>1. work' = Lost(closing) /\ outcome' = RejectPending("stopped")
    BY <1>6 DEF Stopped
  <2>2. QED
    BY <2>1, RejectSettles, LostSettles DEF LinkTypes
<1>7. ASSUME NEW g \in Generations, Ready(g) PROVE Settles
  BY <1>7 DEF Ready, LinkTypes
<1>8. ASSUME NEW g \in Generations, RejectReady(g) PROVE Settles
  BY <1>2, <1>8 DEF RejectReady
<1>9. ASSUME NEW g \in Generations, Crash(g) PROVE Settles
  <2>1. work' = Lost(g) /\ outcome' = outcome
    BY <1>9 DEF Crash
  <2>2. QED
    BY <2>1, LostSettles DEF LinkTypes
<1>10. ASSUME NEW g \in Generations, Exit(g) PROVE Settles
  <2>1. work' = work /\ (outcome' = outcome \/ outcome' = RejectPending("uncertain"))
    BY <1>10 DEF Exit, Degrade
  <2>2. CASE outcome' = outcome
    BY <2>1, <2>2 DEF LinkTypes
  <2>3. CASE outcome' = RejectPending("uncertain")
    BY <2>1, <2>3, RejectSettles DEF LinkTypes
  <2>4. QED
    BY <2>1, <2>2, <2>3
<1>12. ASSUME NEW r \in Requests, Execute(r) \/ Refuse(r) PROVE Settles
  BY <1>12 DEF Execute, Refuse, LinkTypes, Works
<1>13. ASSUME NEW r \in Requests, Reply(r) PROVE Settles
  BY <1>13 DEF Reply, Waiting, LinkTypes, Outcomes
<1>14. ASSUME NEW r \in Requests, TimeOut(r) \/ AbortRequest(r) \/ WriteFails(r)
       PROVE  Settles
  BY <1>14 DEF TimeOut, AbortRequest, WriteFails, Cancel, GaveUp, Waiting, LinkTypes,
     Outcomes, Works
<1>15. QED
  BY <1>3, <1>4, <1>5, <1>6, <1>7, <1>8, <1>9, <1>10, <1>12, <1>13, <1>14 DEF LinkStep

\* A request that was not sent has done nothing, and an error that was
\* reported is the refusal of the process.
RefusalInv ==
  /\ LinkTypes
  /\ \A r \in Requests :
       /\ outcome[r] \in {"none", "unavailable"} => work[r] = "none"
       /\ outcome[r] = "error" => work[r] = "refused"

LEMMA RefusalStep == RefusalInv /\ [LinkNext]_linkVars => RefusalInv'
<1> SUFFICES ASSUME RefusalInv, [LinkNext]_linkVars PROVE RefusalInv'
  OBVIOUS
<1>1. ASSUME Settles PROVE RefusalInv'
  BY <1>1 DEF Settles, RefusalInv
<1>2. CASE LinkStep \/ \E r \in Requests : AbortRequest(r)
  BY <1>1, <1>2, StepSettles DEF RefusalInv
<1>3. ASSUME NEW r \in Requests, Request(r) PROVE RefusalInv'
  BY <1>3 DEF Request, RefusalInv, LinkTypes, Outcomes, Works
<1>4. CASE UNCHANGED linkVars
  BY <1>4 DEF linkVars, RefusalInv, LinkTypes
<1>5. QED
  BY <1>2, <1>3, <1>4 DEF LinkNext

\* What a caller may take for "it did not happen" did not happen and will not:
\* a request refused by the process or never sent to one has no effect, with
\* any crashes, restarts, time-outs, cancellations and failing kills.
THEOREM RefusalsAreHonest == LinkSpec => []HonestRefusal
<1>1. LinkInit => RefusalInv
  BY DEF LinkInit, RefusalInv, LinkTypes, Outcomes, Works
<1>2. RefusalInv => HonestRefusal
  BY DEF RefusalInv, HonestRefusal
<1>3. QED
  BY <1>1, <1>2, RefusalStep, PTL DEF LinkSpec

-----------------------------------------------------------------------------
(* Coherence of the client. *)

\* While shutdown() waits for a process, nothing is spawned any more.
Linked == LinkTypeOK /\ (closing # 0 => stopping)

LEMMA LinkShape ==
  ASSUME Linked, LinkStep \/ \E r \in Requests : Request(r)
  PROVE  Linked'
<1> USE LinkAssumption DEF Linked, LinkTypeOK, Generations
<1>1. ASSUME NEW g \in Generations
      PROVE  Lost(g) \in [Requests -> {"none", "queued", "done", "refused", "dropped"}]
  BY DEF Lost
<1>2. ASSUME NEW how \in {"uncertain", "stopped"}
      PROVE  RejectPending(how) \in [Requests -> {"none", "waiting", "ok", "error", "uncertain",
                                                  "aborted", "stopped", "unavailable"}]
  BY DEF RejectPending, Waiting
<1>3. ASSUME SpawnChild, ~stopping, generation = 0 \/ timers > 0,
             UNCHANGED <<stopping, closing, to, work, killFailures>>
      PROVE  Linked'
  <2>1. /\ generation \in Nat /\ generation < MaxGenerations /\ timers \in Nat
        /\ generation' = generation + 1 /\ generation' \in Generations
        /\ handshake' = generation' /\ child' \in {0, generation'} /\ closing' = 0
        /\ status' \in {"starting", "degraded"}
    BY <1>3 DEF SpawnChild
  <2>2. proc' \in [Generations -> {"none", "booting", "serving", "dead", "gone"}]
    BY <1>3, <2>1 DEF SpawnChild
  <2>3. timers' \in Nat /\ restarts' \in 0..MaxRestarts
    BY <1>3, <2>1 DEF SpawnChild
  <2>4. outcome' \in [Requests -> {"none", "waiting", "ok", "error", "uncertain",
                                   "aborted", "stopped", "unavailable"}]
    BY <1>2, <1>3 DEF SpawnChild
  <2>5. QED
    BY <1>3, <2>1, <2>2, <2>3, <2>4
<1>4. ASSUME Degrade
      PROVE  /\ child' = 0 /\ status' = "degraded" /\ timers' \in Nat /\ restarts' \in 0..MaxRestarts
             /\ outcome' \in [Requests -> {"none", "waiting", "ok", "error", "uncertain",
                                           "aborted", "stopped", "unavailable"}]
  BY <1>2, <1>4 DEF Degrade, ScheduleRestart
<1>5. ASSUME NEW g, Kill(g), UNCHANGED <<generation, stopping, closing, to>>
      PROVE  Linked'
  <2>1. CASE /\ proc' \in {proc, [proc EXCEPT ![g] = "dead"]} /\ work' \in {work, Lost(g)} /\ handshake' = 0
             /\ UNCHANGED <<status, child, restarts, timers, outcome, killFailures>>
    <3>1. proc' \in [Generations -> {"none", "booting", "serving", "dead", "gone"}]
      BY <2>1
    <3>2. work' \in [Requests -> {"none", "queued", "done", "refused", "dropped"}]
      BY <2>1 DEF Lost
    <3>3. QED
      BY <1>5, <2>1, <3>1, <3>2
  <2>2. CASE /\ handshake' = 0 /\ killFailures < MaxKillFailures /\ killFailures' = killFailures + 1
             /\ Degrade /\ UNCHANGED <<proc, work>>
    BY <1>4, <1>5, <2>2
  <2>3. QED
    BY <1>5, <2>1, <2>2 DEF Kill
<1>6. CASE Start
  BY <1>3, <1>6 DEF Start
<1>7. CASE RestartTimer
  BY <1>3, <1>7 DEF RestartTimer
<1>8. CASE HandshakeTimeout
  BY <1>5, <1>8 DEF HandshakeTimeout
<1>9. CASE Shutdown
  BY <1>2, <1>9 DEF Shutdown
<1>10. CASE Stopped
  <2>1. proc' \in [Generations -> {"none", "booting", "serving", "dead", "gone"}]
    BY <1>10 DEF Stopped
  <2>2. /\ work' = Lost(closing) /\ outcome' = RejectPending("stopped") /\ status' = "stopped"
        /\ closing' = 0
        /\ UNCHANGED <<generation, child, restarts, timers, handshake, stopping, to, killFailures>>
    BY <1>10 DEF Stopped
  <2>3. /\ work' \in [Requests -> {"none", "queued", "done", "refused", "dropped"}]
        /\ outcome' \in [Requests -> {"none", "waiting", "ok", "error", "uncertain",
                                      "aborted", "stopped", "unavailable"}]
    BY <1>2, <2>2 DEF Lost
  <2>4. QED
    BY <2>1, <2>2, <2>3
<1>11. ASSUME NEW g \in Generations, Ready(g) PROVE Linked'
  BY <1>11 DEF Ready
<1>12. ASSUME NEW g \in Generations, RejectReady(g) PROVE Linked'
  BY <1>5, <1>12 DEF RejectReady
<1>13. ASSUME NEW g \in Generations, Crash(g) PROVE Linked'
  BY <1>1, <1>13 DEF Crash, client
<1>14. ASSUME NEW g \in Generations, Exit(g) PROVE Linked'
  BY <1>4, <1>14 DEF Exit, client
<1>15. ASSUME NEW r \in Requests, Execute(r) \/ Refuse(r) PROVE Linked'
  BY <1>15 DEF Execute, Refuse, client
<1>16. ASSUME NEW r \in Requests, Reply(r) \/ WriteFails(r) PROVE Linked'
  BY <1>16 DEF Reply, WriteFails, client
<1>17. ASSUME NEW r \in Requests, TimeOut(r) PROVE Linked'
  BY <1>17 DEF TimeOut, GaveUp, Cancel, client
<1>18. ASSUME NEW r \in Requests, Request(r) PROVE Linked'
  <2>1. /\ outcome' \in [Requests -> {"none", "waiting", "ok", "error", "uncertain",
                                      "aborted", "stopped", "unavailable"}]
        /\ child \in 0..MaxGenerations
    <3>1. outcome' \in {[outcome EXCEPT ![r] = "waiting"], [outcome EXCEPT ![r] = "unavailable"]}
      BY <1>18 DEF Request
    <3>2. outcome' \in [Requests -> {"none", "waiting", "ok", "error", "uncertain",
                                     "aborted", "stopped", "unavailable"}]
      BY <3>1
    <3>3. child \in 0..MaxGenerations
      OBVIOUS
    <3>4. QED
      BY <3>2, <3>3
  <2>2. /\ to' \in [Requests -> 0..MaxGenerations]
        /\ work' \in [Requests -> {"none", "queued", "done", "refused", "dropped"}]
    <3>1. CASE outcome' = [outcome EXCEPT ![r] = "unavailable"] /\ UNCHANGED <<to, work>>
      BY <3>1
    <3>2. CASE /\ to' = [to EXCEPT ![r] = child]
               /\ work' = [work EXCEPT ![r] = IF Alive(child) THEN "queued" ELSE "dropped"]
      BY <2>1, <3>2
    <3>3. QED
      BY <1>18, <3>1, <3>2 DEF Request
  <2>3. UNCHANGED <<client, proc, killFailures>>
    BY <1>18 DEF Request
  <2>4. QED
    BY <2>1, <2>2, <2>3 DEF client
<1>19. QED
  BY <1>6, <1>7, <1>8, <1>9, <1>10, <1>11, <1>12, <1>13, <1>14, <1>15, <1>16, <1>17, <1>18
     DEF LinkStep

\* The only process that lives is the one the client holds, and without one
\* nothing is pending.
Held ==
  /\ \A g \in Generations : Alive(g) => g = child
  /\ \A g \in Generations : g > generation => proc[g] = "none"
  /\ child = 0 => Waiting = {}
  /\ closing # 0 => stopping

\* A restart timer is armed for the end of the current generation, once.
Down ==
  /\ timers > 0 =>
       /\ timers = 1 /\ child = 0 /\ status = "degraded" /\ ~stopping
       /\ generation > 0 /\ proc[generation] = "gone"
  /\ ~stopping /\ status = "starting" /\ generation > 0 =>
       proc[generation] \in {"booting", "dead"}

OwnedInv == LinkTypeOK /\ PendingOwned /\ Held /\ Down

LEMMA SpawnOwned ==
  ASSUME killFailures' = 0, OwnedInv, SpawnChild, ~stopping,
         generation = 0 \/ timers > 0,
         UNCHANGED <<stopping, closing, to, work, killFailures>>
  PROVE  OwnedInv'
<1> USE LinkAssumption DEF Generations
<1>1. /\ LinkTypeOK /\ PendingOwned /\ Held /\ Down
      /\ generation' = generation + 1 /\ generation' \in Generations
      /\ handshake' = generation'
      /\ child = 0 /\ Waiting = {} /\ closing = 0
      /\ timers = IF generation = 0 THEN 0 ELSE 1
  BY DEF OwnedInv, SpawnChild, LinkTypeOK, Held, Down
<1>2. \A g \in Generations : ~Alive(g)
  BY <1>1 DEF Held, Alive, LinkTypeOK
<1>3. CASE /\ proc' = [proc EXCEPT ![generation'] = "booting"]
           /\ child' = generation' /\ status' = "starting" /\ timers' = 0
           /\ UNCHANGED <<restarts, outcome>>
  <2>1. LinkTypeOK'
    BY <1>1, <1>3 DEF LinkTypeOK
  <2>2. Waiting' = {}
    BY <1>1, <1>3 DEF Waiting
  <2>3. PendingOwned'
    BY <1>1, <1>3, <2>2 DEF PendingOwned
  <2>4. Held'
    BY <1>1, <1>2, <1>3, <2>2 DEF Held, Alive, LinkTypeOK
  <2>5. Down'
    BY <1>1, <1>3 DEF Down, LinkTypeOK
  <2>6. QED
    BY <2>1, <2>3, <2>4, <2>5 DEF OwnedInv
<1>4. CASE /\ proc' = [proc EXCEPT ![generation'] = "gone"]
           /\ child' = 0 /\ status' = "degraded"
           /\ \/ restarts >= MaxRestarts /\ timers' = 0 /\ restarts' = restarts
              \/ restarts < MaxRestarts /\ timers' = 1 /\ restarts' = restarts + 1
           /\ outcome' = RejectPending("uncertain")
  <2>1. outcome' = outcome
    BY <1>1, <1>4 DEF RejectPending, LinkTypeOK
  <2>2. LinkTypeOK'
    BY <1>1, <1>4, <2>1 DEF LinkTypeOK
  <2>3. Waiting' = {}
    BY <1>1, <2>1 DEF Waiting
  <2>4. PendingOwned'
    BY <1>1, <1>4, <2>2, <2>3 DEF PendingOwned, LinkTypeOK
  <2>5. Held'
    BY <1>1, <1>2, <1>4, <2>3 DEF Held, Alive, LinkTypeOK
  <2>6. Down'
    BY <1>1, <1>4 DEF Down, LinkTypeOK
  <2>7. QED
    BY <2>2, <2>4, <2>5, <2>6 DEF OwnedInv
<1>5. QED
  BY <1>1, <1>3, <1>4 DEF SpawnChild, LinkTypeOK

\* A process is killed by the handshake timer or for its handshake.
LEMMA KillOwned ==
  ASSUME killFailures' = 0, OwnedInv, Kill(generation),
         UNCHANGED <<generation, stopping, closing, to>>
  PROVE  OwnedInv'
<1> USE DEF Generations
<1>1. LinkTypeOK /\ PendingOwned /\ Held /\ Down
  BY DEF OwnedInv
<1>2. handshake' = 0 /\ UNCHANGED <<status, child, restarts, timers, outcome, killFailures>>
  BY <1>1 DEF Kill, LinkTypeOK
<1>3. CASE /\ Alive(generation) /\ proc' = [proc EXCEPT ![generation] = "dead"]
           /\ work' = Lost(generation)
  <2>1. LinkTypeOK'
    BY <1>1, <1>2, <1>3, LinkAssumption DEF LinkTypeOK, Lost
  <2>2. PendingOwned'
    BY <1>1, <1>2 DEF PendingOwned, Waiting
  <2>3. Held' /\ Down'
    BY <1>1, <1>2, <1>3 DEF Held, Down, Alive, LinkTypeOK, Waiting
  <2>4. QED
    BY <2>1, <2>2, <2>3 DEF OwnedInv
<1>4. CASE ~Alive(generation) /\ UNCHANGED <<proc, work>>
  <2>1. LinkTypeOK' /\ PendingOwned'
    BY <1>1, <1>2, <1>4 DEF LinkTypeOK, PendingOwned, Waiting
  <2>2. Held' /\ Down'
    BY <1>1, <1>2, <1>4 DEF Held, Down, Alive, Waiting
  <2>3. QED
    BY <2>1, <2>2 DEF OwnedInv
<1>5. QED
  BY <1>1, <1>3, <1>4 DEF Kill, LinkTypeOK

\* The exit event of the current process.
LEMMA ExitOwned ==
  ASSUME OwnedInv, ~stopping, generation \in Generations,
         proc[generation] = "dead", proc' = [proc EXCEPT ![generation] = "gone"],
         handshake' = 0, Degrade,
         UNCHANGED <<generation, stopping, closing, to, work, killFailures>>
  PROVE  OwnedInv'
<1> USE DEF Generations
<1>1. LinkTypeOK /\ PendingOwned /\ Held /\ Down
  BY DEF OwnedInv
<1>2. timers = 0
  BY <1>1 DEF Down, LinkTypeOK
<1>3. /\ outcome' = RejectPending("uncertain") /\ child' = 0 /\ status' = "degraded"
      /\ \/ restarts' = MaxRestarts /\ timers' = 0
         \/ restarts' \in 0..MaxRestarts /\ timers' = 1
  BY <1>1, <1>2, LinkAssumption DEF Degrade, ScheduleRestart, LinkTypeOK
<1>4. Waiting' = {}
  BY <1>3 DEF Waiting, RejectPending
<1>5. LinkTypeOK'
  BY <1>1, <1>3, LinkAssumption DEF LinkTypeOK, RejectPending
<1>6. PendingOwned'
  BY <1>3, <1>4 DEF PendingOwned
<1>7. Held' /\ Down'
  BY <1>1, <1>3, <1>4 DEF Held, Down, Alive, LinkTypeOK
<1>8. QED
  BY <1>5, <1>6, <1>7 DEF OwnedInv

LEMMA OwnedStep ==
  ASSUME OwnedInv, [LinkNext]_linkVars, killFailures' = 0
  PROVE  OwnedInv'
<1>0. LinkTypeOK /\ PendingOwned /\ Held /\ Down
  BY DEF OwnedInv
<1>1. CASE Start
  BY <1>1, SpawnOwned DEF Start
<1>2. CASE RestartTimer
  BY <1>0, <1>2, SpawnOwned DEF RestartTimer, Down
<1>3. CASE HandshakeTimeout
  <2>1. CASE handshake = generation /\ Kill(handshake)
    BY <1>3, <2>1, KillOwned DEF HandshakeTimeout
  <2>2. CASE /\ ~(status = "starting" /\ handshake = generation)
             /\ handshake # 0 /\ handshake' = 0
             /\ UNCHANGED <<status, child, restarts, timers, outcome, proc, work,
                            killFailures>>
             /\ UNCHANGED <<generation, stopping, closing, to>>
    BY <1>0, <2>2 DEF OwnedInv, LinkTypeOK, PendingOwned,
       Held, Down, Alive, Waiting
  <2>3. QED
    BY <1>3, <2>1, <2>2 DEF HandshakeTimeout
<1>4. CASE Shutdown
  <2>1. UNCHANGED <<generation, child, restarts, proc, to, work, killFailures>>
    BY <1>4 DEF Shutdown
  <2>2. /\ ~stopping /\ stopping' = TRUE /\ handshake' = 0 /\ closing' = child
        /\ timers' = 0
        /\ \/ child = 0 /\ outcome' = outcome /\ status' = "stopped"
           \/ child # 0 /\ outcome' = outcome /\ status' = status
    BY <1>0, <1>4 DEF Shutdown, Held, Down, LinkTypeOK, RejectPending
  <2>3. LinkTypeOK' /\ PendingOwned'
    BY <1>0, <2>1, <2>2 DEF LinkTypeOK, PendingOwned, Waiting
  <2>4. Held' /\ Down'
    BY <1>0, <2>1, <2>2 DEF Held, Down, Alive, Waiting
  <2>5. QED
    BY <2>3, <2>4 DEF OwnedInv
<1>5. CASE Stopped
  <2>1. /\ closing # 0 /\ closing' = 0 /\ status' = "stopped" /\ stopping
        /\ proc' = [proc EXCEPT ![closing] = IF Alive(closing) THEN "dead" ELSE proc[closing]]
        /\ work' = Lost(closing) /\ outcome' = RejectPending("stopped")
        /\ UNCHANGED <<generation, child, restarts, timers, handshake, stopping, to, killFailures>>
    BY <1>0, <1>5, Zenon DEF Stopped, Held
  <2>2. Waiting' = {}
    BY <2>1 DEF Waiting, RejectPending
  <2>3. LinkTypeOK'
    BY <1>0, <2>1 DEF LinkTypeOK, RejectPending, Lost, Generations
  <2>4. PendingOwned'
    BY <2>1, <2>2 DEF PendingOwned
  <2>5. timers = 0
    BY <1>0, <2>1 DEF Down, LinkTypeOK
  <2>6. Held'
    BY <1>0, <2>1, <2>2 DEF Held, Alive, LinkTypeOK, Generations
  <2>7. Down'
    BY <2>1, <2>5 DEF Down
  <2>8. QED
    BY <2>3, <2>4, <2>6, <2>7 DEF OwnedInv
<1>6. ASSUME NEW g \in Generations, Ready(g) PROVE OwnedInv'
  <2>1. g = child /\ g = generation /\ proc[g] = "booting" /\ timers = 0
    BY <1>0, <1>6 DEF Ready, Held, Alive, Down, LinkTypeOK, Generations
  <2>2. /\ proc' = [proc EXCEPT ![g] = "serving"] /\ status' = "ready" /\ handshake' = 0
        /\ UNCHANGED <<generation, child, restarts, timers, stopping, closing, outcome,
                       to, work, killFailures>>
    BY <1>6 DEF Ready
  <2>3. LinkTypeOK' /\ PendingOwned'
    BY <1>0, <2>1, <2>2 DEF LinkTypeOK, PendingOwned, Waiting
  <2>4. Held' /\ Down'
    BY <1>0, <2>1, <2>2 DEF Held, Down, Alive, Waiting, LinkTypeOK, Generations
  <2>5. QED
    BY <2>3, <2>4 DEF OwnedInv
<1>7. ASSUME NEW g \in Generations, RejectReady(g) PROVE OwnedInv'
  <2>1. child = generation
    BY <1>0, <1>7 DEF RejectReady, Held, Alive, LinkTypeOK, Generations
  <2>2. QED
    BY <1>7, <2>1, KillOwned DEF RejectReady
<1>8. ASSUME NEW g \in Generations, Crash(g) PROVE OwnedInv'
  <2>1. /\ Alive(g) /\ proc' = [proc EXCEPT ![g] = "dead"] /\ work' = Lost(g)
        /\ UNCHANGED <<client, outcome, to, killFailures>>
    BY <1>8 DEF Crash
  <2>2. LinkTypeOK'
    BY <1>0, <2>1 DEF LinkTypeOK, client, Lost
  <2>3. PendingOwned'
    BY <1>0, <2>1 DEF PendingOwned, client, Waiting, LinkTypeOK, Generations
  <2>4. Held' /\ Down'
    BY <1>0, <2>1 DEF Held, Down, Alive, Waiting, client, LinkTypeOK, Generations
  <2>5. QED
    BY <2>2, <2>3, <2>4 DEF OwnedInv
<1>9. ASSUME NEW g \in Generations, Exit(g) PROVE OwnedInv'
  <2>1. CASE g = generation /\ ~stopping
    BY <1>9, <2>1, ExitOwned DEF Exit
  <2>2. CASE g # generation \/ stopping
    <3>1. /\ proc[g] = "dead" /\ proc' = [proc EXCEPT ![g] = "gone"]
          /\ UNCHANGED <<client, outcome, to, work, killFailures>>
      BY <1>9, <2>2 DEF Exit
    <3>2. LinkTypeOK' /\ PendingOwned'
      BY <1>0, <3>1 DEF LinkTypeOK, PendingOwned, client, Waiting
    <3>3. Held' /\ Down'
      BY <1>0, <2>2, <3>1 DEF Held, Down, Alive, Waiting, client, LinkTypeOK, Generations
    <3>4. QED
      BY <3>2, <3>3 DEF OwnedInv
  <2>3. QED
    BY <2>1, <2>2
<1>10. ASSUME UNCHANGED <<client, proc, killFailures>>,
              work' \in [Requests -> Works], to' \in [Requests -> 0..MaxGenerations],
              outcome' \in [Requests -> Outcomes],
              \A r \in Requests : outcome'[r] = "waiting" =>
                to'[r] = child /\ (outcome[r] = "waiting" \/ child # 0)
       PROVE  OwnedInv'
  <2>1. LinkTypeOK'
    BY <1>0, <1>10 DEF LinkTypeOK, client, Works, Outcomes
  <2>2. PendingOwned'
    BY <1>0, <1>10 DEF PendingOwned, Waiting, client
  <2>3. Held' /\ Down'
    BY <1>0, <1>10 DEF Held, Down, Alive, Waiting, client
  <2>4. QED
    BY <2>1, <2>2, <2>3 DEF OwnedInv
<1>11. ASSUME NEW r \in Requests, Request(r) PROVE OwnedInv'
  BY <1>0, <1>10, <1>11, LinkAssumption
     DEF Request, LinkTypeOK, PendingOwned, Waiting, Works, Outcomes
<1>12. ASSUME NEW r \in Requests,
              Execute(r) \/ Refuse(r) \/ Reply(r) \/ TimeOut(r) \/ WriteFails(r) \/ AbortRequest(r)
       PROVE  OwnedInv'
  BY <1>0, <1>10, <1>12 DEF Execute, Refuse, Reply, TimeOut, WriteFails, AbortRequest, Cancel,
     GaveUp, LinkTypeOK, PendingOwned, Waiting, Works, Outcomes
<1>13. CASE UNCHANGED linkVars
  BY <1>0, <1>13, <1>10 DEF linkVars, LinkTypeOK, PendingOwned, Waiting, Works, Outcomes
<1>14. QED
  BY <1>1, <1>2, <1>3, <1>4, <1>5, <1>6, <1>7, <1>8, <1>9, <1>11, <1>12, <1>13
     DEF LinkNext, LinkStep

\* A starting client waits for a process that boots or whose end is due, and
\* comes up again from anything else.
Rising ==
  /\ NeverStranded
  /\ ~stopping /\ status = "starting" /\ generation > 0 =>
       child = generation /\ proc[generation] \in {"booting", "dead"}

LEMMA RisingStep ==
  ASSUME Linked, Rising, [LinkNext]_linkVars
  PROVE  Rising'
<1> USE DEF Generations
<1>0. LinkTypeOK /\ NeverStranded
  BY DEF Linked, Rising
<1>1. ASSUME SpawnChild, generation = 0 \/ timers > 0 PROVE Rising'
  <2>1. generation \in Nat /\ MaxGenerations \in Nat /\ generation < MaxGenerations
    BY <1>0, <1>1, LinkAssumption DEF SpawnChild, LinkTypeOK
  <2>0. generation' = generation + 1 /\ generation' \in Generations /\ handshake' = generation'
    BY <1>1, <2>1 DEF SpawnChild
  <2>2. CASE /\ proc' = [proc EXCEPT ![generation'] = "booting"]
             /\ child' = generation' /\ status' = "starting"
    BY <1>0, <2>0, <2>2 DEF Rising, NeverStranded, LinkTypeOK
  <2>3. CASE /\ status' = "degraded"
             /\ restarts' = MaxRestarts \/ timers' > 0
    BY <2>3 DEF Rising, NeverStranded
  <2>4. /\ restarts \in 0..MaxRestarts /\ timers \in Nat
        /\ restarts >= MaxRestarts => restarts = MaxRestarts
    BY <1>0, LinkAssumption DEF LinkTypeOK
  <2>5. QED
    BY <1>1, <2>2, <2>3, <2>4 DEF SpawnChild
<1>2. ASSUME Degrade PROVE Rising'
  <2>1. status' = "degraded" /\ (restarts' = MaxRestarts \/ timers' > 0)
    BY <1>0, <1>2, LinkAssumption DEF Degrade, ScheduleRestart, LinkTypeOK
  <2>2. QED
    BY <2>1 DEF Rising, NeverStranded
<1>3. ASSUME NEW g, Kill(g), status = "starting" /\ ~stopping /\ generation > 0 => g = generation,
             UNCHANGED <<generation, stopping>>
      PROVE  Rising'
  <2>1. CASE Degrade
    BY <1>2, <2>1
  <2>2. CASE /\ UNCHANGED <<status, child, restarts, timers>>
             /\ \/ Alive(g) /\ proc' = [proc EXCEPT ![g] = "dead"]
                \/ ~Alive(g) /\ proc' = proc
    <3>1. ~stopping /\ status = "starting" /\ generation > 0 => proc'[generation] = "dead"
      <4> SUFFICES ASSUME ~stopping, status = "starting", generation > 0
                   PROVE  proc'[generation] = "dead"
        OBVIOUS
      <4>1. g = generation /\ proc[g] \in {"booting", "dead"} /\ g \in Generations
        BY <1>0, <1>3, LinkAssumption DEF Rising, LinkTypeOK
      <4>2. CASE Alive(g) /\ proc' = [proc EXCEPT ![g] = "dead"]
        BY <1>0, <4>1, <4>2 DEF LinkTypeOK
      <4>3. CASE ~Alive(g) /\ proc' = proc
        BY <4>1, <4>3 DEF Alive
      <4>4. QED
        BY <2>2, <4>2, <4>3
    <3>2. QED
      BY <1>3, <2>2, <3>1 DEF Rising, NeverStranded
  <2>3. QED
    BY <1>3, <2>1, <2>2 DEF Kill
<1>4. CASE Start \/ RestartTimer
  <2>1. CASE SpawnChild
    BY <1>1, <1>4, <2>1 DEF Start, RestartTimer
  <2>2. CASE stopping /\ stopping' = stopping
    BY <2>2 DEF Rising, NeverStranded
  <2>3. QED
    BY <1>4, <2>1, <2>2 DEF Start, RestartTimer
<1>5. CASE HandshakeTimeout
  <2>1. CASE handshake = generation /\ Kill(handshake)
    BY <1>3, <1>5, <2>1 DEF HandshakeTimeout
  <2>2. CASE /\ status # "starting"
             /\ UNCHANGED <<status, child, restarts, timers, proc, generation, stopping>>
    BY <2>2 DEF Rising, NeverStranded
  <2>3. status = "starting" => handshake = generation \/ ~(handshake # 0)
    BY <1>0 DEF LinkTypeOK
  <2>4. QED
    BY <1>5, <2>1, <2>2, <2>3 DEF HandshakeTimeout
<1>6. CASE Shutdown \/ Stopped
  <2>1. stopping'
    BY <1>6 DEF Shutdown, Stopped, Linked
  <2>2. QED
    BY <2>1 DEF Rising, NeverStranded
<1>7. ASSUME NEW g \in Generations, Ready(g) PROVE Rising'
  <2>1. status' = "ready"
    BY <1>7 DEF Ready
  <2>2. QED
    BY <2>1 DEF Rising, NeverStranded
<1>8. ASSUME NEW g \in Generations, RejectReady(g) PROVE Rising'
  BY <1>3, <1>8 DEF RejectReady, Rising
<1>9. ASSUME NEW g \in Generations, Crash(g) PROVE Rising'
  BY <1>0, <1>9 DEF Crash, Rising, NeverStranded, client, LinkTypeOK
<1>10. ASSUME NEW g \in Generations, Exit(g) PROVE Rising'
  <2>1. CASE Degrade
    BY <1>2, <2>1
  <2>2. CASE /\ g # generation \/ stopping
             /\ proc' = [proc EXCEPT ![g] = "gone"] /\ UNCHANGED client
    BY <1>0, <2>2 DEF Rising, NeverStranded, client, LinkTypeOK
  <2>3. QED
    BY <1>10, <2>1, <2>2 DEF Exit
<1>11. CASE UNCHANGED <<client, proc>>
  BY <1>11 DEF Rising, NeverStranded, client
<1>12. ASSUME NEW r \in Requests,
              \/ Request(r) \/ AbortRequest(r) \/ Execute(r) \/ Refuse(r) \/ Reply(r)
              \/ TimeOut(r) \/ WriteFails(r)
       PROVE  UNCHANGED <<client, proc>>
  BY <1>12 DEF Request, AbortRequest, Execute, Refuse, Reply, TimeOut, WriteFails
<1>13. CASE UNCHANGED linkVars
  BY <1>11, <1>13 DEF linkVars
<1>14. QED
  BY <1>4, <1>5, <1>6, <1>7, <1>8, <1>9, <1>10, <1>11, <1>12, <1>13 DEF LinkNext, LinkStep

CoherentInv == Linked /\ Rising /\ (killFailures = 0 => OwnedInv)

LEMMA CoherentStep == CoherentInv /\ [LinkNext]_linkVars => CoherentInv'
<1> SUFFICES ASSUME CoherentInv, [LinkNext]_linkVars PROVE CoherentInv'
  OBVIOUS
<1>1. Linked /\ Rising
  BY DEF CoherentInv
<1>2. Linked'
  <2>1. ASSUME NEW r \in Requests, AbortRequest(r) PROVE Linked'
    BY <1>1, <2>1 DEF AbortRequest, Cancel, Linked, LinkTypeOK, client
  <2>2. CASE UNCHANGED linkVars
    BY <1>1, <2>2 DEF linkVars, client, Linked, LinkTypeOK
  <2>3. QED
    BY <1>1, <2>1, <2>2, LinkShape DEF LinkNext
<1>3. killFailures' = 0 => killFailures = 0
  <2>1. killFailures' \in {killFailures, killFailures + 1}
    BY DEF LinkNext, LinkStep, linkVars, Start, RestartTimer, HandshakeTimeout, Shutdown, Stopped,
       Ready, RejectReady, Kill, Crash, Exit, Request, Execute, Refuse, Reply, TimeOut,
       WriteFails, AbortRequest
  <2>2. killFailures \in Nat
    BY <1>1, LinkAssumption DEF Linked, LinkTypeOK
  <2>3. QED
    BY <2>1, <2>2
<1>4. QED
  BY <1>1, <1>2, <1>3, OwnedStep, RisingStep DEF CoherentInv

\* The client stays coherent for any number of crashes, restarts and failing
\* kills: its variables keep their shape, whenever it is down something that
\* brings it back is armed, and until a kill fails what is pending belongs to
\* the process it holds.
THEOREM Coherent == LinkSpec => []ClientCoherent
<1>1. LinkInit => CoherentInv
  <2> SUFFICES ASSUME LinkInit PROVE CoherentInv
    OBVIOUS
  <2>1. LinkTypeOK
    <3>1. /\ status \in {"starting", "ready", "degraded", "stopped"}
          /\ generation \in 0..MaxGenerations /\ restarts \in 0..MaxRestarts
          /\ child \in {0, generation} /\ handshake \in {0, generation}
          /\ closing \in {0, generation} /\ timers \in Nat
          /\ killFailures \in 0..MaxKillFailures /\ 0 \in 0..MaxGenerations
      BY LinkAssumption DEF LinkInit
    <3>2. /\ outcome \in [Requests -> {"none", "waiting", "ok", "error", "uncertain",
                                       "aborted", "stopped", "unavailable"}]
          /\ proc \in [Generations -> {"none", "booting", "serving", "dead", "gone"}]
          /\ to \in [Requests -> 0..MaxGenerations]
          /\ work \in [Requests -> {"none", "queued", "done", "refused", "dropped"}]
      BY <3>1 DEF LinkInit
    <3>3. stopping \in BOOLEAN
      BY Zenon DEF LinkInit
    <3>4. QED
      BY <3>1, <3>2, <3>3 DEF LinkTypeOK
  <2>2. Linked /\ Rising
    BY <2>1 DEF LinkInit, Linked, Rising, NeverStranded
  <2>3. PendingOwned /\ Held /\ Down
    BY DEF LinkInit, PendingOwned, Held, Down, Alive, Waiting
  <2>4. QED
    BY <2>1, <2>2, <2>3 DEF CoherentInv, OwnedInv
<1>2. CoherentInv => ClientCoherent
  BY DEF CoherentInv, Linked, Rising, OwnedInv, ClientCoherent
<1>3. QED
  BY <1>1, <1>2, CoherentStep, PTL DEF LinkSpec

-----------------------------------------------------------------------------
(***************************************************************************)
(* The receipts.  Everything is said of one request id at a time: what its *)
(* receipt allows its task, its request and the work behind it to be.      *)
(***************************************************************************)

RegistryTypes ==
  /\ receipt \in [Requests -> {"none"} \cup Open \cup Final]
  /\ memory \in [Requests -> {"none"} \cup Open \cup Final]
  /\ task \in [Requests -> {"none", "scheduled", "chained", "sent"}]
  /\ admitted \in [Requests -> Nat]

\* The request of an operation is not sent.
Unsent(i) == outcome[i] = "none" /\ work[i] = "none"

\* The outcome of a request that a running process settled is true.
Truthful(i) ==
  /\ outcome[i] = "ok" => work[i] = "done"
  /\ outcome[i] = "error" => work[i] = "refused"
  /\ outcome[i] = "unavailable" => work[i] = "none"

\* Without a receipt nothing was ever begun; a task that has not sent its
\* request has a queued receipt, one that has sent it a running receipt, and its
\* entry shows the same.
Accounted(i) ==
  /\ admitted[i] <= 1
  /\ receipt[i] = "none" =>
       admitted[i] = 0 /\ memory[i] = "none" /\ task[i] = "none" /\ Unsent(i)
  /\ task[i] \in {"scheduled", "chained"} => receipt[i] = "queued" /\ Unsent(i)
  /\ task[i] = "sent" => receipt[i] = "running"
  /\ task[i] # "none" => memory[i] = receipt[i]

\* A final receipt speaks of work that is over.
Closed(i) ==
  /\ receipt[i] = "succeeded" => work[i] = "done"
  /\ receipt[i] = "failed" =>
       outcome[i] = "stopped" \/ (outcome[i] # "waiting" /\ work[i] \in {"none", "refused"})

\* The snapshot in memory is no more definite than the receipt.
Modest(i) == memory[i] \in {"succeeded", "failed"} => receipt[i] = memory[i]

Sound(i) == Truthful(i) /\ Accounted(i) /\ Closed(i) /\ Modest(i)

ReceiptInv == LinkTypes /\ RegistryTypes /\ \A i \in Requests : Sound(i)

\* The entry of j stays as it is, or is finished and evicted.
Kept(j) == memory'[j] = memory[j] \/ (memory[j] \in Final /\ memory'[j] = "none")

-----------------------------------------------------------------------------
\* A receipt is saved: the other receipts stay, and their snapshots stay or are
\* evicted.
LEMMA RememberEffect ==
  ASSUME RegistryTypes, NEW i \in Requests, NEW phase \in Open \cup Final,
         Remember(i, phase, [memory EXCEPT ![i] = phase])
  PROVE  /\ receipt' = [receipt EXCEPT ![i] = phase]
         /\ memory' \in [Requests -> {"none"} \cup Open \cup Final]
         /\ memory'[i] \in {"none", phase}
         /\ phase \in Open => memory'[i] = phase
         /\ \A j \in Requests \ {i} : Kept(j)
<1> DEFINE mem == [memory EXCEPT ![i] = phase]
<1>1. mem \in [Requests -> {"none"} \cup Open \cup Final]
  BY DEF RegistryTypes
<1>2. /\ memory' = [j \in Requests |-> IF j \in Evictable(mem) THEN "none" ELSE mem[j]]
      /\ \A j \in Evictable(mem) : mem[j] \in Final
  BY DEF Remember, Evictable
<1>3. mem[i] = phase /\ \A j \in Requests \ {i} : mem[j] = memory[j]
  BY DEF RegistryTypes
<1> HIDE DEF mem
<1>4. QED
  BY <1>1, <1>2, <1>3 DEF Remember, Kept, Open, Final

\* A task ends: with the receipt it asked for, or with an uncertain snapshot.
LEMMA CloseEffect ==
  ASSUME RegistryTypes, NEW i \in Requests, NEW phase \in Final, NEW n,
         Close(i, phase, n)
  PROVE  /\ receipt' \in {receipt, [receipt EXCEPT ![i] = phase]}
         /\ memory' \in [Requests -> {"none"} \cup Open \cup Final]
         /\ memory'[i] \in {"none", "uncertain", phase}
         /\ memory'[i] = phase /\ phase # "uncertain" => receipt'[i] = phase
         /\ \A j \in Requests \ {i} : Kept(j)
<1>1. CASE Remember(i, phase, [memory EXCEPT ![i] = phase])
  <2>1. phase \in Open \cup Final
    OBVIOUS
  <2>2. /\ receipt' = [receipt EXCEPT ![i] = phase]
        /\ memory' \in [Requests -> {"none"} \cup Open \cup Final]
        /\ memory'[i] \in {"none", phase}
        /\ \A j \in Requests \ {i} : Kept(j)
    BY <1>1, <2>1, RememberEffect
  <2>3. receipt'[i] = phase
    BY <2>2 DEF RegistryTypes
  <2>4. QED
    BY <2>2, <2>3
<1>2. CASE OnlySnapshot(i, phase)
  BY <1>2 DEF OnlySnapshot, RegistryTypes, Final, Kept
<1>3. QED
  BY <1>1, <1>2 DEF Close

\* What happens to one request id leaves the others sound.
LEMMA OthersSound ==
  ASSUME ReceiptInv, NEW i \in Requests, NEW j \in Requests \ {i},
         receipt'[j] = receipt[j], task'[j] = task[j], admitted'[j] = admitted[j],
         outcome'[j] = outcome[j], work'[j] = work[j],
         Kept(j)
  PROVE  Sound(j)'
BY DEF ReceiptInv, RegistryTypes, Sound, Truthful, Accounted, Closed, Modest, Unsent, Kept, Final

-----------------------------------------------------------------------------
LEMMA SubmitSound ==
  ASSUME ReceiptInv, NEW i \in Requests, Submit(i)
  PROVE  ReceiptInv'
<1>1. RegistryTypes /\ LinkTypes /\ Sound(i) /\ receipt[i] = "none" /\ memory[i] = "none"
  BY DEF ReceiptInv, Submit, Known
<1>2. UNCHANGED <<outcome, work>>
  BY DEF Submit, linkVars
<1>3. CASE /\ receipt' = [receipt EXCEPT ![i] = "queued"]
           /\ task' = [task EXCEPT ![i] = "scheduled"]
           /\ admitted' = [admitted EXCEPT ![i] = admitted[i] + 1]
           /\ memory' = [j \in Requests |-> IF j = i THEN "queued"
                                ELSE IF j \in Evictable(memory) THEN "none" ELSE memory[j]]
  <2>1. RegistryTypes'
    BY <1>1, <1>3 DEF RegistryTypes, Open
  <2>2. Sound(i)'
    BY <1>1, <1>2, <1>3 DEF RegistryTypes, Sound, Truthful, Accounted, Closed, Modest, Unsent
  <2>3. ASSUME NEW j \in Requests \ {i} PROVE Sound(j)'
    <3>1. Kept(j)
      BY <1>3 DEF Kept, Evictable
    <3>2. QED
      BY <1>1, <1>2, <1>3, <3>1, OthersSound DEF RegistryTypes
  <2>4. QED
    BY <1>1, <1>2, <2>1, <2>2, <2>3 DEF ReceiptInv, LinkTypes
<1>4. CASE UNCHANGED <<receipt, memory, task, admitted>>
  BY <1>2, <1>4 DEF ReceiptInv, RegistryTypes, LinkTypes, Sound, Truthful, Accounted, Closed,
     Modest, Unsent
<1>5. QED
  BY <1>3, <1>4, Zenon DEF Submit, NotScheduled

LEMMA RunSound ==
  ASSUME ReceiptInv, NEW i \in Requests, task[i] \in {"scheduled", "chained"}, Run(i),
         UNCHANGED admitted
  PROVE  ReceiptInv'
<1>1. RegistryTypes /\ LinkTypes /\ Sound(i) /\ receipt[i] = "queued" /\ Unsent(i)
  BY DEF ReceiptInv, Sound, Accounted
<1>2. CASE Update(i, "running") /\ task' = [task EXCEPT ![i] = "sent"] /\ Request(i)
  <2>1. /\ receipt' = [receipt EXCEPT ![i] = "running"]
        /\ memory' \in [Requests -> {"none"} \cup Open \cup Final]
        /\ memory'[i] = "running"
        /\ \A j \in Requests \ {i} : Kept(j)
    BY <1>1, <1>2, RememberEffect DEF Update, Open
  <2>2. /\ LinkTypes'
        /\ \/ outcome'[i] = "waiting"
           \/ outcome'[i] = "unavailable" /\ work'[i] = "none"
        /\ \A j \in Requests \ {i} : outcome'[j] = outcome[j] /\ work'[j] = work[j]
    BY <1>1, <1>2 DEF Request, LinkTypes, Outcomes, Works, Unsent
  <2>3. RegistryTypes'
    BY <1>1, <1>2, <2>1 DEF RegistryTypes, Open
  <2>4. Sound(i)'
    BY <1>1, <1>2, <2>1, <2>2 DEF RegistryTypes, Sound, Truthful, Accounted, Closed, Modest
  <2>5. ASSUME NEW j \in Requests \ {i} PROVE Sound(j)'
    BY <1>1, <1>2, <2>1, <2>2, OthersSound DEF RegistryTypes
  <2>6. QED
    BY <2>2, <2>3, <2>4, <2>5 DEF ReceiptInv
<1>3. CASE Close(i, "failed", 1) /\ task' = [task EXCEPT ![i] = "none"] /\ UNCHANGED linkVars
  <2>1. /\ receipt' \in {receipt, [receipt EXCEPT ![i] = "failed"]}
        /\ memory' \in [Requests -> {"none"} \cup Open \cup Final]
        /\ memory'[i] \in {"none", "uncertain", "failed"}
        /\ memory'[i] = "failed" => receipt'[i] = "failed"
        /\ \A j \in Requests \ {i} : Kept(j)
    BY <1>1, <1>3, CloseEffect DEF Final
  <2>2. UNCHANGED <<outcome, work>>
    BY <1>3 DEF linkVars
  <2>3. RegistryTypes'
    BY <1>1, <1>3, <2>1 DEF RegistryTypes, Final
  <2>4. Sound(i)'
    BY <1>1, <1>3, <2>1, <2>2 DEF RegistryTypes, Sound, Truthful, Accounted, Closed, Modest,
       Unsent
  <2>5. ASSUME NEW j \in Requests \ {i} PROVE Sound(j)'
    BY <1>1, <1>3, <2>1, <2>2, OthersSound DEF RegistryTypes
  <2>6. QED
    BY <1>1, <2>2, <2>3, <2>4, <2>5 DEF ReceiptInv, LinkTypes
<1>4. QED
  BY <1>2, <1>3 DEF Run

LEMMA SettleSound ==
  ASSUME ReceiptInv, NEW i \in Requests, Settle(i)
  PROVE  ReceiptInv'
<1>1. RegistryTypes /\ LinkTypes /\ Sound(i) /\ task[i] = "sent" /\ receipt[i] = "running"
  BY DEF ReceiptInv, Settle, Sound, Accounted
<1>2. UNCHANGED <<outcome, work, admitted>> /\ task' = [task EXCEPT ![i] = "none"]
  BY DEF Settle, linkVars
<1>3. PICK phase \in Final :
        /\ receipt' \in {receipt, [receipt EXCEPT ![i] = phase]}
        /\ memory' \in [Requests -> {"none"} \cup Open \cup Final]
        /\ memory'[i] \in {"none", "uncertain", phase}
        /\ memory'[i] = phase /\ phase # "uncertain" => receipt'[i] = phase
        /\ \A j \in Requests \ {i} : Kept(j)
        /\ phase = "succeeded" => outcome[i] = "ok"
        /\ phase = "failed" => outcome[i] \in {"error", "stopped", "unavailable"}
  <2>1. CASE outcome[i] = "ok" /\ Update(i, "succeeded")
    <3>1. Remember(i, "succeeded", [memory EXCEPT ![i] = "succeeded"])
      BY <2>1 DEF Update
    <3>2. "succeeded" \in Final
      BY DEF Final
    <3>3. /\ receipt' = [receipt EXCEPT ![i] = "succeeded"]
          /\ memory' \in [Requests -> {"none"} \cup Open \cup Final]
          /\ memory'[i] \in {"none", "succeeded"}
          /\ \A j \in Requests \ {i} : Kept(j)
      BY <1>1, <3>1, <3>2, RememberEffect
    <3>4. receipt'[i] = "succeeded"
      BY <1>1, <3>3 DEF RegistryTypes
    <3>5. QED
      BY <2>1, <3>2, <3>3, <3>4
  <2>2. CASE Close(i, "uncertain", 1)
    <3>1. "uncertain" \in Final
      BY DEF Final
    <3>2. QED
      BY <1>1, <2>2, <3>1, CloseEffect
  <2>3. CASE /\ outcome[i] \in {"error", "uncertain", "stopped", "unavailable"}
             /\ Close(i, FailurePhase(outcome[i]), 0)
    <3>1. /\ FailurePhase(outcome[i]) \in Final \ {"succeeded"}
          /\ FailurePhase(outcome[i]) = "failed" =>
               outcome[i] \in {"error", "stopped", "unavailable"}
      BY <2>3 DEF FailurePhase, Final
    <3>2. QED
      BY <1>1, <2>3, <3>1, CloseEffect
  <2>4. QED
    BY <2>1, <2>2, <2>3 DEF Settle
<1>4. RegistryTypes'
  BY <1>1, <1>2, <1>3 DEF RegistryTypes
<1>5. Sound(i)'
  BY <1>1, <1>2, <1>3 DEF RegistryTypes, Sound, Truthful, Accounted, Closed, Modest, Final
<1>6. ASSUME NEW j \in Requests \ {i} PROVE Sound(j)'
  BY <1>1, <1>2, <1>3, OthersSound DEF RegistryTypes
<1>7. QED
  BY <1>1, <1>2, <1>4, <1>5, <1>6 DEF ReceiptInv, LinkTypes

LEMMA CrashSound ==
  ASSUME ReceiptInv, RuntimeCrash
  PROVE  ReceiptInv'
<1>1. LinkTypes /\ RegistryTypes
  BY DEF ReceiptInv
<1>2. /\ receipt' = [i \in Requests |-> RecoveredReceipt(i)]
      /\ memory' = [i \in Requests |-> "none"] /\ task' = [i \in Requests |-> "none"]
      /\ outcome' = [r \in Requests |-> IF r \in Waiting THEN "none" ELSE outcome[r]]
      /\ admitted' = admitted
  BY DEF RuntimeCrash
<1>3. /\ work' \in [Requests -> Works]
      /\ \A i \in Requests : work'[i] = work[i] \/ work[i] = "queued"
  BY <1>1 DEF RuntimeCrash, LinkTypes, Works
<1>4. LinkTypes' /\ RegistryTypes'
  BY <1>1, <1>2, <1>3 DEF LinkTypes, Outcomes, RegistryTypes, RecoveredReceipt, Final
<1>5. ASSUME NEW i \in Requests PROVE Sound(i)'
  <2>1. Sound(i)
    BY DEF ReceiptInv
  <2>2. /\ receipt'[i] = RecoveredReceipt(i) /\ memory'[i] = "none" /\ task'[i] = "none"
        /\ outcome'[i] = IF outcome[i] = "waiting" THEN "none" ELSE outcome[i]
        /\ admitted'[i] = admitted[i]
    BY <1>2 DEF Waiting
  <2>3. Truthful(i)' /\ Modest(i)'
    BY <1>3, <2>1, <2>2 DEF Sound, Truthful, Modest
  <2>4. Accounted(i)'
    BY <1>3, <2>1, <2>2 DEF Sound, Accounted, Unsent, RecoveredReceipt
  <2>5. Closed(i)'
    BY <1>3, <2>1, <2>2 DEF Sound, Closed, RecoveredReceipt
  <2>6. QED
    BY <2>3, <2>4, <2>5 DEF Sound
<1>6. QED
  BY <1>4, <1>5 DEF ReceiptInv

LEMMA LinkSound ==
  ASSUME ReceiptInv, Settles, UNCHANGED <<receipt, memory, task, admitted>>
  PROVE  ReceiptInv'
<1>1. RegistryTypes' /\ LinkTypes'
  BY DEF ReceiptInv, RegistryTypes, Settles
<1>2. ASSUME NEW i \in Requests PROVE Sound(i)'
  <2>1. Sound(i)
    BY DEF ReceiptInv
  <2>2. /\ \/ outcome'[i] = outcome[i]
           \/ /\ outcome[i] = "waiting"
              /\ outcome'[i] \in {"ok", "error", "uncertain", "aborted", "stopped"}
              /\ outcome'[i] = "ok" => work[i] = "done"
              /\ outcome'[i] = "error" => work[i] = "refused"
        /\ work'[i] = work[i] \/ work[i] = "queued"
    BY DEF Settles
  <2>3. QED
    BY <2>1, <2>2 DEF Sound, Truthful, Accounted, Closed, Modest, Unsent
<1>3. QED
  BY <1>1, <1>2 DEF ReceiptInv

LEMMA ReceiptStep == ReceiptInv /\ [ReceiptNext]_receiptVars => ReceiptInv'
<1> SUFFICES ASSUME ReceiptInv, [ReceiptNext]_receiptVars PROVE ReceiptInv'
  OBVIOUS
<1>1. ASSUME NEW i \in Requests, Submit(i) PROVE ReceiptInv'
  BY <1>1, SubmitSound
<1>2. ASSUME NEW i \in Requests, Begin(i) \/ BeginGit(i) PROVE ReceiptInv'
  BY <1>2, RunSound DEF Begin, BeginGit, GitTurn
<1>3. ASSUME NEW i \in Requests, Enqueue(i) PROVE ReceiptInv'
  <2>1. /\ task[i] = "scheduled" /\ task' = [task EXCEPT ![i] = "chained"]
        /\ UNCHANGED <<outcome, work, receipt, memory, admitted>>
    BY <1>3 DEF Enqueue, linkVars
  <2>2. RegistryTypes' /\ LinkTypes'
    BY <2>1 DEF ReceiptInv, RegistryTypes, LinkTypes
  <2>3. ASSUME NEW j \in Requests PROVE Sound(j)'
    BY <2>1 DEF ReceiptInv, RegistryTypes, Sound, Truthful, Accounted, Closed, Modest, Unsent
  <2>4. QED
    BY <2>2, <2>3 DEF ReceiptInv
<1>4. ASSUME NEW i \in Requests, Settle(i) PROVE ReceiptInv'
  BY <1>4, SettleSound
<1>5. CASE LinkStep /\ UNCHANGED <<registry, saveFailures, crashes>>
  BY <1>5, StepSettles, LinkSound DEF ReceiptInv, registry
<1>6. CASE RuntimeCrash
  BY <1>6, CrashSound
<1>7. CASE UNCHANGED receiptVars
  <2>1. Settles /\ UNCHANGED <<receipt, memory, task, admitted>>
    BY <1>7 DEF receiptVars, linkVars, registry, ReceiptInv, LinkTypes, Settles
  <2>2. QED
    BY <2>1, LinkSound
<1>8. QED
  BY <1>1, <1>2, <1>3, <1>4, <1>5, <1>6, <1>7 DEF ReceiptNext

LEMMA ReceiptInvariance == ReceiptSpec => []ReceiptInv
<1>1. ReceiptInit => ReceiptInv
  BY DEF ReceiptInit, LinkInit, ReceiptInv, LinkTypes, RegistryTypes, Outcomes, Works, Sound,
     Truthful, Accounted, Closed, Modest, Unsent
<1>2. QED
  BY <1>1, ReceiptStep, PTL DEF ReceiptSpec

-----------------------------------------------------------------------------
(* The shapes: the order of the map, and the chain.                        *)

\* The order of the entries, which are operations with a receipt.
Mapped ==
  /\ before \in [Requests -> SUBSET Requests]
  /\ \A i, j \in Entries : i \in before[j] <=> i # j /\ j \notin before[i]
  /\ \A i \in Requests : \A j \in before[i] : receipt[j] # "none"

\* The chain holds tasks of its own, of which only the first has begun.
Chained ==
  /\ gitQueue \in Seq(Requests)
  /\ \A k, l \in 1..Len(gitQueue) : gitQueue[k] = gitQueue[l] => k = l
  /\ \A k \in 1..Len(gitQueue) :
       task[gitQueue[k]] = "chained" \/ (k = 1 /\ task[gitQueue[k]] = "sent")

Counted == saveFailures \in 0..MaxSaveFailures /\ crashes \in 0..MaxRuntimeCrashes

ShapeInv == ReceiptInv /\ Linked /\ Mapped /\ Chained /\ Counted

\* Entries that are left keep their order.
LEMMA MappedStays ==
  ASSUME Mapped, before' = before, Entries' \subseteq Entries,
         \A j \in Requests : receipt[j] # "none" => receipt'[j] # "none"
  PROVE  Mapped'
BY DEF Mapped

\* A task that begins or ends gives its entry and its receipt another phase, and
\* entries are evicted.
LEMMA MappedThrough ==
  ASSUME ShapeInv, ReceiptInv', NEW i \in Requests, task[i] # "none", before' = before,
         receipt' = receipt \/ \E phase \in Open \cup Final : receipt' = [receipt EXCEPT ![i] = phase],
         \A j \in Requests \ {i} : Kept(j)
  PROVE  Mapped'
<1>1. memory[i] # "none"
  BY DEF ShapeInv, ReceiptInv, Sound, Accounted
<1>2. Entries' \subseteq Entries
  BY <1>1 DEF Entries, Kept
<1>3. \A j \in Requests : receipt[j] # "none" => receipt'[j] # "none"
  BY DEF ShapeInv, ReceiptInv, RegistryTypes, Open, Final
<1>4. QED
  BY <1>2, <1>3, MappedStays DEF ShapeInv

\* A task that ends leaves the chain, in which it is the first or not at all.
LEMMA ChainedEnds ==
  ASSUME RegistryTypes, Chained, NEW i \in Requests,
         task[i] \in {"scheduled", "sent"} \/ GitTurn(i),
         gitQueue' = Unchained(i), task' = [task EXCEPT ![i] = "none"]
  PROVE  Chained'
<1>1. CASE gitQueue # <<>> /\ Head(gitQueue) = i
  <2>1. /\ gitQueue' \in Seq(Requests) /\ Len(gitQueue') = Len(gitQueue) - 1
        /\ \A k \in 1..Len(gitQueue') : gitQueue'[k] = gitQueue[k + 1]
        /\ Len(gitQueue) \in Nat /\ gitQueue[1] = i /\ 1 \in 1..Len(gitQueue)
    BY <1>1 DEF Chained, Unchained
  <2>2. ASSUME NEW k \in 1..Len(gitQueue') PROVE task'[gitQueue'[k]] = "chained"
    <3>1. k + 1 \in 1..Len(gitQueue) /\ k + 1 # 1
      BY <2>1
    <3>2. gitQueue[k + 1] # i /\ task[gitQueue[k + 1]] = "chained" /\ gitQueue[k + 1] \in Requests
      BY <2>1, <3>1 DEF Chained
    <3>3. QED
      BY <2>1, <3>2 DEF RegistryTypes
  <2>3. ASSUME NEW k \in 1..Len(gitQueue'), NEW l \in 1..Len(gitQueue'), gitQueue'[k] = gitQueue'[l]
        PROVE  k = l
    <3>1. k + 1 \in 1..Len(gitQueue) /\ l + 1 \in 1..Len(gitQueue)
      BY <2>1
    <3>2. k + 1 = l + 1
      BY <2>1, <2>3, <3>1 DEF Chained
    <3>3. QED
      BY <3>2
  <2>4. QED
    BY <2>1, <2>2, <2>3 DEF Chained
<1>2. CASE ~(gitQueue # <<>> /\ Head(gitQueue) = i)
  <2>1. gitQueue' = gitQueue
    BY <1>2 DEF Unchained
  <2>2. ASSUME NEW k \in 1..Len(gitQueue) PROVE gitQueue[k] # i /\ gitQueue[k] \in Requests
    <3>1. gitQueue # <<>> /\ Head(gitQueue) = gitQueue[1] /\ gitQueue[k] \in Requests
      BY DEF Chained
    <3>2. task[i] \in {"scheduled", "sent"} /\ gitQueue[1] # i
      BY <1>2, <3>1 DEF GitTurn
    <3>3. QED
      BY <3>1, <3>2 DEF Chained
  <2>3. QED
    BY <2>1, <2>2 DEF Chained, RegistryTypes
<1>3. QED
  BY <1>1, <1>2

\* A task that sends its request stays where it is in the chain.
LEMMA ChainedSends ==
  ASSUME RegistryTypes, Chained, NEW i \in Requests, task[i] = "scheduled" \/ GitTurn(i),
         gitQueue' = gitQueue, task' = [task EXCEPT ![i] = "sent"]
  PROVE  Chained'
<1>1. ASSUME NEW k \in 1..Len(gitQueue), gitQueue[k] = i PROVE k = 1
  <2>1. gitQueue # <<>> /\ Head(gitQueue) = gitQueue[1] /\ 1 \in 1..Len(gitQueue)
    BY DEF Chained
  <2>2. task[i] # "scheduled"
    BY <1>1 DEF Chained
  <2>3. gitQueue[1] = i
    BY <2>1, <2>2 DEF GitTurn
  <2>4. QED
    BY <1>1, <2>1, <2>3 DEF Chained
<1>2. \A k \in 1..Len(gitQueue) : gitQueue[k] \in Requests
  BY DEF Chained
<1>3. QED
  BY <1>1, <1>2 DEF Chained, RegistryTypes

LEMMA ChainedTasks ==
  ASSUME Chained, UNCHANGED <<gitQueue, task>>
  PROVE  Chained'
BY DEF Chained

LEMMA SaveFailsCounted ==
  ASSUME Counted, NEW i, NEW phase, NEW n \in Nat, Close(i, phase, n)
  PROVE  saveFailures' \in 0..MaxSaveFailures
BY ReceiptAssumption DEF Counted, Close, SaveFails

LEMMA LinkedStays ==
  ASSUME Linked, UNCHANGED linkVars
  PROVE  Linked'
BY DEF Linked, LinkTypeOK, linkVars, client

LEMMA SubmitShape ==
  ASSUME ShapeInv, NEW i \in Requests, Submit(i)
  PROVE  Linked' /\ Mapped' /\ Chained' /\ Counted'
<1>1. Linked'
  BY LinkedStays DEF ShapeInv, Submit
<1>2. RegistryTypes /\ Mapped /\ Chained /\ Counted /\ receipt[i] = "none" /\ task[i] = "none"
      /\ \A j \in Requests : receipt[j] = "none" => memory[j] = "none"
  BY DEF ShapeInv, ReceiptInv, Sound, Accounted, Submit, Known
<1>3. CASE SaveFails(1) /\ NotScheduled(i) /\ UNCHANGED <<receipt, before, memory, admitted>>
  <2>1. Mapped'
    BY <1>2, <1>3 DEF Mapped, Entries
  <2>2. Chained' /\ Counted'
    BY <1>2, <1>3 DEF Submit, Chained, NotScheduled, Counted, SaveFails
  <2>3. QED
    BY <1>1, <2>1, <2>2
<1>4. CASE /\ receipt' = [receipt EXCEPT ![i] = "queued"]
           /\ memory' = [j \in Requests |-> IF j = i THEN "queued"
                                ELSE IF j \in Evictable(memory) THEN "none" ELSE memory[j]]
           /\ before' = [before EXCEPT ![i] = Entries \ Evictable(memory)]
           /\ task' = [task EXCEPT ![i] = "scheduled"]
           /\ UNCHANGED saveFailures
  <2>1. \A j \in Entries \ Evictable(memory) : j \in Requests /\ j # i /\ receipt[j] # "none"
    BY <1>2 DEF Entries
  <2>2. /\ Entries' = (Entries \ Evictable(memory)) \cup {i}
        /\ i \notin Entries
    BY <1>2, <1>4 DEF Entries, RegistryTypes
  <2>3. /\ before' \in [Requests -> SUBSET Requests]
        /\ before'[i] = Entries \ Evictable(memory)
        /\ \A j \in Requests \ {i} : before'[j] = before[j]
        /\ \A j \in Requests : receipt[j] # "none" => receipt'[j] # "none"
    BY <1>2, <1>4, <2>1 DEF Mapped, RegistryTypes
  <2>4. \A j \in Requests : \A k \in before'[j] : receipt'[k] # "none"
    <3>1. ASSUME NEW j \in Requests, NEW k \in before'[j] PROVE k \in Requests /\ receipt[k] # "none"
      BY <1>2, <2>1, <2>3 DEF Mapped
    <3>2. QED
      BY <2>3, <3>1
  <2>5. ASSUME NEW j \in Entries', NEW k \in Entries'
        PROVE  j \in before'[k] <=> j # k /\ k \notin before'[j]
    <3>1. Entries \subseteq Requests
      BY DEF Entries
    <3>2. \A l \in Requests : i \notin before[l]
      BY <1>2 DEF Mapped
    <3>3. CASE j = i /\ k = i
      BY <2>1, <2>3, <3>3
    <3>4. CASE j = i /\ k # i
      BY <2>2, <2>3, <3>1, <3>2, <3>4
    <3>5. CASE j # i /\ k = i
      BY <2>2, <2>3, <3>1, <3>2, <3>5
    <3>6. CASE j # i /\ k # i
      BY <1>2, <2>2, <2>3, <3>1, <3>6 DEF Mapped
    <3>7. QED
      BY <3>3, <3>4, <3>5, <3>6
  <2>6. Mapped'
    BY <2>3, <2>4, <2>5 DEF Mapped
  <2>7. \A k \in 1..Len(gitQueue) : gitQueue[k] \in Requests /\ gitQueue[k] # i
    BY <1>2 DEF Chained
  <2>8. Chained' /\ Counted'
    BY <1>2, <1>4, <2>7 DEF Submit, Chained, RegistryTypes, Counted
  <2>9. QED
    BY <1>1, <2>6, <2>8
<1>5. QED
  BY <1>3, <1>4, Zenon DEF Submit

LEMMA RunShape ==
  ASSUME ShapeInv, ReceiptInv', NEW i \in Requests, task[i] = "scheduled" \/ GitTurn(i), Run(i),
         UNCHANGED <<before, admitted, crashes>>
  PROVE  Linked' /\ Mapped' /\ Chained' /\ Counted'
<1>1. RegistryTypes /\ Chained /\ Counted /\ Linked /\ task[i] # "none"
  BY DEF ShapeInv, ReceiptInv, GitTurn
<1>2. CASE Update(i, "running") /\ task' = [task EXCEPT ![i] = "sent"] /\ Request(i)
           /\ UNCHANGED gitQueue
  <2>1. /\ receipt' = [receipt EXCEPT ![i] = "running"] /\ "running" \in Open \cup Final
        /\ \A j \in Requests \ {i} : Kept(j)
    BY <1>1, <1>2, RememberEffect DEF Update, Open
  <2>2. Mapped'
    BY <1>1, <2>1, MappedThrough
  <2>3. QED
    BY <1>1, <1>2, <2>2, LinkShape, ChainedSends DEF Update, Counted
<1>3. CASE Close(i, "failed", 1) /\ task' = [task EXCEPT ![i] = "none"] /\ gitQueue' = Unchained(i)
           /\ UNCHANGED linkVars
  <2>1. /\ receipt' \in {receipt, [receipt EXCEPT ![i] = "failed"]} /\ "failed" \in Open \cup Final
        /\ \A j \in Requests \ {i} : Kept(j)
    BY <1>1, <1>3, CloseEffect DEF Final
  <2>2. Mapped'
    BY <1>1, <2>1, MappedThrough
  <2>3. Linked' /\ Chained'
    BY <1>1, <1>3, LinkedStays, ChainedEnds
  <2>4. Counted'
    BY <1>1, <1>3, SaveFailsCounted DEF Counted
  <2>5. QED
    BY <2>2, <2>3, <2>4
<1>4. QED
  BY <1>2, <1>3 DEF Run

LEMMA SettleShape ==
  ASSUME ShapeInv, ReceiptInv', NEW i \in Requests, Settle(i)
  PROVE  Linked' /\ Mapped' /\ Chained' /\ Counted'
<1>1. /\ RegistryTypes /\ Chained /\ Counted /\ Linked
      /\ task[i] = "sent" /\ task' = [task EXCEPT ![i] = "none"] /\ gitQueue' = Unchained(i)
      /\ UNCHANGED linkVars /\ UNCHANGED <<before, admitted, crashes>>
  BY DEF ShapeInv, ReceiptInv, Settle
<1>2. /\ \E phase \in Final : receipt' \in {receipt, [receipt EXCEPT ![i] = phase]}
      /\ \A j \in Requests \ {i} : Kept(j)
      /\ saveFailures' \in 0..MaxSaveFailures
  <2>1. CASE Update(i, "succeeded")
    <3>1. "succeeded" \in Final
      BY DEF Final
    <3>2. QED
      BY <1>1, <2>1, <3>1, RememberEffect DEF Update, Counted
  <2>2. CASE \E phase \in Final, n \in {0, 1} : Close(i, phase, n)
    BY <1>1, <2>2, CloseEffect, SaveFailsCounted
  <2>3. outcome[i] \in {"error", "uncertain", "stopped", "unavailable"} => FailurePhase(outcome[i]) \in Final
    BY DEF FailurePhase, Final
  <2>4. "uncertain" \in Final
    BY DEF Final
  <2>5. QED
    BY <2>1, <2>2, <2>3, <2>4 DEF Settle
<1>3. Mapped'
  BY <1>1, <1>2, MappedThrough
<1>4. QED
  BY <1>1, <1>2, <1>3, LinkedStays, ChainedEnds DEF Counted

LEMMA EnqueueShape ==
  ASSUME ShapeInv, NEW i \in Requests, Enqueue(i)
  PROVE  Linked' /\ Mapped' /\ Chained' /\ Counted'
<1>1. Linked' /\ Mapped' /\ Counted'
  BY LinkedStays DEF ShapeInv, Enqueue, Mapped, Entries, Counted
<1>2. /\ RegistryTypes /\ Chained /\ task[i] = "scheduled"
      /\ task' = [task EXCEPT ![i] = "chained"] /\ gitQueue' = Append(gitQueue, i)
  BY DEF ShapeInv, ReceiptInv, Enqueue
<1>3. /\ gitQueue' \in Seq(Requests) /\ Len(gitQueue') = Len(gitQueue) + 1 /\ Len(gitQueue) \in Nat
      /\ gitQueue'[Len(gitQueue) + 1] = i
      /\ \A k \in 1..Len(gitQueue) :
            gitQueue'[k] = gitQueue[k] /\ gitQueue[k] \in Requests /\ gitQueue[k] # i
  BY <1>2 DEF Chained
<1>4. Chained'
  BY <1>2, <1>3 DEF Chained, RegistryTypes
<1>5. QED
  BY <1>1, <1>4

LEMMA CrashShape ==
  ASSUME ShapeInv, RuntimeCrash
  PROVE  Linked' /\ Mapped' /\ Chained' /\ Counted'
<1>1. Linked'
  <2>1. /\ status' = "starting" /\ generation' = 0 /\ child' = 0 /\ restarts' = 0 /\ timers' = 0
        /\ handshake' = 0 /\ stopping' = FALSE /\ closing' = 0 /\ killFailures' = killFailures
        /\ outcome' = [r \in Requests |-> IF r \in Waiting THEN "none" ELSE outcome[r]]
        /\ proc' = [g \in Generations |-> "none"] /\ to' = [r \in Requests |-> 0]
    BY DEF RuntimeCrash
  <2>2. LinkTypeOK
    BY DEF ShapeInv, Linked
  <2>3. work' \in [Requests -> {"none", "queued", "done", "refused", "dropped"}]
    BY <2>2 DEF RuntimeCrash, LinkTypeOK
  <2>4. outcome' \in [Requests -> {"none", "waiting", "ok", "error", "uncertain",
                                   "aborted", "stopped", "unavailable"}]
    BY <2>1, <2>2 DEF LinkTypeOK
  <2>5. /\ proc' \in [Generations -> {"none", "booting", "serving", "dead", "gone"}]
        /\ to' \in [Requests -> 0..MaxGenerations]
    BY <2>1, LinkAssumption
  <2>6. /\ status' \in {"starting", "ready", "degraded", "stopped"}
        /\ generation' \in 0..MaxGenerations /\ restarts' \in 0..MaxRestarts /\ timers' \in Nat
    BY <2>1, LinkAssumption
  <2>7. /\ child' = generation' /\ handshake' = generation' /\ closing' = 0
        /\ killFailures' \in 0..MaxKillFailures
    BY <2>1, <2>2 DEF LinkTypeOK
  <2>8. stopping' \in BOOLEAN
    BY <2>1
  <2>9. QED
    BY <2>3, <2>4, <2>5, <2>6, <2>7, <2>8 DEF Linked, LinkTypeOK
<1>2. Mapped'
  BY DEF RuntimeCrash, Mapped, Entries
<1>3. Chained' /\ Counted'
  BY ReceiptAssumption DEF ShapeInv, RuntimeCrash, Chained, Counted
<1>4. QED
  BY <1>1, <1>2, <1>3

LEMMA ShapeStep == ShapeInv /\ [ReceiptNext]_receiptVars => ShapeInv'
<1> SUFFICES ASSUME ShapeInv, [ReceiptNext]_receiptVars PROVE ShapeInv'
  OBVIOUS
<1>1. ReceiptInv'
  BY ReceiptStep DEF ShapeInv
<1> SUFFICES Linked' /\ Mapped' /\ Chained' /\ Counted'
  BY <1>1 DEF ShapeInv
<1>2. ASSUME NEW i \in Requests, Submit(i) \/ Enqueue(i) \/ Settle(i)
      PROVE  Linked' /\ Mapped' /\ Chained' /\ Counted'
  BY <1>1, <1>2, SubmitShape, EnqueueShape, SettleShape
<1>3. ASSUME NEW i \in Requests, Begin(i) \/ BeginGit(i)
      PROVE  Linked' /\ Mapped' /\ Chained' /\ Counted'
  BY <1>1, <1>3, RunShape DEF Begin, BeginGit
<1>4. ASSUME Linked', UNCHANGED <<registry, saveFailures, crashes>>
      PROVE  Linked' /\ Mapped' /\ Chained' /\ Counted'
  BY <1>4 DEF ShapeInv, registry, Mapped, Entries, Chained, Counted
<1>5. CASE LinkStep /\ UNCHANGED <<registry, saveFailures, crashes>>
  BY <1>4, <1>5, LinkShape DEF ShapeInv
<1>6. CASE UNCHANGED receiptVars
  BY <1>4, <1>6, LinkedStays DEF ShapeInv, receiptVars
<1>7. QED
  BY <1>2, <1>3, <1>5, <1>6, CrashShape DEF ReceiptNext

LEMMA ShapeInvariance == ReceiptSpec => []ShapeInv
<1>1. ReceiptInit => ReceiptInv
  BY DEF ReceiptInit, LinkInit, ReceiptInv, LinkTypes, RegistryTypes, Outcomes, Works, Sound,
     Truthful, Accounted, Closed, Modest, Unsent
<1>2. ReceiptInit => Linked
  <2> SUFFICES ASSUME ReceiptInit PROVE Linked
    OBVIOUS
  <2>1. LinkInit
    BY DEF ReceiptInit
  <2>2. /\ outcome \in [Requests -> {"none", "waiting", "ok", "error", "uncertain",
                                     "aborted", "stopped", "unavailable"}]
        /\ work \in [Requests -> {"none", "queued", "done", "refused", "dropped"}]
        /\ proc \in [Generations -> {"none", "booting", "serving", "dead", "gone"}]
        /\ to \in [Requests -> 0..MaxGenerations]
    BY <2>1, LinkAssumption DEF LinkInit
  <2>3. /\ status \in {"starting", "ready", "degraded", "stopped"}
        /\ generation \in 0..MaxGenerations /\ restarts \in 0..MaxRestarts /\ timers \in Nat
        /\ killFailures \in 0..MaxKillFailures
    BY <2>1, LinkAssumption DEF LinkInit
  <2>4. child = generation /\ handshake = generation /\ closing = 0
    BY <2>1 DEF LinkInit
  <2>5. stopping \in BOOLEAN
    BY <2>1 DEF LinkInit
  <2>6. QED
    BY <2>2, <2>3, <2>4, <2>5 DEF Linked, LinkTypeOK
<1>3. ReceiptInit => Mapped /\ Chained /\ Counted
  BY ReceiptAssumption DEF ReceiptInit, Mapped, Entries, Chained, Counted
<1>4. ReceiptInit => ShapeInv
  BY <1>1, <1>2, <1>3 DEF ShapeInv
<1>5. QED
  BY <1>4, ShapeStep, PTL DEF ReceiptSpec

-----------------------------------------------------------------------------
\* An operation is scheduled at most once per request id, whatever is evicted,
\* cannot be saved, crashes or is shut down in between.
THEOREM Once == ReceiptSpec => []AtMostOnce
<1>1. ReceiptInv => AtMostOnce
  BY DEF ReceiptInv, Sound, Accounted, AtMostOnce
<1>2. QED
  BY <1>1, ReceiptInvariance, PTL

\* A durable receipt is true of the work behind it, no task runs without an open
\* one, what is shown is no more definite than what is recorded, and the map, the
\* chain and the client keep their shapes.
THEOREM ReceiptsTellTheTruth == ReceiptSpec => []ReceiptsHonest
<1>1. ShapeInv => HonestReceipt /\ NoTaskWithoutReceipt /\ NoOptimism
  BY DEF ShapeInv, ReceiptInv, RegistryTypes, Sound, Accounted, Closed, Modest, HonestReceipt,
     NoTaskWithoutReceipt, NoOptimism, Open
<1>2. ShapeInv => ReceiptTypeOK
  <2> SUFFICES ASSUME ShapeInv PROVE ReceiptTypeOK
    OBVIOUS
  <2>1. IsInjective(gitQueue)
    BY DEF ShapeInv, Chained, IsInjective
  <2>2. QED
    BY <2>1 DEF ShapeInv, ReceiptInv, RegistryTypes, Linked, Mapped, Chained, Counted, ReceiptTypeOK
<1>3. QED
  BY <1>1, <1>2, ShapeInvariance, PTL DEF ReceiptsHonest
=============================================================================
