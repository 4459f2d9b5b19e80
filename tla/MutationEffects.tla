--------------------------- MODULE MutationEffects ---------------------------
(***************************************************************************)
(* The mutation locks together with what they protect.  The operation      *)
(* behind a lock is one request to the system runtime, and a caller whose  *)
(* signal fires, or whose request times out, gives it up locally: the lock *)
(* is released while the effect may still be under way in the other        *)
(* process.  What then keeps the effects apart is the order of the pipe,   *)
(* the line of the file dispatcher, the flags of its jobs, and the killing *)
(* of commands (system.ts, dispatch.rs, shell/handlers.rs).                *)
(*                                                                         *)
(* Of the file dispatcher only mutations appear; FileDispatch shows that   *)
(* reads do not change their order.                                        *)
(***************************************************************************)
EXTENDS MutationLocks, FiniteSets

CONSTANTS
  Shells,      \* the operations that run a command; the others change files
  MaxTroubles  \* bound: calls that are cancelled or time out

ASSUME EffectsAssumption == Shells \subseteq Ops /\ MaxTroubles \in Nat

VARIABLES
  effect,   \* how far the system runtime is with the request of a call
  givenUp,  \* calls whose request was cancelled or timed out locally
  pipe,     \* lines on their way to the system runtime
  line,     \* the channel of the file dispatcher
  flagged,  \* jobs whose cancellation flag is set
  missed    \* history: commands whose cancellation found no process to kill

service == <<effect, line, flagged, missed>>
effectVars == <<vars, effect, givenUp, pipe, line, flagged, missed>>

Files == Ops \ Shells

EffectsInit ==
  /\ Init
  /\ effect = [o \in Ops |-> "none"]
  /\ givenUp = {}
  /\ pipe = <<>> /\ line = <<>>
  /\ flagged = {} /\ missed = {}

-----------------------------------------------------------------------------
(* The Runtime.  An operation writes its request in the turn it starts in.  *)

Request(o) == [what |-> "request", op |-> o]
CancelOf(o) == [what |-> "cancel", op |-> o]

SendIfStarted(o) ==
  IF phase'[o] = "running"
  THEN effect' = [effect EXCEPT ![o] = "sent"] /\ pipe' = Append(pipe, Request(o))
  ELSE UNCHANGED <<effect, pipe>>

\* The footprint of a command is unknown.
RegisterCall(o, f) ==
  /\ o \in Shells => f = {}
  /\ Register(o, f)
  /\ SendIfStarted(o)
  /\ UNCHANGED <<givenUp, line, flagged, missed>>

StartCall(o) ==
  /\ Start(o)
  /\ SendIfStarted(o)
  /\ UNCHANGED <<givenUp, line, flagged, missed>>

\* Waiting for a lock, or over before it was taken: nothing was sent.
Withdraw(o) ==
  /\ Refuse(o) \/ StartFails(o) \/ Leave(o)
  /\ UNCHANGED <<service, givenUp, pipe>>

UnderWay(o) == phase[o] = "running" /\ o \notin givenUp

GiveUp(o) ==
  /\ givenUp' = givenUp \cup {o}
  /\ pipe' = Append(pipe, CancelOf(o))
  /\ UNCHANGED service

Trouble == Cardinality({o \in Ops : aborted[o]} \cup givenUp) < MaxTroubles

\* onAbort of a pending request.
AbortCall(o) ==
  /\ Trouble /\ Abort(o)
  /\ IF UnderWay(o) THEN GiveUp(o) ELSE UNCHANGED <<service, givenUp, pipe>>

\* The timer of a pending request.
TimeOut(o) == Trouble /\ UnderWay(o) /\ GiveUp(o) /\ UNCHANGED vars

Answered(o) == effect[o] \in {"skipped", "ended"}

\* The request was answered, or is given up: the operation settles.
FinishCall(o) ==
  /\ Finish(o)
  /\ Answered(o) \/ o \in givenUp
  /\ UNCHANGED <<service, givenUp, pipe>>

-----------------------------------------------------------------------------
(* The system runtime. *)

Becomes(o, stage) == effect' = [effect EXCEPT ![o] = stage]

\* A job that is answered leaves the map that holds its flag.
Respond(o, how) ==
  /\ Becomes(o, how)
  /\ flagged' = flagged \ {o} /\ missed' = missed \ {o}

\* The main loop reads a request: a job for the dispatcher, a thread for a
\* command, or a refusal.
ReadRequest(o) ==
  /\ \/ Becomes(o, "queued")
     \/ o \in Shells /\ Becomes(o, "skipped")
  /\ line' = IF o \in Files THEN Append(line, o) ELSE line
  /\ UNCHANGED <<flagged, missed>>

\* handle_cancel: the flag of a job that has not been answered, and the process
\* group of a command that is in the table.
ReadCancel(o) ==
  /\ flagged' = IF o \in Files /\ ~Answered(o) THEN flagged \cup {o} ELSE flagged
  /\ missed' = IF o \in Shells /\ effect[o] = "queued" THEN missed \cup {o} ELSE missed
  /\ IF o \in Shells /\ effect[o] = "begun" THEN Becomes(o, "ended") ELSE UNCHANGED effect
  /\ UNCHANGED line

ReadLine ==
  /\ pipe # <<>>
  /\ pipe' = Tail(pipe)
  /\ IF Head(pipe).what = "request" THEN ReadRequest(Head(pipe).op)
                                    ELSE ReadCancel(Head(pipe).op)
  /\ UNCHANGED <<vars, givenUp>>

BeginHead ==
  /\ line # <<>>
  /\ IF Head(line) \in flagged THEN Respond(Head(line), "skipped")
     ELSE Becomes(Head(line), "begun") /\ UNCHANGED <<flagged, missed>>
  /\ line' = Tail(line)
  /\ UNCHANGED <<vars, givenUp, pipe>>

\* Mutant of BeginFile: the job gets a thread of its own, as reads do.
BeginFileOnThread == BeginHead

\* The dispatcher takes its next job when it is done with the last one.
BeginFile == (\A o \in Files : effect[o] # "begun") /\ BeginHead

\* A command's thread has spawned it and entered it in the table, or failed to.
BeginShell(o) ==
  /\ o \in Shells /\ effect[o] = "queued"
  /\ \/ Becomes(o, "begun") /\ UNCHANGED <<flagged, missed>>
     \/ Respond(o, "skipped")
  /\ UNCHANGED <<vars, givenUp, pipe, line>>

\* A handler returns; a command ends, at its time limit at the latest.
End(o) ==
  /\ effect[o] = "begun"
  /\ Respond(o, "ended")
  /\ UNCHANGED <<vars, givenUp, pipe, line>>

Service == ReadLine \/ BeginFile \/ \E o \in Ops : BeginShell(o) \/ End(o)

-----------------------------------------------------------------------------
AllOver ==
  /\ \A o \in Ops : phase[o] = "done" /\ (effect[o] = "none" \/ Answered(o))
  /\ pipe = <<>>
  /\ UNCHANGED effectVars

EffectsNext ==
  \/ \E o \in Ops, f \in Footprints : RegisterCall(o, f)
  \/ \E o \in Ops :
       \/ StartCall(o) \/ Withdraw(o) \/ AbortCall(o) \/ TimeOut(o) \/ FinishCall(o)
  \/ Service
  \/ AllOver

\* Continuations run, the threads of the system runtime are scheduled, and
\* handlers and commands end.
EffectsFairness ==
  /\ \A o \in Ops : WF_effectVars(StartCall(o)) /\ WF_effectVars(FinishCall(o))
  /\ \A o \in Ops : WF_effectVars(Leave(o) /\ Withdraw(o))
  /\ WF_effectVars(ReadLine) /\ WF_effectVars(BeginFile)
  /\ \A o \in Ops : WF_effectVars(BeginShell(o)) /\ WF_effectVars(End(o))

EffectsSpec == EffectsInit /\ [][EffectsNext]_effectVars /\ EffectsFairness

-----------------------------------------------------------------------------
\* Whatever begins from now on begins after effect o: it never was and never
\* will be, or it has ended.
OverBefore(o) ==
  \/ Answered(o)
  \/ effect[o] = "none" /\ phase[o] = "done"
  \/ effect[o] = "queued" /\ o \in flagged

\* A call that was given up and whose effect may meet a later one: a command
\* whose cancellation came before its process, or a file operation that is
\* already being executed when a later command is started.
Escaped(o, p) ==
  /\ o \in givenUp
  /\ o \in missed \/ (o \in Files /\ p \in Shells /\ effect[o] = "begun")

\* The effects of conflicting calls happen one after the other and in the order
\* of their locks, although a call that is given up releases its lock before
\* its effect is over; only the two races of Escaped are not covered
\* (RootMutationCoordinator.run, SystemRuntimeClient.request, handle_cancel).
EffectsInOrder ==
  \A o, p \in Ops :
    /\ arrival[o] # 0 /\ arrival[o] < arrival[p]
    /\ ResourcesConflict(keys[o], keys[p])
    /\ effect[p] \in {"begun", "ended"}
    => OverBefore(o) \/ Escaped(o, p)
=============================================================================
