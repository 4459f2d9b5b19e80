------------------------ MODULE MutationEffectsProofs ------------------------
(***************************************************************************)
(* The mutation coordinator for every number of calls and every footprint: *)
(* its safety, that it implements the abstract conflict lock, and that the *)
(* effects of the calls keep the order of the locks, for every set of      *)
(* commands and any number of cancelled or timed out calls.                *)
(***************************************************************************)
EXTENDS MutationEffects, TLAPS

-----------------------------------------------------------------------------
(* The coordinator.                                                        *)

\* Conflict has no direction: resourcesConflict tests the ancestor relation
\* both ways.
LEMMA ConflictSymmetric ==
  ASSUME NEW a, NEW b
  PROVE  ResourcesConflict(a, b) <=> ResourcesConflict(b, a)
BY DEF ResourcesConflict, Overlap

\* Arrivals number the registered calls without repetition.
Numbered ==
  /\ \A o \in Ops : arrival[o] <= clock
  /\ \A o, p \in Pending : o # p => arrival[o] # arrival[p]

\* An entry waits for every conflicting entry that came before it and is still
\* there, and for nobody who has not registered.
Waits ==
  /\ \A o, p \in Pending :
       /\ arrival[p] < arrival[o]
       /\ ResourcesConflict(keys[p], keys[o])
       => p \in ahead[o]
  /\ \A o \in Ops : \A p \in ahead[o] : phase[p] # "idle"

\* Whoever executes has nobody left to wait for.
RunsClear == \A o \in Ops : phase[o] = "running" => Settled(o)

IInv == TypeOK /\ Numbered /\ Waits /\ RunsClear

-----------------------------------------------------------------------------
LEMMA InitIInv == Init => IInv
BY DEF Init, IInv, TypeOK, Numbered, Waits, RunsClear, Pending, Settled, Phases

\* A step that only moves one registered call forward, and puts it in the
\* running phase only when it has settled, keeps the invariant.
LEMMA AdvanceIInv ==
  ASSUME IInv, NEW o \in Ops, NEW to \in Phases \ {"idle", "waiting"},
         phase' = [phase EXCEPT ![o] = to],
         phase[o] = "idle" => to = "done",
         phase[o] # "done",
         to = "running" => Settled(o),
         aborted' \in [Ops -> BOOLEAN],
         UNCHANGED <<keys, ahead, arrival, clock>>
  PROVE  IInv'
<1>1. TypeOK'
  BY DEF IInv, TypeOK, Phases
<1>2. Pending' \subseteq Pending
  BY DEF IInv, TypeOK, Pending, Phases
<1>3. Numbered'
  BY <1>2 DEF IInv, Numbered, TypeOK
<1>4. Waits'
  BY <1>2 DEF IInv, Waits, TypeOK
<1>5. RunsClear'
  BY <1>2 DEF IInv, RunsClear, Settled, TypeOK
<1>6. QED
  BY <1>1, <1>3, <1>4, <1>5 DEF IInv

LEMMA RegisterIInv ==
  ASSUME IInv, NEW o \in Ops, NEW f \in Footprints, Register(o, f)
  PROVE  IInv'
<1> USE DEF Register, Enter
<1> DEFINE predecessors == {p \in Pending : ResourcesConflict(keys[p], f)}
<1>1. TypeOK'
  BY DEF IInv, TypeOK, Phases, Pending
<1>2. /\ Pending' = Pending \cup {o}
      /\ o \notin Pending
  BY DEF IInv, TypeOK, Pending
<1>3. \A p \in Ops \ {o} : /\ arrival'[p] = arrival[p]
                           /\ keys'[p] = keys[p]
                           /\ ahead'[p] = ahead[p]
                           /\ phase'[p] = phase[p]
  BY DEF IInv, TypeOK
<1>4. /\ arrival'[o] = clock + 1
      /\ keys'[o] = f
      /\ ahead'[o] = predecessors
      /\ phase'[o] = IF predecessors = {} THEN "running" ELSE "waiting"
      /\ clock' = clock + 1
  BY DEF IInv, TypeOK
<1>5. \A p \in Ops : arrival[p] \in Nat /\ arrival[p] <= clock /\ clock \in Nat
  BY DEF IInv, TypeOK, Numbered
<1>6. Pending \subseteq Ops
  BY DEF Pending
<1>7. Numbered'
  BY <1>2, <1>3, <1>4, <1>5, <1>6 DEF IInv, Numbered
<1>8. Waits'
  <2>1. ASSUME NEW q \in Pending', NEW p \in Pending',
               arrival'[p] < arrival'[q],
               ResourcesConflict(keys'[p], keys'[q])
        PROVE  p \in ahead'[q]
    <3>1. CASE q = o
      <4>1. p # o
        BY <2>1, <3>1, <1>4, <1>5
      <4>2. QED
        BY <2>1, <3>1, <4>1, <1>2, <1>3, <1>4, <1>6
    <3>2. CASE q # o
      <4>1. p # o
        BY <2>1, <3>2, <1>2, <1>3, <1>4, <1>5, <1>6
      <4>2. QED
        BY <2>1, <3>2, <4>1, <1>2, <1>3, <1>6 DEF IInv, Waits
    <3>3. QED
      BY <3>1, <3>2
  <2>2. ASSUME NEW q \in Ops, NEW p \in ahead'[q]
        PROVE  phase'[p] # "idle"
    <3>1. CASE q = o
      BY <2>2, <3>1, <1>2, <1>3, <1>4, <1>6 DEF Pending
    <3>2. CASE q # o
      <4>1. p \in ahead[q] /\ p \in Ops /\ phase[p] # "idle"
        BY <2>2, <3>2, <1>3 DEF IInv, TypeOK, Waits
      <4>2. QED
        BY <4>1, <1>3, <1>4
    <3>3. QED
      BY <3>1, <3>2
  <2>3. QED
    BY <2>1, <2>2 DEF Waits
<1>9. RunsClear'
  <2>1. ASSUME NEW q \in Ops, phase'[q] = "running"
        PROVE  ahead'[q] \cap Pending' = {}
    <3>1. CASE q = o
      BY <2>1, <3>1, <1>4
    <3>2. CASE q # o
      <4>1. ahead[q] \cap Pending = {} /\ ahead'[q] = ahead[q]
        BY <2>1, <3>2, <1>3 DEF IInv, RunsClear, Settled
      <4>2. o \notin ahead[q]
        BY DEF IInv, Waits
      <4>3. QED
        BY <4>1, <4>2, <1>2
    <3>3. QED
      BY <3>1, <3>2
  <2>2. QED
    BY <2>1 DEF RunsClear, Settled
<1>10. QED
  BY <1>1, <1>7, <1>8, <1>9 DEF IInv

LEMMA AbortIInv ==
  ASSUME IInv, NEW o \in Ops, Abort(o)
  PROVE  IInv'
<1>1. CASE phase[o] = "waiting"
  BY <1>1, AdvanceIInv, Zenon DEF Abort, IInv, TypeOK, Phases
<1>2. CASE phase[o] # "waiting"
  <2>1. phase' = phase
    BY <1>2 DEF Abort, IInv, TypeOK
  <2>2. Pending' = Pending
    BY <2>1 DEF Pending
  <2>3. QED
    BY <2>1, <2>2 DEF Abort, IInv, TypeOK, Numbered, Waits, RunsClear, Settled
<1>3. QED
  BY <1>1, <1>2

LEMMA NextIInv == IInv /\ [Next]_vars => IInv'
<1> SUFFICES ASSUME IInv, [Next]_vars PROVE IInv'
  OBVIOUS
<1>0. aborted \in [Ops -> BOOLEAN]
  BY DEF IInv, TypeOK
<1>1. ASSUME NEW o \in Ops, NEW f \in Footprints, Register(o, f) PROVE IInv'
  BY <1>1, RegisterIInv
<1>2. ASSUME NEW o \in Ops, Refuse(o) PROVE IInv'
  BY <1>0, <1>2, AdvanceIInv DEF Refuse, Phases
<1>3. ASSUME NEW o \in Ops, Start(o) PROVE IInv'
  BY <1>0, <1>3, AdvanceIInv DEF Start, Phases
<1>4. ASSUME NEW o \in Ops, StartFails(o) PROVE IInv'
  BY <1>0, <1>4, AdvanceIInv DEF StartFails, Phases
<1>5. ASSUME NEW o \in Ops, Finish(o) PROVE IInv'
  BY <1>0, <1>5, AdvanceIInv DEF Finish, Phases
<1>6. ASSUME NEW o \in Ops, Abort(o) PROVE IInv'
  BY <1>6, AbortIInv
<1>7. ASSUME NEW o \in Ops, Leave(o) PROVE IInv'
  BY <1>0, <1>7, AdvanceIInv DEF Leave, Phases
<1>8. CASE UNCHANGED vars
  BY <1>8 DEF vars, IInv, TypeOK, Numbered, Waits, RunsClear, Pending, Settled
<1>9. QED
  BY <1>1, <1>2, <1>3, <1>4, <1>5, <1>6, <1>7, <1>8 DEF Next, AllDone

\* The inductive invariant holds in every reachable state.
THEOREM Invariance == Spec => []IInv
BY InitIInv, NextIInv, PTL DEF Spec

-----------------------------------------------------------------------------
\* Every variable of the coordinator keeps its shape, for every set of calls.
THEOREM TypeCorrect == Spec => []TypeOK
<1>1. IInv => TypeOK
  BY DEF IInv
<1>2. QED
  BY <1>1, Invariance, PTL

LEMMA IInvNoOvertaking == IInv => NoOvertaking
<1> SUFFICES ASSUME IInv, NEW o \in Ops, NEW p \in Ops,
                    phase[o] = "running", p \in Pending,
                    arrival[p] < arrival[o],
                    ResourcesConflict(keys[o], keys[p])
             PROVE  FALSE
  BY DEF NoOvertaking
<1>1. o \in Pending
  BY DEF Pending
<1>2. p \in ahead[o]
  BY <1>1, ConflictSymmetric DEF IInv, Waits
<1>3. QED
  BY <1>2 DEF IInv, RunsClear, Settled

\* A running mutation has no conflicting entry before it: the order in which
\* run() was called is the order in which conflicting operations execute.
THEOREM Fifo == Spec => []NoOvertaking
BY IInvNoOvertaking, Invariance, PTL

\* Conflicting mutations of one delegation tree never execute together.
THEOREM Exclusion == Spec => []MutualExclusion
<1>1. IInv => MutualExclusion
  <2> SUFFICES ASSUME IInv, NEW o \in Ops, NEW p \in Ops, o # p,
                      phase[o] = "running", phase[p] = "running",
                      ResourcesConflict(keys[o], keys[p])
               PROVE  FALSE
    BY DEF MutualExclusion
  <2>1. o \in Pending /\ p \in Pending
    BY DEF Pending
  <2>2. ResourcesConflict(keys[p], keys[o])
    BY ConflictSymmetric
  <2>3. arrival[o] < arrival[p] \/ arrival[p] < arrival[o]
    BY <2>1 DEF IInv, TypeOK, Numbered
  <2>4. QED
    BY <2>1, <2>2, <2>3, IInvNoOvertaking DEF NoOvertaking
<1>2. QED
  BY <1>1, Invariance, PTL

\* A waiter whose signal fired is never let through to its operation.
THEOREM Cancellation == Spec => CancelledNeverRuns
<1>1. IInv /\ [Next]_vars =>
        [\A o \in Ops : /\ phase[o] \in {"waiting", "cancelled"}
                        /\ aborted[o]
                        => phase'[o] # "running"]_vars
  BY DEF Next, Register, Enter, Refuse, Start, StartFails, Finish, Abort,
         Leave, AllDone, IInv, TypeOK
<1>2. QED
  BY <1>1, Invariance, PTL DEF Spec, CancelledNeverRuns

-----------------------------------------------------------------------------
LEMMA StageCases ==
  ASSUME NEW o \in Ops
  PROVE  /\ phase[o] = "idle" => StageOf[o] = "new"
         /\ phase[o] \in {"waiting", "cancelled"} => StageOf[o] = "standing"
         /\ phase[o] = "running" => StageOf[o] = "holding"
         /\ phase[o] = "done" => StageOf[o] = "gone"
BY DEF StageOf, StageName

\* Whatever stands or holds in the abstract lock has a pending entry.
LEMMA LivePending ==
  ASSUME TypeOK, NEW o \in Ops
  PROVE  Lock!Live(o) <=> o \in Pending
BY StageCases DEF Lock!Live, Pending, TypeOK, Phases

LEMMA StageMoves ==
  ASSUME TypeOK, NEW o \in Ops, NEW to \in Phases,
         phase' = [phase EXCEPT ![o] = to]
  PROVE  StageOf' = [StageOf EXCEPT ![o] = StageName[to]]
BY DEF StageOf, TypeOK

LEMMA DepartStep ==
  ASSUME TypeOK, NEW o \in Ops, phase' = [phase EXCEPT ![o] = "done"],
         UNCHANGED <<keys, arrival, clock>>
  PROVE  Lock!Depart(o)
BY StageMoves DEF Lock!Depart, Phases, StageName

LEMMA RegisterStep ==
  ASSUME IInv, NEW o \in Ops, NEW f \in Footprints, Register(o, f)
  PROVE  Lock!Request(o, f) \/ Lock!RequestGranted(o, f)
<1> DEFINE predecessors == {p \in Pending : ResourcesConflict(keys[p], f)}
<1> USE DEF IInv, Register, Enter
<1>1. StageOf[o] = "new"
  BY StageCases
<1>2. CASE predecessors # {}
  <2>1. StageOf' = [StageOf EXCEPT ![o] = "standing"]
    BY <1>2, StageMoves DEF Phases, StageName
  <2>2. QED
    BY <1>1, <2>1 DEF Lock!Request, Lock!Stand
<1>3. CASE predecessors = {}
  <2>1. StageOf' = [StageOf EXCEPT ![o] = "holding"]
    BY <1>3, StageMoves DEF Phases, StageName
  <2>2. Lock!Clear(o, f, clock + 1)
    BY <1>3, LivePending DEF Lock!Clear
  <2>3. QED
    BY <1>1, <2>1, <2>2 DEF Lock!RequestGranted, Lock!Stand
<1>4. QED
  BY <1>2, <1>3

LEMMA StartStep ==
  ASSUME IInv, NEW o \in Ops, Start(o)
  PROVE  Lock!Grant(o)
<1> USE DEF IInv, Start
<1>1. StageOf[o] = "standing"
  BY StageCases
<1>2. StageOf' = [StageOf EXCEPT ![o] = "holding"]
  BY StageMoves DEF Phases, StageName
<1>3. Lock!Clear(o, keys[o], arrival[o])
  <2>1. SUFFICES ASSUME NEW p \in Ops \ {o}, p \in Pending,
                        arrival[p] < arrival[o],
                        ResourcesConflict(keys[p], keys[o])
                 PROVE  FALSE
    BY LivePending DEF Lock!Clear
  <2>2. o \in Pending
    BY DEF Pending
  <2>3. p \in ahead[o]
    BY <2>1, <2>2 DEF Waits
  <2>4. QED
    BY <2>1, <2>3 DEF Settled
<1>4. QED
  BY <1>1, <1>2, <1>3 DEF Lock!Grant

LEMMA AbortStep ==
  ASSUME TypeOK, NEW o \in Ops, Abort(o)
  PROVE  UNCHANGED Lock!vars
<1>1. ASSUME NEW q \in Ops
      PROVE  \/ phase'[q] = phase[q]
             \/ phase[q] = "waiting" /\ phase'[q] = "cancelled"
  BY DEF Abort, TypeOK
<1>2. StageOf' = StageOf
  BY <1>1 DEF StageOf, StageName
<1>3. QED
  BY <1>2 DEF Abort, Lock!vars

\* The coordinator implements the abstract conflict lock: the requests of a
\* tree are granted as a fair lock that looks at every earlier request would.
THEOREM Implementation == Spec => ImplementsLock
<1>1. Init => Lock!Init
  BY DEF Init, Lock!Init, StageOf, StageName
<1>2. IInv /\ [Next]_vars => [Lock!Next]_(Lock!vars)
  <2> SUFFICES ASSUME IInv, [Next]_vars PROVE [Lock!Next]_(Lock!vars)
    OBVIOUS
  <2>0. TypeOK
    BY DEF IInv
  <2>1. ASSUME NEW o \in Ops, NEW f \in Footprints, Register(o, f)
        PROVE  Lock!Next
    BY <2>1, RegisterStep DEF Lock!Next
  <2>2. ASSUME NEW o \in Ops, Refuse(o) \/ StartFails(o) \/ Finish(o) \/ Leave(o)
        PROVE  Lock!Next
    BY <2>0, <2>2, DepartStep DEF Refuse, StartFails, Finish, Leave, Lock!Next
  <2>3. ASSUME NEW o \in Ops, Start(o)
        PROVE  Lock!Next
    BY <2>3, StartStep DEF Lock!Next
  <2>4. ASSUME NEW o \in Ops, Abort(o)
        PROVE  UNCHANGED Lock!vars
    BY <2>0, <2>4, AbortStep
  <2>5. CASE UNCHANGED vars
    BY <2>5 DEF vars, StageOf, Lock!vars
  <2>6. QED
    BY <2>1, <2>2, <2>3, <2>4, <2>5 DEF Next, AllDone
<1>3. QED
  BY <1>1, <1>2, Invariance, PTL DEF Spec, ImplementsLock, Lock!Spec

-----------------------------------------------------------------------------
(***************************************************************************)
(* Effects.                                                                *)
(*                                                                         *)
(* The argument follows a call o that registered before a conflicting call *)
(* p.  When p is sent, o is over or was given up, and then its cancel line *)
(* is in the pipe before the request of p.  So when p is read, the cancel  *)
(* of o was read: o is flagged, missed, or over; and if both change files, *)
(* o is in front of p in the line of the dispatcher.                       *)
(***************************************************************************)

Stages == {"none", "sent", "queued", "begun", "ended", "skipped"}
Lines == [what : {"request", "cancel"}, op : Ops]

EffectsTypeOK ==
  /\ effect \in [Ops -> Stages]
  /\ givenUp \subseteq Ops
  /\ pipe \in Seq(Lines)
  /\ line \in Seq(Files)
  /\ flagged \subseteq Files /\ missed \subseteq Shells

\* Call o has the lock before call p.
Precedes(o, p) ==
  arrival[o] # 0 /\ arrival[o] < arrival[p] /\ ResourcesConflict(keys[o], keys[p])

\* The system runtime has read the request.
Read(o) == effect[o] \notin {"none", "sent"}

\* A call has sent its request when and only when it has started, and does
\* not return before it is answered or given up.
Calls ==
  \A o \in Ops :
    /\ phase[o] = "idle" => arrival[o] = 0
    /\ effect[o] # "none" => phase[o] \in {"running", "done"}
    /\ phase[o] = "running" => effect[o] # "none"
    /\ phase[o] = "done" => effect[o] = "none" \/ Answered(o) \/ o \in givenUp
    /\ o \in givenUp => effect[o] # "none"

\* A call is sent when all before it have returned.
Handed ==
  \A o, p \in Ops : Precedes(o, p) /\ effect[p] # "none" => phase[o] = "done"

\* The pipe holds the requests that are sent and not read, each once.
Requested ==
  /\ \A i \in 1..Len(pipe) :
       pipe[i].what = "request" => effect[pipe[i].op] = "sent"
  /\ \A i, j \in 1..Len(pipe) :
       i < j /\ pipe[i].what = "request" => pipe[i] # pipe[j]
  /\ \A o \in Ops : effect[o] = "sent" => \E i \in 1..Len(pipe) : pipe[i] = Request(o)

\* The cancel line of a call that is given up is behind its request; once read,
\* it has left a mark or found the call over.
Told ==
  /\ \A i \in 1..Len(pipe) : pipe[i].what = "cancel" => pipe[i].op \in givenUp
  /\ \A o \in givenUp :
       \/ Answered(o) \/ o \in flagged \/ o \in missed
       \/ \E i \in 1..Len(pipe) : pipe[i] = CancelOf(o)
  /\ \A o \in flagged \cup missed : Read(o)
  /\ \A o \in Ops : \A i \in 1..Len(pipe) :
       pipe[i] = CancelOf(o) /\ effect[o] = "sent"
         => \E j \in 1..Len(pipe) : j < i /\ pipe[j] = Request(o)

\* A call that is given up is cancelled before the next one is requested.
CancelFirst ==
  \A o, p \in Ops : Precedes(o, p) /\ effect[p] # "none" =>
    \A i \in 1..Len(pipe) : pipe[i] = CancelOf(o) =>
      \E j \in 1..Len(pipe) : i < j /\ pipe[j] = Request(p)

\* The line of the dispatcher holds the file operations that are read and not
\* begun, in the order of their locks; one of them at a time is executed.
Lined ==
  /\ \A i \in 1..Len(line) : effect[line[i]] = "queued"
  /\ \A i, j \in 1..Len(line) : i # j => line[i] # line[j]
  /\ \A o \in Files : effect[o] = "queued" => \E i \in 1..Len(line) : line[i] = o
  /\ \A o, p \in Files : Precedes(o, p) /\ Read(p) =>
       /\ \A i \in 1..Len(line) : line[i] = o =>
            \E j \in 1..Len(line) : i < j /\ line[j] = p
       /\ effect[p] # "queued" => effect[o] # "begun"

EInv ==
  /\ IInv /\ EffectsTypeOK
  /\ Calls /\ Handed /\ Requested /\ Told /\ CancelFirst /\ Lined

-----------------------------------------------------------------------------
(* Sequences. *)

LEMMA AppendElements ==
  ASSUME NEW S, NEW s \in Seq(S), NEW x \in S
  PROVE  /\ Append(s, x) \in Seq(S)
         /\ Len(Append(s, x)) = Len(s) + 1
         /\ \A i \in 1..Len(s) : Append(s, x)[i] = s[i]
         /\ Append(s, x)[Len(s) + 1] = x
         /\ Len(s) \in Nat
         /\ 1..Len(Append(s, x)) = 1..Len(s) \cup {Len(s) + 1}
OBVIOUS

LEMMA TailElements ==
  ASSUME NEW S, NEW s \in Seq(S), s # <<>>
  PROVE  /\ Tail(s) \in Seq(S)
         /\ Head(s) = s[1] /\ s[1] \in S
         /\ Len(Tail(s)) = Len(s) - 1
         /\ \A i \in 1..Len(Tail(s)) : Tail(s)[i] = s[i + 1] /\ i + 1 \in 1..Len(s)
         /\ \A i \in 1..Len(s) : i # 1 =>
              i - 1 \in 1..Len(Tail(s)) /\ Tail(s)[i - 1] = s[i]
         /\ Len(s) \in Nat /\ 1 \in 1..Len(s)
OBVIOUS

LEMMA LineOf ==
  ASSUME NEW s \in Seq(Lines), NEW i \in 1..Len(s)
  PROVE  s[i].op \in Ops
<1>1. s[i] \in Lines
  OBVIOUS
<1>2. QED
  BY <1>1 DEF Lines

-----------------------------------------------------------------------------
(* The steps of the Runtime. *)

LEMMA InitEInv == EffectsInit => EInv
BY InitIInv DEF EffectsInit, Init, EInv, EffectsTypeOK, Calls, Handed, Requested,
   Told, CancelFirst, Lined, Stages, Lines, Files, Read

\* A call registers or starts: if it executes now, it has sent its request.
LEMMA SendEInv ==
  ASSUME EInv, IInv', NEW o \in Ops,
         phase[o] \in {"idle", "waiting"}, phase'[o] \in {"waiting", "running"},
         \A q \in Ops \ {o} : phase'[q] = phase[q] /\ arrival'[q] = arrival[q],
         \A q, r \in Ops : Precedes(q, r)' => r = o \/ Precedes(q, r),
         SendIfStarted(o),
         UNCHANGED <<givenUp, line, flagged, missed>>
  PROVE  EInv'
<1>1. effect[o] = "none" /\ o \notin givenUp /\ effect \in [Ops -> Stages]
  BY DEF EInv, Calls, EffectsTypeOK
<1>2. CASE phase'[o] = "waiting"
  <2>1. UNCHANGED <<effect, pipe>>
    BY <1>2 DEF SendIfStarted
  <2>2. EffectsTypeOK' /\ Calls'
    BY <1>1, <1>2, <2>1 DEF EInv, EffectsTypeOK, Calls, Answered
  <2>3. Handed'
    BY <1>1, <1>2, <2>1 DEF EInv, Handed
  <2>4. Requested' /\ Told'
    BY <2>1 DEF EInv, Requested, Told, Answered, Read
  <2>5. CancelFirst'
    BY <1>1, <2>1 DEF EInv, CancelFirst
  <2>6. Lined'
    <3>1. \A q, r \in Files : Precedes(q, r)' /\ Read(r)' => Precedes(q, r) /\ Read(r)
      BY <1>1, <2>1 DEF Read, Files
    <3>2. QED
      BY <2>1, <3>1 DEF EInv, Lined
  <2>7. QED
    BY <2>2, <2>3, <2>4, <2>5, <2>6 DEF EInv
<1>3. CASE phase'[o] = "running"
  <2>1. /\ effect' = [effect EXCEPT ![o] = "sent"]
        /\ pipe' = Append(pipe, Request(o))
    BY <1>3 DEF SendIfStarted
  <2>2. Request(o) \in Lines /\ pipe \in Seq(Lines)
    BY DEF Request, Lines, EInv, EffectsTypeOK
  <2>3. /\ pipe' \in Seq(Lines)
        /\ Len(pipe') = Len(pipe) + 1
        /\ \A i \in 1..Len(pipe) : pipe'[i] = pipe[i]
        /\ pipe'[Len(pipe) + 1] = Request(o)
        /\ Len(pipe) \in Nat
        /\ 1..Len(pipe') = 1..Len(pipe) \cup {Len(pipe) + 1}
    BY <2>1, <2>2, AppendElements
  <2>4. effect'[o] = "sent" /\ \A q \in Ops \ {o} : effect'[q] = effect[q]
    BY <1>1, <2>1
  <2>5. EffectsTypeOK'
    BY <1>1, <2>1, <2>3 DEF EInv, EffectsTypeOK, Stages
  <2>6. Calls'
    BY <1>1, <1>3, <2>4 DEF EInv, Calls, Answered
  <2>7. Handed'
    <3>1. SUFFICES ASSUME NEW q \in Ops, NEW r \in Ops,
                          Precedes(q, r)', effect'[r] # "none"
                   PROVE  phase'[q] = "done"
      BY DEF Handed
    <3>2. CASE r = o
      <4>1. ~(q \in Pending')
        <5>1. NoOvertaking'
          BY IInvNoOvertaking, PTL
        <5>2. ResourcesConflict(keys'[r], keys'[q])
          BY <3>1, ConflictSymmetric DEF Precedes
        <5>3. QED
          BY <1>3, <3>1, <3>2, <5>1, <5>2 DEF NoOvertaking, Precedes
      <4>2. phase'[q] # "idle"
        BY <2>6, <3>1 DEF Calls, Precedes
      <4>3. phase'[q] \in Phases
        BY DEF IInv, TypeOK
      <4>4. QED
        BY <4>1, <4>2, <4>3 DEF Pending, Phases
    <3>3. CASE r # o
      <4>1. Precedes(q, r) /\ effect[r] # "none"
        BY <2>4, <3>1, <3>3
      <4>2. phase[q] = "done"
        BY <4>1 DEF EInv, Handed
      <4>3. QED
        BY <4>2
    <3>4. QED
      BY <3>2, <3>3
  <2>8. Requested'
    <3>1. \A i \in 1..Len(pipe) : pipe[i] \in Lines
      BY <2>2
    <3>2. \A i \in 1..Len(pipe) :
            pipe[i].what = "request" => effect[pipe[i].op] = "sent" /\ pipe[i].op # o
      BY <1>1 DEF EInv, Requested
    <3>3. \A i \in 1..Len(pipe') : pipe'[i].what = "request" => effect'[pipe'[i].op] = "sent"
      BY <2>3, <2>4, <3>1, <3>2 DEF Request, Lines
    <3>4. ASSUME NEW i \in 1..Len(pipe'), NEW j \in 1..Len(pipe'),
                 i < j, pipe'[i].what = "request"
          PROVE  pipe'[i] # pipe'[j]
      <4>1. i \in 1..Len(pipe)
        BY <2>3, <3>4
      <4>2. CASE j \in 1..Len(pipe)
        BY <2>3, <3>4, <4>1, <4>2 DEF EInv, Requested
      <4>3. CASE j = Len(pipe) + 1
        BY <2>3, <3>2, <3>4, <4>1, <4>3 DEF Request
      <4>4. QED
        BY <2>3, <4>2, <4>3
    <3>5. \A q \in Ops : effect'[q] = "sent" => \E i \in 1..Len(pipe') : pipe'[i] = Request(q)
      BY <2>3, <2>4 DEF EInv, Requested
    <3>6. QED
      BY <3>3, <3>4, <3>5 DEF Requested, Request
  <2>9. Told'
    <3>1. \A i \in 1..Len(pipe') : pipe'[i].what = "cancel" => pipe'[i].op \in givenUp'
      BY <2>3 DEF EInv, Told, Request
    <3>2. \A q \in givenUp' :
            \/ Answered(q)' \/ q \in flagged' \/ q \in missed'
            \/ \E i \in 1..Len(pipe') : pipe'[i] = CancelOf(q)
      BY <1>1, <2>3, <2>4 DEF EInv, EffectsTypeOK, Told, Answered
    <3>3. \A q \in flagged' \cup missed' : Read(q)'
      BY <1>1, <2>4, EffectsAssumption DEF EInv, EffectsTypeOK, Told, Read, Files
    <3>4. ASSUME NEW q \in Ops, NEW i \in 1..Len(pipe'),
                 pipe'[i] = CancelOf(q), effect'[q] = "sent"
          PROVE  \E j \in 1..Len(pipe') : j < i /\ pipe'[j] = Request(q)
      <4>1. i \in 1..Len(pipe) /\ pipe[i] = CancelOf(q)
        BY <2>3, <3>4 DEF Request, CancelOf
      <4>2. q \in givenUp
        BY <4>1 DEF EInv, Told, CancelOf
      <4>3. \E j \in 1..Len(pipe) : j < i /\ pipe[j] = Request(q)
        BY <1>1, <2>4, <3>4, <4>1, <4>2 DEF EInv, Told
      <4>4. QED
        BY <2>3, <4>3
    <3>5. QED
      BY <3>1, <3>2, <3>3, <3>4 DEF Told, Request, CancelOf
  <2>10. CancelFirst'
    <3>1. SUFFICES ASSUME NEW q \in Ops, NEW r \in Ops,
                          Precedes(q, r)', effect'[r] # "none",
                          NEW i \in 1..Len(pipe'), pipe'[i] = CancelOf(q)
                   PROVE  \E j \in 1..Len(pipe') : i < j /\ pipe'[j] = Request(r)
      BY DEF CancelFirst, Request, CancelOf
    <3>2. i \in 1..Len(pipe) /\ pipe[i] = CancelOf(q)
      BY <2>3, <3>1 DEF Request, CancelOf
    <3>3. CASE r = o
      BY <2>3, <3>2, <3>3
    <3>4. CASE r # o
      <4>1. \E j \in 1..Len(pipe) : i < j /\ pipe[j] = Request(r)
        BY <2>4, <3>1, <3>2, <3>4 DEF EInv, CancelFirst
      <4>2. QED
        BY <4>1, <2>3
    <3>5. QED
      BY <3>3, <3>4
  <2>11. Lined'
    <3>1. \A q, r \in Files : Precedes(q, r)' /\ Read(r)' => Precedes(q, r) /\ Read(r)
      BY <2>4 DEF Read, Files
    <3>2. line \in Seq(Files) /\ \A i \in 1..Len(line) : line[i] \in Ops \ {o}
      BY <1>1 DEF EInv, EffectsTypeOK, Lined, Files
    <3>3. QED
      BY <1>1, <2>4, <3>1, <3>2 DEF EInv, Lined, Files, Read
  <2>12. QED
    BY <2>5, <2>6, <2>7, <2>8, <2>9, <2>10, <2>11 DEF EInv
<1>4. QED
  BY <1>2, <1>3

\* A call is given up: its cancel line goes into the pipe.
LEMMA GiveUpEInv ==
  ASSUME EInv, IInv', NEW o \in Ops, UnderWay(o), GiveUp(o),
         UNCHANGED <<phase, keys, arrival>>
  PROVE  EInv'
<1>1. /\ givenUp' = givenUp \cup {o}
      /\ pipe' = Append(pipe, CancelOf(o))
      /\ effect' = effect /\ line' = line /\ flagged' = flagged /\ missed' = missed
  BY DEF GiveUp, service
<1>2. phase[o] = "running" /\ effect[o] # "none"
  BY DEF UnderWay, EInv, Calls
<1>3. CancelOf(o) \in Lines /\ pipe \in Seq(Lines)
  BY DEF CancelOf, Lines, EInv, EffectsTypeOK
<1>4. /\ pipe' \in Seq(Lines)
      /\ Len(pipe') = Len(pipe) + 1
      /\ \A i \in 1..Len(pipe) : pipe'[i] = pipe[i]
      /\ pipe'[Len(pipe) + 1] = CancelOf(o)
      /\ Len(pipe) \in Nat
      /\ 1..Len(pipe') = 1..Len(pipe) \cup {Len(pipe) + 1}
  BY <1>1, <1>3, AppendElements
<1>5. EffectsTypeOK' /\ Calls' /\ Handed'
  BY <1>1, <1>2, <1>4 DEF EInv, EffectsTypeOK, Calls, Handed, Answered, Precedes
<1>6. Requested'
  BY <1>1, <1>3, <1>4 DEF EInv, Requested, Request, CancelOf, Lines
<1>7. Told'
  <2>1. effect[o] = "sent" => \E j \in 1..Len(pipe) : pipe[j] = Request(o)
    BY DEF EInv, Requested
  <2>2. QED
    BY <1>1, <1>4, <2>1 DEF EInv, Told, CancelOf, Answered, Read
<1>8. CancelFirst'
  <2>1. SUFFICES ASSUME NEW q \in Ops, NEW r \in Ops, Precedes(q, r), effect[r] # "none",
                        NEW i \in 1..Len(pipe'), pipe'[i] = CancelOf(q)
                 PROVE  \E j \in 1..Len(pipe') : i < j /\ pipe'[j] = Request(r)
    BY <1>1 DEF CancelFirst, Request, CancelOf, Precedes
  <2>2. phase[q] = "done"
    BY <2>1 DEF EInv, Handed
  <2>3. i \in 1..Len(pipe) /\ pipe[i] = CancelOf(q)
    BY <1>2, <1>4, <2>1, <2>2 DEF CancelOf
  <2>4. \E j \in 1..Len(pipe) : i < j /\ pipe[j] = Request(r)
    BY <2>1, <2>3 DEF EInv, CancelFirst
  <2>5. QED
    BY <2>4, <1>4
<1>9. Lined'
  BY <1>1 DEF EInv, Lined, Precedes, Read
<1>10. QED
  BY <1>5, <1>6, <1>7, <1>8, <1>9 DEF EInv

\* A call only moves: it leaves, is rejected, or returns when it may.
LEMMA MoveEInv ==
  ASSUME EInv, IInv', NEW o \in Ops,
         \A q \in Ops \ {o} : phase'[q] = phase[q],
         phase'[o] = phase[o]
           \/ (effect[o] = "none" /\ phase'[o] \in {"cancelled", "done"})
           \/ ((Answered(o) \/ o \in givenUp) /\ phase'[o] = "done"),
         phase[o] = "done" => phase'[o] = "done",
         UNCHANGED <<keys, arrival>>,
         UNCHANGED <<service, givenUp, pipe>>
  PROVE  EInv'
<1>1. UNCHANGED <<effect, line, flagged, missed, givenUp, pipe>>
  BY DEF service
<1>2. EffectsTypeOK'
  BY <1>1 DEF EInv, EffectsTypeOK
<1>3. Calls'
  BY <1>1 DEF EInv, Calls, Answered
<1>4. Handed'
  BY <1>1 DEF EInv, Handed, Precedes
<1>5. Requested' /\ Told'
  BY <1>1 DEF EInv, Requested, Told, Answered, Read
<1>6. CancelFirst' /\ Lined'
  BY <1>1 DEF EInv, CancelFirst, Lined, Precedes, Read
<1>7. QED
  BY <1>2, <1>3, <1>4, <1>5, <1>6 DEF EInv

-----------------------------------------------------------------------------
(* The steps of the system runtime. *)

LEMMA ReadRequestEInv ==
  ASSUME EInv, IInv', NEW o \in Ops, pipe # <<>>, pipe[1] = Request(o),
         pipe' = Tail(pipe), ReadRequest(o), UNCHANGED <<vars, givenUp>>
  PROVE  EInv'
<1>1. UNCHANGED <<phase, keys, arrival, givenUp, flagged, missed>>
  BY DEF vars, ReadRequest
<1>2. /\ pipe' \in Seq(Lines)
      /\ Len(pipe') = Len(pipe) - 1
      /\ \A i \in 1..Len(pipe') : pipe'[i] = pipe[i + 1] /\ i + 1 \in 1..Len(pipe)
      /\ \A i \in 1..Len(pipe) : i # 1 => i - 1 \in 1..Len(pipe') /\ pipe'[i - 1] = pipe[i]
      /\ Len(pipe) \in Nat /\ 1 \in 1..Len(pipe)
  BY TailElements DEF EInv, EffectsTypeOK
<1>3. effect[o] = "sent"
  BY <1>2 DEF EInv, Requested, Request
<1>4. /\ effect' \in [Ops -> Stages]
      /\ \A q \in Ops \ {o} : effect'[q] = effect[q]
      /\ effect'[o] \in {"queued", "skipped"}
      /\ o \in Files => effect'[o] = "queued"
      /\ line' = IF o \in Files THEN Append(line, o) ELSE line
  BY DEF ReadRequest, Becomes, EInv, EffectsTypeOK, Stages, Files
<1>5. line \in Seq(Files) /\ Len(line) \in Nat /\ \A i \in 1..Len(line) : line[i] \in Files
  BY DEF EInv, EffectsTypeOK
<1>6. o \in Files =>
        /\ line' \in Seq(Files)
        /\ Len(line') = Len(line) + 1
        /\ \A i \in 1..Len(line) : line'[i] = line[i]
        /\ line'[Len(line) + 1] = o
        /\ 1..Len(line') = 1..Len(line) \cup {Len(line) + 1}
  BY <1>4, <1>5, AppendElements
<1>7. EffectsTypeOK'
  BY <1>1, <1>2, <1>4, <1>5, <1>6 DEF EInv, EffectsTypeOK
<1>8. Calls' /\ Handed'
  BY <1>1, <1>3, <1>4 DEF EInv, Calls, Handed, Answered, Precedes
<1>9. Requested'
  <2>1. \A i \in 1..Len(pipe') : pipe'[i].what = "request" => effect'[pipe'[i].op] = "sent"
    <3>1. ASSUME NEW i \in 1..Len(pipe'), pipe'[i].what = "request"
          PROVE  effect'[pipe'[i].op] = "sent"
      <4>1. i + 1 \in 1..Len(pipe) /\ pipe[i + 1] = pipe'[i] /\ pipe[i + 1] \in Lines /\ 1 < i + 1
        BY <1>2 DEF EInv, EffectsTypeOK
      <4>2. pipe[1].what = "request" /\ pipe[1] # pipe[i + 1]
        BY <1>2, <4>1 DEF EInv, Requested, Request
      <4>3. pipe[i + 1].op # o
        BY <3>1, <4>1, <4>2 DEF Request, Lines
      <4>4. effect[pipe[i + 1].op] = "sent" /\ pipe[i + 1].op \in Ops
        BY <3>1, <4>1 DEF EInv, Requested, Lines
      <4>5. QED
        BY <1>4, <4>1, <4>3, <4>4
    <3>2. QED
      BY <3>1
  <2>2. \A i, j \in 1..Len(pipe') :
          i < j /\ pipe'[i].what = "request" => pipe'[i] # pipe'[j]
    BY <1>2 DEF EInv, Requested
  <2>3. ASSUME NEW q \in Ops, effect'[q] = "sent"
        PROVE  \E i \in 1..Len(pipe') : pipe'[i] = Request(q)
    <3>1. q # o /\ effect[q] = "sent"
      BY <1>4, <2>3
    <3>2. PICK i \in 1..Len(pipe) : pipe[i] = Request(q)
      BY <3>1 DEF EInv, Requested
    <3>3. i # 1
      BY <3>1, <3>2 DEF Request
    <3>4. QED
      BY <1>2, <3>2, <3>3
  <2>4. QED
    BY <2>1, <2>2, <2>3 DEF Requested, Request
<1>10. Told'
  <2>1. \A i \in 1..Len(pipe') : pipe'[i].what = "cancel" => pipe'[i].op \in givenUp'
    BY <1>1, <1>2 DEF EInv, Told
  <2>2. ASSUME NEW q \in givenUp'
        PROVE  \/ Answered(q)' \/ q \in flagged' \/ q \in missed'
               \/ \E i \in 1..Len(pipe') : pipe'[i] = CancelOf(q)
    <3>1. q \in givenUp /\ q \in Ops
      BY <1>1, <2>2 DEF EInv, EffectsTypeOK
    <3>2. CASE Answered(q)
      BY <1>3, <1>4, <3>1, <3>2 DEF Answered
    <3>3. CASE q \in flagged \cup missed
      BY <1>1, <3>3
    <3>4. CASE \E i \in 1..Len(pipe) : pipe[i] = CancelOf(q)
      BY <1>2, <3>4 DEF Request, CancelOf
    <3>5. QED
      BY <3>1, <3>2, <3>3, <3>4 DEF EInv, Told
  <2>3. \A q \in flagged' \cup missed' : Read(q)'
    BY <1>1, <1>3, <1>4, EffectsAssumption DEF EInv, EffectsTypeOK, Told, Read, Files
  <2>4. ASSUME NEW q \in Ops, NEW i \in 1..Len(pipe'),
               pipe'[i] = CancelOf(q), effect'[q] = "sent"
        PROVE  \E j \in 1..Len(pipe') : j < i /\ pipe'[j] = Request(q)
    <3>1. q # o /\ effect[q] = "sent"
      BY <1>4, <2>4
    <3>2. PICK j \in 1..Len(pipe) : j < i + 1 /\ pipe[j] = Request(q)
      BY <1>2, <2>4, <3>1 DEF EInv, Told
    <3>3. j # 1
      BY <3>1, <3>2 DEF Request
    <3>4. QED
      BY <1>2, <3>2, <3>3
  <2>5. QED
    BY <2>1, <2>2, <2>3, <2>4 DEF Told, Request, CancelOf
<1>11. CancelFirst'
  <2>1. SUFFICES ASSUME NEW q \in Ops, NEW r \in Ops, Precedes(q, r), effect'[r] # "none",
                        NEW i \in 1..Len(pipe'), pipe'[i] = CancelOf(q)
                 PROVE  \E j \in 1..Len(pipe') : i < j /\ pipe'[j] = Request(r)
    BY <1>1 DEF CancelFirst, Request, CancelOf, Precedes
  <2>2. effect[r] # "none"
    BY <1>3, <1>4, <2>1
  <2>3. PICK j \in 1..Len(pipe) : i + 1 < j /\ pipe[j] = Request(r)
    BY <1>2, <2>1, <2>2 DEF EInv, CancelFirst
  <2>4. QED
    BY <1>2, <2>3
<1>12. \A r \in Ops : Precedes(o, r) => ~Read(r)
  <2>1. SUFFICES ASSUME NEW r \in Ops, Precedes(o, r), Read(r) PROVE FALSE
    OBVIOUS
  <2>2. phase[o] = "done"
    BY <2>1 DEF EInv, Handed, Read
  <2>3. o \in givenUp /\ ~Answered(o)
    BY <1>3, <2>2 DEF EInv, Calls, Answered
  <2>4. o \notin flagged \cup missed
    BY <1>3 DEF EInv, Told, Read
  <2>5. PICK i \in 1..Len(pipe) : pipe[i] = CancelOf(o)
    BY <2>3, <2>4 DEF EInv, Told
  <2>6. PICK j \in 1..Len(pipe) : pipe[j] = Request(r)
    BY <2>1, <2>5 DEF EInv, CancelFirst, Read
  <2>7. QED
    BY <2>1, <2>6 DEF EInv, Requested, Request, Read
<1>13. Lined'
  <2>1. \A i \in 1..Len(line) : line[i] # o
    BY <1>3 DEF EInv, Lined
  <2>2. \A i \in 1..Len(line') : effect'[line'[i]] = "queued"
    BY <1>4, <1>5, <1>6, <2>1 DEF EInv, Lined, Files
  <2>3. \A i, j \in 1..Len(line') : i # j => line'[i] # line'[j]
    <3>1. CASE o \in Files
      BY <1>5, <1>6, <2>1, <3>1 DEF EInv, Lined
    <3>2. CASE o \notin Files
      BY <1>4, <3>2 DEF EInv, Lined
    <3>3. QED
      BY <3>1, <3>2
  <2>4. \A q \in Files : effect'[q] = "queued" => \E i \in 1..Len(line') : line'[i] = q
    <3>1. CASE o \in Files
      BY <1>4, <1>5, <1>6, <3>1 DEF EInv, Lined, Files
    <3>2. CASE o \notin Files
      BY <1>4, <3>2 DEF EInv, Lined, Files
    <3>3. QED
      BY <3>1, <3>2
  <2>5. ASSUME NEW q \in Files, NEW r \in Files, Precedes(q, r), Read(r)'
        PROVE  /\ \A i \in 1..Len(line') : line'[i] = q =>
                    \E j \in 1..Len(line') : i < j /\ line'[j] = r
               /\ effect'[r] # "queued" => effect'[q] # "begun"
    <3>0. q \in Ops /\ r \in Ops /\ q # r
      BY <2>5 DEF Files, Precedes, EInv, IInv, TypeOK
    <3>1. CASE r = o
      <4>1. effect'[r] = "queued" /\ o \in Files /\ q # o
        BY <1>4, <2>5, <3>0, <3>1
      <4>2. QED
        BY <1>5, <1>6, <3>1, <4>1
    <3>2. CASE r # o
      <4>1. Read(r) /\ effect'[r] = effect[r]
        BY <1>4, <2>5, <3>0, <3>2 DEF Read
      <4>2. q # o
        BY <1>12, <2>5, <3>0, <4>1
      <4>3. effect'[r] # "queued" => effect'[q] # "begun"
        BY <1>4, <2>5, <3>0, <4>1, <4>2 DEF EInv, Lined
      <4>4. \A i \in 1..Len(line) : line[i] = q => \E j \in 1..Len(line) : i < j /\ line[j] = r
        BY <2>5, <4>1 DEF EInv, Lined
      <4>5. CASE o \in Files
        BY <1>5, <1>6, <4>2, <4>3, <4>4, <4>5
      <4>6. CASE o \notin Files
        BY <1>4, <4>3, <4>4, <4>6
      <4>7. QED
        BY <4>5, <4>6
    <3>3. QED
      BY <3>1, <3>2
  <2>6. QED
    BY <1>1, <2>2, <2>3, <2>4, <2>5 DEF Lined, Precedes
<1>14. QED
  BY <1>7, <1>8, <1>9, <1>10, <1>11, <1>13 DEF EInv

LEMMA ReadCancelEInv ==
  ASSUME EInv, IInv', NEW o \in Ops, pipe # <<>>, pipe[1] = CancelOf(o),
         pipe' = Tail(pipe), ReadCancel(o), UNCHANGED <<vars, givenUp>>
  PROVE  EInv'
<1>1. UNCHANGED <<phase, keys, arrival, givenUp, line>>
  BY DEF vars, ReadCancel
<1>2. /\ pipe' \in Seq(Lines)
      /\ Len(pipe') = Len(pipe) - 1
      /\ \A i \in 1..Len(pipe') : pipe'[i] = pipe[i + 1] /\ i + 1 \in 1..Len(pipe)
      /\ \A i \in 1..Len(pipe) : i # 1 => i - 1 \in 1..Len(pipe') /\ pipe'[i - 1] = pipe[i]
      /\ Len(pipe) \in Nat /\ 1 \in 1..Len(pipe)
  BY TailElements DEF EInv, EffectsTypeOK
<1>3. o \in givenUp
  BY <1>2 DEF EInv, Told, CancelOf
<1>4. effect[o] \in {"queued", "begun", "ended", "skipped"}
  <2>1. effect[o] # "sent"
    BY <1>2 DEF EInv, Told
  <2>2. effect[o] # "none" /\ effect[o] \in Stages
    BY <1>3 DEF EInv, Calls, EffectsTypeOK
  <2>3. QED
    BY <2>1, <2>2 DEF Stages
<1>5. /\ effect' \in [Ops -> Stages]
      /\ \A q \in Ops \ {o} : effect'[q] = effect[q]
      /\ effect'[o] = IF o \in Shells /\ effect[o] = "begun" THEN "ended" ELSE effect[o]
  BY DEF ReadCancel, Becomes, EInv, EffectsTypeOK, Stages
<1>6. /\ flagged' = IF o \in Files /\ ~Answered(o) THEN flagged \cup {o} ELSE flagged
      /\ missed' = IF o \in Shells /\ effect[o] = "queued" THEN missed \cup {o} ELSE missed
  BY DEF ReadCancel
<1>7. EffectsTypeOK'
  BY <1>1, <1>2, <1>5, <1>6 DEF EInv, EffectsTypeOK
<1>8. Calls' /\ Handed'
  BY <1>1, <1>4, <1>5 DEF EInv, Calls, Handed, Answered, Precedes
<1>9. \A q \in Ops : effect'[q] = "sent" <=> effect[q] = "sent"
  BY <1>4, <1>5
<1>10. Requested'
  <2>1. ASSUME NEW i \in 1..Len(pipe'), pipe'[i].what = "request"
        PROVE  effect'[pipe'[i].op] = "sent"
    <3>1. pipe'[i].op \in Ops
      BY <1>2, LineOf
    <3>2. effect[pipe'[i].op] = "sent"
      BY <1>2, <2>1 DEF EInv, Requested
    <3>3. QED
      BY <1>9, <3>1, <3>2
  <2>2. \A i, j \in 1..Len(pipe') :
          i < j /\ pipe'[i].what = "request" => pipe'[i] # pipe'[j]
    BY <1>2 DEF EInv, Requested
  <2>3. ASSUME NEW q \in Ops, effect'[q] = "sent"
        PROVE  \E i \in 1..Len(pipe') : pipe'[i] = Request(q)
    <3>1. PICK i \in 1..Len(pipe) : pipe[i] = Request(q)
      BY <1>9, <2>3 DEF EInv, Requested
    <3>2. i # 1
      BY <3>1 DEF Request, CancelOf
    <3>3. QED
      BY <1>2, <3>1, <3>2
  <2>4. QED
    BY <2>1, <2>2, <2>3 DEF Requested, Request
<1>11. Told'
  <2>1. \A i \in 1..Len(pipe') : pipe'[i].what = "cancel" => pipe'[i].op \in givenUp'
    BY <1>1, <1>2 DEF EInv, Told
  <2>2. ASSUME NEW q \in givenUp'
        PROVE  \/ Answered(q)' \/ q \in flagged' \/ q \in missed'
               \/ \E i \in 1..Len(pipe') : pipe'[i] = CancelOf(q)
    <3>1. q \in givenUp /\ q \in Ops
      BY <1>1, <2>2 DEF EInv, EffectsTypeOK
    <3>2. CASE q = o
      BY <1>4, <1>5, <1>6, <3>2 DEF Answered, Files
    <3>3. CASE q # o
      <4>1. CASE Answered(q) \/ q \in flagged \/ q \in missed
        BY <1>5, <1>6, <3>1, <3>3, <4>1 DEF Answered
      <4>2. CASE \E i \in 1..Len(pipe) : pipe[i] = CancelOf(q)
        BY <1>2, <3>3, <4>2 DEF CancelOf
      <4>3. QED
        BY <3>1, <4>1, <4>2 DEF EInv, Told
    <3>4. QED
      BY <3>2, <3>3
  <2>3. ASSUME NEW q \in flagged' \cup missed'
        PROVE  Read(q)'
    <3>1. CASE q = o
      BY <1>4, <1>5, <3>1 DEF Read
    <3>2. CASE q # o
      <4>1. q \in flagged \cup missed /\ q \in Ops
        BY <1>6, <2>3, <3>2, EffectsAssumption DEF EInv, EffectsTypeOK, Files
      <4>2. QED
        BY <1>5, <3>2, <4>1 DEF EInv, Told, Read
    <3>3. QED
      BY <3>1, <3>2
  <2>4. ASSUME NEW q \in Ops, NEW i \in 1..Len(pipe'),
               pipe'[i] = CancelOf(q), effect'[q] = "sent"
        PROVE  \E j \in 1..Len(pipe') : j < i /\ pipe'[j] = Request(q)
    <3>1. PICK j \in 1..Len(pipe) : j < i + 1 /\ pipe[j] = Request(q)
      BY <1>2, <1>9, <2>4 DEF EInv, Told
    <3>2. j # 1
      BY <3>1 DEF Request, CancelOf
    <3>3. QED
      BY <1>2, <3>1, <3>2
  <2>5. QED
    BY <2>1, <2>2, <2>3, <2>4 DEF Told, Request, CancelOf
<1>12. CancelFirst'
  <2>1. SUFFICES ASSUME NEW q \in Ops, NEW r \in Ops, Precedes(q, r), effect'[r] # "none",
                        NEW i \in 1..Len(pipe'), pipe'[i] = CancelOf(q)
                 PROVE  \E j \in 1..Len(pipe') : i < j /\ pipe'[j] = Request(r)
    BY <1>1 DEF CancelFirst, Request, CancelOf, Precedes
  <2>2. effect[r] # "none"
    BY <1>4, <1>5, <2>1
  <2>3. PICK j \in 1..Len(pipe) : i + 1 < j /\ pipe[j] = Request(r)
    BY <1>2, <2>1, <2>2 DEF EInv, CancelFirst
  <2>4. QED
    BY <1>2, <2>3
<1>13. Lined'
  <2>1. \A q \in Files : effect'[q] = effect[q]
    BY <1>5 DEF Files
  <2>2. line' = line /\ \A i \in 1..Len(line) : line[i] \in Files
    BY <1>1 DEF EInv, EffectsTypeOK
  <2>3. \A q, r \in Files : (Precedes(q, r) /\ Read(r))' <=> Precedes(q, r) /\ Read(r)
    BY <1>1, <2>1 DEF Precedes, Read
  <2>4. QED
    BY <2>1, <2>2, <2>3 DEF EInv, Lined
<1>14. QED
  BY <1>7, <1>8, <1>10, <1>11, <1>12, <1>13 DEF EInv

LEMMA BeginFileEInv ==
  ASSUME EInv, IInv', BeginFile
  PROVE  EInv'
<1> DEFINE o == line[1]
<1>1. /\ UNCHANGED <<phase, keys, arrival, givenUp, pipe>>
      /\ line # <<>> /\ line' = Tail(line) /\ Head(line) = o
      /\ \A q \in Files : effect[q] # "begun"
  BY TailElements DEF BeginFile, BeginHead, vars, EInv, EffectsTypeOK
<1>2. /\ o \in Files /\ o \in Ops /\ o \notin Shells
      /\ line' \in Seq(Files)
      /\ \A i \in 1..Len(line') : line'[i] = line[i + 1] /\ i + 1 \in 1..Len(line)
      /\ \A i \in 1..Len(line) : i # 1 => i - 1 \in 1..Len(line') /\ line'[i - 1] = line[i]
      /\ Len(line) \in Nat /\ 1 \in 1..Len(line) /\ Len(line') = Len(line) - 1
  BY <1>1, TailElements DEF EInv, EffectsTypeOK, Files
<1>3. effect[o] = "queued" /\ effect \in [Ops -> Stages]
  BY <1>2 DEF EInv, Lined, EffectsTypeOK
<1>4. /\ effect' \in [Ops -> Stages]
      /\ \A q \in Ops \ {o} : effect'[q] = effect[q]
      /\ \/ effect'[o] = "skipped" /\ flagged' = flagged \ {o} /\ missed' = missed \ {o}
         \/ effect'[o] = "begun" /\ flagged' = flagged /\ missed' = missed
  BY <1>1, <1>2, <1>3 DEF BeginFile, BeginHead, Respond, Becomes, Stages
<1>5. EffectsTypeOK'
  BY <1>1, <1>2, <1>4 DEF EInv, EffectsTypeOK
<1>6. Calls' /\ Handed'
  BY <1>1, <1>2, <1>3, <1>4 DEF EInv, Calls, Handed, Answered, Precedes
<1>7. \A q \in Ops : effect'[q] = "sent" <=> effect[q] = "sent"
  BY <1>3, <1>4
<1>8. Requested'
  <2>1. \A i \in 1..Len(pipe) : pipe[i].op \in Ops
    BY LineOf DEF EInv, EffectsTypeOK
  <2>2. QED
    BY <1>1, <1>7, <2>1 DEF EInv, Requested
<1>9. Told'
  <2>1. ASSUME NEW q \in givenUp
        PROVE  \/ Answered(q)' \/ q \in flagged' \/ q \in missed'
               \/ \E i \in 1..Len(pipe) : pipe[i] = CancelOf(q)
    <3>1. q \in Ops
      BY DEF EInv, EffectsTypeOK
    <3>2. CASE q = o
      BY <1>3, <1>4, <3>2 DEF EInv, Told, Answered
    <3>3. CASE q # o
      BY <1>4, <3>1, <3>3 DEF EInv, Told, Answered
    <3>4. QED
      BY <3>2, <3>3
  <2>2. ASSUME NEW q \in flagged' \cup missed' PROVE Read(q)'
    <3>1. q \in flagged \cup missed /\ q \in Ops
      BY <1>4, EffectsAssumption DEF EInv, EffectsTypeOK, Files
    <3>2. QED
      BY <1>4, <3>1 DEF EInv, Told, Read
  <2>3. QED
    BY <1>1, <1>7, <2>1, <2>2 DEF EInv, Told
<1>10. CancelFirst'
  BY <1>1, <1>3, <1>4 DEF EInv, CancelFirst, Precedes
<1>11. \A i \in 1..Len(line') : line'[i] # o /\ line'[i] \in Ops
  <2>1. \A i \in 1..Len(line') : i + 1 # 1
    BY <1>2
  <2>2. QED
    BY <1>2, <2>1 DEF EInv, Lined, EffectsTypeOK, Files
<1>12. Lined'
  <2>1. \A i \in 1..Len(line') : effect'[line'[i]] = "queued"
    <3>1. ASSUME NEW i \in 1..Len(line') PROVE effect'[line'[i]] = "queued"
      <4>1. effect[line'[i]] = "queued"
        BY <1>2 DEF EInv, Lined
      <4>2. QED
        BY <1>4, <1>11, <4>1
    <3>2. QED
      BY <3>1
  <2>2. \A i, j \in 1..Len(line') : i # j => line'[i] # line'[j]
    BY <1>2 DEF EInv, Lined
  <2>3. ASSUME NEW q \in Files, effect'[q] = "queued"
        PROVE  \E i \in 1..Len(line') : line'[i] = q
    <3>1. q # o /\ effect[q] = "queued"
      BY <1>4, <2>3 DEF Files
    <3>2. PICK i \in 1..Len(line) : line[i] = q
      BY <3>1 DEF EInv, Lined
    <3>3. QED
      BY <1>2, <3>1, <3>2
  <2>4. ASSUME NEW q \in Files, NEW r \in Files, Precedes(q, r), Read(r)'
        PROVE  /\ \A i \in 1..Len(line') : line'[i] = q =>
                    \E j \in 1..Len(line') : i < j /\ line'[j] = r
               /\ effect'[r] # "queued" => effect'[q] # "begun"
    <3>1. q \in Ops /\ r \in Ops /\ q # r
      BY <2>4 DEF Files, Precedes, EInv, IInv, TypeOK
    <3>2. Read(r)
      BY <1>3, <1>4, <2>4, <3>1 DEF Read
    <3>3. ASSUME NEW i \in 1..Len(line'), line'[i] = q
          PROVE  \E j \in 1..Len(line') : i < j /\ line'[j] = r
      <4>1. line[i + 1] = q /\ i + 1 \in 1..Len(line)
        BY <1>2, <3>3
      <4>2. PICK j \in 1..Len(line) : i + 1 < j /\ line[j] = r
        BY <2>4, <3>2, <4>1 DEF EInv, Lined
      <4>3. QED
        BY <1>2, <4>2
    <3>4. ASSUME effect'[r] # "queued" PROVE effect'[q] # "begun"
      <4>1. CASE q = o
        <5>1. PICK j \in 1..Len(line) : 1 < j /\ line[j] = r
          BY <1>2, <2>4, <3>2, <4>1 DEF EInv, Lined
        <5>2. effect[r] = "queued"
          BY <5>1 DEF EInv, Lined
        <5>3. QED
          BY <1>4, <3>1, <3>4, <4>1, <5>2
      <4>2. CASE q # o
        BY <1>1, <1>4, <3>1, <4>2
      <4>3. QED
        BY <4>1, <4>2
    <3>5. QED
      BY <3>3, <3>4
  <2>5. QED
    BY <1>1, <2>1, <2>2, <2>3, <2>4 DEF Lined, Precedes
<1>13. QED
  BY <1>5, <1>6, <1>8, <1>9, <1>10, <1>12 DEF EInv

\* A command's thread goes on, or an effect ends.
LEMMA ForwardEInv ==
  ASSUME EInv, IInv', NEW o \in Ops, NEW to \in {"begun", "ended", "skipped"},
         \/ o \in Shells /\ effect[o] = "queued"
         \/ effect[o] = "begun" /\ to = "ended",
         effect' = [effect EXCEPT ![o] = to],
         \/ flagged' = flagged /\ missed' = missed
         \/ flagged' = flagged \ {o} /\ missed' = missed \ {o} /\ to # "begun",
         UNCHANGED <<vars, givenUp, pipe, line>>
  PROVE  EInv'
<1>1. UNCHANGED <<phase, keys, arrival, givenUp, pipe, line>>
  BY DEF vars
<1>2. /\ effect \in [Ops -> Stages] /\ effect' \in [Ops -> Stages]
      /\ \A q \in Ops \ {o} : effect'[q] = effect[q]
      /\ effect'[o] = to
  BY DEF EInv, EffectsTypeOK, Stages
<1>3. EffectsTypeOK'
  BY <1>1, <1>2 DEF EInv, EffectsTypeOK
<1>4. Calls' /\ Handed'
  BY <1>1, <1>2 DEF EInv, Calls, Handed, Answered, Precedes
<1>5. \A q \in Ops : effect'[q] = "sent" <=> effect[q] = "sent"
  BY <1>2
<1>6. Requested'
  <2>1. \A i \in 1..Len(pipe) : pipe[i].op \in Ops
    BY LineOf DEF EInv, EffectsTypeOK
  <2>2. QED
    BY <1>1, <1>5, <2>1 DEF EInv, Requested
<1>7. Told'
  <2>1. ASSUME NEW q \in givenUp
        PROVE  \/ Answered(q)' \/ q \in flagged' \/ q \in missed'
               \/ \E i \in 1..Len(pipe) : pipe[i] = CancelOf(q)
    <3>1. q \in Ops
      BY DEF EInv, EffectsTypeOK
    <3>2. CASE q = o
      BY <1>2, <3>2 DEF EInv, Told, Answered
    <3>3. CASE q # o
      BY <1>2, <3>1, <3>3 DEF EInv, Told, Answered
    <3>4. QED
      BY <3>2, <3>3
  <2>2. ASSUME NEW q \in flagged' \cup missed' PROVE Read(q)'
    <3>1. q \in flagged \cup missed /\ q \in Ops
      BY EffectsAssumption DEF EInv, EffectsTypeOK, Files
    <3>2. QED
      BY <1>2, <3>1 DEF EInv, Told, Read
  <2>3. QED
    BY <1>1, <1>5, <2>1, <2>2 DEF EInv, Told
<1>8. CancelFirst'
  BY <1>1, <1>2 DEF EInv, CancelFirst, Precedes
<1>9. Lined'
  <2>1. line \in Seq(Files) /\ \A i \in 1..Len(line) : line[i] \in Files
    BY DEF EInv, EffectsTypeOK
  <2>2. \A q \in Files : /\ effect'[q] = "queued" <=> effect[q] = "queued"
                         /\ effect'[q] = "begun" => effect[q] = "begun"
                         /\ Read(q)' <=> Read(q)
    BY <1>2 DEF Files, Read
  <2>3. QED
    BY <1>1, <2>1, <2>2 DEF EInv, Lined, Precedes
<1>10. QED
  BY <1>3, <1>4, <1>6, <1>7, <1>8, <1>9 DEF EInv

-----------------------------------------------------------------------------
(* Every step. *)

\* A step of the composition is a step of the coordinator, or leaves it alone.
LEMMA StepOfLocks == [EffectsNext]_effectVars => [Next]_vars
BY DEF EffectsNext, effectVars, RegisterCall, StartCall, Withdraw, AbortCall, TimeOut,
   FinishCall, Service, ReadLine, BeginFile, BeginHead, BeginShell, End, AllOver, Next

LEMMA NextEInv == EInv /\ [EffectsNext]_effectVars => EInv'
<1> SUFFICES ASSUME EInv, [EffectsNext]_effectVars PROVE EInv'
  OBVIOUS
<1>0. /\ IInv' /\ TypeOK'
      /\ phase \in [Ops -> Phases] /\ arrival \in [Ops -> Nat] /\ clock \in Nat
      /\ keys \in [Ops -> Footprints \cup {{}}]
      /\ \A q \in Ops : arrival[q] <= clock
  BY StepOfLocks, NextIInv DEF EInv, IInv, TypeOK, Numbered
<1>1. ASSUME NEW o \in Ops, NEW f \in Footprints, RegisterCall(o, f) PROVE EInv'
  <2>1. /\ phase[o] = "idle" /\ phase'[o] \in {"waiting", "running"}
        /\ \A q \in Ops \ {o} : /\ phase'[q] = phase[q] /\ arrival'[q] = arrival[q]
                                /\ keys'[q] = keys[q]
        /\ arrival'[o] = clock + 1
    BY <1>0, <1>1 DEF RegisterCall, Register, Enter
  <2>2. \A q, r \in Ops : Precedes(q, r)' => r = o \/ Precedes(q, r)
    BY <1>0, <2>1 DEF Precedes
  <2>3. SendIfStarted(o) /\ UNCHANGED <<givenUp, line, flagged, missed>>
    BY <1>1 DEF RegisterCall
  <2>4. QED
    BY <1>0, <2>1, <2>2, <2>3, SendEInv
<1>2. ASSUME NEW o \in Ops, StartCall(o) PROVE EInv'
  <2>1. /\ phase[o] = "waiting" /\ phase'[o] = "running"
        /\ \A q \in Ops \ {o} : phase'[q] = phase[q]
        /\ arrival' = arrival /\ keys' = keys
    BY <1>0, <1>2 DEF StartCall, Start
  <2>2. \A q, r \in Ops : Precedes(q, r)' => r = o \/ Precedes(q, r)
    BY <2>1 DEF Precedes
  <2>3. SendIfStarted(o) /\ UNCHANGED <<givenUp, line, flagged, missed>>
    BY <1>2 DEF StartCall
  <2>4. QED
    BY <1>0, <2>1, <2>2, <2>3, SendEInv
<1>3. ASSUME NEW o \in Ops, Withdraw(o) PROVE EInv'
  <2>1. /\ phase[o] \in {"idle", "waiting", "cancelled"} /\ phase'[o] = "done"
        /\ \A q \in Ops \ {o} : phase'[q] = phase[q]
        /\ UNCHANGED <<keys, arrival>>
    BY <1>0, <1>3 DEF Withdraw, Refuse, StartFails, Leave
  <2>2. effect[o] = "none"
    BY <2>1 DEF EInv, Calls
  <2>3. UNCHANGED <<service, givenUp, pipe>>
    BY <1>3 DEF Withdraw
  <2>4. QED
    BY <1>0, <2>1, <2>2, <2>3, MoveEInv
<1>4. ASSUME NEW o \in Ops, AbortCall(o) PROVE EInv'
  <2>1. /\ phase'[o] = phase[o] \/ (phase[o] = "waiting" /\ phase'[o] = "cancelled")
        /\ \A q \in Ops \ {o} : phase'[q] = phase[q]
        /\ UNCHANGED <<keys, arrival>>
    <3>1. /\ phase' = [phase EXCEPT ![o] = IF phase[o] = "waiting" THEN "cancelled" ELSE phase[o]]
          /\ UNCHANGED <<keys, arrival>>
      BY <1>4, Zenon DEF AbortCall, Abort
    <3>2. QED
      BY <1>0, <3>1
  <2>2. CASE UnderWay(o)
    <3>1. phase' = phase
      BY <1>0, <1>4, <2>2 DEF AbortCall, Abort, UnderWay
    <3>2. GiveUp(o)
      BY <1>4, <2>2 DEF AbortCall
    <3>3. QED
      BY <1>0, <2>1, <2>2, <3>1, <3>2, GiveUpEInv
  <2>3. CASE ~UnderWay(o)
    <3>1. phase[o] = "waiting" => effect[o] = "none"
      BY DEF EInv, Calls
    <3>2. UNCHANGED <<service, givenUp, pipe>>
      BY <1>4, <2>3 DEF AbortCall
    <3>3. QED
      BY <1>0, <2>1, <3>1, <3>2, MoveEInv
  <2>4. QED
    BY <2>2, <2>3
<1>5. ASSUME NEW o \in Ops, TimeOut(o) PROVE EInv'
  <2>1. UnderWay(o) /\ GiveUp(o) /\ UNCHANGED <<phase, keys, arrival>>
    BY <1>5 DEF TimeOut, vars
  <2>2. QED
    BY <1>0, <2>1, GiveUpEInv
<1>6. ASSUME NEW o \in Ops, FinishCall(o) PROVE EInv'
  <2>1. /\ phase'[o] = "done" /\ \A q \in Ops \ {o} : phase'[q] = phase[q]
        /\ UNCHANGED <<keys, arrival>>
    BY <1>0, <1>6 DEF FinishCall, Finish
  <2>2. (Answered(o) \/ o \in givenUp) /\ UNCHANGED <<service, givenUp, pipe>>
    BY <1>6 DEF FinishCall
  <2>3. QED
    BY <1>0, <2>1, <2>2, MoveEInv
<1>7. ASSUME ReadLine PROVE EInv'
  <2>1. /\ pipe # <<>> /\ pipe' = Tail(pipe) /\ UNCHANGED <<vars, givenUp>>
        /\ pipe \in Seq(Lines) /\ Head(pipe) = pipe[1] /\ pipe[1] \in Lines
    BY <1>7, TailElements DEF ReadLine, EInv, EffectsTypeOK
  <2>2. PICK o \in Ops : pipe[1] = Request(o) \/ pipe[1] = CancelOf(o)
    BY <2>1 DEF Lines, Request, CancelOf
  <2>3. CASE pipe[1] = Request(o)
    <3>1. ReadRequest(o)
      BY <1>7, <2>1, <2>3 DEF ReadLine, Request
    <3>2. QED
      BY <1>0, <2>1, <2>3, <3>1, ReadRequestEInv
  <2>4. CASE pipe[1] = CancelOf(o)
    <3>1. ReadCancel(o)
      BY <1>7, <2>1, <2>4 DEF ReadLine, CancelOf
    <3>2. QED
      BY <1>0, <2>1, <2>4, <3>1, ReadCancelEInv
  <2>5. QED
    BY <2>2, <2>3, <2>4
<1>8. CASE BeginFile
  BY <1>0, <1>8, BeginFileEInv
<1>9. ASSUME NEW o \in Ops, BeginShell(o) PROVE EInv'
  <2>1. /\ o \in Shells /\ effect[o] = "queued"
        /\ UNCHANGED <<vars, givenUp, pipe, line>>
    BY <1>9 DEF BeginShell
  <2>2. CASE Becomes(o, "begun") /\ UNCHANGED <<flagged, missed>>
    BY <1>0, <2>1, <2>2, ForwardEInv DEF Becomes
  <2>3. CASE Respond(o, "skipped")
    BY <1>0, <2>1, <2>3, ForwardEInv DEF Respond, Becomes
  <2>4. QED
    BY <1>9, <2>2, <2>3 DEF BeginShell
<1>10. ASSUME NEW o \in Ops, End(o) PROVE EInv'
  BY <1>0, <1>10, ForwardEInv DEF End, Respond, Becomes
<1>11. CASE UNCHANGED effectVars
  BY <1>11, <1>0 DEF effectVars, vars, EInv, EffectsTypeOK, Calls, Handed, Requested, Told,
     CancelFirst, Lined, Precedes, Answered, Read
<1>12. QED
  BY <1>1, <1>2, <1>3, <1>4, <1>5, <1>6, <1>7, <1>8, <1>9, <1>10, <1>11
     DEF EffectsNext, Service, AllOver

LEMMA EffectsInvariance == EffectsSpec => []EInv
BY InitEInv, NextEInv, PTL DEF EffectsSpec

-----------------------------------------------------------------------------
\* Calls, requests, jobs and cancellations keep their shape.
THEOREM EffectsTypeCorrect == EffectsSpec => [](TypeOK /\ EffectsTypeOK)
<1>1. EInv => TypeOK /\ EffectsTypeOK
  BY DEF EInv, IInv
<1>2. QED
  BY <1>1, EffectsInvariance, PTL

\* Conflicting effects are ordered like their locks, whatever is cancelled or
\* times out and whenever, except for the two races of Escaped.
THEOREM OrderedEffects == EffectsSpec => []EffectsInOrder
<1>1. EInv => EffectsInOrder
  <2>1. SUFFICES ASSUME EInv, NEW o \in Ops, NEW p \in Ops, Precedes(o, p),
                        effect[p] \in {"begun", "ended"}, ~OverBefore(o)
                 PROVE  Escaped(o, p)
    BY DEF EffectsInOrder, Precedes
  <2>2. phase[o] = "done"
    BY <2>1 DEF EInv, Handed
  <2>3. o \in givenUp /\ ~Answered(o) /\ effect[o] # "none"
    BY <2>1, <2>2 DEF EInv, Calls, OverBefore
  <2>4. o \in flagged \cup missed
    <3>1. ASSUME NEW i \in 1..Len(pipe), pipe[i] = CancelOf(o) PROVE FALSE
      <4>1. PICK j \in 1..Len(pipe) : pipe[j] = Request(p)
        BY <2>1, <3>1 DEF EInv, CancelFirst
      <4>2. QED
        BY <2>1, <4>1 DEF EInv, Requested, Request
    <3>2. \/ Answered(o) \/ o \in flagged \/ o \in missed
          \/ \E i \in 1..Len(pipe) : pipe[i] = CancelOf(o)
      BY <2>1, <2>3 DEF EInv, Told
    <3>3. QED
      BY <2>3, <3>1, <3>2
  <2>5. CASE o \in missed
    BY <2>3, <2>5 DEF Escaped
  <2>6. CASE o \in flagged
    <3>1. o \in Files /\ effect[o] = "begun"
      BY <2>1, <2>3, <2>6 DEF EInv, EffectsTypeOK, Told, Read, Stages, Answered, OverBefore
    <3>2. p \in Shells
      BY <2>1, <3>1 DEF EInv, Lined, Read, Files
    <3>3. QED
      BY <2>3, <3>1, <3>2 DEF Escaped
  <2>7. QED
    BY <2>4, <2>5, <2>6
<1>2. QED
  BY <1>1, EffectsInvariance, PTL

\* Together with the requests behind them the coordinator still implements the
\* abstract lock.
THEOREM EffectsImplementation == EffectsSpec => ImplementsLock
<1>1. EffectsInit => Init
  BY DEF EffectsInit
<1>2. EffectsSpec => Spec
  BY <1>1, StepOfLocks, PTL DEF EffectsSpec, Spec
<1>3. QED
  BY <1>2, Implementation
=============================================================================
