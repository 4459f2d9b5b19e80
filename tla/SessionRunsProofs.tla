--------------------------- MODULE SessionRunsProofs ---------------------------
(***************************************************************************)
(* Proofs about SessionRuns, for any sessions, runs, messages, executions, *)
(* question kinds and bounds: types, one active run per session, no        *)
(* unpaused queue in front of an idle session, and each message sent once. *)
(* While plans are answered one at a time (MaxAnswers <= 1) also: one      *)
(* worker for each active run, questions that can be answered, ends that   *)
(* stay, and the refinement of SerialSession.                              *)
(*                                                                         *)
(* IInv says that a run has a row exactly when it has a session, that an   *)
(* execution works on a run that has had a row, and that a stream is an    *)
(* execution of its run.  WorkInv and SentInv are inductive relative to    *)
(* it.  Their parts take the state as arguments because PumpQueue works on *)
(* what its caller has changed already.                                    *)
(***************************************************************************)
EXTENDS SessionRuns, SequenceTheorems, TLAPS

Rows(st, so) == \A r \in Runs : st[r] = "none" <=> so[r] = None

Attached(st, wk, ph, str) ==
    /\ \A e \in Executions :
          /\ ph[e] = "idle" <=> wk[e] = None
          /\ wk[e] # None => st[wk[e]] # "none"
    /\ \A r \in Runs : str[r] # None => wk[str[r]] = r

OneActive(st, so) ==
    \A r, q \in Runs :
        st[r] \in Active /\ st[q] \in Active /\ so[r] = so[q] => r = q

HeldIn(t, q, p, st, so) ==
    q[t] # <<>> /\ p[t] = "no" => \E r \in Runs : so[r] = t /\ st[r] \in Active

AllHeld(q, p, st, so) == \A t \in Sessions : HeldIn(t, q, p, st, so)

IInv ==
    /\ TypeOK
    /\ Rows(status, sessionOf)
    /\ Attached(status, work, phase, stream)
    /\ OneActive(status, sessionOf)
    /\ AllHeld(queue, paused, status, sessionOf)

\* The part of TypeOK that concerns the arguments of PumpQueue.
Typed(q, p, st, str, wk, ph) ==
    /\ st \in [Runs -> Statuses]
    /\ q \in [Sessions -> Seq(Messages)]
    /\ p \in [Sessions -> {"no", "stopped", "asked", "refused"}]
    /\ str \in [Runs -> Executions \cup {None}]
    /\ wk \in [Executions -> Runs \cup {None}]
    /\ ph \in [Executions -> {"idle", "working", "asking", "stopping"}]

\* The part of TypeOK that concerns the rows.
TypedRows ==
    /\ sessions \subseteq Sessions
    /\ sessionOf \in [Runs -> Sessions \cup {None}]
    /\ origin \in [Runs -> Messages \cup {None}]
    /\ supersededBy \in [Runs -> Runs \cup {None}]
    /\ lastSent \in [Sessions -> Messages \cup {None}]

\* Launching execution e on a run with a row keeps executions attached.
LEMMA LaunchAttached ==
    ASSUME NEW r \in Runs, NEW e \in Executions, NEW st, NEW str, NEW wk, NEW ph,
           str \in [Runs -> Executions \cup {None}],
           wk \in [Executions -> Runs \cup {None}],
           ph \in [Executions -> {"idle", "working", "asking", "stopping"}],
           Attached(st, wk, ph, str), st[r] # "none", Launch(r, e, str, wk, ph)
    PROVE  /\ stream' \in [Runs -> Executions \cup {None}]
           /\ work' \in [Executions -> Runs \cup {None}]
           /\ phase' \in [Executions -> {"idle", "working", "asking", "stopping"}]
           /\ Attached(st, work', phase', stream')
<1>1. /\ stream' \in [Runs -> Executions \cup {None}]
      /\ work' \in [Executions -> Runs \cup {None}]
      /\ phase' \in [Executions -> {"idle", "working", "asking", "stopping"}]
  BY DEF Launch
<1>2. \A f \in Executions : phase'[f] = "idle" <=> work'[f] = None
  BY ConstantsAssumption DEF Launch, Attached
<1>3. \A f \in Executions : work'[f] # None => st[work'[f]] # "none"
  BY DEF Launch, Attached
<1>4. \A x \in Runs : stream'[x] # None => work'[stream'[x]] = x
  <2> SUFFICES ASSUME NEW x \in Runs, stream'[x] # None
               PROVE  work'[stream'[x]] = x
    OBVIOUS
  <2>1. CASE x = r
    BY <2>1 DEF Launch
  <2>2. CASE x # r
    <3>1. stream'[x] = str[x] /\ str[x] \in Executions /\ wk[str[x]] = x
      BY <2>2 DEF Launch, Attached
    <3>2. str[x] # e
      BY <3>1, ConstantsAssumption DEF Launch
    <3> QED BY <3>1, <3>2 DEF Launch
  <2> QED BY <2>1, <2>2
<1> QED BY <1>1, <1>2, <1>3, <1>4 DEF Attached

\* A run created in an idle session is its only active run, and it holds the
\* session's queue.
LEMMA CreateRunInv ==
    ASSUME NEW s \in Sessions, NEW m \in Messages \cup {None}, NEW r \in Runs, NEW e \in Executions,
           NEW q, NEW p, NEW st, NEW str, NEW wk, NEW ph,
           TypedRows, Typed(q, p, st, str, wk, ph),
           Rows(st, sessionOf), Attached(st, wk, ph, str), OneActive(st, sessionOf),
           \A t \in Sessions \ {s} : HeldIn(t, q, p, st, sessionOf),
           ActiveIn(st, s) = {},
           CreateRun(s, m, r, e, st, str, wk, ph)
    PROVE  /\ sessionOf' \in [Runs -> Sessions \cup {None}]
           /\ origin' \in [Runs -> Messages \cup {None}]
           /\ Typed(q, p, status', stream', work', phase')
           /\ Rows(status', sessionOf')
           /\ Attached(status', work', phase', stream')
           /\ OneActive(status', sessionOf')
           /\ AllHeld(q, p, status', sessionOf')
           /\ \E x \in Runs : sessionOf'[x] = s /\ status'[x] \in Active
<1>0. /\ st[r] = "none" /\ sessionOf[r] = None
      /\ status' = [st EXCEPT ![r] = "running"]
      /\ sessionOf' = [sessionOf EXCEPT ![r] = s]
      /\ origin' = [origin EXCEPT ![r] = m]
      /\ Launch(r, e, str, wk, ph)
  BY DEF CreateRun, CreatedStatus, Rows
<1>1. /\ status' \in [Runs -> Statuses]
      /\ sessionOf' \in [Runs -> Sessions \cup {None}]
      /\ origin' \in [Runs -> Messages \cup {None}]
  BY <1>0 DEF Typed, TypedRows, Statuses, Active
<1>2. Attached(status', wk, ph, str)
  BY <1>0 DEF Attached, Typed
<1>3. /\ Typed(q, p, status', stream', work', phase')
      /\ Attached(status', work', phase', stream')
  <2>1. status'[r] # "none"
    BY <1>0 DEF Typed
  <2>2. /\ str \in [Runs -> Executions \cup {None}]
        /\ wk \in [Executions -> Runs \cup {None}]
        /\ ph \in [Executions -> {"idle", "working", "asking", "stopping"}]
        /\ Launch(r, e, str, wk, ph)
    BY <1>0 DEF Typed
  <2>3. /\ stream' \in [Runs -> Executions \cup {None}]
        /\ work' \in [Executions -> Runs \cup {None}]
        /\ phase' \in [Executions -> {"idle", "working", "asking", "stopping"}]
        /\ Attached(status', work', phase', stream')
    BY <1>2, <2>1, <2>2, LaunchAttached
  <2> QED BY <1>1, <2>3 DEF Typed
<1>4. Rows(status', sessionOf')
  BY <1>0, ConstantsAssumption DEF Rows, Typed, TypedRows
<1>5. \A x \in Runs : sessionOf[x] = s => st[x] \notin Active
  BY DEF ActiveIn
<1>6. \A x \in Runs \ {r} : status'[x] = st[x] /\ sessionOf'[x] = sessionOf[x]
  BY <1>0 DEF Typed, TypedRows
<1>7. status'[r] = "running" /\ sessionOf'[r] = s
  BY <1>0 DEF Typed, TypedRows
<1>8. OneActive(status', sessionOf')
  BY <1>5, <1>6, <1>7 DEF OneActive
<1>9. AllHeld(q, p, status', sessionOf')
  <2> SUFFICES ASSUME NEW t \in Sessions PROVE HeldIn(t, q, p, status', sessionOf')
    BY DEF AllHeld
  <2>1. CASE t = s
    BY <2>1, <1>7 DEF HeldIn, Active
  <2>2. CASE t # s
    BY <2>2, <1>0, <1>6 DEF HeldIn, Active
  <2> QED BY <2>1, <2>2
<1> QED
  BY <1>1, <1>3, <1>4, <1>7, <1>8, <1>9 DEF Active

\* What a pump takes and leaves: AfterPump is IInv without what it cannot touch.
AfterPump ==
    /\ TypedRows'
    /\ Typed(queue', paused', status', stream', work', phase')
    /\ Rows(status', sessionOf')
    /\ Attached(status', work', phase', stream')
    /\ OneActive(status', sessionOf')
    /\ AllHeld(queue', paused', status', sessionOf')

\* A pump restores the invariant if only its own session's queue may be in
\* front of an idle session.
LEMMA PumpInv ==
    ASSUME NEW s \in Sessions, NEW q, NEW p, NEW st, NEW str, NEW wk, NEW ph,
           TypedRows, Typed(q, p, st, str, wk, ph),
           Rows(st, sessionOf), Attached(st, wk, ph, str), OneActive(st, sessionOf),
           \A t \in Sessions \ {s} : HeldIn(t, q, p, st, sessionOf),
           PumpQueue(s, q, p, st, str, wk, ph)
    PROVE  AfterPump
<1>1. CASE /\ Held(s, q, p, st)
           /\ queue' = q /\ paused' = p /\ status' = st
           /\ stream' = str /\ work' = wk /\ phase' = ph
           /\ UNCHANGED rows
  <2>1. HeldIn(s, q, p, st, sessionOf)
    BY <1>1 DEF Held, HeldIn, ActiveIn
  <2> QED BY <1>1, <2>1 DEF AfterPump, AllHeld, TypedRows, rows
<1>2. CASE /\ ~Held(s, q, p, st)
           /\ StartSend(s, Head(q[s]), st, str, wk, ph)
           /\ queue' = Dequeue(q, s)
           /\ paused' = p
  <2>1. q[s] # <<>> /\ ActiveIn(st, s) = {}
    BY <1>2 DEF Held
  <2>2. Head(q[s]) \in Messages /\ Tail(q[s]) \in Seq(Messages)
    BY <2>1 DEF Typed
  <2>3. PICK r \in Runs, e \in Executions :
           CreateRun(s, Head(q[s]), r, e, st, str, wk, ph)
    BY <1>2 DEF StartSend
  <2>4. /\ sessionOf' \in [Runs -> Sessions \cup {None}]
        /\ origin' \in [Runs -> Messages \cup {None}]
        /\ Typed(q, p, status', stream', work', phase')
        /\ Rows(status', sessionOf')
        /\ Attached(status', work', phase', stream')
        /\ OneActive(status', sessionOf')
        /\ AllHeld(q, p, status', sessionOf')
        /\ \E x \in Runs : sessionOf'[x] = s /\ status'[x] \in Active
    BY <2>1, <2>2, <2>3, CreateRunInv
  <2>5. queue' = [q EXCEPT ![s] = Tail(q[s])] /\ queue' \in [Sessions -> Seq(Messages)]
    BY <1>2, <2>2 DEF Dequeue, Typed
  <2>6. AllHeld(queue', paused', status', sessionOf')
    BY <2>4, <2>5, <1>2 DEF AllHeld, HeldIn, Typed
  <2>7. TypedRows'
    BY <1>2, <2>2, <2>4 DEF StartSend, TypedRows
  <2> QED BY <1>2, <2>4, <2>5, <2>6, <2>7 DEF AfterPump, Typed
<1>3. CASE /\ ~Held(s, q, p, st)
           /\ queue' = q /\ paused' = [p EXCEPT ![s] = "refused"] /\ status' = st
           /\ stream' = str /\ work' = wk /\ phase' = ph
           /\ UNCHANGED rows
  <2>1. TypedRows' /\ Typed(queue', paused', status', stream', work', phase')
    BY <1>3 DEF TypedRows, Typed, rows
  <2>2. AllHeld(queue', paused', status', sessionOf')
    BY <1>3 DEF AllHeld, HeldIn, Typed, rows
  <2> QED BY <1>3, <2>1, <2>2 DEF AfterPump, rows
<1> QED BY <1>1, <1>2, <1>3 DEF PumpQueue

--------------------------------------------------------------------------------

\* RemoveAt shortens a sequence without changing its element type.
LEMMA RemoveAtType ==
    ASSUME NEW S, NEW q \in Seq(S), NEW i \in 1..Len(q)
    PROVE  RemoveAt(q, i) \in Seq(S) /\ <<q[i]>> \o RemoveAt(q, i) \in Seq(S)
<1>1. SubSeq(q, 1, i - 1) \in Seq(S) /\ SubSeq(q, i + 1, Len(q)) \in Seq(S)
  OBVIOUS
<1>2. <<q[i]>> \in Seq(S)
  OBVIOUS
<1> QED BY <1>1, <1>2 DEF RemoveAt

\* The conjuncts of TypeOK that no pump touches.
TypedRest ==
    /\ question \in [Runs -> {"none", "pending", "resolved", "cancelled"}]
    /\ kind \in [Runs -> {"user_question", "plan_approval"}]
    /\ checking \in [Runs -> 0..MaxAnswers]
    /\ orphans \subseteq Runs
    /\ restarts \in 0..MaxRestarts

LEMMA TypeParts ==
    TypeOK <=> TypedRows /\ TypedRest /\ Typed(queue, paused, status, stream, work, phase)
BY DEF TypeOK, TypedRows, TypedRest, Typed

LEMMA TypePartsNext ==
    TypeOK' <=> TypedRows' /\ TypedRest' /\ Typed(queue', paused', status', stream', work', phase')
BY DEF TypeOK, TypedRows, TypedRest, Typed

\* A step that pumps last preserves the invariant.
LEMMA PumpStep ==
    ASSUME AfterPump, TypedRest' PROVE IInv'
BY TypePartsNext DEF AfterPump, IInv

\* The initial state satisfies the invariant.
LEMMA InitInv == Init => IInv
<1> SUFFICES ASSUME Init PROVE IInv OBVIOUS
<1>1. TypeOK
  BY ConstantsAssumption DEF Init, TypeOK, Statuses
<1>2. Rows(status, sessionOf) /\ Attached(status, work, phase, stream)
  BY DEF Init, Rows, Attached
<1>3. OneActive(status, sessionOf) /\ AllHeld(queue, paused, status, sessionOf)
  BY DEF Init, OneActive, AllHeld, HeldIn, Active
<1> QED BY <1>1, <1>2, <1>3 DEF IInv

--------------------------------------------------------------------------------
(* One lemma per group of actions. *)

\* A command that creates a run in an idle session preserves the invariant.
LEMMA CreateStep ==
    ASSUME IInv, NEW s \in Sessions, NEW m \in Messages \cup {None},
           NEW r \in Runs, NEW e \in Executions,
           ActiveIn(status, s) = {},
           CreateRun(s, m, r, e, status, stream, work, phase),
           UNCHANGED <<sessions, queue, paused>>,
           supersededBy' \in [Runs -> Runs \cup {None}],
           lastSent' \in [Sessions -> Messages \cup {None}],
           TypedRest'
    PROVE  IInv'
<1>1. /\ TypedRows /\ Typed(queue, paused, status, stream, work, phase)
      /\ Rows(status, sessionOf) /\ Attached(status, work, phase, stream)
      /\ OneActive(status, sessionOf)
      /\ \A t \in Sessions \ {s} : HeldIn(t, queue, paused, status, sessionOf)
  BY TypeParts DEF IInv, AllHeld
<1>2. /\ sessionOf' \in [Runs -> Sessions \cup {None}]
      /\ origin' \in [Runs -> Messages \cup {None}]
      /\ Typed(queue, paused, status', stream', work', phase')
      /\ Rows(status', sessionOf')
      /\ Attached(status', work', phase', stream')
      /\ OneActive(status', sessionOf')
      /\ AllHeld(queue, paused, status', sessionOf')
  BY <1>1, CreateRunInv
<1>3. TypedRows'
  BY <1>1, <1>2 DEF TypedRows
<1>4. queue' = queue /\ paused' = paused
  OBVIOUS
<1>5. AfterPump
  BY <1>2, <1>3, <1>4 DEF AfterPump
<1> QED BY <1>5, PumpStep

\* Commands that create a run in an idle session.
LEMMA CreationStep ==
    ASSUME IInv, NEW s \in Sessions, NEW m \in Messages,
           Send(s, m) \/ EditResend(s, m)
    PROVE  IInv'
<1> USE TypeParts DEF IInv
<1>1. CASE Send(s, m)
  <2>1. CASE /\ ActiveIn(status, s) = {}
             /\ StartSend(s, m, status, stream, work, phase)
             /\ UNCHANGED queue
    <3>1. PICK r \in Runs, e \in Executions :
             CreateRun(s, m, r, e, status, stream, work, phase)
      BY <2>1 DEF StartSend
    <3>2. /\ UNCHANGED <<sessions, queue, paused, supersededBy>>
          /\ lastSent' \in [Sessions -> Messages \cup {None}]
      BY <1>1, <2>1 DEF Send, StartSend, TypedRows
    <3>3. TypedRest'
      BY <1>1 DEF Send, TypedRest, asked
    <3> QED BY <2>1, <3>1, <3>2, <3>3, CreateStep DEF TypedRows
  <2>2. CASE /\ ActiveIn(status, s) # {}
             /\ queue' = [queue EXCEPT ![s] = Append(@, m)]
             /\ UNCHANGED <<rows, status, executing>>
    <3>1. /\ queue' \in [Sessions -> Seq(Messages)]
          /\ \A t \in Sessions : t # s => queue'[t] = queue[t]
      BY <2>2 DEF Typed
    <3>2. AllHeld(queue', paused', status', sessionOf')
      BY <1>1, <2>2, <3>1 DEF Send, AllHeld, HeldIn, ActiveIn, rows
    <3>3. TypedRows' /\ TypedRest'
      BY <1>1, <2>2 DEF Send, TypedRows, TypedRest, rows, asked
    <3>4. Typed(queue', paused', status', stream', work', phase')
      BY <1>1, <2>2, <3>1 DEF Send, Typed, executing
    <3> QED BY <2>2, <3>2, <3>3, <3>4, PumpStep DEF AfterPump, rows, executing
  <2> QED BY <1>1, <2>1, <2>2 DEF Send
<1>2. CASE EditResend(s, m)
  <2>1. PICK r \in Runs, e \in Executions :
           /\ CreateRun(s, m, r, e, status, stream, work, phase)
           /\ supersededBy' =
                [q \in Runs |->
                    IF origin[q] = lastSent[s] /\ supersededBy[q] = None
                    THEN r ELSE supersededBy[q]]
    BY <1>2 DEF EditResend
  <2>2. /\ ActiveIn(status, s) = {}
        /\ UNCHANGED <<sessions, queue, paused>>
        /\ lastSent' \in [Sessions -> Messages \cup {None}]
    BY <1>2 DEF EditResend, queues, TypedRows
  <2>3. supersededBy' \in [Runs -> Runs \cup {None}]
    BY <2>1 DEF TypedRows
  <2>4. TypedRest'
    BY <1>2 DEF EditResend, TypedRest, asked
  <2> QED BY <2>1, <2>2, <2>3, <2>4, CreateStep
<1> QED BY <1>1, <1>2

LEMMA RetryStep ==
    ASSUME IInv, NEW old \in Runs, Retry(old) PROVE IInv'
<1> USE TypeParts DEF IInv
<1>1. /\ sessionOf[old] \in Sessions
      /\ origin[old] \in Messages \cup {None}
      /\ ActiveIn(status, sessionOf[old]) = {}
      /\ UNCHANGED <<sessions, queue, paused, lastSent>>
  BY DEF Retry, Replaceable, Terminal, Rows, TypedRows, queues
<1>2. PICK r \in Runs, e \in Executions :
         /\ CreateRun(sessionOf[old], origin[old], r, e,
                      status, stream, work, phase)
         /\ supersededBy' = [supersededBy EXCEPT ![old] = r]
  BY DEF Retry
<1>3. supersededBy' \in [Runs -> Runs \cup {None}]
  BY <1>2 DEF TypedRows
<1>4. TypedRest'
  BY DEF Retry, TypedRest, asked
<1> QED BY <1>1, <1>2, <1>3, <1>4, CreateStep DEF TypedRows

\* Commands on the queue, and the deletion of a session.
LEMMA QueueStep ==
    ASSUME IInv, NEW s \in Sessions,
           \/ PauseQueue(s) \/ RemoveQueue(s) \/ DeleteSession(s)
           \/ ResumeQueue(s) \/ SendNow(s)
    PROVE  IInv'
<1> USE TypeParts DEF IInv
<1>1. CASE PauseQueue(s)
  <2>1. TypedRows' /\ TypedRest' /\ Typed(queue', paused', status', stream', work', phase')
    BY <1>1 DEF PauseQueue, TypedRows, TypedRest, Typed, rows, asked, executing
  <2>2. AllHeld(queue', paused', status', sessionOf')
    BY <1>1 DEF PauseQueue, AllHeld, HeldIn, Typed, rows
  <2> QED BY <1>1, <2>1, <2>2, PumpStep DEF PauseQueue, AfterPump, rows, executing
<1>2. CASE RemoveQueue(s)
  <2>1. PICK i \in 1..Len(queue[s]) : queue' = [queue EXCEPT ![s] = RemoveAt(@, i)]
    BY <1>2 DEF RemoveQueue
  <2>2. queue[s] \in Seq(Messages) /\ queue[s] # <<>>
    BY DEF Typed
  <2>3. RemoveAt(queue[s], i) \in Seq(Messages)
    BY <2>2, RemoveAtType
  <2>4. TypedRows' /\ TypedRest' /\ Typed(queue', paused', status', stream', work', phase')
    BY <1>2, <2>1, <2>3 DEF RemoveQueue, TypedRows, TypedRest, Typed, rows, asked, executing
  <2>5. \A t \in Sessions : queue'[t] # <<>> => queue[t] # <<>>
    BY <2>1, <2>2 DEF Typed
  <2>6. AllHeld(queue', paused', status', sessionOf')
    BY <1>2, <2>5 DEF RemoveQueue, AllHeld, HeldIn, rows
  <2> QED BY <1>2, <2>4, <2>6, PumpStep DEF RemoveQueue, AfterPump, rows, executing
<1>3. CASE DeleteSession(s)
  <2>1. TypedRows' /\ TypedRest' /\ Typed(queue', paused', status', stream', work', phase')
    BY <1>3 DEF DeleteSession, TypedRows, TypedRest, Typed, executing, Statuses
  <2>2. \A r \in Runs : status'[r] \in Active <=> status[r] \in Active
    BY <1>3 DEF DeleteSession, ActiveIn, Active
  <2>3. \A t \in Sessions : queue'[t] # <<>> => t # s /\ queue'[t] = queue[t] /\ paused'[t] = paused[t]
    BY <1>3 DEF DeleteSession, Typed
  <2>4. AllHeld(queue', paused', status', sessionOf')
    BY <1>3, <2>2, <2>3 DEF DeleteSession, AllHeld, HeldIn
  <2>5. OneActive(status', sessionOf')
    BY <1>3, <2>2 DEF DeleteSession, OneActive
  <2>6. Rows(status', sessionOf') /\ Attached(status', work', phase', stream')
    BY <1>3, ConstantsAssumption DEF DeleteSession, Rows, Attached, executing, Typed
  <2> QED BY <2>1, <2>4, <2>5, <2>6, PumpStep DEF AfterPump
<1>4. CASE ResumeQueue(s)
  <2> DEFINE p == [paused EXCEPT ![s] = "no"]
  <2>1. PumpQueue(s, queue, p, status, stream, work, phase)
    BY <1>4 DEF ResumeQueue
  <2>2. Typed(queue, p, status, stream, work, phase)
    BY DEF Typed
  <2>3. \A t \in Sessions \ {s} : HeldIn(t, queue, p, status, sessionOf)
    BY DEF AllHeld, HeldIn, Typed
  <2>4. TypedRest'
    BY <1>4 DEF ResumeQueue, TypedRest, asked
  <2> HIDE DEF p
  <2> QED BY <2>1, <2>2, <2>3, <2>4, PumpInv, PumpStep
<1>5. CASE SendNow(s)
  <2>1. PICK i \in 1..Len(queue[s]) :
           PumpQueue(s, [queue EXCEPT ![s] = <<@[i]>> \o RemoveAt(@, i)],
                     [paused EXCEPT ![s] = "no"], status, stream, work, phase)
    BY <1>5 DEF SendNow
  <2> DEFINE q == [queue EXCEPT ![s] = <<@[i]>> \o RemoveAt(@, i)]
             p == [paused EXCEPT ![s] = "no"]
  <2>2. <<queue[s][i]>> \o RemoveAt(queue[s], i) \in Seq(Messages)
    BY RemoveAtType DEF Typed
  <2>3. Typed(q, p, status, stream, work, phase)
    BY <2>2 DEF Typed
  <2>4. \A t \in Sessions \ {s} : HeldIn(t, q, p, status, sessionOf)
    BY DEF AllHeld, HeldIn, Typed
  <2>5. TypedRest'
    BY <1>5 DEF SendNow, TypedRest, asked
  <2>6. PumpQueue(s, q, p, status, stream, work, phase)
    BY <2>1
  <2> HIDE DEF q, p
  <2> QED BY <2>3, <2>4, <2>5, <2>6, PumpInv, PumpStep
<1> QED BY <1>1, <1>2, <1>3, <1>4, <1>5

\* The abort of a running execution keeps it attached.
LEMMA AbortInv ==
    ASSUME IInv, NEW e \in Executions, phase[e] # "idle", Abort(e)
    PROVE  /\ phase' \in [Executions -> {"idle", "working", "asking", "stopping"}]
           /\ question' \in [Runs -> {"none", "pending", "resolved", "cancelled"}]
           /\ Attached(status, work, phase', stream)
<1>1. /\ phase \in [Executions -> {"idle", "working", "asking", "stopping"}]
      /\ question \in [Runs -> {"none", "pending", "resolved", "cancelled"}]
      /\ work \in [Executions -> Runs \cup {None}]
      /\ Attached(status, work, phase, stream)
  BY DEF IInv, TypeOK
<1>2. phase' = [phase EXCEPT ![e] = "stopping"]
  BY DEF Abort
<1>3. question' \in [Runs -> {"none", "pending", "resolved", "cancelled"}]
  BY <1>1 DEF Abort, Withdrawn
<1> QED BY <1>1, <1>2, <1>3 DEF Attached

\* Steps that change neither queues, nor sessions, nor which runs are active.
LEMMA QuietStep ==
    ASSUME IInv, TypeOK', Attached(status', work', phase', stream'),
           UNCHANGED <<queue, sessionOf>>,
           \A s \in Sessions : paused'[s] = "no" => paused[s] = "no",
           \A r \in Runs : status'[r] = status[r] \/ {status[r], status'[r]} \subseteq Active
    PROVE  IInv'
<1>1. \A r \in Runs : /\ status'[r] \in Active <=> status[r] \in Active
                      /\ status'[r] = "none" <=> status[r] = "none"
  BY DEF Active
<1>2. Rows(status', sessionOf')
  BY <1>1 DEF IInv, Rows
<1>3. OneActive(status', sessionOf')
  BY <1>1 DEF IInv, OneActive
<1>4. AllHeld(queue', paused', status', sessionOf')
  BY <1>1 DEF IInv, AllHeld, HeldIn
<1> QED BY <1>2, <1>3, <1>4 DEF IInv

\* Stopping a run, by its time limit or by command.
LEMMA TimeoutStep ==
    ASSUME IInv, NEW e \in Executions, Timeout(e) PROVE IInv'
<1>1. Abort(e) /\ phase[e] # "idle"
  BY DEF Timeout
<1>2. UNCHANGED <<rows, status, kind, queues, stream, work, checking, orphans, restarts>>
  BY DEF Timeout
<1>3. TypeOK' /\ Attached(status', work', phase', stream')
  BY <1>1, <1>2, AbortInv DEF IInv, TypeOK, rows, queues
<1> QED BY <1>2, <1>3, QuietStep DEF queues, rows

LEMMA CancelStep ==
    ASSUME IInv, NEW r \in Runs, Cancel(r) PROVE IInv'
<1>1. stream[r] \in Executions /\ phase[stream[r]] # "idle" /\ Abort(stream[r])
  BY ConstantsAssumption DEF Cancel, IInv, TypeOK, Attached
<1>2. UNCHANGED <<rows, status, kind, queue, stream, work, checking, orphans, restarts>>
  BY DEF Cancel
<1>3. /\ paused' \in [Sessions -> {"no", "stopped", "asked", "refused"}]
      /\ \A s \in Sessions : paused'[s] = "no" => paused[s] = "no"
  BY DEF Cancel, IInv, TypeOK
<1>4. TypeOK' /\ Attached(status', work', phase', stream')
  BY <1>1, <1>2, <1>3, AbortInv DEF IInv, TypeOK, rows
<1> QED BY <1>2, <1>3, <1>4, QuietStep DEF rows

\* setIntermediateStatus moves no run into or out of the active ones.
LEMMA IntermediateType ==
    ASSUME IInv, NEW q, NEW st \in Active, status' = Intermediate(q, st)
    PROVE  /\ status' \in [Runs -> Statuses]
           /\ \A x \in Runs : \/ status'[x] = status[x]
                              \/ {status[x], status'[x]} \subseteq Active
BY DEF IInv, TypeOK, Intermediate, Statuses

\* Which is all that a quiet step may do to the status of attached runs.
LEMMA StillAttached ==
    ASSUME status' \in [Runs -> Statuses],
           \A x \in Runs : status'[x] = status[x] \/ {status[x], status'[x]} \subseteq Active,
           Attached(status, work', phase', stream'),
           work' \in [Executions -> Runs \cup {None}]
    PROVE  Attached(status', work', phase', stream')
BY DEF Attached, Active

\* A question asked, and answered while its execution waits.
LEMMA AskStep ==
    ASSUME IInv, NEW e \in Executions, NEW k \in Kinds, Ask(e, k) PROVE IInv'
<1>0. TypeOK /\ Attached(status, work, phase, stream)
  BY DEF IInv
<1>1. work[e] \in Runs
  BY <1>0 DEF Ask, Attached, TypeOK
<1>2. /\ status' = Intermediate(work[e], "awaiting_user_input")
      /\ phase' = [phase EXCEPT ![e] = "asking"]
      /\ question' = [question EXCEPT ![work[e]] = "pending"]
      /\ kind' = [kind EXCEPT ![work[e]] = k]
      /\ UNCHANGED <<rows, queues, stream, work, checking, orphans, restarts>>
  BY DEF Ask
<1>3. /\ status' \in [Runs -> Statuses]
      /\ \A x \in Runs : status'[x] = status[x] \/ {status[x], status'[x]} \subseteq Active
  BY IntermediateType, <1>2 DEF Active
<1>4. TypeOK'
  BY <1>0, <1>1, <1>2, <1>3, ConstantsAssumption DEF TypeOK, rows, queues
<1>5. Attached(status, work', phase', stream')
  BY <1>0, <1>1, <1>2, ConstantsAssumption DEF Ask, Attached, TypeOK
<1> QED BY StillAttached, <1>2, <1>3, <1>4, <1>5, QuietStep DEF TypeOK, rows, queues

LEMMA AnswerLiveStep ==
    ASSUME IInv, NEW e \in Executions, AnswerLive(e) PROVE IInv'
<1>0. TypeOK /\ Attached(status, work, phase, stream)
  BY DEF IInv
<1>1. /\ status' = Intermediate(work[e], "running")
      /\ phase' = [phase EXCEPT ![e] = "working"]
      /\ question' = [question EXCEPT ![work[e]] = "resolved"]
      /\ UNCHANGED <<rows, kind, queues, stream, work, checking, orphans, restarts>>
  BY DEF AnswerLive
<1>2. /\ status' \in [Runs -> Statuses]
      /\ \A x \in Runs : status'[x] = status[x] \/ {status[x], status'[x]} \subseteq Active
  BY IntermediateType, <1>1 DEF Active
<1>3. TypeOK'
  BY <1>0, <1>1, <1>2 DEF TypeOK, rows, queues
<1>4. Attached(status, work', phase', stream')
  BY <1>0, <1>1, ConstantsAssumption DEF AnswerLive, Attached, TypeOK
<1> QED BY StillAttached, <1>1, <1>2, <1>3, <1>4, QuietStep DEF TypeOK, rows, queues

\* The resumption of a recovered run.
LEMMA ResumeStep ==
    ASSUME IInv, NEW r \in Runs, NEW x \in Executions,
           Resume(r, x), status[r] # "none", checking' \in [Runs -> 0..MaxAnswers],
           UNCHANGED <<rows, kind, queues, orphans, restarts>>
    PROVE  IInv'
<1>0. TypeOK /\ Attached(status, work, phase, stream)
  BY DEF IInv
<1>1. /\ question' \in [Runs -> {"none", "pending", "resolved", "cancelled"}]
      /\ stream' \in [Runs -> Executions \cup {None}]
      /\ work' \in [Executions -> Runs \cup {None}]
      /\ phase' \in [Executions -> {"idle", "working", "asking", "stopping"}]
      /\ status' = Intermediate(r, "running")
      /\ Attached(status, work', phase', stream')
  BY <1>0, LaunchAttached DEF Resume, TypeOK
<1>2. /\ status' \in [Runs -> Statuses]
      /\ \A y \in Runs : status'[y] = status[y] \/ {status[y], status'[y]} \subseteq Active
  BY IntermediateType, <1>1 DEF Active
<1>3. TypeOK'
  BY <1>0, <1>1, <1>2 DEF TypeOK, rows, queues
<1> QED BY StillAttached, <1>1, <1>2, <1>3, QuietStep DEF TypeOK, rows, queues

\* Answers to a question recovered from the database.
LEMMA AnswerStep ==
    ASSUME IInv, NEW r \in Runs,
           AnswerRecovered(r) \/ AnswerPlan(r) \/ PlanChecked(r)
    PROVE  IInv'
<1>0. TypeOK /\ Attached(status, work, phase, stream)
  BY DEF IInv
<1>1. CASE AnswerRecovered(r)
  BY <1>0, <1>1, ResumeStep DEF AnswerRecovered, Recovered, Answerable, TypeOK
<1>2. CASE AnswerPlan(r)
  <2>1. checking' \in [Runs -> 0..MaxAnswers]
    BY <1>0, <1>2, ConstantsAssumption DEF AnswerPlan, TypeOK
  <2>2. UNCHANGED <<rows, status, asked, queues, executing, orphans, restarts>>
    BY <1>2 DEF AnswerPlan
  <2>3. TypeOK' /\ Attached(status', work', phase', stream')
    BY <1>0, <2>1, <2>2 DEF TypeOK, Attached, rows, asked, queues, executing
  <2> QED BY <2>2, <2>3, QuietStep DEF rows, queues
<1>3. CASE PlanChecked(r)
  <2>1. checking' \in [Runs -> 0..MaxAnswers]
    BY <1>0, <1>3, ConstantsAssumption DEF PlanChecked, TypeOK
  <2>2. UNCHANGED <<rows, kind, queues, orphans, restarts>>
    BY <1>3 DEF PlanChecked
  <2>3. CASE sessionOf[r] \in sessions /\ \E x \in Executions : Resume(r, x)
    <3>1. status[r] # "none"
      BY <2>3, ConstantsAssumption DEF IInv, Rows, TypeOK
    <3> QED BY ResumeStep, <2>1, <2>2, <2>3, <3>1
  <2>4. CASE UNCHANGED <<question, status, executing>>
    <3>1. TypeOK' /\ Attached(status', work', phase', stream')
      BY <1>0, <2>1, <2>2, <2>4 DEF TypeOK, Attached, rows, queues, executing
    <3> QED BY <2>2, <2>4, <3>1, QuietStep DEF rows, queues
  <2> QED BY <1>3, <2>3, <2>4 DEF PlanChecked
<1> QED BY <1>1, <1>2, <1>3

\* The end of an execution pumps the queue of its session.
LEMMA FinishStep ==
    ASSUME IInv, NEW e \in Executions, NEW outcome \in Terminal,
           NEW saved \in BOOLEAN, Finish(e, outcome, saved)
    PROVE  IInv'
<1> DEFINE r == work[e]
           st == IF saved /\ status[r] # "deleted"
                 THEN [status EXCEPT ![r] = outcome] ELSE status
           str == [stream EXCEPT ![r] = None]
           wk == [work EXCEPT ![e] = None]
           ph == [phase EXCEPT ![e] = "idle"]
<1>0. /\ TypeOK /\ Attached(status, work, phase, stream)
      /\ Rows(status, sessionOf) /\ OneActive(status, sessionOf)
      /\ AllHeld(queue, paused, status, sessionOf)
  BY DEF IInv
<1>1. r \in Runs /\ status[r] # "none" /\ sessionOf[r] \in Sessions
  BY <1>0 DEF Finish, Attached, Rows, TypeOK
<1>2. /\ orphans' \subseteq Runs
      /\ PumpQueue(sessionOf[r], queue, paused, st, str, wk, ph)
      /\ UNCHANGED <<asked, checking, restarts>>
  BY <1>0, <1>1 DEF Finish, TypeOK
<1>3. /\ st \in [Runs -> Statuses]
      /\ \A x \in Runs \ {r} : st[x] = status[x]
      /\ st[r] # "none"
      /\ st[r] \in Active => st[r] = status[r]
  BY <1>0, <1>1 DEF TypeOK, Statuses, Terminal, Active
<1>4. Typed(queue, paused, st, str, wk, ph)
  BY <1>0, <1>1, <1>3 DEF Typed, TypeOK
<1>5. Rows(st, sessionOf)
  BY <1>0, <1>1, <1>3 DEF Rows
<1>6. OneActive(st, sessionOf)
  BY <1>0, <1>3 DEF OneActive
<1>7. \A t \in Sessions \ {sessionOf[r]} : HeldIn(t, queue, paused, st, sessionOf)
  BY <1>0, <1>1, <1>3 DEF AllHeld, HeldIn
<1>8. Attached(st, wk, ph, str)
  <2>1. \A f \in Executions : st[work[f]] # "none" \/ work[f] = None
    BY <1>0, <1>1, <1>3 DEF Attached, TypeOK
  <2> QED BY <1>0, <1>1, <2>1, ConstantsAssumption DEF Attached, TypeOK
<1>9. TypedRows /\ TypedRest'
  BY <1>0, <1>2 DEF TypeOK, TypedRows, TypedRest, asked
<1> HIDE DEF st, str, wk, ph, r
<1> QED BY <1>1, <1>2, <1>4, <1>5, <1>6, <1>7, <1>8, <1>9, PumpInv, PumpStep

\* Memory is empty after a restart, and no row becomes active by recovery.
LEMMA RestartStep == ASSUME IInv, Restart PROVE IInv'
<1>0. TypeOK /\ Rows(status, sessionOf) /\ OneActive(status, sessionOf)
  BY DEF IInv
<1>1. /\ status' \in [Runs -> Statuses]
      /\ \A r \in Runs : /\ status'[r] \in Active => status[r] \in Active
                         /\ status'[r] = "none" <=> status[r] = "none"
  BY <1>0 DEF Restart, RecoveredStatus, TypeOK, Statuses, Active, Terminal
<1>2. TypeOK'
  BY <1>0, <1>1, ConstantsAssumption DEF Restart, TypeOK, rows
<1>3. Rows(status', sessionOf') /\ OneActive(status', sessionOf')
  BY <1>0, <1>1 DEF Restart, Rows, OneActive, rows
<1>4. Attached(status', work', phase', stream') /\ AllHeld(queue', paused', status', sessionOf')
  BY DEF Restart, Attached, AllHeld, HeldIn
<1> QED BY <1>2, <1>3, <1>4 DEF IInv

--------------------------------------------------------------------------------

\* Every step preserves the invariant.
LEMMA NextInv == IInv /\ [Next]_vars => IInv'
<1> SUFFICES ASSUME IInv, [Next]_vars PROVE IInv' OBVIOUS
<1>1. CASE UNCHANGED vars
  BY <1>1 DEF IInv, TypeOK, Rows, Attached, OneActive, AllHeld, HeldIn,
              vars, rows, asked, queues, executing
<1>2. CASE Restart
  BY <1>2, RestartStep
<1>3. ASSUME NEW s \in Sessions, NEW m \in Messages, Send(s, m) \/ EditResend(s, m)
      PROVE  IInv'
  BY <1>3, CreationStep
<1>4. ASSUME NEW s \in Sessions,
             \/ PauseQueue(s) \/ RemoveQueue(s) \/ DeleteSession(s)
             \/ ResumeQueue(s) \/ SendNow(s)
      PROVE  IInv'
  BY <1>4, QueueStep
<1>5. ASSUME NEW r \in Runs,
             \/ Cancel(r) \/ Retry(r) \/ AnswerRecovered(r) \/ AnswerPlan(r)
             \/ PlanChecked(r)
      PROVE  IInv'
  BY <1>5, CancelStep, RetryStep, AnswerStep
<1>6. ASSUME NEW e \in Executions, NEW k \in Kinds, Ask(e, k) PROVE IInv'
  BY <1>6, AskStep
<1>7. ASSUME NEW e \in Executions, AnswerLive(e) \/ Timeout(e) PROVE IInv'
  BY <1>7, AnswerLiveStep, TimeoutStep
<1>8. ASSUME NEW e \in Executions, NEW outcome \in Terminal,
             NEW saved \in BOOLEAN, Finish(e, outcome, saved)
      PROVE  IInv'
  BY <1>8, FinishStep
<1> QED BY <1>1, <1>2, <1>3, <1>4, <1>5, <1>6, <1>7, <1>8 DEF Next

--------------------------------------------------------------------------------

LEMMA Invariant == Spec => []IInv
BY InitInv, NextInv, PTL DEF Spec

\* Whatever is sent, stopped, retried or answered, and wherever the process
\* dies, rows, queues and executions keep their shape.
THEOREM TypeCorrect == Spec => []TypeOK
<1>1. IInv => TypeOK
  BY DEF IInv
<1> QED BY <1>1, Invariant, PTL

\* A session never has two active runs (requireIdleSession and pumpQueue each
\* check before they create), for any number of sessions, runs, executions,
\* concurrent answers and crashes.
THEOREM SessionSerial == Spec => []OneActiveRun
<1>1. IInv => OneActiveRun
  BY DEF IInv, OneActive, OneActiveRun
<1> QED BY <1>1, Invariant, PTL

\* A queue that nothing pauses waits for an active run: no handler and no end
\* of a run forgets to pump.
THEOREM QueueHeld == Spec => []IdleQueueIsHeld
<1>1. IInv => IdleQueueIsHeld
  BY DEF IInv, AllHeld, HeldIn, IdleQueueIsHeld, ActiveIn
<1> QED BY <1>1, Invariant, PTL

--------------------------------------------------------------------------------
(* Workers.  One answer to a plan at a time: MaxAnswers <= 1.              *)

\* Of executions, active runs, questions and lost runs: an execution works on an
\* active run of its own, a question that is open is the one its run waits for,
\* and an active run without an execution has an open question or was lost.
Staffed(st, wk, ph, qn, lost) ==
    /\ \A e \in Executions : wk[e] # None => st[wk[e]] \in Active
    /\ \A e, f \in Executions : wk[e] # None /\ wk[e] = wk[f] => e = f
    /\ \A r \in Runs : qn[r] = "pending" =>
          /\ st[r] = "awaiting_user_input"
          /\ \A e \in Executions : wk[e] = r => ph[e] = "asking"
    /\ \A r \in Runs : st[r] \in Active =>
          (\E e \in Executions : wk[e] = r) \/ qn[r] = "pending" \/ r \in lost

\* What is not deleted, and what is queued, belongs to a session with a row.
Sited(st, so, q, ss) ==
    /\ \A r \in Runs : st[r] \notin {"none", "deleted"} => so[r] \in ss
    /\ \A s \in Sessions : q[s] # <<>> => s \in ss

\* The plan under check still waits for its answer, and nobody works on it.
Checked(ck, qn, kd, wk) ==
    \A r \in Runs : ck[r] # 0 =>
        /\ qn[r] = "pending" /\ kd[r] = "plan_approval"
        /\ \A e \in Executions : wk[e] # r

WorkInv ==
    /\ Staffed(status, work, phase, question, orphans)
    /\ Sited(status, sessionOf, queue, sessions)
    /\ Checked(checking, question, kind, work)

\* What a step may do to the statuses of runs.
Moves(st) ==
    \A r \in Runs :
        \/ st[r] = status[r]
        \/ status[r] = "none" /\ st[r] \in Active
        \/ status[r] \in Active /\ st[r] \in Active \cup Terminal
        \/ status[r] \in Terminal /\ st[r] = "deleted"

\* A run is created with its worker and without a question.
LEMMA CreateStaffed ==
    ASSUME NEW s \in Sessions, NEW m, NEW r \in Runs, NEW e \in Executions,
           NEW q, NEW p, NEW st, NEW str, NEW wk, NEW ph, NEW lost,
           TypedRows, Typed(q, p, st, str, wk, ph), s \in sessions,
           Staffed(st, wk, ph, question, lost), Sited(st, sessionOf, q, sessions),
           Checked(checking, question, kind, wk), Moves(st),
           \A x \in Runs : st[x] = "none" => status[x] = "none",
           CreateRun(s, m, r, e, st, str, wk, ph)
    PROVE  /\ Staffed(status', work', phase', question, lost)
           /\ Sited(status', sessionOf', q, sessions)
           /\ Checked(checking, question, kind, work')
           /\ Moves(status')
<1>1. /\ st[r] = "none" /\ wk[e] = None
      /\ status' = [st EXCEPT ![r] = "running"]
      /\ sessionOf' = [sessionOf EXCEPT ![r] = s]
      /\ work' = [wk EXCEPT ![e] = r]
      /\ phase' = [ph EXCEPT ![e] = "working"]
  BY DEF CreateRun, CreatedStatus, Launch
<1>2. /\ st \in [Runs -> Statuses]
      /\ wk \in [Executions -> Runs \cup {None}]
      /\ ph \in [Executions -> {"idle", "working", "asking", "stopping"}]
      /\ sessionOf \in [Runs -> Sessions \cup {None}]
  BY DEF Typed, TypedRows
<1>3. /\ question[r] # "pending" /\ r # None
      /\ \A f \in Executions : wk[f] # r
  BY <1>1, <1>2, ConstantsAssumption DEF Staffed, Active
<1>4. Staffed(status', work', phase', question, lost)
  <2>1. \A f \in Executions : work'[f] # None => status'[work'[f]] \in Active
    BY <1>1, <1>2, <1>3 DEF Staffed, Active
  <2>2. \A f, g \in Executions : work'[f] # None /\ work'[f] = work'[g] => f = g
    BY <1>1, <1>2, <1>3 DEF Staffed
  <2>3. \A x \in Runs : question[x] = "pending" =>
          /\ status'[x] = "awaiting_user_input"
          /\ \A f \in Executions : work'[f] = x => phase'[f] = "asking"
    BY <1>1, <1>2, <1>3 DEF Staffed
  <2>4. ASSUME NEW x \in Runs, status'[x] \in Active
        PROVE  (\E f \in Executions : work'[f] = x) \/ question[x] = "pending" \/ x \in lost
    <3>1. CASE x = r
      BY <3>1, <1>1, <1>2
    <3>2. CASE x # r
      <4>1. st[x] \in Active
        BY <3>2, <2>4, <1>1, <1>2
      <4>2. ASSUME NEW f \in Executions, wk[f] = x PROVE work'[f] = x
        BY <4>2, <1>1, <1>2, ConstantsAssumption
      <4> QED BY <4>1, <4>2 DEF Staffed
    <3> QED BY <3>1, <3>2
  <2> QED BY <2>1, <2>2, <2>3, <2>4 DEF Staffed
<1>5. Sited(status', sessionOf', q, sessions)
  BY <1>1, <1>2 DEF Sited
<1>6. Checked(checking, question, kind, work')
  BY <1>1, <1>2, <1>3 DEF Checked
<1>7. Moves(status')
  BY <1>1, <1>2 DEF Moves, Active
<1> QED BY <1>4, <1>5, <1>6, <1>7

\* What a pump leaves.
Manned(lost) ==
    /\ Staffed(status', work', phase', question, lost)
    /\ Sited(status', sessionOf', queue', sessions')
    /\ Checked(checking, question, kind, work')
    /\ Moves(status')

LEMMA PumpStaffed ==
    ASSUME NEW s \in Sessions, NEW q, NEW p, NEW st, NEW str, NEW wk, NEW ph, NEW lost,
           TypedRows, Typed(q, p, st, str, wk, ph),
           Staffed(st, wk, ph, question, lost), Sited(st, sessionOf, q, sessions),
           Checked(checking, question, kind, wk), Moves(st),
           \A x \in Runs : st[x] = "none" => status[x] = "none",
           PumpQueue(s, q, p, st, str, wk, ph)
    PROVE  Manned(lost)
<1>1. CASE /\ queue' = q /\ status' = st /\ work' = wk /\ phase' = ph
           /\ UNCHANGED rows
  BY <1>1 DEF Manned, rows
<1>2. CASE /\ ~Held(s, q, p, st)
           /\ StartSend(s, Head(q[s]), st, str, wk, ph)
           /\ queue' = Dequeue(q, s)
  <2>1. q[s] # <<>> /\ s \in sessions
    BY <1>2 DEF Held, Sited
  <2>2. PICK r \in Runs, e \in Executions :
           CreateRun(s, Head(q[s]), r, e, st, str, wk, ph)
    BY <1>2 DEF StartSend
  <2>3. /\ Staffed(status', work', phase', question, lost)
        /\ Sited(status', sessionOf', q, sessions)
        /\ Checked(checking, question, kind, work')
        /\ Moves(status')
    BY <2>1, <2>2, CreateStaffed
  <2>4. queue' = [q EXCEPT ![s] = Tail(q[s])] /\ sessions' = sessions
    BY <1>2 DEF Dequeue, StartSend
  <2>5. Sited(status', sessionOf', queue', sessions')
    BY <2>1, <2>3, <2>4 DEF Sited, Typed
  <2> QED BY <2>3, <2>5 DEF Manned
<1> QED BY <1>1, <1>2 DEF PumpQueue

--------------------------------------------------------------------------------
(* One lemma per group of actions. *)

LEMMA InitWork == Init => WorkInv
BY ConstantsAssumption DEF Init, WorkInv, Staffed, Sited, Checked, Active

LEMMA MovesNothing == Moves(status)
BY DEF Moves

\* A command that creates a run in an idle session.
LEMMA CreationWork ==
    ASSUME IInv, WorkInv, NEW s \in Sessions,
           \/ \E m \in Messages : Send(s, m) \/ EditResend(s, m)
           \/ \E old \in Runs : sessionOf[old] = s /\ Retry(old)
    PROVE  WorkInv' /\ Moves(status')
<1>1. /\ TypedRows /\ Typed(queue, paused, status, stream, work, phase)
      /\ Staffed(status, work, phase, question, orphans)
      /\ Sited(status, sessionOf, queue, sessions)
      /\ Checked(checking, question, kind, work)
  BY TypeParts DEF IInv, WorkInv
<1>2. UNCHANGED <<sessions, question, kind, checking, orphans>>
  BY DEF Send, EditResend, Retry, StartSend, asked, rows
<1>3. s \in sessions
  BY <1>1 DEF Send, EditResend, Retry, Replaceable, Terminal, Sited
<1>4. CASE /\ \E m, r \in Runs \cup Messages \cup {None}, e \in Executions :
                 r \in Runs /\ CreateRun(s, m, r, e, status, stream, work, phase)
           /\ queue' = queue
  BY <1>1, <1>2, <1>3, <1>4, MovesNothing, CreateStaffed DEF WorkInv
<1>5. CASE /\ UNCHANGED <<rows, status, executing>>
           /\ \E m : queue' = [queue EXCEPT ![s] = Append(@, m)]
  <2>1. Sited(status', sessionOf', queue', sessions')
    BY <1>1, <1>3, <1>5 DEF Sited, Typed, rows
  <2> QED BY <1>1, <1>2, <1>5, <2>1, MovesNothing DEF WorkInv, rows, executing
<1>6. ASSUME NEW m \in Messages, Send(s, m) PROVE WorkInv' /\ Moves(status')
  <2>1. CASE StartSend(s, m, status, stream, work, phase) /\ UNCHANGED queue
    BY <2>1, <1>4 DEF StartSend
  <2>2. CASE /\ queue' = [queue EXCEPT ![s] = Append(@, m)]
             /\ UNCHANGED <<rows, status, executing>>
    BY <2>2, <1>5
  <2> QED BY <1>6, <2>1, <2>2 DEF Send
<1>7. ASSUME NEW m \in Messages, EditResend(s, m) PROVE WorkInv' /\ Moves(status')
  BY <1>7, <1>4 DEF EditResend, queues
<1>8. ASSUME NEW old \in Runs, sessionOf[old] = s, Retry(old)
      PROVE  WorkInv' /\ Moves(status')
  <2>1. origin[old] \in Messages \cup {None}
    BY <1>1 DEF TypedRows
  <2> QED BY <1>8, <1>4, <2>1 DEF Retry, queues
<1> QED BY <1>6, <1>7, <1>8

\* Commands on the queue.
LEMMA QueueWork ==
    ASSUME IInv, WorkInv, NEW s \in Sessions,
           PauseQueue(s) \/ RemoveQueue(s) \/ ResumeQueue(s) \/ SendNow(s)
    PROVE  WorkInv' /\ Moves(status')
<1>1. /\ TypedRows /\ Typed(queue, paused, status, stream, work, phase)
      /\ Staffed(status, work, phase, question, orphans)
      /\ Sited(status, sessionOf, queue, sessions)
      /\ Checked(checking, question, kind, work)
  BY TypeParts DEF IInv, WorkInv
<1>2. UNCHANGED <<question, kind, checking, orphans>>
  BY DEF PauseQueue, RemoveQueue, ResumeQueue, SendNow, asked
<1>3. CASE PauseQueue(s)
  BY <1>1, <1>3, MovesNothing DEF PauseQueue, WorkInv, rows, asked, executing
<1>4. CASE RemoveQueue(s)
  <2>1. PICK i \in 1..Len(queue[s]) : queue' = [queue EXCEPT ![s] = RemoveAt(@, i)]
    BY <1>4 DEF RemoveQueue
  <2>2. queue[s] # <<>>
    BY <2>1
  <2>3. Sited(status', sessionOf', queue', sessions')
    BY <1>1, <1>4, <2>1, <2>2 DEF RemoveQueue, Sited, Typed, rows
  <2> QED BY <1>1, <1>4, <2>3, MovesNothing DEF RemoveQueue, WorkInv, rows, asked, executing
<1>5. ASSUME NEW q, NEW p, Typed(q, p, status, stream, work, phase),
             Sited(status, sessionOf, q, sessions),
             PumpQueue(s, q, p, status, stream, work, phase)
      PROVE  WorkInv' /\ Moves(status')
  <2>1. Manned(orphans)
    BY <1>1, <1>5, MovesNothing, PumpStaffed
  <2> QED BY <1>2, <2>1 DEF Manned, WorkInv
<1>6. CASE ResumeQueue(s)
  <2> DEFINE p == [paused EXCEPT ![s] = "no"]
  <2>1. Typed(queue, p, status, stream, work, phase)
    BY <1>1 DEF Typed
  <2>2. PumpQueue(s, queue, p, status, stream, work, phase)
    BY <1>6 DEF ResumeQueue
  <2> QED BY <1>1, <1>5, <2>1, <2>2
<1>7. CASE SendNow(s)
  <2>1. PICK i \in 1..Len(queue[s]) :
           PumpQueue(s, [queue EXCEPT ![s] = <<@[i]>> \o RemoveAt(@, i)],
                     [paused EXCEPT ![s] = "no"], status, stream, work, phase)
    BY <1>7 DEF SendNow
  <2> DEFINE q == [queue EXCEPT ![s] = <<@[i]>> \o RemoveAt(@, i)]
             p == [paused EXCEPT ![s] = "no"]
  <2>2. queue[s] # <<>> /\ <<queue[s][i]>> \o RemoveAt(queue[s], i) \in Seq(Messages)
    BY <1>1, RemoveAtType DEF Typed
  <2>3. Typed(q, p, status, stream, work, phase)
    BY <1>1, <2>2 DEF Typed
  <2>4. Sited(status, sessionOf, q, sessions)
    BY <1>1, <2>2 DEF Sited, Typed
  <2>5. PumpQueue(s, q, p, status, stream, work, phase)
    BY <2>1
  <2> HIDE DEF q, p
  <2> QED BY <1>5, <2>3, <2>4, <2>5
<1> QED BY <1>3, <1>4, <1>6, <1>7

\* A deleted session had no active run, hence no execution and no open question.
LEMMA DeleteWork ==
    ASSUME IInv, WorkInv, NEW s \in Sessions, DeleteSession(s)
    PROVE  WorkInv' /\ Moves(status')
<1>1. /\ TypeOK /\ Rows(status, sessionOf)
      /\ Staffed(status, work, phase, question, orphans)
      /\ Sited(status, sessionOf, queue, sessions)
      /\ Checked(checking, question, kind, work)
  BY DEF IInv, WorkInv
<1>2. /\ \A r \in Runs : sessionOf[r] = s => status[r] \notin Active
      /\ status' = [r \in Runs |-> IF sessionOf[r] = s THEN "deleted" ELSE status[r]]
      /\ question' = [r \in Runs |-> IF sessionOf[r] = s THEN "none" ELSE question[r]]
      /\ sessions' = sessions \ {s}
      /\ queue' = [queue EXCEPT ![s] = <<>>]
      /\ UNCHANGED <<sessionOf, kind, work, phase, checking, orphans>>
  BY DEF DeleteSession, ActiveIn, executing
<1>3. \A r \in Runs : sessionOf[r] = s => question[r] # "pending"
  BY <1>1, <1>2 DEF Staffed, Active
<1>4. Moves(status')
  BY <1>1, <1>2, ConstantsAssumption DEF Moves, Rows, TypeOK, Statuses
<1>5. Staffed(status', work', phase', question', orphans')
  BY <1>1, <1>2, <1>3, ConstantsAssumption DEF Staffed, Active, TypeOK
<1>6. Sited(status', sessionOf', queue', sessions')
  BY <1>1, <1>2 DEF Sited, TypeOK
<1>7. Checked(checking', question', kind', work')
  BY <1>1, <1>2, <1>3 DEF Checked, TypeOK
<1> QED BY <1>4, <1>5, <1>6, <1>7 DEF WorkInv

\* An aborted execution keeps its run, and its question is withdrawn.
LEMMA AbortWork ==
    ASSUME IInv, WorkInv, NEW e \in Executions, phase[e] # "idle", Abort(e),
           UNCHANGED <<status, sessionOf, queue, sessions, kind, work, checking, orphans>>
    PROVE  WorkInv' /\ Moves(status')
<1>1. /\ TypeOK /\ Attached(status, work, phase, stream)
      /\ Staffed(status, work, phase, question, orphans)
      /\ Checked(checking, question, kind, work)
  BY DEF IInv, WorkInv
<1>2. work[e] \in Runs
  BY <1>1 DEF TypeOK, Attached
<1>3. /\ phase' = [phase EXCEPT ![e] = "stopping"]
      /\ question' \in {question, [question EXCEPT ![work[e]] = "none"]}
      /\ question'[work[e]] # "pending"
  <2>1. CASE phase[e] = "asking"
    BY <1>1, <1>2, <2>1 DEF Abort, Withdrawn, TypeOK
  <2>2. CASE phase[e] # "asking"
    BY <1>1, <1>2, <2>2 DEF Abort, Withdrawn, Staffed
  <2> QED BY <2>1, <2>2
<1>4. \A r \in Runs : r # work[e] => question'[r] = question[r]
  BY <1>1, <1>2, <1>3 DEF TypeOK
<1>5. Staffed(status, work, phase', question', orphans)
  BY <1>1, <1>2, <1>3, <1>4 DEF Staffed, TypeOK
<1>6. Checked(checking, question', kind, work)
  BY <1>1, <1>2, <1>4 DEF Checked
<1> QED BY <1>5, <1>6, MovesNothing DEF WorkInv

LEMMA StopWork ==
    ASSUME IInv, WorkInv,
           \/ \E e \in Executions : Timeout(e)
           \/ \E r \in Runs : Cancel(r)
    PROVE  WorkInv' /\ Moves(status')
<1>1. ASSUME NEW e \in Executions, Timeout(e) PROVE WorkInv' /\ Moves(status')
  BY <1>1, AbortWork DEF Timeout, rows, queues
<1>2. ASSUME NEW r \in Runs, Cancel(r) PROVE WorkInv' /\ Moves(status')
  <2>1. stream[r] \in Executions /\ phase[stream[r]] # "idle" /\ Abort(stream[r])
    BY <1>2, ConstantsAssumption DEF Cancel, IInv, TypeOK, Attached
  <2> QED BY <1>2, <2>1, AbortWork DEF Cancel, rows
<1> QED BY <1>1, <1>2

\* A question asked, and answered while its execution waits.
LEMMA AskWork ==
    ASSUME IInv, WorkInv, NEW e \in Executions,
           AnswerLive(e) \/ \E k \in Kinds : Ask(e, k)
    PROVE  WorkInv' /\ Moves(status')
<1>1. /\ TypeOK /\ Attached(status, work, phase, stream)
      /\ Staffed(status, work, phase, question, orphans)
      /\ Checked(checking, question, kind, work)
      /\ Sited(status, sessionOf, queue, sessions)
  BY DEF IInv, WorkInv
<1>2. work[e] \in Runs /\ status[work[e]] \in Active /\ work[e] # None
  BY <1>1, ConstantsAssumption DEF AnswerLive, Ask, TypeOK, Attached, Staffed
<1>3. \A f \in Executions : work[f] = work[e] => f = e
  BY <1>1, <1>2 DEF Staffed
<1>4. checking[work[e]] = 0
  BY <1>1, <1>2 DEF Checked
<1>5. UNCHANGED <<sessions, sessionOf, queue, work, checking, orphans>>
  BY DEF AnswerLive, Ask, rows, queues
<1>6. CASE AnswerLive(e)
  <2>1. /\ status' = [status EXCEPT ![work[e]] = "running"]
        /\ question' = [question EXCEPT ![work[e]] = "resolved"]
        /\ phase' = [phase EXCEPT ![e] = "working"]
        /\ UNCHANGED kind
    BY <1>2, <1>6 DEF AnswerLive, Intermediate
  <2>2. Staffed(status', work, phase', question', orphans)
    BY <1>1, <1>2, <1>3, <2>1 DEF Staffed, TypeOK, Active
  <2>3. Checked(checking, question', kind', work)
    BY <1>1, <1>2, <1>4, <2>1 DEF Checked, TypeOK
  <2>4. Sited(status', sessionOf, queue, sessions) /\ Moves(status')
    BY <1>1, <1>2, <2>1 DEF Sited, Moves, TypeOK, Active
  <2> QED BY <1>5, <2>2, <2>3, <2>4 DEF WorkInv
<1>7. ASSUME NEW k \in Kinds, Ask(e, k) PROVE WorkInv' /\ Moves(status')
  <2>1. /\ status' = [status EXCEPT ![work[e]] = "awaiting_user_input"]
        /\ question' = [question EXCEPT ![work[e]] = "pending"]
        /\ phase' = [phase EXCEPT ![e] = "asking"]
        /\ kind' = [kind EXCEPT ![work[e]] = k]
    BY <1>2, <1>7 DEF Ask, Intermediate
  <2>2. Staffed(status', work, phase', question', orphans)
    BY <1>1, <1>2, <1>3, <2>1 DEF Staffed, TypeOK, Active
  <2>3. Checked(checking, question', kind', work)
    BY <1>1, <1>2, <1>4, <2>1 DEF Checked, TypeOK
  <2>4. Sited(status', sessionOf, queue, sessions) /\ Moves(status')
    BY <1>1, <1>2, <2>1 DEF Sited, Moves, TypeOK, Active
  <2> QED BY <1>5, <2>2, <2>3, <2>4 DEF WorkInv
<1> QED BY <1>6, <1>7

\* A run that waits for an answer and has no execution gets one by the answer.
LEMMA ResumeWork ==
    ASSUME IInv, WorkInv, NEW r \in Runs, NEW x \in Executions,
           question[r] = "pending", \A e \in Executions : work[e] # r,
           Resume(r, x), checking' \in [Runs -> 0..MaxAnswers], checking'[r] = 0,
           \A y \in Runs \ {r} : checking'[y] = checking[y],
           UNCHANGED <<sessions, sessionOf, kind, queue, orphans>>
    PROVE  WorkInv' /\ Moves(status')
<1>1. /\ TypeOK
      /\ Staffed(status, work, phase, question, orphans)
      /\ Checked(checking, question, kind, work)
      /\ Sited(status, sessionOf, queue, sessions)
  BY DEF IInv, WorkInv
<1>2. /\ status[r] = "awaiting_user_input" /\ status[r] \in Active /\ r # None
      /\ work[x] = None
  BY <1>1, ConstantsAssumption DEF Staffed, Resume, Launch, Active
<1>3. /\ status' = [status EXCEPT ![r] = "running"]
      /\ question' = [question EXCEPT ![r] = "resolved"]
      /\ work' = [work EXCEPT ![x] = r]
      /\ phase' = [phase EXCEPT ![x] = "working"]
  BY <1>1, <1>2 DEF Resume, Launch, Intermediate, TypeOK
<1>4. Staffed(status', work', phase', question', orphans)
  <2>1. \A f \in Executions : work'[f] # None => status'[work'[f]] \in Active
    BY <1>1, <1>2, <1>3 DEF Staffed, TypeOK, Active
  <2>2. \A f, g \in Executions : work'[f] # None /\ work'[f] = work'[g] => f = g
    BY <1>1, <1>3 DEF Staffed, TypeOK
  <2>3. \A y \in Runs : question'[y] = "pending" =>
          /\ status'[y] = "awaiting_user_input"
          /\ \A f \in Executions : work'[f] = y => phase'[f] = "asking"
    BY <1>1, <1>3 DEF Staffed, TypeOK
  <2>4. ASSUME NEW y \in Runs, status'[y] \in Active
        PROVE  (\E f \in Executions : work'[f] = y) \/ question'[y] = "pending" \/ y \in orphans
    <3>1. CASE y = r
      BY <3>1, <1>1, <1>3 DEF TypeOK
    <3>2. CASE y # r
      <4>1. status[y] \in Active /\ question'[y] = question[y]
        BY <3>2, <2>4, <1>1, <1>3 DEF TypeOK
      <4>2. ASSUME NEW f \in Executions, work[f] = y PROVE work'[f] = y
        BY <4>2, <1>1, <1>2, <1>3, ConstantsAssumption DEF TypeOK
      <4> QED BY <1>1, <4>1, <4>2 DEF Staffed
    <3> QED BY <3>1, <3>2
  <2> QED BY <2>1, <2>2, <2>3, <2>4 DEF Staffed
<1>5. Checked(checking', question', kind, work')
  BY <1>1, <1>3 DEF Checked, TypeOK
<1>6. Sited(status', sessionOf, queue, sessions) /\ Moves(status')
  BY <1>1, <1>2, <1>3 DEF Sited, Moves, TypeOK, Active
<1> QED BY <1>4, <1>5, <1>6 DEF WorkInv

\* Answers to a question recovered from the database.
LEMMA AnswerWork ==
    ASSUME MaxAnswers <= 1, IInv, WorkInv, NEW r \in Runs,
           AnswerRecovered(r) \/ AnswerPlan(r) \/ PlanChecked(r)
    PROVE  WorkInv' /\ Moves(status')
<1>1. /\ TypeOK
      /\ Staffed(status, work, phase, question, orphans)
      /\ Checked(checking, question, kind, work)
      /\ Sited(status, sessionOf, queue, sessions)
  BY DEF IInv, WorkInv
<1>2. Recovered(r) => question[r] = "pending" /\ \A e \in Executions : work[e] # r
  BY <1>1 DEF Recovered, Answerable, Asking, Staffed
<1>3. CASE AnswerRecovered(r)
  <2>1. checking[r] = 0 /\ checking' = checking
    BY <1>1, <1>3 DEF AnswerRecovered, Checked
  <2>2. PICK x \in Executions : Resume(r, x)
    BY <1>3 DEF AnswerRecovered
  <2> QED BY <1>1, <1>2, <1>3, <2>1, <2>2, ResumeWork
           DEF AnswerRecovered, TypeOK, rows, queues
<1>4. CASE AnswerPlan(r)
  <2>1. Checked(checking', question, kind, work)
    BY <1>1, <1>2, <1>4 DEF AnswerPlan, Checked, TypeOK
  <2> QED BY <1>1, <1>4, <2>1, MovesNothing
          DEF AnswerPlan, WorkInv, rows, asked, queues, executing
<1>5. CASE PlanChecked(r)
  <2>0. checking[r] \in 0..MaxAnswers /\ checking[r] > 0 /\ MaxAnswers \in Nat
    BY <1>1, <1>5, ConstantsAssumption DEF PlanChecked, TypeOK
  <2>1. checking[r] = 1 /\ checking' = [checking EXCEPT ![r] = 0]
    <3>1. checking[r] = 1
      BY <2>0
    <3> QED BY <1>5, <3>1 DEF PlanChecked
  <2>2. question[r] = "pending" /\ \A e \in Executions : work[e] # r
    BY <1>1, <2>1 DEF Checked
  <2>3. sessionOf[r] \in sessions
    BY <1>1, <2>2 DEF Staffed, Sited
  <2>4. PICK x \in Executions : Resume(r, x)
    BY <1>5, <2>3 DEF PlanChecked
  <2>5. checking' \in [Runs -> 0..MaxAnswers]
    BY <1>1, <2>1, ConstantsAssumption DEF TypeOK
  <2> QED BY <1>1, <1>5, <2>1, <2>2, <2>4, <2>5, ResumeWork
           DEF PlanChecked, TypeOK, rows, queues
<1> QED BY <1>3, <1>4, <1>5

\* The end of an execution takes its run with it, or leaves it lost.
LEMMA FinishWork ==
    ASSUME IInv, WorkInv, NEW e \in Executions, NEW outcome \in Terminal,
           NEW saved \in BOOLEAN, Finish(e, outcome, saved)
    PROVE  WorkInv' /\ Moves(status')
<1> DEFINE r == work[e]
           st == IF saved /\ status[r] # "deleted"
                 THEN [status EXCEPT ![r] = outcome] ELSE status
           str == [stream EXCEPT ![r] = None]
           wk == [work EXCEPT ![e] = None]
           ph == [phase EXCEPT ![e] = "idle"]
           lost == IF saved THEN orphans ELSE orphans \cup {r}
<1>1. /\ TypeOK /\ Attached(status, work, phase, stream) /\ Rows(status, sessionOf)
      /\ Staffed(status, work, phase, question, orphans)
      /\ Checked(checking, question, kind, work)
      /\ Sited(status, sessionOf, queue, sessions)
  BY DEF IInv, WorkInv
<1>2. r \in Runs /\ r # None /\ status[r] \in Active /\ sessionOf[r] \in Sessions
  BY <1>1, ConstantsAssumption DEF Finish, Attached, Rows, TypeOK, Staffed
<1>3. /\ PumpQueue(sessionOf[r], queue, paused, st, str, wk, ph)
      /\ orphans' = lost /\ UNCHANGED <<question, kind, checking>>
      /\ phase[e] # "asking"
  BY DEF Finish, asked
<1>4. /\ st \in [Runs -> Statuses] /\ st[r] \in Active \cup Terminal
      /\ \A x \in Runs \ {r} : st[x] = status[x]
      /\ st[r] \in Active => r \in lost
  BY <1>1, <1>2 DEF TypeOK, Statuses, Terminal, Active
<1>5. TypedRows /\ Typed(queue, paused, st, str, wk, ph)
  BY <1>1, <1>2, <1>4 DEF TypedRows, Typed, TypeOK
<1>6. /\ Moves(st) /\ Sited(st, sessionOf, queue, sessions)
      /\ \A x \in Runs : st[x] = "none" => status[x] = "none"
  <2>1. Moves(st)
    BY <1>1, <1>2, <1>4 DEF Moves
  <2>2. Sited(st, sessionOf, queue, sessions)
    BY <1>1, <1>2, <1>4 DEF Sited, Active
  <2>3. \A x \in Runs : st[x] = "none" => status[x] = "none"
    BY <1>2, <1>4 DEF Active, Terminal
  <2> QED BY <2>1, <2>2, <2>3
<1>7. question[r] # "pending" /\ \A f \in Executions : work[f] = r => f = e
  BY <1>1, <1>2, <1>3 DEF Staffed
<1>8. \A f \in Executions : wk[f] = IF f = e THEN None ELSE work[f]
  BY <1>1 DEF TypeOK
<1>9. \A f \in Executions : f # e => ph[f] = phase[f]
  BY <1>1 DEF TypeOK
<1>10. orphans \subseteq lost
  OBVIOUS
<1> HIDE DEF st, str, wk, ph, lost
<1>11. Staffed(st, wk, ph, question, lost)
  <2>1. \A f \in Executions : wk[f] # None => f # e /\ wk[f] = work[f] /\ wk[f] # r
    BY <1>7, <1>8
  <2>2. \A f \in Executions : wk[f] # None => st[wk[f]] \in Active
    <3> SUFFICES ASSUME NEW f \in Executions, wk[f] # None PROVE st[wk[f]] \in Active
      OBVIOUS
    <3>1. wk[f] \in Runs \ {r} /\ status[wk[f]] \in Active
      BY <1>1, <2>1 DEF Staffed, TypeOK
    <3> QED BY <1>4, <3>1
  <2>3. \A f, g \in Executions : wk[f] # None /\ wk[f] = wk[g] => f = g
    BY <1>1, <2>1 DEF Staffed
  <2>4. \A x \in Runs : question[x] = "pending" =>
          /\ st[x] = "awaiting_user_input"
          /\ \A f \in Executions : wk[f] = x => ph[f] = "asking"
    <3> SUFFICES ASSUME NEW x \in Runs, question[x] = "pending"
                 PROVE  /\ st[x] = "awaiting_user_input"
                        /\ \A f \in Executions : wk[f] = x => ph[f] = "asking"
      OBVIOUS
    <3>1. x # r /\ st[x] = status[x]
      BY <1>4, <1>7
    <3> QED BY <1>1, <1>8, <1>9, <3>1, ConstantsAssumption DEF Staffed
  <2>5. \A x \in Runs : st[x] \in Active =>
          (\E f \in Executions : wk[f] = x) \/ question[x] = "pending" \/ x \in lost
    <3> SUFFICES ASSUME NEW x \in Runs \ {r}, st[x] \in Active
                 PROVE  (\E f \in Executions : wk[f] = x) \/ question[x] = "pending" \/ x \in lost
      BY <1>4
    <3>1. status[x] \in Active
      BY <1>4
    <3>2. ASSUME NEW f \in Executions, work[f] = x PROVE wk[f] = x
      BY <1>7, <1>8, <3>2
    <3> QED BY <1>1, <1>10, <3>1, <3>2 DEF Staffed
  <2> QED BY <2>2, <2>3, <2>4, <2>5 DEF Staffed
<1>12. Checked(checking, question, kind, wk)
  BY <1>1, <1>8, ConstantsAssumption DEF Checked
<1>13. Manned(lost)
  BY <1>2, <1>3, <1>5, <1>6, <1>11, <1>12, PumpStaffed
<1> QED BY <1>3, <1>13 DEF Manned, WorkInv

\* Recovery ends what nobody can answer, and no execution is left.
LEMMA RestartWork == ASSUME IInv, WorkInv, Restart PROVE WorkInv' /\ Moves(status')
<1>1. /\ TypeOK
      /\ Staffed(status, work, phase, question, orphans)
      /\ Sited(status, sessionOf, queue, sessions)
  BY DEF IInv, WorkInv
<1>2. /\ status' = [r \in Runs |-> RecoveredStatus(r)]
      /\ question' = [r \in Runs |->
                        IF question[r] = "pending" /\ status'[r] # "awaiting_user_input"
                        THEN "cancelled" ELSE question[r]]
      /\ work' = [e \in Executions |-> None]
      /\ queue' = [s \in Sessions |-> <<>>]
      /\ checking' = [r \in Runs |-> 0]
      /\ UNCHANGED <<sessions, sessionOf>>
  BY DEF Restart, rows
<1>3. Moves(status')
  BY <1>2 DEF Moves, RecoveredStatus, Active, Terminal
<1>4. Staffed(status', work', phase', question', orphans')
  BY <1>1, <1>2, ConstantsAssumption DEF Staffed, RecoveredStatus, Active, TypeOK
<1>5. Sited(status', sessionOf', queue', sessions')
  BY <1>1, <1>2 DEF Sited, RecoveredStatus
<1>6. Checked(checking', question', kind', work')
  BY <1>2 DEF Checked
<1> QED BY <1>3, <1>4, <1>5, <1>6 DEF WorkInv

LEMMA NextWork ==
    ASSUME MaxAnswers <= 1
    PROVE  IInv /\ WorkInv /\ [Next]_vars => WorkInv' /\ Moves(status')
<1> SUFFICES ASSUME IInv, WorkInv, [Next]_vars PROVE WorkInv' /\ Moves(status')
  OBVIOUS
<1>1. CASE UNCHANGED vars
  BY <1>1, MovesNothing DEF WorkInv, vars, rows, asked, queues, executing
<1>2. CASE Restart
  BY <1>2, RestartWork
<1>3. ASSUME NEW s \in Sessions, NEW m \in Messages, Send(s, m) \/ EditResend(s, m)
      PROVE  WorkInv' /\ Moves(status')
  BY <1>3, CreationWork
<1>4. ASSUME NEW s \in Sessions,
             \/ PauseQueue(s) \/ RemoveQueue(s) \/ DeleteSession(s)
             \/ ResumeQueue(s) \/ SendNow(s)
      PROVE  WorkInv' /\ Moves(status')
  BY <1>4, QueueWork, DeleteWork
<1>5. ASSUME NEW r \in Runs,
             \/ Cancel(r) \/ Retry(r) \/ AnswerRecovered(r) \/ AnswerPlan(r)
             \/ PlanChecked(r)
      PROVE  WorkInv' /\ Moves(status')
  <2>1. CASE Retry(r)
    <3>1. sessionOf[r] \in Sessions
      BY <2>1, ConstantsAssumption
         DEF Retry, Replaceable, Terminal, IInv, Rows, TypeOK
    <3> QED BY <2>1, <3>1, CreationWork
  <2> QED BY <1>5, <2>1, StopWork, AnswerWork
<1>6. ASSUME NEW e \in Executions, NEW k \in Kinds, Ask(e, k)
      PROVE  WorkInv' /\ Moves(status')
  BY <1>6, AskWork
<1>7. ASSUME NEW e \in Executions, AnswerLive(e) \/ Timeout(e)
      PROVE  WorkInv' /\ Moves(status')
  BY <1>7, AskWork, StopWork
<1>8. ASSUME NEW e \in Executions, NEW outcome \in Terminal,
             NEW saved \in BOOLEAN, Finish(e, outcome, saved)
      PROVE  WorkInv' /\ Moves(status')
  BY <1>8, FinishWork
<1> QED BY <1>1, <1>2, <1>3, <1>4, <1>5, <1>6, <1>7, <1>8 DEF Next

LEMMA WorkInvariant == ASSUME MaxAnswers <= 1 PROVE Spec => []WorkInv
BY InitWork, NextWork, Invariant, PTL DEF Spec

\* While plans are answered one at a time, a session never has two executions,
\* and an active run always has one, an open question, or a lost end: whatever
\* starts, stops, answers or restarts it.
THEOREM WorkerEach == MaxAnswers <= 1 => (Spec => []OneWorker)
<1> SUFFICES ASSUME MaxAnswers <= 1 PROVE Spec => []OneWorker
  OBVIOUS
<1>1. IInv /\ WorkInv => OneWorker
  <2> SUFFICES ASSUME IInv, WorkInv PROVE OneWorker
    OBVIOUS
  <2>1. OneExecution
    BY DEF IInv, TypeOK, OneActive, WorkInv, Staffed, OneExecution
  <2>2. NoZombie
    BY DEF WorkInv, Staffed, NoZombie
  <2> QED BY <2>1, <2>2 DEF OneWorker
<1> QED BY <1>1, Invariant, WorkInvariant, PTL

\* And every question the user sees is one its run still waits for.
THEOREM QuestionsOpen == MaxAnswers <= 1 => (Spec => []QuestionsAnswerable)
<1> SUFFICES ASSUME MaxAnswers <= 1 PROVE Spec => []QuestionsAnswerable
  OBVIOUS
<1>1. WorkInv => QuestionsAnswerable
  BY DEF WorkInv, Staffed, QuestionsAnswerable
<1> QED BY <1>1, WorkInvariant, PTL

\* And no end of an execution, recovery or answer writes over the end of a run.
THEOREM EndsStay == MaxAnswers <= 1 => (Spec => TerminalIrreversible)
<1> SUFFICES ASSUME MaxAnswers <= 1 PROVE Spec => TerminalIrreversible
  OBVIOUS
<1>1. IInv /\ WorkInv /\ [Next]_vars =>
        [\A r \in Runs : status[r] \in Terminal => status'[r] \in {status[r], "deleted"}]_vars
  BY NextWork DEF Moves, Terminal, Active
<1> QED BY <1>1, Invariant, WorkInvariant, PTL DEF Spec, TerminalIrreversible

--------------------------------------------------------------------------------
(* The refinement. *)

\* The abstract state in terms of rows.
Current == [s \in Sessions |->
               IF ActiveIn(status, s) = {} THEN None
               ELSE CHOOSE r \in ActiveIn(status, s) : TRUE]

Ended == {r \in Runs : status[r] \in Terminal \cup {"deleted"}}

\* A run is its session's current one when and only when it is active.
LEMMA CurrentIs ==
    ASSUME IInv
    PROVE  /\ \A s \in Sessions : Current[s] \in Runs \cup {None}
           /\ \A s \in Sessions, r \in Runs :
                 Current[s] = r <=> status[r] \in Active /\ sessionOf[r] = s
<1>1. ASSUME NEW s \in Sessions, NEW r \in Runs, r \in ActiveIn(status, s)
      PROVE  Current[s] = r
  BY <1>1 DEF Current, ActiveIn, IInv, OneActive
<1>2. ASSUME NEW s \in Sessions
      PROVE  Current[s] \in ActiveIn(status, s) \cup {None}
  BY DEF Current
<1> QED BY <1>1, <1>2, ConstantsAssumption DEF ActiveIn

LEMMA CurrentIsNext ==
    ASSUME IInv'
    PROVE  /\ \A s \in Sessions : Current'[s] \in Runs \cup {None}
           /\ \A s \in Sessions, r \in Runs :
                 Current'[s] = r <=> status'[r] \in Active /\ sessionOf'[r] = s
<1>1. ASSUME NEW s \in Sessions, NEW r \in Runs, r \in ActiveIn(status, s)'
      PROVE  Current'[s] = r
  BY <1>1 DEF Current, ActiveIn, IInv, OneActive
<1>2. ASSUME NEW s \in Sessions
      PROVE  Current'[s] \in ActiveIn(status, s)' \cup {None}
  BY DEF Current
<1> QED BY <1>1, <1>2, ConstantsAssumption DEF ActiveIn

\* A run keeps its session once it has one.
LEMMA SessionStays ==
    ASSUME IInv, [Next]_vars
    PROVE  \A r \in Runs : status[r] # "none" => sessionOf'[r] = sessionOf[r]
<1> DEFINE Kept == \A x \in Runs : status[x] # "none" => sessionOf'[x] = sessionOf[x]
<1>1. ASSUME NEW s, NEW m, NEW r \in Runs, NEW e, NEW st, NEW str, NEW wk, NEW ph,
             CreateRun(s, m, r, e, st, str, wk, ph), st[r] = "none" => status[r] = "none"
      PROVE  Kept
  BY <1>1 DEF CreateRun, IInv, TypeOK
<1>2. ASSUME UNCHANGED sessionOf PROVE Kept
  BY <1>2
<1> SUFFICES Kept
  OBVIOUS
<1> HIDE DEF Kept
<1>3. ASSUME NEW s, NEW q, NEW p, NEW st, NEW str, NEW wk, NEW ph,
             PumpQueue(s, q, p, st, str, wk, ph),
             \A r \in Runs : st[r] = "none" => status[r] = "none"
      PROVE  Kept
  <2>1. CASE UNCHANGED rows
    BY <2>1, <1>2 DEF rows
  <2>2. CASE StartSend(s, Head(q[s]), st, str, wk, ph)
    <3>1. PICK r \in Runs, e \in Executions :
             CreateRun(s, Head(q[s]), r, e, st, str, wk, ph)
      BY <2>2 DEF StartSend
    <3> QED BY <1>1, <1>3, <3>1
  <2> QED BY <1>3, <2>1, <2>2 DEF PumpQueue
<1>4. ASSUME NEW s \in Sessions, NEW m \in Messages, Send(s, m) \/ EditResend(s, m)
      PROVE  Kept
  <2>1. CASE \E r \in Runs, e \in Executions : CreateRun(s, m, r, e, status, stream, work, phase)
    BY <2>1, <1>1
  <2> QED BY <1>2, <1>4, <2>1 DEF Send, EditResend, StartSend, rows
<1>5. ASSUME NEW old \in Runs, Retry(old) PROVE Kept
  <2>1. PICK r \in Runs, e \in Executions :
           CreateRun(sessionOf[old], origin[old], r, e, status, stream, work, phase)
    BY <1>5 DEF Retry
  <2> QED BY <1>1, <2>1
<1>6. ASSUME NEW s \in Sessions, ResumeQueue(s) \/ SendNow(s) PROVE Kept
  <2>1. CASE ResumeQueue(s)
    BY <2>1, <1>3 DEF ResumeQueue
  <2>2. CASE SendNow(s)
    <3>1. PICK i \in 1..Len(queue[s]) :
             PumpQueue(s, [queue EXCEPT ![s] = <<@[i]>> \o RemoveAt(@, i)],
                       [paused EXCEPT ![s] = "no"], status, stream, work, phase)
      BY <2>2 DEF SendNow
    <3> QED BY <3>1, <1>3
  <2> QED BY <1>6, <2>1, <2>2
<1>7. ASSUME NEW e \in Executions, NEW outcome \in Terminal,
             NEW saved \in BOOLEAN, Finish(e, outcome, saved)
      PROVE  Kept
  <2> DEFINE st == IF saved /\ status[work[e]] # "deleted"
                   THEN [status EXCEPT ![work[e]] = outcome] ELSE status
  <2>1. \A r \in Runs : st[r] = "none" => status[r] = "none"
    BY DEF IInv, TypeOK, Terminal
  <2>2. PumpQueue(sessionOf[work[e]], queue, paused, st,
                  [stream EXCEPT ![work[e]] = None], [work EXCEPT ![e] = None],
                  [phase EXCEPT ![e] = "idle"])
    BY <1>7 DEF Finish
  <2> HIDE DEF st
  <2> QED BY <1>3, <2>1, <2>2
<1>8. CASE \/ UNCHANGED vars
           \/ Restart
           \/ \E s \in Sessions : PauseQueue(s) \/ RemoveQueue(s) \/ DeleteSession(s)
           \/ \E r \in Runs :
                 Cancel(r) \/ AnswerRecovered(r) \/ AnswerPlan(r) \/ PlanChecked(r)
           \/ \E e \in Executions :
                 AnswerLive(e) \/ Timeout(e) \/ \E k \in Kinds : Ask(e, k)
  BY <1>8, <1>2 DEF vars, rows, Restart, PauseQueue, RemoveQueue, DeleteSession, Cancel,
     AnswerRecovered, AnswerPlan, PlanChecked, AnswerLive, Timeout, Ask
<1>9. CASE Next
  <2>1. CASE \E s \in Sessions, m \in Messages : Send(s, m) \/ EditResend(s, m)
    BY <2>1, <1>4
  <2>2. CASE \E s \in Sessions : ResumeQueue(s) \/ SendNow(s)
    BY <2>2, <1>6
  <2>3. CASE \E r \in Runs : Retry(r)
    BY <2>3, <1>5
  <2>4. CASE \E e \in Executions, outcome \in Terminal, saved \in BOOLEAN :
                Finish(e, outcome, saved)
    BY <2>4, <1>7
  <2> QED BY <1>8, <1>9, <2>1, <2>2, <2>3, <2>4 DEF Next
<1> QED BY <1>8, <1>9

\* Every step ends, deletes or starts runs as a serial session does.
LEMMA SerialStep ==
    ASSUME MaxAnswers <= 1, IInv, WorkInv, IInv', [Next]_vars
    PROVE  Serial!Next
<1>1. /\ Moves(status')
      /\ \A r \in Runs : status[r] # "none" => sessionOf'[r] = sessionOf[r]
      /\ \A r \in Runs : status'[r] # "none" => sessionOf'[r] \in Sessions
      /\ \A r \in Runs : status[r] # "none" => sessionOf[r] \in Sessions
  <2>1. Moves(status')
    BY NextWork
  <2>2. \A r \in Runs : status'[r] # "none" => sessionOf'[r] \in Sessions
    BY ConstantsAssumption DEF IInv, Rows, TypeOK
  <2>3. \A r \in Runs : status[r] # "none" => sessionOf[r] \in Sessions
    BY ConstantsAssumption DEF IInv, Rows, TypeOK
  <2> QED BY <2>1, <2>2, <2>3, SessionStays
<1>2. \A r \in Runs : r \in Serial!Busy <=> status[r] \in Active
  <2>1. Serial!Busy = {Current[s] : s \in Sessions} \ {None}
    BY DEF Serial!Busy, Current
  <2> HIDE DEF Current
  <2> QED BY <2>1, <1>1, CurrentIs, ConstantsAssumption DEF Active
<1>3. Serial!Busy \subseteq Runs
  <2>1. Serial!Busy = {Current[s] : s \in Sessions} \ {None}
    BY DEF Serial!Busy, Current
  <2> HIDE DEF Current
  <2> QED BY <2>1, CurrentIs
<1>4. Current' \in [Sessions -> Runs \cup {None}]
  <2>1. Current' = [s \in Sessions |-> Current'[s]]
    BY DEF Current
  <2> HIDE DEF Current
  <2> QED BY <2>1, CurrentIsNext
<1> HIDE DEF Current
<1>5. ASSUME NEW s \in Sessions
      PROVE  Current'[s] \in {None, Current[s]} \/ Current'[s] \notin Ended \cup Serial!Busy
  <2> SUFFICES ASSUME NEW r \in Runs, Current'[s] = r
               PROVE  r = Current[s] \/ r \notin Ended \cup Serial!Busy
    BY <1>4
  <2>1. status'[r] \in Active /\ sessionOf'[r] = s
    BY CurrentIsNext
  <2>2. status[r] = "none" \/ status[r] \in Active
    BY <1>1, <2>1 DEF Moves, Active, Terminal
  <2>3. CASE status[r] \in Active
    BY <2>1, <2>3, <1>1, CurrentIs DEF Active
  <2>4. CASE status[r] = "none"
    BY <2>4, <1>2 DEF Ended, Active, Terminal
  <2> QED BY <2>2, <2>3, <2>4
<1>6. ASSUME NEW s \in Sessions, NEW t \in Sessions, Current'[s] = Current'[t], s # t
      PROVE  Current'[s] = None
  BY <1>4, <1>6, CurrentIsNext
<1>7. Ended' = Ended \cup (Serial!Busy \ {Current'[s] : s \in Sessions})
  <2>1. ASSUME NEW r \in Runs
        PROVE  r \in {Current'[s] : s \in Sessions} <=> status'[r] \in Active
    BY <1>1, CurrentIsNext DEF Active
  <2>2. ASSUME NEW r \in Runs
        PROVE  r \in Ended' <=> r \in Ended \/ (status[r] \in Active /\ status'[r] \notin Active)
    BY <1>1 DEF Ended, Moves, Active, Terminal
  <2>3. Ended \subseteq Runs /\ Ended' \subseteq Runs
    BY DEF Ended
  <2> QED BY <1>2, <1>3, <2>1, <2>2, <2>3
<1> QED BY <1>4, <1>5, <1>6, <1>7 DEF Serial!Next, Current, Ended

\* A session is a serial session, for any number of sessions, runs, executions and
\* crashes: one run at a time, none started twice, none working after its end.
THEOREM Implementation == MaxAnswers <= 1 => (Spec => ImplementsSerial)
<1> SUFFICES ASSUME MaxAnswers <= 1 PROVE Spec => ImplementsSerial
  OBVIOUS
<1>1. Init => Serial!Init
  BY DEF Init, Serial!Init, ActiveIn, Active, Terminal
<1> QED BY <1>1, SerialStep, Invariant, WorkInvariant, PTL
        DEF Spec, ImplementsSerial, Serial!Spec

--------------------------------------------------------------------------------
(* Messages, for any number of answers.                                    *)

\* A message is queued in one place.
Distinct(q) ==
    \A s, t \in Sessions : \A i \in 1..Len(q[s]), j \in 1..Len(q[t]) :
        q[s][i] = q[t][j] => s = t /\ i = j

\* What is queued has no run.
Unsent(q, og) ==
    \A r \in Runs, s \in Sessions : \A i \in 1..Len(q[s]) : og[r] # q[s][i]

\* A run without a row has no message and no successor.
Blank(st, og, sb) == \A r \in Runs : st[r] = "none" => og[r] = None /\ sb[r] = None

Single(og, sb) ==
    \A r, x \in Runs : og[r] = og[x] /\ og[r] # None /\ sb[r] = None /\ sb[x] = None => r = x

SentInv ==
    /\ Distinct(queue) /\ Unsent(queue, origin)
    /\ Blank(status, origin, supersededBy) /\ Single(origin, supersededBy)

LEMMA RemoveAtElements ==
    ASSUME NEW S, NEW q \in Seq(S), NEW i \in 1..Len(q)
    PROVE  /\ Len(RemoveAt(q, i)) = Len(q) - 1
           /\ \A k \in 1..Len(RemoveAt(q, i)) :
                 RemoveAt(q, i)[k] = q[IF k < i THEN k ELSE k + 1]
<1> DEFINE a == SubSeq(q, 1, i - 1)
           b == SubSeq(q, i + 1, Len(q))
<1>0. Len(q) \in Nat /\ i \in Nat /\ 1 <= i /\ i <= Len(q)
  OBVIOUS
<1>1. /\ a \in Seq(S) /\ Len(a) = i - 1
      /\ \A k \in 1..(i - 1) : a[k] = q[k]
  BY <1>0
<1>2. /\ b \in Seq(S) /\ Len(b) = Len(q) - i
      /\ \A k \in 1..(Len(q) - i) : b[k] = q[i + k]
  BY <1>0
<1>3. RemoveAt(q, i) = a \o b
  BY DEF RemoveAt
<1> HIDE DEF a, b
<1>4. /\ Len(a \o b) = Len(a) + Len(b)
      /\ \A k \in 1..Len(a) + Len(b) :
            (a \o b)[k] = IF k <= Len(a) THEN a[k] ELSE b[k - Len(a)]
  BY <1>1, <1>2, ConcatProperties
<1>5. Len(a \o b) = Len(q) - 1
  BY <1>0, <1>1, <1>2, <1>4
<1>6. ASSUME NEW k \in 1..(Len(q) - 1)
      PROVE  (a \o b)[k] = q[IF k < i THEN k ELSE k + 1]
  <2>1. CASE k < i
    <3>1. k \in 1..(i - 1) /\ k <= Len(a) /\ k \in 1..Len(a) + Len(b)
      BY <1>0, <1>1, <1>2, <2>1
    <3> QED BY <1>1, <1>4, <2>1, <3>1
  <2>2. CASE ~(k < i)
    <3>1. /\ k - (i - 1) \in 1..(Len(q) - i) /\ i + (k - (i - 1)) = k + 1
          /\ ~(k <= Len(a)) /\ k \in 1..Len(a) + Len(b)
      BY <1>0, <1>1, <1>2, <2>2
    <3>2. (a \o b)[k] = b[k - (i - 1)]
      BY <1>1, <1>4, <3>1
    <3> QED BY <1>2, <2>2, <3>1, <3>2
  <2> QED BY <2>1, <2>2
<1> QED BY <1>3, <1>5, <1>6

\* The places of q come, each once, from places of p that fit, or from a message
\* that p does not hold.
Rearranged(q, p) ==
    \A s \in Sessions :
        /\ q[s] \in Seq(Messages)
        /\ \E from \in [1..Len(q[s]) -> 1..Len(p[s])] :
              /\ \A i \in 1..Len(q[s]) : q[s][i] = p[s][from[i]]
              /\ \A i, j \in 1..Len(q[s]) : from[i] = from[j] => i = j

\* Which is all that removing and reordering do.
LEMMA RearrangedSent ==
    ASSUME NEW q, NEW p, NEW og, Rearranged(q, p), Distinct(p), Unsent(p, og)
    PROVE  Distinct(q) /\ Unsent(q, og)
<1>1. ASSUME NEW s \in Sessions, NEW t \in Sessions,
             NEW i \in 1..Len(q[s]), NEW j \in 1..Len(q[t]), q[s][i] = q[t][j]
      PROVE  s = t /\ i = j
  <2>1. PICK f \in [1..Len(q[s]) -> 1..Len(p[s])] :
              /\ \A k \in 1..Len(q[s]) : q[s][k] = p[s][f[k]]
              /\ \A k, l \in 1..Len(q[s]) : f[k] = f[l] => k = l
    BY DEF Rearranged
  <2>2. PICK g \in [1..Len(q[t]) -> 1..Len(p[t])] :
              \A k \in 1..Len(q[t]) : q[t][k] = p[t][g[k]]
    BY DEF Rearranged
  <2>3. s = t /\ f[i] = g[j]
    <3>1. /\ f[i] \in 1..Len(p[s]) /\ g[j] \in 1..Len(p[t])
          /\ p[s][f[i]] = p[t][g[j]]
      BY <1>1, <2>1, <2>2
    <3> QED BY <3>1 DEF Distinct
  <2>4. p[s][f[j]] = p[s][f[i]]
    BY <1>1, <2>1, <2>3
  <2>5. f[j] = f[i]
    BY <2>1, <2>3, <2>4 DEF Distinct
  <2> QED BY <2>1, <2>3, <2>5
<1>2. ASSUME NEW r \in Runs, NEW s \in Sessions, NEW i \in 1..Len(q[s])
      PROVE  og[r] # q[s][i]
  <2>1. PICK f \in [1..Len(q[s]) -> 1..Len(p[s])] :
              \A k \in 1..Len(q[s]) : q[s][k] = p[s][f[k]]
    BY DEF Rearranged
  <2> QED BY <2>1 DEF Unsent
<1> QED BY <1>1, <1>2 DEF Distinct, Unsent

\* The queue of one session is replaced by places of itself.
LEMMA RearrangedOne ==
    ASSUME NEW p \in [Sessions -> Seq(Messages)], NEW s \in Sessions, NEW new \in Seq(Messages),
           NEW from \in [1..Len(new) -> 1..Len(p[s])],
           \A i \in 1..Len(new) : new[i] = p[s][from[i]],
           \A i, j \in 1..Len(new) : from[i] = from[j] => i = j
    PROVE  Rearranged([p EXCEPT ![s] = new], p)
<1> DEFINE q == [p EXCEPT ![s] = new]
<1>1. ASSUME NEW t \in Sessions, t # s
      PROVE  /\ q[t] \in Seq(Messages)
             /\ \E f \in [1..Len(q[t]) -> 1..Len(p[t])] :
                   /\ \A i \in 1..Len(q[t]) : q[t][i] = p[t][f[i]]
                   /\ \A i, j \in 1..Len(q[t]) : f[i] = f[j] => i = j
  <2>1. q[t] = p[t] /\ p[t] \in Seq(Messages)
    BY <1>1
  <2> DEFINE f == [i \in 1..Len(q[t]) |-> i]
  <2> HIDE DEF q
  <2>2. f \in [1..Len(q[t]) -> 1..Len(p[t])]
    BY <2>1
  <2>3. /\ \A i \in 1..Len(q[t]) : q[t][i] = p[t][f[i]]
        /\ \A i, j \in 1..Len(q[t]) : f[i] = f[j] => i = j
    BY <2>1
  <2> HIDE DEF f
  <2> QED BY <2>1, <2>2, <2>3
<1>2. q[s] = new
  OBVIOUS
<1> HIDE DEF q
<1>3. /\ q[s] \in Seq(Messages)
      /\ \E f \in [1..Len(q[s]) -> 1..Len(p[s])] :
            /\ \A i \in 1..Len(q[s]) : q[s][i] = p[s][f[i]]
            /\ \A i, j \in 1..Len(q[s]) : f[i] = f[j] => i = j
  BY <1>2
<1>4. Rearranged(q, p)
  <2>1. ASSUME NEW t \in Sessions
        PROVE  /\ q[t] \in Seq(Messages)
               /\ \E f \in [1..Len(q[t]) -> 1..Len(p[t])] :
                     /\ \A i \in 1..Len(q[t]) : q[t][i] = p[t][f[i]]
                     /\ \A i, j \in 1..Len(q[t]) : f[i] = f[j] => i = j
    <3>1. CASE t = s
      BY <1>3, <3>1
    <3>2. CASE t # s
      BY <1>1, <3>2
    <3> QED BY <3>1, <3>2
  <2> QED BY <2>1 DEF Rearranged
<1> QED BY <1>4 DEF q

LEMMA RemoveRearranges ==
    ASSUME NEW p \in [Sessions -> Seq(Messages)], NEW s \in Sessions, NEW i \in 1..Len(p[s])
    PROVE  /\ Rearranged([p EXCEPT ![s] = RemoveAt(@, i)], p)
           /\ Rearranged([p EXCEPT ![s] = <<@[i]>> \o RemoveAt(@, i)], p)
<1> DEFINE rest == RemoveAt(p[s], i)
           front == <<p[s][i]>> \o rest
<1>1. /\ p[s] \in Seq(Messages) /\ Len(p[s]) \in Nat
      /\ rest \in Seq(Messages) /\ front \in Seq(Messages)
  BY RemoveAtType
<1>2. /\ Len(rest) = Len(p[s]) - 1
      /\ \A k \in 1..Len(rest) : rest[k] = p[s][IF k < i THEN k ELSE k + 1]
  BY <1>1, RemoveAtElements
<1> HIDE DEF rest
<1>3. Rearranged([p EXCEPT ![s] = rest], p)
  <2> DEFINE f == [k \in 1..Len(rest) |-> IF k < i THEN k ELSE k + 1]
  <2>1. f \in [1..Len(rest) -> 1..Len(p[s])]
    BY <1>1, <1>2
  <2>2. /\ \A k \in 1..Len(rest) : rest[k] = p[s][f[k]]
        /\ \A k, l \in 1..Len(rest) : f[k] = f[l] => k = l
    BY <1>1, <1>2
  <2> HIDE DEF f
  <2> QED BY <1>1, <2>1, <2>2, RearrangedOne
<1>4. Rearranged([p EXCEPT ![s] = front], p)
  <2>1. /\ Len(front) = Len(p[s])
        /\ \A k \in 1..Len(front) :
              front[k] = p[s][IF k = 1 THEN i ELSE IF k - 1 < i THEN k - 1 ELSE k]
    <3>1. /\ Len(front) = Len(rest) + 1 /\ front[1] = p[s][i]
          /\ \A k \in 1..Len(front) : k # 1 => front[k] = rest[k - 1] /\ k - 1 \in 1..Len(rest)
      BY <1>1
    <3> HIDE DEF front
    <3> QED BY <1>1, <1>2, <3>1
  <2> DEFINE f == [k \in 1..Len(front) |-> IF k = 1 THEN i ELSE IF k - 1 < i THEN k - 1 ELSE k]
  <2> HIDE DEF front
  <2>2. f \in [1..Len(front) -> 1..Len(p[s])]
    BY <1>1, <2>1
  <2>3. /\ \A k \in 1..Len(front) : front[k] = p[s][f[k]]
        /\ \A k, l \in 1..Len(front) : f[k] = f[l] => k = l
    BY <1>1, <2>1
  <2> HIDE DEF f
  <2> QED BY <1>1, <2>2, <2>3, RearrangedOne
<1> QED BY <1>3, <1>4 DEF rest, front

LEMMA TailRearranges ==
    ASSUME NEW p \in [Sessions -> Seq(Messages)], NEW s \in Sessions, p[s] # <<>>
    PROVE  /\ Rearranged([p EXCEPT ![s] = Tail(@)], p)
           /\ Distinct(p) => \A t \in Sessions :
                 \A i \in 1..Len([p EXCEPT ![s] = Tail(@)][t]) :
                    [p EXCEPT ![s] = Tail(@)][t][i] # Head(p[s])
<1>1. /\ p[s] \in Seq(Messages) /\ Len(p[s]) \in Nat /\ Len(p[s]) > 0
      /\ Tail(p[s]) \in Seq(Messages) /\ Len(Tail(p[s])) = Len(p[s]) - 1
      /\ Head(p[s]) = p[s][1]
      /\ \A i \in 1..Len(Tail(p[s])) : Tail(p[s])[i] = p[s][i + 1] /\ i + 1 \in 1..Len(p[s])
  OBVIOUS
<1> DEFINE rest == Tail(p[s])
           f == [i \in 1..Len(rest) |-> i + 1]
<1>2. f \in [1..Len(rest) -> 1..Len(p[s])]
  BY <1>1
<1>3. /\ \A i \in 1..Len(rest) : rest[i] = p[s][f[i]]
      /\ \A i, j \in 1..Len(rest) : f[i] = f[j] => i = j
  BY <1>1
<1>4. Rearranged([p EXCEPT ![s] = rest], p)
  <2> HIDE DEF f, rest
  <2>1. rest \in Seq(Messages)
    BY <1>1 DEF rest
  <2> QED BY <1>2, <1>3, <2>1, RearrangedOne
<1>5. ASSUME Distinct(p), NEW t \in Sessions, NEW i \in 1..Len([p EXCEPT ![s] = rest][t])
      PROVE  [p EXCEPT ![s] = rest][t][i] # Head(p[s])
  <2>1. CASE t = s
    <3>1. i \in 1..Len(rest) /\ rest[i] = p[s][i + 1] /\ i + 1 \in 1..Len(p[s]) /\ i + 1 # 1
      BY <1>1, <1>5, <2>1
    <3>2. 1 \in 1..Len(p[s])
      BY <1>1
    <3>3. p[s][i + 1] # p[s][1]
      BY <1>5, <3>1, <3>2 DEF Distinct
    <3> QED BY <1>1, <2>1, <3>1, <3>3
  <2>2. CASE t # s
    <3>1. [p EXCEPT ![s] = rest][t] = p[t]
      BY <2>2
    <3>2. 1 \in 1..Len(p[s])
      BY <1>1
    <3> QED BY <1>1, <1>5, <2>2, <3>1, <3>2 DEF Distinct
  <2> QED BY <2>1, <2>2
<1> QED BY <1>4, <1>5

LEMMA InitSent == Init => SentInv
BY DEF Init, SentInv, Distinct, Unsent, Blank, Single

\* A new message is in no queue and has no run.
LEMMA NewMessage ==
    ASSUME IInv, NEW m, New(m)
    PROVE  /\ \A s \in Sessions : \A i \in 1..Len(queue[s]) : queue[s][i] # m
           /\ \A r \in Runs : origin[r] # m
<1>1. ASSUME NEW s \in Sessions, NEW i \in 1..Len(queue[s])
      PROVE  queue[s][i] \in Queued
  <2>1. queue[s][i] \in Range(queue[s])
    BY DEF Range, IInv, TypeOK
  <2> QED BY <2>1 DEF Queued
<1> QED BY <1>1 DEF New

\* A run for a message without one: what it replaces had a message.
LEMMA FreshSent ==
    ASSUME NEW st \in [Runs -> Statuses], NEW r \in Runs, NEW m \in Messages,
           origin \in [Runs -> Messages \cup {None}],
           st[r] = "none", Blank(st, origin, supersededBy), Single(origin, supersededBy),
           \A x \in Runs : origin[x] # m,
           status' = [st EXCEPT ![r] = "running"], origin' = [origin EXCEPT ![r] = m],
           \A x \in Runs : \/ supersededBy'[x] = supersededBy[x]
                           \/ supersededBy'[x] # None /\ origin[x] # None
    PROVE  Blank(status', origin', supersededBy') /\ Single(origin', supersededBy')
BY ConstantsAssumption DEF Blank, Single

\* Neither messages nor attempts change.
LEMMA QuietSent ==
    ASSUME SentInv, UNCHANGED <<origin, supersededBy>>,
           \A r \in Runs : status'[r] = "none" => status[r] = "none",
           Distinct(queue') /\ Unsent(queue', origin)
    PROVE  SentInv'
BY DEF SentInv, Blank

LEMMA PumpSent ==
    ASSUME NEW s \in Sessions, NEW q, NEW p, NEW st, NEW str, NEW wk, NEW ph,
           TypedRows, Typed(q, p, st, str, wk, ph),
           Distinct(q), Unsent(q, origin), Blank(st, origin, supersededBy),
           Single(origin, supersededBy),
           PumpQueue(s, q, p, st, str, wk, ph)
    PROVE  SentInv'
<1>1. CASE queue' = q /\ status' = st /\ UNCHANGED rows
  BY <1>1 DEF SentInv, rows
<1>2. CASE /\ ~Held(s, q, p, st)
           /\ StartSend(s, Head(q[s]), st, str, wk, ph)
           /\ queue' = Dequeue(q, s)
  <2> DEFINE m == Head(q[s])
  <2>1. /\ q \in [Sessions -> Seq(Messages)] /\ q[s] # <<>> /\ q[s] \in Seq(Messages)
        /\ m \in Messages /\ 1 \in 1..Len(q[s]) /\ m = q[s][1]
    BY <1>2 DEF Held, Typed
  <2>2. PICK r \in Runs, e \in Executions : CreateRun(s, m, r, e, st, str, wk, ph)
    BY <1>2 DEF StartSend
  <2>3. /\ st[r] = "none" /\ status' = [st EXCEPT ![r] = "running"]
        /\ origin' = [origin EXCEPT ![r] = m] /\ UNCHANGED supersededBy
    BY <1>2, <2>2 DEF CreateRun, CreatedStatus, StartSend
  <2>4. \A x \in Runs : origin[x] # m
    BY <2>1 DEF Unsent
  <2>5. st \in [Runs -> Statuses] /\ origin \in [Runs -> Messages \cup {None}]
    BY DEF Typed, TypedRows
  <2>6. queue' = [q EXCEPT ![s] = Tail(@)]
    BY <1>2 DEF Dequeue
  <2> HIDE DEF m
  <2>7. Blank(status', origin', supersededBy') /\ Single(origin', supersededBy')
    BY <2>1, <2>3, <2>4, <2>5, FreshSent
  <2>8. /\ Distinct(queue') /\ Unsent(queue', origin)
        /\ \A t \in Sessions : \A i \in 1..Len(queue'[t]) : queue'[t][i] # m
    <3>1. /\ Rearranged(queue', q)
          /\ \A t \in Sessions : \A i \in 1..Len(queue'[t]) : queue'[t][i] # m
      BY <2>1, <2>6, TailRearranges DEF m
    <3> QED BY <3>1, RearrangedSent
  <2>9. Unsent(queue', origin')
    BY <2>3, <2>5, <2>8 DEF Unsent
  <2> QED BY <2>7, <2>8, <2>9 DEF SentInv
<1> QED BY <1>1, <1>2 DEF PumpQueue

\* A message sent or queued, a message replaced, a run retried.
LEMMA SendSent ==
    ASSUME IInv, SentInv, NEW s \in Sessions, NEW m \in Messages,
           Send(s, m) \/ EditResend(s, m)
    PROVE  SentInv'
<1>1. /\ TypedRows /\ Typed(queue, paused, status, stream, work, phase)
      /\ \A t \in Sessions : queue[t] \in Seq(Messages)
  BY TypeParts DEF IInv, Typed
<1>2. /\ \A t \in Sessions : \A i \in 1..Len(queue[t]) : queue[t][i] # m
      /\ \A r \in Runs : origin[r] # m
  BY <1>1, NewMessage DEF Send, EditResend
<1>3. ASSUME NEW r \in Runs, NEW e \in Executions,
             CreateRun(s, m, r, e, status, stream, work, phase), queue' = queue,
             \A x \in Runs : \/ supersededBy'[x] = supersededBy[x]
                             \/ supersededBy'[x] # None /\ origin[x] # None
      PROVE  SentInv'
  <2>1. /\ status[r] = "none" /\ status' = [status EXCEPT ![r] = "running"]
        /\ origin' = [origin EXCEPT ![r] = m]
    BY <1>3 DEF CreateRun, CreatedStatus
  <2>2. Blank(status', origin', supersededBy') /\ Single(origin', supersededBy')
    BY <1>1, <1>2, <1>3, <2>1, FreshSent DEF SentInv, Typed, TypedRows
  <2>3. Unsent(queue', origin')
    BY <1>1, <1>2, <1>3, <2>1 DEF SentInv, Unsent, TypedRows
  <2> QED BY <1>3, <2>2, <2>3 DEF SentInv
<1>4. CASE Send(s, m)
  <2>1. CASE StartSend(s, m, status, stream, work, phase) /\ UNCHANGED queue
    BY <1>3, <2>1 DEF StartSend
  <2>2. CASE /\ queue' = [queue EXCEPT ![s] = Append(@, m)]
             /\ UNCHANGED <<rows, status, executing>>
    <3> DEFINE new == Append(queue[s], m)
    <3>1. /\ Len(queue[s]) \in Nat /\ Len(new) = Len(queue[s]) + 1
          /\ new[Len(queue[s]) + 1] = m
          /\ \A i \in 1..Len(queue[s]) : new[i] = queue[s][i]
          /\ \A i \in 1..Len(new) : i = Len(queue[s]) + 1 \/ i \in 1..Len(queue[s])
      BY <1>1
    <3>2. queue'[s] = new /\ \A t \in Sessions : t # s => queue'[t] = queue[t]
      BY <1>1, <2>2 DEF Typed
    <3> HIDE DEF new
    <3>3. ASSUME NEW t \in Sessions, NEW i \in 1..Len(queue'[t])
          PROVE  \/ i \in 1..Len(queue[t]) /\ queue'[t][i] = queue[t][i]
                 \/ t = s /\ i = Len(queue[s]) + 1 /\ queue'[t][i] = m
      BY <3>1, <3>2
    <3>4. Distinct(queue')
      BY <1>2, <3>3 DEF SentInv, Distinct
    <3>5. Unsent(queue', origin)
      BY <1>2, <3>3 DEF SentInv, Unsent
    <3> QED BY <2>2, <3>4, <3>5, QuietSent DEF rows
  <2> QED BY <1>4, <2>1, <2>2 DEF Send
<1>5. CASE EditResend(s, m)
  <2>1. PICK r \in Runs, e \in Executions :
           /\ CreateRun(s, m, r, e, status, stream, work, phase)
           /\ supersededBy' =
                [q \in Runs |->
                    IF origin[q] = lastSent[s] /\ supersededBy[q] = None
                    THEN r ELSE supersededBy[q]]
    BY <1>5 DEF EditResend
  <2>2. lastSent[s] # None /\ queue' = queue /\ r # None
    BY <1>5, ConstantsAssumption DEF EditResend, queues
  <2> QED BY <1>3, <2>1, <2>2
<1> QED BY <1>4, <1>5

LEMMA RetrySent ==
    ASSUME IInv, SentInv, NEW old \in Runs, Retry(old) PROVE SentInv'
<1>1. PICK r \in Runs, e \in Executions :
         /\ CreateRun(sessionOf[old], origin[old], r, e, status, stream, work, phase)
         /\ supersededBy' = [supersededBy EXCEPT ![old] = r]
  BY DEF Retry
<1>2. /\ status[r] = "none" /\ status' = [status EXCEPT ![r] = "running"]
      /\ origin' = [origin EXCEPT ![r] = origin[old]]
      /\ supersededBy[old] = None /\ queue' = queue
      /\ status[old] \in Terminal /\ r # old /\ r # None
  BY <1>1, ConstantsAssumption DEF CreateRun, CreatedStatus, Retry, Replaceable, Terminal, queues
<1>3. /\ origin \in [Runs -> Messages \cup {None}]
      /\ supersededBy \in [Runs -> Runs \cup {None}] /\ status \in [Runs -> Statuses]
  BY DEF IInv, TypeOK
<1>4. Blank(status', origin', supersededBy')
  BY <1>1, <1>2, <1>3 DEF SentInv, Blank, Terminal
<1>5. Single(origin', supersededBy')
  <2> SUFFICES ASSUME NEW x \in Runs, NEW y \in Runs,
                      origin'[x] = origin'[y], origin'[x] # None,
                      supersededBy'[x] = None, supersededBy'[y] = None
               PROVE  x = y
    BY DEF Single
  <2>1. x # old /\ y # old /\ supersededBy[x] = None /\ supersededBy[y] = None
    BY <1>1, <1>2, <1>3
  <2>2. ASSUME NEW z \in Runs, z # r, z # old, supersededBy[z] = None, origin[old] # None
        PROVE  origin[z] # origin[old]
    BY <1>2, <2>2 DEF SentInv, Single
  <2> QED BY <1>2, <1>3, <2>1, <2>2 DEF SentInv, Single
<1>6. Unsent(queue', origin')
  BY <1>2, <1>3 DEF SentInv, Unsent
<1> QED BY <1>2, <1>4, <1>5, <1>6 DEF SentInv

\* Commands on the queue, and the end of an execution.
LEMMA QueueSent ==
    ASSUME IInv, SentInv, NEW s \in Sessions,
           RemoveQueue(s) \/ ResumeQueue(s) \/ SendNow(s) \/ DeleteSession(s)
    PROVE  SentInv'
<1>1. /\ TypedRows /\ Typed(queue, paused, status, stream, work, phase)
      /\ queue \in [Sessions -> Seq(Messages)] /\ queue[s] \in Seq(Messages)
      /\ Distinct(queue) /\ Unsent(queue, origin)
      /\ Blank(status, origin, supersededBy) /\ Single(origin, supersededBy)
  BY TypeParts DEF IInv, Typed, SentInv
<1>2. CASE RemoveQueue(s)
  <2>1. PICK i \in 1..Len(queue[s]) : queue' = [queue EXCEPT ![s] = RemoveAt(@, i)]
    BY <1>2 DEF RemoveQueue
  <2>2. Rearranged(queue', queue)
    BY <1>1, <2>1, RemoveRearranges
  <2>3. Distinct(queue') /\ Unsent(queue', origin)
    BY <1>1, <2>2, RearrangedSent
  <2> QED BY <1>2, <2>3, QuietSent DEF RemoveQueue, rows
<1>3. CASE ResumeQueue(s)
  <2> DEFINE p == [paused EXCEPT ![s] = "no"]
  <2>1. Typed(queue, p, status, stream, work, phase)
    BY <1>1 DEF Typed
  <2>2. PumpQueue(s, queue, p, status, stream, work, phase)
    BY <1>3 DEF ResumeQueue
  <2> QED BY <1>1, <2>1, <2>2, PumpSent
<1>4. CASE SendNow(s)
  <2>1. PICK i \in 1..Len(queue[s]) :
           PumpQueue(s, [queue EXCEPT ![s] = <<@[i]>> \o RemoveAt(@, i)],
                     [paused EXCEPT ![s] = "no"], status, stream, work, phase)
    BY <1>4 DEF SendNow
  <2> DEFINE q == [queue EXCEPT ![s] = <<@[i]>> \o RemoveAt(@, i)]
             p == [paused EXCEPT ![s] = "no"]
  <2>2. Rearranged(q, queue)
    BY <1>1, RemoveRearranges
  <2>3. Typed(q, p, status, stream, work, phase)
    BY <1>1, RemoveAtType DEF Typed
  <2>4. PumpQueue(s, q, p, status, stream, work, phase)
    BY <2>1
  <2> HIDE DEF q, p
  <2>5. Distinct(q) /\ Unsent(q, origin)
    BY <1>1, <2>2, RearrangedSent
  <2> QED BY <1>1, <2>3, <2>4, <2>5, PumpSent
<1>5. CASE DeleteSession(s)
  <2>1. /\ queue' = [queue EXCEPT ![s] = <<>>] /\ UNCHANGED <<origin, supersededBy>>
        /\ \A r \in Runs : status'[r] = "none" => status[r] = "none"
    BY <1>5 DEF DeleteSession
  <2>2. \A t \in Sessions : \A i \in 1..Len(queue'[t]) : queue'[t] = queue[t]
    BY <1>1, <2>1
  <2>3. Distinct(queue')
    BY <1>1, <2>2 DEF Distinct
  <2>4. Unsent(queue', origin)
    BY <1>1, <2>2 DEF Unsent
  <2> QED BY <2>1, <2>3, <2>4, QuietSent
<1> QED BY <1>2, <1>3, <1>4, <1>5

LEMMA FinishSent ==
    ASSUME IInv, SentInv, NEW e \in Executions, NEW outcome \in Terminal,
           NEW saved \in BOOLEAN, Finish(e, outcome, saved)
    PROVE  SentInv'
<1> DEFINE r == work[e]
           st == IF saved /\ status[r] # "deleted"
                 THEN [status EXCEPT ![r] = outcome] ELSE status
           str == [stream EXCEPT ![r] = None]
           wk == [work EXCEPT ![e] = None]
           ph == [phase EXCEPT ![e] = "idle"]
<1>1. /\ TypeOK /\ Attached(status, work, phase, stream) /\ Rows(status, sessionOf)
  BY DEF IInv
<1>2. r \in Runs /\ sessionOf[r] \in Sessions
  BY <1>1 DEF Finish, Attached, Rows, TypeOK
<1>3. PumpQueue(sessionOf[r], queue, paused, st, str, wk, ph)
  BY DEF Finish
<1>4. /\ st \in [Runs -> Statuses]
      /\ \A x \in Runs : st[x] = "none" => status[x] = "none"
  BY <1>1, <1>2 DEF TypeOK, Statuses, Terminal
<1>5. TypedRows /\ Typed(queue, paused, st, str, wk, ph)
  BY <1>1, <1>2, <1>4 DEF TypedRows, Typed, TypeOK
<1> HIDE DEF st, str, wk, ph, r
<1>6. Blank(st, origin, supersededBy)
  BY <1>4 DEF SentInv, Blank
<1> QED BY <1>2, <1>3, <1>5, <1>6, PumpSent DEF SentInv

LEMMA NextSent == IInv /\ SentInv /\ [Next]_vars => SentInv'
<1> SUFFICES ASSUME IInv, SentInv, [Next]_vars PROVE SentInv'
  OBVIOUS
<1>1. ASSUME UNCHANGED <<origin, supersededBy, queue>>,
             \A r \in Runs : status'[r] = "none" => status[r] = "none"
      PROVE  SentInv'
  BY <1>1, QuietSent DEF SentInv
<1>2. CASE \/ UNCHANGED vars
           \/ \E s \in Sessions : PauseQueue(s)
           \/ \E r \in Runs : Cancel(r) \/ AnswerPlan(r)
           \/ \E e \in Executions : Timeout(e)
  BY <1>1, <1>2 DEF vars, rows, queues, PauseQueue, Cancel, AnswerPlan, Timeout
<1>3. CASE \/ \E r \in Runs : AnswerRecovered(r) \/ PlanChecked(r)
           \/ \E e \in Executions : AnswerLive(e) \/ \E k \in Kinds : Ask(e, k)
  <2>1. ASSUME NEW x, NEW now \in Active, status' = Intermediate(x, now)
        PROVE  \A r \in Runs : status'[r] = "none" => status[r] = "none"
    BY <2>1 DEF Intermediate, IInv, TypeOK, Active
  <2>2. UNCHANGED <<origin, supersededBy, queue>>
    BY <1>3 DEF AnswerRecovered, PlanChecked, AnswerLive, Ask, rows, queues
  <2>3. \A r \in Runs : status'[r] = "none" => status[r] = "none"
    BY <1>3, <2>1 DEF AnswerRecovered, PlanChecked, AnswerLive, Ask, Resume, Active
  <2> QED BY <1>1, <2>2, <2>3
<1>4. CASE Restart
  <2>1. /\ UNCHANGED <<origin, supersededBy>>
        /\ queue' = [s \in Sessions |-> <<>>]
        /\ \A r \in Runs : status'[r] = "none" => status[r] = "none"
    BY <1>4 DEF Restart, RecoveredStatus, rows
  <2>2. Distinct(queue') /\ Unsent(queue', origin)
    BY <2>1 DEF Distinct, Unsent
  <2> QED BY <2>1, <2>2, QuietSent
<1>5. ASSUME NEW s \in Sessions, NEW m \in Messages, Send(s, m) \/ EditResend(s, m)
      PROVE  SentInv'
  BY <1>5, SendSent
<1>6. ASSUME NEW s \in Sessions,
             RemoveQueue(s) \/ DeleteSession(s) \/ ResumeQueue(s) \/ SendNow(s)
      PROVE  SentInv'
  BY <1>6, QueueSent
<1>7. ASSUME NEW r \in Runs, Retry(r) PROVE SentInv'
  BY <1>7, RetrySent
<1>8. ASSUME NEW e \in Executions, NEW outcome \in Terminal,
             NEW saved \in BOOLEAN, Finish(e, outcome, saved)
      PROVE  SentInv'
  BY <1>8, FinishSent
<1> QED BY <1>2, <1>3, <1>4, <1>5, <1>6, <1>7, <1>8 DEF Next

\* A message is sent at most once, for any number of queues, retries, resends,
\* answers and crashes: what is queued has no run, and of the runs of a message one is current.
THEOREM MessagesOnce == Spec => []SentOnce
<1>1. IInv /\ SentInv => SentOnce
  <2> SUFFICES ASSUME IInv, SentInv PROVE SentOnce
    OBVIOUS
  <2>1. ASSUME NEW r \in Runs PROVE origin[r] \notin Queued
    <3> SUFFICES ASSUME NEW s \in Sessions, origin[r] \in Range(queue[s]) PROVE FALSE
      BY DEF Queued
    <3>1. PICK i \in 1..Len(queue[s]) : origin[r] = queue[s][i]
      BY DEF Range, IInv, TypeOK
    <3> QED BY <3>1 DEF SentInv, Unsent
  <2>2. OneVisibleAttempt
    BY DEF SentInv, Single, OneVisibleAttempt
  <2> QED BY <2>1, <2>2 DEF SentOnce
<1>2. Spec => []SentInv
  BY InitSent, NextSent, Invariant, PTL DEF Spec
<1> QED BY <1>1, <1>2, Invariant, PTL
=============================================================================
