--------------------------- MODULE SystemRuntimeProofs ---------------------------
(***************************************************************************)
(* Two parts of the system runtime, which share nothing.                   *)
(*                                                                         *)
(* The executor of file requests, for every set of jobs, every channel and *)
(* any number of read threads: its safety, and that it implements the      *)
(* abstract conflict lock.                                                 *)
(*                                                                         *)
(* The output of a terminal, for any window and any number of frames,      *)
(* pages and time-outs: a page shows a run of the output without gap or    *)
(* repetition, the exit is told behind the last frame, and what travels    *)
(* never exceeds the window.  The invariant numbers the frames along their *)
(* whole way: the events end with out, the queue goes on from there, the   *)
(* pipe up to w, the batch and the frames from w to the last that was      *)
(* made.                                                                   *)
(***************************************************************************)
EXTENDS FileDispatch, TerminalOutput, FiniteSetTheorems, SequenceTheorems, TLAPS

-----------------------------------------------------------------------------
(* The executor of file requests.                                          *)

\* Seats are given out once, to accepted jobs only.
Seated ==
  /\ \A j \in Jobs : seat[j] <= seats
  /\ \A i, j \in Jobs : seat[i] = seat[j] /\ seat[i] # 0 => i = j
  /\ \A j \in Jobs : state[j] = "new" => seat[j] = 0
  /\ \A j \in Jobs : state[j] \in {"queued", "spawned", "executing"} => seat[j] # 0
  /\ \A j \in Jobs : outcome[j] = "ran" => state[j] = "finished" /\ seat[j] # 0

\* What the dispatcher holds has left the channel, and is a mutation once it runs.
Held ==
  /\ hand # None => \/ state[hand] = "queued"
                    \/ hand \in Mutations /\ state[hand] = "executing"
  /\ \A j \in Mutations : state[j] # "spawned"
  /\ \A j \in Mutations : state[j] = "executing" => hand = j

\* The channel holds, in the order of their seats, the queued jobs that the
\* dispatcher has not received; the one it holds came before them.
Lined ==
  /\ \A k \in DOMAIN channel : state[channel[k]] = "queued"
  /\ \A k, l \in DOMAIN channel : k < l => seat[channel[k]] < seat[channel[l]]
  /\ \A k \in DOMAIN channel : hand # None => seat[hand] < seat[channel[k]]
  /\ \A j \in Jobs : state[j] = "queued" =>
        j = hand \/ \E k \in DOMAIN channel : channel[k] = j

Past(j) == state[j] \in {"spawned", "executing", "finished"}

\* Whoever has left the queue came before whoever is in it.
Behind ==
  \A i, j \in Jobs : Past(i) /\ state[j] = "queued" => seat[i] < seat[j]

\* The dispatcher holds the handle of every read thread that has not finished.
Covered ==
  /\ IsFiniteSet(readers)
  /\ \A j \in Reads : state[j] \in {"spawned", "executing"} => j \in readers

\* Of two accepted jobs one of which is a mutation, the later one leaves the
\* queue only when the earlier one is finished.
Ordered ==
  \A i, j \in Jobs :
    /\ seat[i] # 0
    /\ seat[i] < seat[j]
    /\ i \in Mutations \/ j \in Mutations
    /\ Past(j)
    => state[i] = "finished"

IInv == TypeOK /\ Seated /\ Held /\ Lined /\ Behind /\ Covered /\ Ordered

-----------------------------------------------------------------------------
\* A job of the channel is a job.
LEMMA ChannelJobs ==
  ASSUME TypeOK, NEW k \in DOMAIN channel
  PROVE  channel[k] \in Jobs
BY ElementOfSeq DEF TypeOK

LEMMA InitIInv == Init => IInv
<1> SUFFICES ASSUME Init PROVE IInv
  OBVIOUS
<1>1. /\ IsFiniteSet({}) /\ Cardinality({}) = 0
  BY FS_EmptySet
<1>2. TypeOK
  BY <1>1, DispatchAssumption DEF Init, TypeOK, States, Outcomes
<1>3. Seated /\ Held /\ Covered
  BY <1>1, DispatchAssumption DEF Init, Seated, Held, Covered, Jobs
<1>4. Lined /\ Behind /\ Ordered
  BY DEF Init, Lined, Behind, Ordered, Past
<1>5. QED
  BY <1>2, <1>3, <1>4 DEF IInv

\* An accepted job takes the last seat and the end of the channel.
LEMMA AcceptIInv ==
  ASSUME IInv, NEW j \in Jobs, state[j] = "new", Len(channel) < QueueLimit,
         Accept(j, Append(channel, j)), UNCHANGED <<hand, readers>>
  PROVE  IInv'
<1> USE DEF IInv
<1> DEFINE n == Len(channel)
<1>1. /\ state' = [state EXCEPT ![j] = "queued"]
      /\ seat' = [seat EXCEPT ![j] = seats + 1]
      /\ seats' = seats + 1
      /\ channel' = Append(channel, j)
      /\ active' = active \cup {j}
      /\ UNCHANGED <<outcome, cancelled, hand, readers>>
  BY DEF Accept
<1>2. /\ Len(channel') = n + 1
      /\ \A k \in 1..n : channel'[k] = channel[k]
      /\ channel'[n + 1] = j
      /\ DOMAIN channel = 1..n
      /\ DOMAIN channel' = 1..(n + 1)
      /\ n \in Nat
  BY <1>1 DEF TypeOK
<1>3. TypeOK'
  BY <1>1, <1>2, DispatchAssumption DEF TypeOK, States
<1>4. Seated'
  BY <1>1 DEF Seated, TypeOK
<1>5. j # hand /\ \A k \in DOMAIN channel : channel[k] # j
  BY DispatchAssumption DEF Held, Lined, Jobs, TypeOK
<1>6. Held'
  BY <1>1, <1>5 DEF Held, TypeOK, Jobs
<1>7. \A i \in Jobs \ {j} : seat'[i] = seat[i] /\ seat[i] <= seats
  BY <1>1 DEF TypeOK, Seated
<1>8. Lined'
  <2>1. ASSUME NEW k \in 1..n
        PROVE  /\ channel[k] \in Jobs \ {j}
               /\ state'[channel[k]] = "queued"
               /\ seat'[channel[k]] = seat[channel[k]]
               /\ seat[channel[k]] <= seats
    BY <1>1, <1>2, <1>5, <1>7, ChannelJobs DEF Lined, TypeOK
  <2>2. seat'[j] = seats + 1 /\ seats \in Nat /\ \A i \in Jobs : seat[i] \in Nat
    BY <1>1 DEF TypeOK
  <2>3. \A k \in DOMAIN channel' : state'[channel'[k]] = "queued"
    BY <1>1, <1>2, <2>1 DEF TypeOK
  <2>4. ASSUME NEW k \in DOMAIN channel', NEW l \in DOMAIN channel', k < l
        PROVE  seat'[channel'[k]] < seat'[channel'[l]]
    BY <1>2, <2>1, <2>2, <2>4 DEF Lined
  <2>5. ASSUME NEW k \in DOMAIN channel', hand' # None
        PROVE  seat'[hand'] < seat'[channel'[k]]
    <3>1. hand \in Jobs \ {j} /\ hand' = hand
      BY <1>1, <1>5, <2>5 DEF TypeOK
    <3>2. QED
      BY <1>2, <1>7, <2>1, <2>2, <2>5, <3>1 DEF Lined
  <2>6. ASSUME NEW i \in Jobs, state'[i] = "queued"
        PROVE  i = hand' \/ \E k \in DOMAIN channel' : channel'[k] = i
    <3>1. CASE i = j
      BY <1>2, <3>1
    <3>2. CASE i # j
      <4>1. state[i] = "queued"
        BY <1>1, <2>6, <3>2 DEF TypeOK
      <4>2. QED
        BY <1>1, <1>2, <4>1 DEF Lined
    <3>3. QED
      BY <3>1, <3>2
  <2>7. QED
    BY <2>3, <2>4, <2>5, <2>6 DEF Lined
<1>9. \A i \in Jobs : Past(i)' <=> Past(i)
  BY <1>1 DEF Past, TypeOK
<1>10. Behind'
  BY <1>1, <1>7, <1>9 DEF Behind, TypeOK, Past
<1>11. Covered'
  BY <1>1 DEF Covered, TypeOK, Jobs
<1>12. Ordered'
  <2>1. ASSUME NEW i \in Jobs, NEW q \in Jobs, seat'[i] # 0,
               seat'[i] < seat'[q], i \in Mutations \/ q \in Mutations, Past(q)'
        PROVE  state'[i] = "finished"
    <3>1. Past(q) /\ q # j
      BY <1>1, <1>9, <2>1 DEF Past, TypeOK
    <3>2. i # j
      BY <1>1, <1>7, <2>1, <3>1 DEF TypeOK
    <3>3. seat[i] # 0 /\ seat[i] < seat[q]
      BY <1>7, <2>1, <3>1, <3>2
    <3>4. state[i] = "finished"
      BY <2>1, <3>1, <3>3 DEF Ordered
    <3>5. QED
      BY <1>1, <3>2, <3>4 DEF TypeOK
  <2>2. QED
    BY <2>1 DEF Ordered
<1>13. QED
  BY <1>3, <1>4, <1>6, <1>8, <1>10, <1>11, <1>12

\* A refused job never had a seat.
LEMMA BusyIInv ==
  ASSUME IInv, NEW j \in Jobs, state[j] = "new", Respond(j, "busy"),
         UNCHANGED <<hand, readers, channel, seat, seats>>
  PROVE  IInv'
<1> USE DEF IInv
<1>1. /\ state' = [state EXCEPT ![j] = "finished"]
      /\ outcome' = [outcome EXCEPT ![j] = "busy"]
      /\ active' = active \ {j}
      /\ cancelled' = cancelled \ {j}
  BY DEF Respond
<1>2. TypeOK'
  BY <1>1 DEF TypeOK, States, Outcomes
<1>3. seat[j] = 0 /\ j # hand /\ \A k \in DOMAIN channel : channel[k] # j
  BY DispatchAssumption DEF Seated, Held, Lined, Jobs, TypeOK
<1>4. Seated'
  BY <1>1 DEF Seated, TypeOK
<1>5. Held'
  BY <1>1, <1>3 DEF Held, TypeOK, Jobs
<1>6. Lined'
  BY <1>1, <1>3, ChannelJobs DEF Lined, TypeOK
<1>7. Behind'
  BY <1>1, <1>3 DEF Behind, Past, TypeOK, Seated
<1>8. Covered'
  BY <1>1 DEF Covered, TypeOK, Jobs
<1>9. Ordered'
  BY <1>1, <1>3 DEF Ordered, Past, TypeOK
<1>10. QED
  BY <1>2, <1>4, <1>5, <1>6, <1>7, <1>8, <1>9

LEMMA SubmitIInv ==
  ASSUME IInv, NEW j \in Jobs, Submit(j)
  PROVE  IInv'
BY AcceptIInv, BusyIInv DEF Submit

\* A flag plays no part in the order.
LEMMA CancelIInv ==
  ASSUME IInv, NEW j \in Jobs, Cancel(j)
  PROVE  IInv'
BY DEF IInv, Cancel, TypeOK, Seated, Held, Lined, Behind, Covered, Ordered, Past

LEMMA ReceiveIInv ==
  ASSUME IInv, Receive
  PROVE  IInv'
<1> USE DEF IInv, Receive
<1> DEFINE n == Len(channel)
<1>1. /\ n \in Nat /\ n # 0
      /\ DOMAIN channel = 1..n
      /\ channel' = Tail(channel) /\ channel' \in Seq(Jobs)
      /\ hand' = channel[1] /\ channel[1] \in Jobs
      /\ Len(channel') = n - 1
      /\ DOMAIN channel' = 1..(n - 1)
      /\ \A k \in 1..(n - 1) : channel'[k] = channel[k + 1]
  BY DEF TypeOK
<1>2. TypeOK'
  BY <1>1, DispatchAssumption DEF TypeOK
<1>3. Seated' /\ Behind' /\ Covered' /\ Ordered'
  BY DEF Seated, Behind, Covered, Ordered, Past
<1>4. Held'
  BY <1>1, DispatchAssumption DEF Held, Lined, Jobs
<1>5. Lined'
  <2>1. \A k \in DOMAIN channel' : state'[channel'[k]] = "queued"
    BY <1>1 DEF Lined
  <2>2. \A k, l \in DOMAIN channel' :
           k < l => seat'[channel'[k]] < seat'[channel'[l]]
    BY <1>1 DEF Lined
  <2>3. \A k \in DOMAIN channel' : seat'[hand'] < seat'[channel'[k]]
    BY <1>1 DEF Lined
  <2>4. ASSUME NEW j \in Jobs, state'[j] = "queued"
        PROVE  j = hand' \/ \E k \in DOMAIN channel' : channel'[k] = j
    <3>1. PICK k \in 1..n : channel[k] = j
      BY <1>1, <2>4, DispatchAssumption DEF Lined, Jobs
    <3>2. CASE k = 1
      BY <1>1, <3>1, <3>2
    <3>3. CASE k # 1
      <4>1. k - 1 \in 1..(n - 1) /\ (k - 1) + 1 = k
        BY <1>1, <3>3
      <4>2. channel'[k - 1] = j
        BY <1>1, <3>1, <4>1
      <4>3. QED
        BY <1>1, <4>1, <4>2
    <3>4. QED
      BY <3>2, <3>3
  <2>5. QED
    BY <2>1, <2>2, <2>3, <2>4 DEF Lined
<1>6. QED
  BY <1>2, <1>3, <1>4, <1>5

\* What the dispatcher holds in the queued state goes before the channel, and
\* whatever went before it is finished, or a read with a read thread.
LEMMA HandFirst ==
  ASSUME IInv, hand # None, state[hand] = "queued"
  PROVE  /\ hand \in Jobs
         /\ \A k \in DOMAIN channel : channel[k] # hand
         /\ \A j \in Jobs : state[j] = "queued" /\ j # hand => seat[hand] < seat[j]
         /\ \A j \in Jobs : /\ seat[j] # 0
                            /\ seat[j] < seat[hand]
                            => \/ state[j] = "finished"
                               \/ j \in readers
<1> USE DEF IInv
<1>1. hand \in Jobs
  BY DEF TypeOK
<1>2. \A k \in DOMAIN channel : channel[k] # hand
  BY <1>1 DEF Lined, TypeOK
<1>3. ASSUME NEW j \in Jobs, state[j] = "queued", j # hand
      PROVE  seat[hand] < seat[j]
  BY <1>3 DEF Lined
<1>4. ASSUME NEW j \in Jobs, seat[j] # 0, seat[j] < seat[hand], state[j] # "finished"
      PROVE  j \in readers
  <2>1. state[j] \in {"spawned", "executing"}
    <3>1. state[j] # "new" /\ state[j] \in States
      BY <1>4 DEF TypeOK, Seated
    <3>2. seat[j] \in Nat /\ seat[hand] \in Nat
      BY <1>1 DEF TypeOK
    <3>3. state[j] # "queued"
      BY <1>3, <1>4, <3>2
    <3>. QED
      BY <1>4, <3>1, <3>3 DEF States
  <2>2. j \in Reads
    BY <1>4, <2>1 DEF Held, Jobs
  <2>3. QED
    BY <2>1, <2>2 DEF Covered
<1>5. QED
  BY <1>1, <1>2, <1>3, <1>4

\* The job in hand gets a thread, and its handle a place among those kept.
LEMMA SpawnIInv ==
  ASSUME IInv, NEW kept \in SUBSET readers, StartThread(kept),
         Cardinality(kept) < ReadSlots,
         \A j \in readers : Unfinished(j) => j \in kept
  PROVE  IInv'
<1> USE DEF IInv
<1>1. /\ hand \in Reads /\ hand \in Jobs /\ hand # None /\ hand \notin Mutations
      /\ state[hand] = "queued"
      /\ state' = [state EXCEPT ![hand] = "spawned"]
      /\ hand' = None
      /\ UNCHANGED <<outcome, channel, active, cancelled, seat, seats>>
  BY DispatchAssumption DEF StartThread, Held, Jobs
<1>2. readers' = {j \in kept \cup {hand} : Unfinished(j)}
  BY DEF StartThread
<1>3. /\ IsFiniteSet(readers')
      /\ Cardinality(readers') <= ReadSlots
  <2>1. IsFiniteSet(kept) /\ Cardinality(kept) \in Nat
    BY FS_Subset, FS_CardinalityType DEF Covered
  <2>2. /\ IsFiniteSet(kept \cup {hand})
        /\ Cardinality(kept \cup {hand}) <= Cardinality(kept) + 1
        /\ Cardinality(kept \cup {hand}) \in Nat
    <3>1. /\ IsFiniteSet(kept \cup {hand})
          /\ Cardinality(kept \cup {hand}) =
             IF hand \in kept THEN Cardinality(kept) ELSE Cardinality(kept) + 1
      BY <2>1, FS_AddElement, Zenon
    <3>2. QED
      BY <2>1, <3>1
  <2>3. readers' \subseteq kept \cup {hand}
    BY <1>2
  <2>4. IsFiniteSet(readers') /\ Cardinality(readers') <= Cardinality(kept \cup {hand})
    BY <2>2, <2>3, FS_Subset
  <2>5. Cardinality(readers') \in Nat
    BY <2>4, FS_CardinalityType
  <2>6. QED
    BY <2>1, <2>2, <2>4, <2>5, DispatchAssumption
<1>4. TypeOK'
  BY <1>1, <1>2, <1>3 DEF TypeOK, States
<1>5. Seated'
  BY <1>1 DEF Seated, TypeOK
<1>6. Held'
  BY <1>1 DEF Held, TypeOK, Jobs
<1>7. Lined'
  <2>1. \A k \in DOMAIN channel : channel[k] # hand /\ state'[channel[k]] = state[channel[k]]
    BY <1>1, HandFirst, ChannelJobs DEF TypeOK
  <2>2. QED
    BY <1>1, <2>1 DEF Lined, TypeOK
<1>8. Behind'
  BY <1>1, HandFirst DEF Behind, Past, TypeOK
<1>9. Covered'
  BY <1>1, <1>2, <1>3 DEF Covered, TypeOK, Unfinished, Jobs
<1>10. Ordered'
  <2>1. ASSUME NEW i \in Jobs, i \in Mutations, seat[i] # 0, seat[i] < seat[hand]
        PROVE  state'[i] = "finished"
    <3>1. i \notin readers
      BY <2>1, DispatchAssumption DEF TypeOK
    <3>2. QED
      BY <1>1, <2>1, <3>1, HandFirst DEF TypeOK
  <2>2. QED
    BY <1>1, <2>1 DEF Ordered, Past, TypeOK
<1>11. QED
  BY <1>4, <1>5, <1>6, <1>7, <1>8, <1>9, <1>10

LEMMA SpawnReadIInv ==
  ASSUME IInv, SpawnRead
  PROVE  IInv'
<1>1. ASSUME Cardinality(readers) < ReadSlots, StartThread(readers)
      PROVE  IInv'
  BY <1>1, SpawnIInv
<1>2. ASSUME NEW j \in readers, Cardinality(readers) = ReadSlots,
             ~Unfinished(j), StartThread(readers \ {j})
      PROVE  IInv'
  <2>1. IsFiniteSet(readers)
    BY DEF IInv, Covered
  <2>2. Cardinality(readers \ {j}) < ReadSlots
    <3>1. Cardinality(readers \ {j}) =
             IF j \in readers THEN Cardinality(readers) - 1 ELSE Cardinality(readers)
      BY <2>1, FS_RemoveElement, Zenon
    <3>2. QED
      BY <1>2, <3>1, DispatchAssumption
  <2>3. QED
    BY <1>2, <2>2, SpawnIInv
<1>3. QED
  BY <1>1, <1>2 DEF SpawnRead

\* A read thread begins its job, or finds it cancelled.
LEMMA BeginReadIInv ==
  ASSUME IInv, NEW j \in Reads, BeginRead(j)
  PROVE  IInv'
<1> USE DEF IInv
<1> DEFINE to == IF j \in cancelled THEN "finished" ELSE "executing"
<1>1. /\ j \in Jobs /\ j \notin Mutations /\ state[j] = "spawned" /\ j # hand
      /\ state' = [state EXCEPT ![j] = to]
      /\ outcome' \in [Jobs -> Outcomes]
      /\ \A i \in Jobs : outcome'[i] = "ran" => outcome[i] = "ran"
      /\ active' \subseteq Jobs /\ cancelled' \subseteq Jobs
      /\ UNCHANGED <<channel, hand, readers, seat, seats>>
  BY DispatchAssumption DEF BeginRead, Begin, Respond, TypeOK, Outcomes, Jobs, Held
<1>2. TypeOK'
  BY <1>1 DEF TypeOK, States
<1>3. Seated'
  BY <1>1 DEF Seated, TypeOK
<1>4. Held'
  BY <1>1 DEF Held, TypeOK, Jobs
<1>5. Lined'
  BY <1>1, ChannelJobs DEF Lined, TypeOK
<1>6. \A i \in Jobs : Past(i)' <=> Past(i)
  BY <1>1 DEF Past, TypeOK
<1>7. Behind'
  BY <1>1, <1>6 DEF Behind, TypeOK
<1>8. Covered'
  BY <1>1 DEF Covered, TypeOK, Jobs
<1>9. Ordered'
  BY <1>1, <1>6 DEF Ordered, TypeOK
<1>10. QED
  BY <1>2, <1>3, <1>4, <1>5, <1>7, <1>8, <1>9

\* All reads have been joined: the mutation in hand begins behind a line of
\* finished jobs, or is found cancelled and leaves it.
LEMMA BeginMutationIInv ==
  ASSUME IInv, BeginMutation
  PROVE  IInv'
<1> USE DEF IInv
<1> DEFINE to == IF hand \in cancelled THEN "finished" ELSE "executing"
<1>1. /\ hand \in Mutations /\ hand \in Jobs /\ hand # None /\ hand \notin Reads
      /\ state[hand] = "queued"
      /\ state' = [state EXCEPT ![hand] = to]
      /\ outcome' \in [Jobs -> Outcomes]
      /\ \A i \in Jobs : outcome'[i] = "ran" => outcome[i] = "ran"
      /\ active' \subseteq Jobs /\ cancelled' \subseteq Jobs
      /\ readers' = {}
      /\ hand' = IF hand \in cancelled THEN None ELSE hand
      /\ UNCHANGED <<channel, seat, seats>>
  BY DispatchAssumption DEF BeginMutation, Begin, Respond, TypeOK, Outcomes, Jobs
<1>2. \A j \in Jobs : state[j] \in {"spawned", "executing"} => FALSE
  BY <1>1 DEF BeginMutation, Joined, Unfinished, Covered, Held, Jobs
<1>3. IsFiniteSet(readers') /\ Cardinality(readers') = 0
  BY <1>1, FS_EmptySet
<1>4. TypeOK'
  BY <1>1, <1>3, DispatchAssumption DEF TypeOK, States
<1>5. Seated'
  BY <1>1 DEF Seated, TypeOK
<1>6. Held'
  BY <1>1, <1>2 DEF Held, TypeOK, Jobs
<1>7. Lined'
  <2>1. \A k \in DOMAIN channel : channel[k] # hand /\ state'[channel[k]] = state[channel[k]]
    BY <1>1, HandFirst, ChannelJobs DEF TypeOK
  <2>2. QED
    BY <1>1, <2>1 DEF Lined, TypeOK
<1>8. Behind'
  BY <1>1, HandFirst DEF Behind, Past, TypeOK
<1>9. Covered'
  BY <1>1, <1>2, <1>3 DEF Covered, TypeOK, Jobs
<1>10. Ordered'
  <2>1. \A i \in Jobs : seat[i] # 0 /\ seat[i] < seat[hand] => state[i] = "finished"
    BY <1>1, <1>2, HandFirst DEF TypeOK, States, Seated
  <2>2. QED
    BY <1>1, <2>1 DEF Ordered, Past, TypeOK
<1>11. QED
  BY <1>4, <1>5, <1>6, <1>7, <1>8, <1>9, <1>10

\* A job that ends keeps its place in the line and frees nobody before it.
LEMMA EndIInv ==
  ASSUME IInv, NEW j \in Jobs, NEW how \in {"ran", "cancelled"},
         state[j] = "executing", Respond(j, how),
         hand' = IF hand = j THEN None ELSE hand,
         UNCHANGED <<channel, readers, seat, seats>>
  PROVE  IInv'
<1> USE DEF IInv
<1>1. /\ state' = [state EXCEPT ![j] = "finished"]
      /\ outcome' = [outcome EXCEPT ![j] = how]
      /\ active' = active \ {j}
      /\ cancelled' = cancelled \ {j}
  BY DEF Respond
<1>2. TypeOK'
  BY <1>1 DEF TypeOK, States, Outcomes
<1>3. Seated'
  BY <1>1 DEF Seated, TypeOK
<1>4. Held'
  BY <1>1 DEF Held, TypeOK, Jobs
<1>5. Lined'
  BY <1>1, ChannelJobs DEF Lined, TypeOK
<1>6. \A i \in Jobs : Past(i)' <=> Past(i)
  BY <1>1 DEF Past, TypeOK
<1>7. Behind'
  BY <1>1, <1>6 DEF Behind, TypeOK
<1>8. Covered'
  BY <1>1 DEF Covered, TypeOK, Jobs
<1>9. Ordered'
  BY <1>1, <1>6 DEF Ordered, TypeOK
<1>10. QED
  BY <1>2, <1>3, <1>4, <1>5, <1>7, <1>8, <1>9

LEMMA EndReadIInv ==
  ASSUME IInv, NEW j \in Reads, EndRead(j)
  PROVE  IInv'
<1>1. j \in Jobs /\ j # hand /\ state[j] = "executing"
  BY DispatchAssumption DEF EndRead, IInv, Held, Jobs
<1>2. PICK how \in {"ran", "cancelled"} : Respond(j, how)
  BY DEF EndRead
<1>3. QED
  BY <1>1, <1>2, EndIInv DEF EndRead

LEMMA EndMutationIInv ==
  ASSUME IInv, EndMutation
  PROVE  IInv'
BY EndIInv DEF EndMutation, Jobs

LEMMA NextIInv == IInv /\ [Next]_vars => IInv'
<1> SUFFICES ASSUME IInv, [Next]_vars PROVE IInv'
  OBVIOUS
<1>1. ASSUME NEW j \in Jobs, Submit(j) PROVE IInv'
  BY <1>1, SubmitIInv
<1>2. ASSUME NEW j \in Jobs, Cancel(j) PROVE IInv'
  BY <1>2, CancelIInv
<1>3. CASE Receive
  BY <1>3, ReceiveIInv
<1>4. CASE SpawnRead
  BY <1>4, SpawnReadIInv
<1>5. CASE BeginMutation
  BY <1>5, BeginMutationIInv
<1>6. CASE EndMutation
  BY <1>6, EndMutationIInv
<1>7. ASSUME NEW j \in Reads, ReadThread(j) PROVE IInv'
  BY <1>7, BeginReadIInv, EndReadIInv DEF ReadThread
<1>8. CASE UNCHANGED vars
  BY <1>8 DEF vars, IInv, TypeOK, Seated, Held, Lined, Behind, Covered, Ordered, Past
<1>9. QED
  BY <1>1, <1>2, <1>3, <1>4, <1>5, <1>6, <1>7, <1>8 DEF Next, Dispatcher, AllAnswered

\* The inductive invariant holds in every reachable state.
THEOREM Invariance == Spec => []IInv
BY InitIInv, NextIInv, PTL DEF Spec

-----------------------------------------------------------------------------
\* Every variable of the executor keeps its shape, the channel its capacity and
\* the read threads their limit (sync_channel(64) and reads.len() == 4).
THEOREM TypeCorrect == Spec => []TypeOK
<1>1. IInv => TypeOK
  BY DEF IInv
<1>2. QED
  BY <1>1, Invariance, PTL

\* What a client sees is the order in which the jobs were accepted: a job that
\* has begun is past every mutation before it, a mutation past everything.
THEOREM ProgramOrder == Spec => []SubmissionOrder
<1>1. IInv => SubmissionOrder
  BY DEF IInv, TypeOK, Seated, Ordered, SubmissionOrder, Begun, Past
<1>2. QED
  BY <1>1, Invariance, PTL

\* No handler runs next to that of a mutation.
THEOREM Exclusion == Spec => []MutationsAlone
<1>1. IInv => MutationsAlone
  <2> SUFFICES ASSUME IInv, NEW j \in Mutations, NEW i \in Jobs, i # j,
                      state[j] = "executing", state[i] = "executing"
               PROVE  FALSE
    BY DEF MutationsAlone, Executing
  <2>1. j \in Jobs /\ seat[i] \in Nat /\ seat[j] \in Nat
    BY DEF IInv, TypeOK, Jobs
  <2>2. seat[i] # 0 /\ seat[j] # 0 /\ seat[i] # seat[j]
    BY <2>1 DEF IInv, Seated
  <2>3. Past(i) /\ Past(j)
    BY DEF Past
  <2>4. QED
    BY <2>1, <2>2, <2>3 DEF IInv, Ordered
<1>2. QED
  BY <1>1, Invariance, PTL

-----------------------------------------------------------------------------
LEMMA StageMoves ==
  ASSUME TypeOK, NEW j \in Jobs, NEW to \in States,
         state' = [state EXCEPT ![j] = to]
  PROVE  StageOf' = [StageOf EXCEPT ![j] = StageName[to]]
BY DEF StageOf, TypeOK

\* A step that changes no seat and moves a job between two states of one stage
\* is not seen by the lock.
LEMMA SameStage ==
  ASSUME TypeOK, NEW j \in Jobs, NEW to \in States,
         state' = [state EXCEPT ![j] = to],
         StageName[to] = StageName[state[j]],
         UNCHANGED <<seat, seats>>
  PROVE  UNCHANGED Lock!vars
BY DEF StageOf, Wanted, TypeOK, Lock!vars

LEMMA DepartStep ==
  ASSUME TypeOK, NEW j \in Jobs, state' = [state EXCEPT ![j] = "finished"],
         UNCHANGED <<seat, seats>>
  PROVE  Lock!Depart(j)
<1>1. StageOf' = [StageOf EXCEPT ![j] = "gone"]
  BY StageMoves DEF States, StageName
<1>2. QED
  BY <1>1 DEF Lock!Depart, Wanted

LEMMA AcceptStep ==
  ASSUME IInv, NEW j \in Jobs, state[j] = "new", NEW line, Accept(j, line)
  PROVE  Lock!Request(j, Footprint(j))
<1> USE DEF IInv, Accept
<1>1. StageOf[j] = "new"
  BY DEF StageOf, StageName
<1>2. StageOf' = [StageOf EXCEPT ![j] = "standing"]
  BY StageMoves DEF States, StageName
<1>3. Wanted' = [Wanted EXCEPT ![j] = Footprint(j)]
  <2>1. ASSUME NEW i \in Jobs
        PROVE  Wanted'[i] = IF i = j THEN Footprint(j) ELSE Wanted[i]
    BY DEF Wanted, TypeOK
  <2>2. QED
    BY <2>1 DEF Wanted
<1>4. QED
  BY <1>1, <1>2, <1>3 DEF Lock!Request, Lock!Stand

\* A job may begin when everything before it that it conflicts with is gone.
LEMMA GrantStep ==
  ASSUME IInv, NEW j \in Jobs, state[j] \in {"queued", "spawned"},
         state' = [state EXCEPT ![j] = "executing"],
         UNCHANGED <<seat, seats>>,
         \A i \in Jobs : /\ seat[i] # 0
                         /\ seat[i] < seat[j]
                         /\ i \in Mutations \/ j \in Mutations
                         => state[i] = "finished"
  PROVE  Lock!Grant(j)
<1> USE DEF IInv
<1>1. StageOf[j] = "standing"
  BY DEF StageOf, StageName
<1>2. StageOf' = [StageOf EXCEPT ![j] = "holding"]
  BY StageMoves DEF States, StageName
<1>3. Lock!Clear(j, Wanted[j], seat[j])
  <2>1. SUFFICES ASSUME NEW i \in Jobs \ {j}, Lock!Live(i), seat[i] < seat[j],
                        Exclusive(Wanted[i], Wanted[j])
                 PROVE  FALSE
    BY DEF Lock!Clear
  <2>2. state[i] # "finished"
    BY <2>1 DEF Lock!Live, StageOf, StageName
  <2>3. seat[i] # 0
    BY <2>1, <2>2 DEF Seated, TypeOK, States, Lock!Live, StageOf, StageName
  <2>4. i \in Mutations \/ j \in Mutations
    BY <2>1 DEF Exclusive, Wanted, Footprint
  <2>5. QED
    BY <2>1, <2>2, <2>3, <2>4
<1>4. QED
  BY <1>1, <1>2, <1>3 DEF Lock!Grant, Wanted

LEMMA SubmitStep ==
  ASSUME IInv, NEW j \in Jobs, Submit(j)
  PROVE  Lock!Next
<1>1. CASE Len(channel) < QueueLimit /\ Accept(j, Append(channel, j))
  <2>1. Lock!Request(j, Footprint(j)) /\ Footprint(j) \in {{"read"}, {"write"}}
    BY <1>1, AcceptStep DEF Submit, Footprint
  <2>2. QED
    BY <2>1 DEF Lock!Next
<1>2. CASE Respond(j, "busy") /\ UNCHANGED <<channel, seat, seats>>
  BY <1>2, DepartStep DEF Respond, IInv, Lock!Next
<1>3. QED
  BY <1>1, <1>2 DEF Submit

LEMMA ReadStep ==
  ASSUME IInv, NEW j \in Reads, ReadThread(j)
  PROVE  Lock!Next
<1>1. j \in Jobs /\ TypeOK
  BY DEF Jobs, IInv
<1>2. CASE BeginRead(j) /\ j \notin cancelled
  <2>1. Lock!Grant(j)
    <3>1. state[j] = "spawned" /\ state' = [state EXCEPT ![j] = "executing"]
      BY <1>2 DEF BeginRead, Begin
    <3>2. \A i \in Jobs : /\ seat[i] # 0
                          /\ seat[i] < seat[j]
                          /\ i \in Mutations \/ j \in Mutations
                          => state[i] = "finished"
      BY <1>1, <3>1 DEF IInv, Ordered, Past
    <3>3. QED
      BY <1>1, <1>2, <3>1, <3>2, GrantStep DEF BeginRead
  <2>2. QED
    BY <1>1, <2>1 DEF Lock!Next
<1>3. CASE BeginRead(j) /\ j \in cancelled
  BY <1>1, <1>3, DepartStep DEF BeginRead, Begin, Respond, Lock!Next
<1>4. CASE EndRead(j)
  BY <1>1, <1>4, DepartStep DEF EndRead, Respond, Lock!Next
<1>5. QED
  BY <1>2, <1>3, <1>4 DEF ReadThread

LEMMA MutationStep ==
  ASSUME IInv, BeginMutation \/ EndMutation
  PROVE  Lock!Next
<1>1. hand \in Jobs /\ TypeOK /\ hand # None
  BY DispatchAssumption DEF Jobs, IInv, BeginMutation, EndMutation
<1>2. CASE BeginMutation /\ hand \notin cancelled
  <2>1. state[hand] = "queued" /\ state' = [state EXCEPT ![hand] = "executing"]
    BY <1>2 DEF BeginMutation, Begin
  <2>2. \A i \in Jobs : seat[i] # 0 /\ seat[i] < seat[hand] => state[i] = "finished"
    BY <1>1, <1>2, <2>1, HandFirst DEF BeginMutation, Joined, Unfinished
  <2>3. Lock!Grant(hand)
    BY <1>1, <1>2, <2>1, <2>2, GrantStep DEF BeginMutation
  <2>4. QED
    BY <1>1, <2>3 DEF Lock!Next
<1>3. CASE BeginMutation /\ hand \in cancelled
  BY <1>1, <1>3, DepartStep DEF BeginMutation, Begin, Respond, Lock!Next
<1>4. CASE EndMutation
  BY <1>1, <1>4, DepartStep DEF EndMutation, Respond, Lock!Next
<1>5. QED
  BY <1>2, <1>3, <1>4

\* The executor implements the abstract conflict lock: its channel, its joins
\* and its single dispatcher are a fair lock with shared reads.
THEOREM Implementation == Spec => ImplementsLock
<1>1. Init => Lock!Init
  BY DEF Init, Lock!Init, StageOf, StageName, Wanted
<1>2. IInv /\ [Next]_vars => [Lock!Next]_(Lock!vars)
  <2> SUFFICES ASSUME IInv, [Next]_vars PROVE [Lock!Next]_(Lock!vars)
    OBVIOUS
  <2>0. TypeOK
    BY DEF IInv
  <2>1. ASSUME NEW j \in Jobs, Submit(j) PROVE Lock!Next
    BY <2>1, SubmitStep
  <2>2. ASSUME NEW j \in Jobs, Cancel(j) PROVE UNCHANGED Lock!vars
    BY <2>2 DEF Cancel, StageOf, Wanted, Lock!vars
  <2>3. CASE Receive
    BY <2>3 DEF Receive, StageOf, Wanted, Lock!vars
  <2>4. CASE SpawnRead
    <3>1. /\ hand \in Jobs /\ state[hand] = "queued"
          /\ state' = [state EXCEPT ![hand] = "spawned"]
          /\ UNCHANGED <<seat, seats>>
      BY <2>4, DispatchAssumption DEF SpawnRead, StartThread, IInv, Held, Jobs
    <3>2. "spawned" \in States /\ StageName["spawned"] = StageName[state[hand]]
      BY <3>1 DEF States, StageName
    <3>3. UNCHANGED Lock!vars
      BY <2>0, <3>1, <3>2, SameStage, Zenon
    <3>4. QED
      BY <3>3
  <2>5. CASE BeginMutation \/ EndMutation
    BY <2>5, MutationStep
  <2>6. ASSUME NEW j \in Reads, ReadThread(j) PROVE Lock!Next
    BY <2>6, ReadStep
  <2>7. CASE UNCHANGED vars
    BY <2>7 DEF vars, StageOf, Wanted, Lock!vars
  <2>8. QED
    BY <2>1, <2>2, <2>3, <2>4, <2>5, <2>6, <2>7 DEF Next, Dispatcher, AllAnswered
<1>3. QED
  BY <1>1, <1>2, Invariance, PTL DEF Spec, ImplementsLock, Lock!Spec

-----------------------------------------------------------------------------
(* The inductive invariant.                                                *)

Frames == 1..MaxFrames
Requests == [op : {"spawn"}] \cup [op : {"attach", "ack"}, arg : Nat]
            \cup [op : {"close"}, arg : {"quiet", "user"}]
Lines == [line : {"running", "spawned", "notSpawned", "exited", "closed"}]
         \cup [line : {"frame", "attached"}, arg : Nat] \cup [line : {"reaped"}, arg : {"quiet", "user"}]
Events == [to : Nat, frames : Seq(Nat)]

\* The shapes that the arguments need.
Shapes ==
    /\ shell \in {"none", "alive", "ended", "leaving", "gone"}
    /\ made \in 0..MaxFrames /\ frames \in Seq(Frames)
    /\ emitted \in Nat /\ delivered \in Nat /\ delivered <= emitted /\ emitted <= Len(frames)
    /\ batchEnd \in Nat /\ batch \in Seq(Frames)
    /\ held \in BOOLEAN /\ gate \in BOOLEAN /\ shut \in BOOLEAN /\ impatient \in BOOLEAN
    /\ current \in BOOLEAN /\ reclaimed \in BOOLEAN /\ timer \in BOOLEAN /\ bound \in BOOLEAN
    /\ toRust \in Seq(Requests) /\ fromRust \in Seq(Lines)
    /\ status \in Active \cup Ended /\ waits \subseteq {"spawn", "close"}
    /\ page \in Pages /\ consumer \in 0..page
    /\ queue \in Seq(Nat) /\ out \in Nat /\ ackedThrough \in Nat
    /\ events \in Seq(Events) /\ shown \in Seq(Nat)

\* The queue of the sender: what is delivered, what is not yet written, and that a
\* queue that was closed is empty.
Positions ==
    /\ batchEnd = 0 => batch = <<>>
    /\ shut => frames = <<>> /\ emitted = 0 /\ ~held
    /\ ~shut => delivered + Len(batch) <= emitted /\ Len(frames) <= Window + 1

\* The lines of the pipe are of the record's generation, or will be when the reply
\* to the spawn is read.
Kept == current \/ "spawn" \in waits

\* The first lines of the pipe carry the frames after those of the queue, in order
\* and up to w, the last that was written, none of them dropped as long as they are
\* of the record's generation; the rest is in the batch and the frames.
IsFrame(i) == i \in 1..Len(fromRust) /\ fromRust[i].line = "frame"
Piped(w) ==
    /\ out + Len(queue) <= w
    /\ \A i \in 1..Len(queue) : queue[i] = out + i
    /\ \A i \in 1..Len(fromRust) : IsFrame(i) => fromRust[i].arg \in out + Len(queue) + 1..w
    /\ Kept => \A n \in out + Len(queue) + 1..w :
                  \E i \in 1..Len(fromRust) : IsFrame(i) /\ fromRust[i].arg = n
    /\ \A i, j \in 1..Len(fromRust) : IsFrame(i) /\ IsFrame(j) /\ i < j => fromRust[i].arg < fromRust[j].arg

Unwritten(w, b) ==
    /\ w + Len(batch) <= made
    /\ \A i \in 1..Len(batch) : batch[i] = w + i
    /\ ~shut =>
          /\ b + emitted = w + Len(batch)
          /\ \A i \in 1..Len(frames) : frames[i] = b + i
          /\ held => made = b + Len(frames) + 1
          /\ ~held => made = b + Len(frames)

\* Events carry neighbouring runs of frames, the last of them up to out.
First(i) == events[i].frames[1]
After(i) == events[i].frames[1] + Len(events[i].frames)
Chained ==
    /\ \A i \in 1..Len(events) :
          /\ events[i].frames # <<>> /\ First(i) >= 1 /\ After(i) <= out + 1
          /\ \A k \in 1..Len(events[i].frames) : events[i].frames[k] = First(i) + k - 1
          /\ i < Len(events) => First(i + 1) = After(i)
          /\ i = Len(events) => After(i) = out + 1
    /\ \A i, j \in 1..Len(events) : i < j => After(i) <= First(j)

\* The last frame that is no longer under way to the page.
Seen == IF events = <<>> THEN out ELSE First(1) - 1

\* Pages attach in their order: those whose events are under way, the one that is
\* attached, those that the pipe announces, those that ask, the one that is loaded.
Addressed ==
    /\ \A i \in 1..Len(events) : events[i].to <= consumer
    /\ \A i, j \in 1..Len(events) : i < j => events[i].to <= events[j].to

Attached(i) == i \in 1..Len(fromRust) /\ fromRust[i].line = "attached"
Announced ==
    /\ \A i \in 1..Len(fromRust) : Attached(i) => consumer <= fromRust[i].arg /\ fromRust[i].arg <= page
    /\ \A i, j \in 1..Len(fromRust) :
          Attached(i) /\ Attached(j) /\ i < j => fromRust[i].arg <= fromRust[j].arg

Asks(i, op) == i \in 1..Len(toRust) /\ toRust[i].op = op
Asked ==
    /\ \A i \in 1..Len(toRust) : Asks(i, "attach") => consumer <= toRust[i].arg /\ toRust[i].arg <= page
    /\ \A i, j \in 1..Len(toRust) :
          Asks(i, "attach") /\ Asks(j, "attach") /\ i < j => toRust[i].arg <= toRust[j].arg
    /\ \A i \in 1..Len(toRust), j \in 1..Len(fromRust) :
          Asks(i, "attach") /\ Attached(j) => fromRust[j].arg <= toRust[i].arg

\* What the page shows ends where its events begin, and all of them are for it.
Showing ==
    /\ \A i \in 1..Len(shown) - 1 : shown[i + 1] = shown[i] + 1
    /\ shown # <<>> =>
          /\ shown[Len(shown)] = Seen
          /\ consumer = page /\ \A i \in 1..Len(events) : events[i].to = page

\* Only what left the events is acknowledged.
Acked == \A i \in 1..Len(toRust) : Asks(i, "ack") => toRust[i].arg <= Seen

\* What was released has left the events, and what is on its way was in the window
\* when it was taken.
Ahead(w, b) ==
    /\ ~shut => b <= Seen
    /\ w + Len(batch) <= Seen + Window + 1

\* A spawn that is waited for is the first request, and nothing has been written of
\* the shell's output, or its reply comes before all that is.
Silent == ~gate /\ batch = <<>> /\ \A i \in 1..Len(fromRust) : ~IsFrame(i)
Replied(i) ==
    /\ i \in 1..Len(fromRust) /\ fromRust[i].line \in {"spawned", "notSpawned"}
    /\ \A j \in 1..i - 1 : ~IsFrame(j)
Spawning == "spawn" \in waits =>
    (Silent /\ Asks(1, "spawn")) \/ \E i \in 1..Len(fromRust) : Replied(i)

\* The exit is told behind the last frame, and the last frame is out when it is known.
Exited ==
    /\ status = "exited" => shell = "gone"
    /\ status = "exited" /\ ~impatient => out = made
Leaving(w) ==
    /\ shell = "leaving" /\ ~impatient => batch = <<>> /\ w = made
    /\ \A i \in 1..Len(fromRust) : fromRust[i].line = "exited" =>
          /\ shell = "gone"
          /\ ~impatient => /\ batch = <<>> /\ w = made
                           /\ \A j \in 1..Len(fromRust) : IsFrame(j) => j < i

\* Some w is the last frame written and some b the last one released.
Inv(w, b) ==
    /\ Shapes /\ Positions /\ Chained /\ Addressed /\ Announced /\ Asked /\ Showing
    /\ Piped(w) /\ Unwritten(w, b) /\ Acked /\ Ahead(w, b) /\ Spawning /\ Exited /\ Leaving(w)
OInv == \E w, b \in Nat : Inv(w, b)

-----------------------------------------------------------------------------
(* Sequences.                                                              *)

\* What a sequence with others joined to it holds.
LEMMA JoinedSeq ==
    ASSUME NEW S, NEW s \in Seq(S), NEW t \in Seq(S)
    PROVE  /\ s \o t \in Seq(S) /\ Len(s \o t) = Len(s) + Len(t)
           /\ \A j \in 1..Len(s) : (s \o t)[j] = s[j]
           /\ \A j \in 1..Len(t) : (s \o t)[Len(s) + j] = t[j]
<1>1. Len(s) \in Nat /\ Len(t) \in Nat
  BY LenProperties
<1>2. s \o t \in Seq(S) /\ Len(s \o t) = Len(s) + Len(t)
  BY ConcatProperties
<1>3. \A j \in 1..Len(s) : (s \o t)[j] = s[j]
  BY ConcatProperties
<1>4. ASSUME NEW j \in 1..Len(t)
      PROVE  (s \o t)[Len(s) + j] = t[j]
  <2> DEFINE k == Len(s) + j
  <2>1. k \in 1..Len(s) + Len(t) /\ ~(k <= Len(s)) /\ k - Len(s) = j
    BY <1>1
  <2>2. (s \o t)[k] = IF k <= Len(s) THEN s[k] ELSE t[k - Len(s)]
    <3> HIDE DEF k
    <3>. QED
      BY <2>1, ConcatProperties
  <2>. QED
    BY <2>1, <2>2
<1>. QED
  BY <1>2, <1>3, <1>4

LEMMA Added ==
    ASSUME NEW S, NEW s \in Seq(S), NEW x \in S
    PROVE  /\ Append(s, x) \in Seq(S) /\ Len(Append(s, x)) = Len(s) + 1
           /\ Len(s) \in Nat
           /\ Append(s, x)[Len(s) + 1] = x
           /\ \A j \in 1..Len(s) : Append(s, x)[j] = s[j]
BY AppendProperties, LenProperties

LEMMA Popped ==
    ASSUME NEW S, NEW s \in Seq(S), s # <<>>
    PROVE  /\ Tail(s) \in Seq(S) /\ Len(Tail(s)) = Len(s) - 1
           /\ Len(s) \in Nat \ {0}
           /\ Head(s) = s[1] /\ Head(s) \in S
           /\ \A j \in 1..Len(s) - 1 : Tail(s)[j] = s[j + 1]
<1>1. /\ Tail(s) \in Seq(S) /\ Len(Tail(s)) = Len(s) - 1
      /\ \A j \in 1..Len(Tail(s)) : Tail(s)[j] = s[j + 1]
  BY HeadTailProperties
<1>2. Len(s) \in Nat \ {0}
  BY <1>1, EmptySeq, LenProperties
<1>3. Head(s) = s[1] /\ s[1] \in S
  BY <1>2, ElementOfSeq
<1>. QED
  BY <1>1, <1>2, <1>3

LEMMA Sliced ==
    ASSUME NEW S, NEW s \in Seq(S), NEW m \in Nat, NEW n \in Nat, m <= n, n <= Len(s)
    PROVE  /\ SubSeq(s, m + 1, n) \in Seq(S) /\ Len(SubSeq(s, m + 1, n)) = n - m
           /\ \A j \in 1..n - m : SubSeq(s, m + 1, n)[j] = s[m + j]
<1>1. Len(s) \in Nat /\ \A j \in m + 1..n : s[j] \in S
  BY LenProperties, ElementOfSeq
<1>2. /\ SubSeq(s, m + 1, n) \in Seq(S)
      /\ Len(SubSeq(s, m + 1, n)) = n - m
      /\ \A j \in 1..n - m : SubSeq(s, m + 1, n)[j] = s[m + j]
  BY <1>1, SubSeqProperties
<1>. QED
  BY <1>2

\* What the shapes say of numbers and positions.
LEMMA Facts ==
    ASSUME Shapes
    PROVE  /\ Window \in Nat /\ MaxFrames \in Nat /\ made \in Nat /\ made <= MaxFrames
           /\ page \in Nat /\ consumer \in Nat /\ consumer <= page
           /\ Len(frames) \in Nat
           /\ Len(batch) \in Nat
           /\ Len(toRust) \in Nat
           /\ Len(fromRust) \in Nat
           /\ Len(queue) \in Nat
           /\ Len(events) \in Nat
           /\ Len(shown) \in Nat
           /\ emitted \in Nat /\ delivered \in Nat /\ batchEnd \in Nat /\ out \in Nat
           /\ held \in BOOLEAN /\ shut \in BOOLEAN /\ impatient \in BOOLEAN
           /\ batch = <<>> <=> Len(batch) = 0
           /\ queue = <<>> <=> Len(queue) = 0
           /\ events = <<>> <=> Len(events) = 0
           /\ shown = <<>> <=> Len(shown) = 0
<1> USE TerminalAssumption DEF Shapes, Pages
<1>1. /\ Window \in Nat /\ MaxFrames \in Nat /\ made \in Nat /\ made <= MaxFrames
      /\ page \in Nat /\ consumer \in Nat /\ consumer <= page
  OBVIOUS
<1>2. /\ Len(frames) \in Nat
      /\ Len(batch) \in Nat
      /\ Len(toRust) \in Nat
  BY LenProperties
<1>3. /\ Len(fromRust) \in Nat
      /\ Len(queue) \in Nat
      /\ Len(events) \in Nat
      /\ Len(shown) \in Nat
  BY LenProperties
<1>4. /\ batch = <<>> <=> Len(batch) = 0
      /\ queue = <<>> <=> Len(queue) = 0
  BY EmptySeq
<1>5. /\ events = <<>> <=> Len(events) = 0
      /\ shown = <<>> <=> Len(shown) = 0
  BY EmptySeq
<1>. QED
  BY <1>1, <1>2, <1>3, <1>4, <1>5

\* Seen is a number, and at most out.
LEMMA SeenIsNat ==
    ASSUME Shapes, Chained
    PROVE  Seen \in Nat /\ Seen <= out
<1>1. CASE events = <<>>
  BY <1>1 DEF Seen, Shapes
<1>2. CASE events # <<>>
  <2>1. Len(events) \in Nat \ {0} /\ 1 \in 1..Len(events) /\ out \in Nat
    BY <1>2, Facts, EmptySeq
  <2>2. events[1] \in Events
    BY <2>1, ElementOfSeq DEF Shapes
  <2>3. events[1].frames \in Seq(Nat) /\ events[1].frames # <<>>
    BY <2>1, <2>2 DEF Events, Chained
  <2>4. Len(events[1].frames) \in Nat \ {0} /\ First(1) \in Nat
    BY <2>3, LenProperties, EmptySeq, ElementOfSeq DEF First
  <2>5. First(1) >= 1 /\ First(1) + Len(events[1].frames) <= out + 1
    BY <2>1 DEF Chained, First, After
  <2>. QED
    BY <1>2, <2>1, <2>4, <2>5 DEF Seen
<1>. QED
  BY <1>1, <1>2

-----------------------------------------------------------------------------
(* The two directions of the pipe: what a step takes from the front and    *)
(* what it puts behind.                                                    *)

\* t is what s becomes when its first d elements are taken and elements of N are put
\* behind the others.
Moved(s, t, d, N) ==
    /\ Len(s) \in Nat /\ Len(t) \in Nat /\ d <= Len(s) /\ Len(s) <= Len(t) + d
    /\ \A j \in 1..Len(t) : j + d <= Len(s) => t[j] = s[j + d]
    /\ \A j \in 1..Len(t) : j + d > Len(s) => t[j] \in N

LEMMA StaysMoved ==
    ASSUME NEW S, NEW s \in Seq(S)
    PROVE  Moved(s, s, 0, {})
<1>1. Len(s) \in Nat
  BY LenProperties
<1>. QED
  BY <1>1 DEF Moved

LEMMA TailMoved ==
    ASSUME NEW S, NEW s \in Seq(S), s # <<>>
    PROVE  /\ Tail(s) \in Seq(S) /\ Moved(s, Tail(s), 1, {})
           /\ Head(s) = s[1] /\ s[1] \in S /\ 1 \in 1..Len(s)
<1>1. /\ Tail(s) \in Seq(S) /\ Len(Tail(s)) = Len(s) - 1 /\ Head(s) = s[1] /\ Head(s) \in S
      /\ Len(s) \in Nat \ {0} /\ \A j \in 1..Len(s) - 1 : Tail(s)[j] = s[j + 1]
  BY Popped
<1>. QED
  BY <1>1 DEF Moved

LEMMA JoinMoved ==
    ASSUME NEW S, NEW s \in Seq(S), NEW t \in Seq(S), NEW N, \A i \in 1..Len(t) : t[i] \in N
    PROVE  s \o t \in Seq(S) /\ Moved(s, s \o t, 0, N)
<1>1. /\ s \o t \in Seq(S) /\ Len(s \o t) = Len(s) + Len(t)
      /\ \A j \in 1..Len(s) : (s \o t)[j] = s[j]
      /\ \A j \in 1..Len(t) : (s \o t)[Len(s) + j] = t[j]
  BY JoinedSeq
<1>2. Len(s) \in Nat /\ Len(t) \in Nat
  BY LenProperties
<1>3. ASSUME NEW j \in 1..Len(s \o t), j > Len(s)
      PROVE  (s \o t)[j] \in N
  <2>1. j - Len(s) \in 1..Len(t) /\ Len(s) + (j - Len(s)) = j
    BY <1>1, <1>2, <1>3
  <2>. QED
    BY <1>1, <2>1
<1>4. Len(s \o t) \in Nat /\ 0 <= Len(s) /\ Len(s) <= Len(s \o t)
  BY <1>1, <1>2
<1>5. \A j \in 1..Len(s \o t) : j + 0 = j
  BY <1>4
<1>. QED
  BY <1>1, <1>2, <1>3, <1>4, <1>5 DEF Moved

LEMMA AddMoved ==
    ASSUME NEW S, NEW s \in Seq(S), NEW x \in S
    PROVE  Append(s, x) \in Seq(S) /\ Moved(s, Append(s, x), 0, {x})
<1>1. /\ Append(s, x) \in Seq(S) /\ Len(Append(s, x)) = Len(s) + 1 /\ Len(s) \in Nat
      /\ Append(s, x)[Len(s) + 1] = x
      /\ \A j \in 1..Len(s) : Append(s, x)[j] = s[j]
  BY Added
<1>2. \A j \in 1..Len(s) + 1 : j = Len(s) + 1 \/ j \in 1..Len(s)
  BY <1>1
<1>. QED
  BY <1>1, <1>2 DEF Moved

\* Frames: as many as before between the queue and w.
LEMMA PipedKept ==
    ASSUME NEW w \in Nat, Shapes, Piped(w), NEW d \in {0, 1}, NEW N,
           Moved(fromRust, fromRust', d, N), \A x \in N : x.line # "frame",
           d = 1 => fromRust[1].line # "frame" \/ ~Kept',
           out' + Len(queue') = out + Len(queue), Kept' => Kept,
           \A i \in 1..Len(queue') : queue'[i] = out' + i
    PROVE  Piped(w)'
<1>1. /\ Len(fromRust) \in Nat /\ Len(fromRust') \in Nat /\ d <= Len(fromRust)
      /\ Len(fromRust) <= Len(fromRust') + d /\ d \in Nat
  BY DEF Moved
<1>2. ASSUME NEW j \in 1..Len(fromRust'), IsFrame(j)'
      PROVE  IsFrame(j + d) /\ fromRust'[j] = fromRust[j + d]
  <2>1. j + d <= Len(fromRust)
    BY <1>1, <1>2 DEF Moved, IsFrame
  <2>. QED
    BY <1>1, <1>2, <2>1 DEF Moved, IsFrame
<1>3. ASSUME Kept', NEW i \in 1..Len(fromRust), IsFrame(i)
      PROVE  i - d \in 1..Len(fromRust') /\ IsFrame(i - d)' /\ fromRust'[i - d] = fromRust[i]
  <2>1. i > d
    BY <1>1, <1>3 DEF IsFrame
  <2>2. i - d \in 1..Len(fromRust') /\ (i - d) + d = i
    BY <1>1, <2>1
  <2>3. fromRust'[i - d] = fromRust[i]
    BY <1>1, <2>2 DEF Moved
  <2>. QED
    BY <1>3, <2>2, <2>3 DEF IsFrame
<1>4. out + Len(queue) <= w
  BY DEF Piped
<1>5. \A j \in 1..Len(fromRust') : IsFrame(j)' => fromRust'[j].arg \in out + Len(queue) + 1..w
  BY <1>1, <1>2 DEF Piped, IsFrame
<1>6. Kept' => \A n \in out + Len(queue) + 1..w :
                  \E j \in 1..Len(fromRust') : IsFrame(j)' /\ fromRust'[j].arg = n
  <2>. SUFFICES ASSUME Kept', NEW n \in out + Len(queue) + 1..w
                PROVE  \E j \in 1..Len(fromRust') : IsFrame(j)' /\ fromRust'[j].arg = n
    OBVIOUS
  <2>1. PICK i \in 1..Len(fromRust) : IsFrame(i) /\ fromRust[i].arg = n
    BY DEF Piped
  <2>. QED
    BY <1>3, <2>1
<1>7. ASSUME NEW i \in 1..Len(fromRust'), NEW j \in 1..Len(fromRust'), IsFrame(i)', IsFrame(j)', i < j
      PROVE  fromRust'[i].arg < fromRust'[j].arg
  <2>1. i + d < j + d
    BY <1>1, <1>7
  <2>2. /\ IsFrame(i + d) /\ fromRust'[i] = fromRust[i + d] /\ i + d \in 1..Len(fromRust)
        /\ IsFrame(j + d) /\ fromRust'[j] = fromRust[j + d] /\ j + d \in 1..Len(fromRust)
    BY <1>2, <1>7 DEF IsFrame
  <2>. QED
    BY <2>1, <2>2 DEF Piped
<1>. QED
  BY <1>4, <1>5, <1>6, <1>7 DEF Piped

LEMMA PipedStays ==
    ASSUME NEW w \in Nat, Piped(w), fromRust' = fromRust,
           out' + Len(queue') = out + Len(queue), Kept' => Kept,
           \A i \in 1..Len(queue') : queue'[i] = out' + i
    PROVE  Piped(w)'
BY DEF Piped, IsFrame

\* Attachments announced.
LEMMA AnnouncedKept ==
    ASSUME Shapes, Announced, NEW d \in {0, 1}, NEW N, Moved(fromRust, fromRust', d, N),
           \A x \in N : x.line # "attached", consumer' = consumer, page' \in Nat, page <= page',
           \A i \in 1..Len(fromRust) : Attached(i) => fromRust[i].arg \in Nat
    PROVE  Announced'
<1>1. /\ Len(fromRust) \in Nat /\ Len(fromRust') \in Nat /\ d <= Len(fromRust)
      /\ Len(fromRust) <= Len(fromRust') + d /\ d \in Nat /\ page \in Nat
  BY Facts DEF Moved
<1>2. ASSUME NEW j \in 1..Len(fromRust'), Attached(j)'
      PROVE  j + d \in 1..Len(fromRust) /\ Attached(j + d) /\ fromRust'[j] = fromRust[j + d]
  <2>1. j + d <= Len(fromRust)
    BY <1>1, <1>2 DEF Moved, Attached
  <2>. QED
    BY <1>1, <1>2, <2>1 DEF Moved, Attached
<1>3. \A j \in 1..Len(fromRust') :
         Attached(j)' => consumer' <= fromRust'[j].arg /\ fromRust'[j].arg <= page'
  <2>. SUFFICES ASSUME NEW j \in 1..Len(fromRust'), Attached(j)'
                PROVE  consumer <= fromRust[j + d].arg /\ fromRust[j + d].arg <= page'
    BY <1>2
  <2>1. /\ consumer <= fromRust[j + d].arg /\ fromRust[j + d].arg <= page
        /\ fromRust[j + d].arg \in Nat
    BY <1>2 DEF Announced
  <2>. QED
    BY <1>1, <2>1
<1>4. ASSUME NEW i \in 1..Len(fromRust'), NEW j \in 1..Len(fromRust'), Attached(i)', Attached(j)', i < j
      PROVE  fromRust'[i].arg <= fromRust'[j].arg
  <2>1. i + d < j + d
    BY <1>1, <1>4
  <2>. QED
    BY <1>2, <1>4, <2>1 DEF Announced
<1>. QED
  BY <1>3, <1>4 DEF Announced

\* The pages named in the pipe are numbers.
LEMMA PagesNamed ==
    ASSUME Shapes
    PROVE  /\ \A i \in 1..Len(fromRust) : Attached(i) => fromRust[i].arg \in Nat
           /\ \A i \in 1..Len(toRust) : Asks(i, "attach") \/ Asks(i, "ack") => toRust[i].arg \in Nat
<1>1. ASSUME NEW i \in 1..Len(fromRust), Attached(i)
      PROVE  fromRust[i].arg \in Nat
  <2>1. fromRust \in Seq(Lines)
    BY DEF Shapes
  <2>2. fromRust[i] \in Lines
    BY <2>1, ElementOfSeq
  <2>3. fromRust[i].line = "attached"
    BY <1>1 DEF Attached
  <2>. QED
    BY <2>2, <2>3 DEF Lines
<1>2. ASSUME NEW i \in 1..Len(toRust), Asks(i, "attach") \/ Asks(i, "ack")
      PROVE  toRust[i].arg \in Nat
  <2>1. toRust \in Seq(Requests)
    BY DEF Shapes
  <2>2. toRust[i] \in Requests
    BY <2>1, ElementOfSeq
  <2>3. toRust[i].op \in {"attach", "ack"}
    BY <1>2 DEF Asks
  <2>. QED
    BY <2>2, <2>3 DEF Requests
<1>. QED
  BY <1>1, <1>2

\* Requests to attach: the new ones are of the latest page.
LEMMA AskedKept ==
    ASSUME Shapes, Announced, Asked, NEW d \in {0, 1}, NEW N, Moved(fromRust, fromRust', d, N),
           \A x \in N : x.line # "attached",
           NEW e \in {0, 1}, NEW M, Moved(toRust, toRust', e, M),
           \A x \in M : x.op = "attach" => x.arg = page',
           consumer' = consumer, page' \in Nat, page <= page'
    PROVE  Asked'
<1>1. page \in Nat /\ consumer \in Nat /\ consumer <= page
  BY Facts
<1>2. /\ Len(fromRust) \in Nat /\ Len(fromRust') \in Nat /\ d <= Len(fromRust) /\ d \in Nat
      /\ Len(toRust) \in Nat /\ Len(toRust') \in Nat /\ e <= Len(toRust) /\ e \in Nat
  BY DEF Moved
<1>3. ASSUME NEW j \in 1..Len(fromRust'), Attached(j)'
      PROVE  /\ j + d \in 1..Len(fromRust) /\ Attached(j + d) /\ fromRust'[j] = fromRust[j + d]
             /\ fromRust'[j].arg \in Nat /\ fromRust'[j].arg <= page
  <2>1. j + d <= Len(fromRust)
    BY <1>2, <1>3 DEF Moved, Attached
  <2>2. j + d \in 1..Len(fromRust) /\ Attached(j + d) /\ fromRust'[j] = fromRust[j + d]
    BY <1>2, <1>3, <2>1 DEF Moved, Attached
  <2>. QED
    BY <2>2, PagesNamed DEF Announced
<1>4. ASSUME NEW i \in 1..Len(toRust'), Asks(i, "attach")'
      PROVE  \/ /\ i + e > Len(toRust) /\ toRust'[i].arg = page'
             \/ /\ i + e \in 1..Len(toRust) /\ Asks(i + e, "attach") /\ toRust'[i] = toRust[i + e]
                /\ toRust'[i].arg \in Nat /\ toRust'[i].arg <= page /\ consumer <= toRust'[i].arg
  <2>1. CASE i + e > Len(toRust)
    <3>1. toRust'[i] \in M
      BY <2>1 DEF Moved
    <3>. QED
      BY <1>4, <2>1, <3>1 DEF Asks
  <2>2. CASE i + e <= Len(toRust)
    <3>1. i + e \in 1..Len(toRust) /\ toRust'[i] = toRust[i + e]
      BY <1>2, <2>2 DEF Moved
    <3>2. Asks(i + e, "attach")
      BY <1>4, <3>1 DEF Asks
    <3>. QED
      BY <3>1, <3>2, PagesNamed DEF Asked
  <2>. QED
    BY <1>2, <2>1, <2>2
<1>5. \A i \in 1..Len(toRust') :
         Asks(i, "attach")' => consumer' <= toRust'[i].arg /\ toRust'[i].arg <= page'
  BY <1>1, <1>4
<1>6. ASSUME NEW i \in 1..Len(toRust'), NEW j \in 1..Len(toRust'),
             Asks(i, "attach")', Asks(j, "attach")', i < j
      PROVE  toRust'[i].arg <= toRust'[j].arg
  <2>1. CASE j + e > Len(toRust) /\ toRust'[j].arg = page'
    BY <1>1, <1>4, <1>6, <2>1
  <2>2. CASE j + e \in 1..Len(toRust) /\ Asks(j + e, "attach") /\ toRust'[j] = toRust[j + e]
    <3>1. i + e < j + e /\ ~(i + e > Len(toRust))
      BY <1>2, <1>6, <2>2
    <3>2. i + e \in 1..Len(toRust) /\ Asks(i + e, "attach") /\ toRust'[i] = toRust[i + e]
      BY <1>4, <1>6, <3>1
    <3>. QED
      BY <2>2, <3>1, <3>2 DEF Asked
  <2>. QED
    BY <1>4, <1>6, <2>1, <2>2
<1>7. ASSUME NEW i \in 1..Len(toRust'), NEW j \in 1..Len(fromRust'), Asks(i, "attach")', Attached(j)'
      PROVE  fromRust'[j].arg <= toRust'[i].arg
  <2>1. CASE toRust'[i].arg = page'
    BY <1>1, <1>3, <1>7, <2>1
  <2>2. CASE i + e \in 1..Len(toRust) /\ Asks(i + e, "attach") /\ toRust'[i] = toRust[i + e]
    BY <1>3, <1>7, <2>2 DEF Asked
  <2>. QED
    BY <1>4, <1>7, <2>1, <2>2
<1>. QED
  BY <1>5, <1>6, <1>7 DEF Asked

\* Acknowledgements: the new ones are of what is seen.
LEMMA AckedKept ==
    ASSUME Shapes, Acked, NEW e \in {0, 1}, NEW M, Moved(toRust, toRust', e, M),
           Seen \in Nat, Seen' \in Nat, Seen <= Seen',
           \A x \in M : x.op = "ack" => x.arg <= Seen'
    PROVE  Acked'
<1>1. Len(toRust) \in Nat /\ Len(toRust') \in Nat /\ e <= Len(toRust) /\ e \in Nat
  BY DEF Moved
<1>2. ASSUME NEW i \in 1..Len(toRust'), Asks(i, "ack")'
      PROVE  toRust'[i].arg <= Seen'
  <2>1. CASE i + e > Len(toRust)
    <3>1. toRust'[i] \in M
      BY <2>1 DEF Moved
    <3>. QED
      BY <1>2, <3>1 DEF Asks
  <2>2. CASE i + e <= Len(toRust)
    <3>1. i + e \in 1..Len(toRust) /\ toRust'[i] = toRust[i + e]
      BY <1>1, <2>2 DEF Moved
    <3>2. Asks(i + e, "ack")
      BY <1>2, <3>1 DEF Asks
    <3>3. toRust[i + e].arg <= Seen /\ toRust[i + e].arg \in Nat
      BY <3>1, <3>2, PagesNamed DEF Acked
    <3>. QED
      BY <3>1, <3>3
  <2>. QED
    BY <1>1, <2>1, <2>2
<1>. QED
  BY <1>2 DEF Acked

\* A spawn stays the first request, or its reply before all frames.
LEMMA SpawningKept ==
    ASSUME Shapes, Spawning, "spawn" \in waits' => "spawn" \in waits,
           NEW d \in {0, 1}, NEW N, Moved(fromRust, fromRust', d, N),
           d = 1 => fromRust[1].line \notin {"spawned", "notSpawned"},
           NEW e \in {0, 1}, NEW M, Moved(toRust, toRust', e, M),
           Silent /\ Asks(1, "spawn") =>
              e = 0 /\ ~gate' /\ batch' = <<>> /\ \A x \in N : x.line # "frame"
    PROVE  Spawning'
<1>1. /\ Len(toRust) \in Nat /\ Len(toRust') \in Nat /\ Len(toRust) <= Len(toRust') + e
      /\ Len(fromRust) \in Nat /\ Len(fromRust') \in Nat
      /\ Len(fromRust) <= Len(fromRust') + d /\ d \in Nat
  BY DEF Moved
<1>2. CASE Silent /\ Asks(1, "spawn")
  <2>1. 1 \in 1..Len(toRust') /\ toRust'[1] = toRust[1]
    BY <1>1, <1>2 DEF Moved, Asks
  <2>2. Asks(1, "spawn")'
    BY <1>2, <2>1 DEF Asks
  <2>3. ASSUME NEW j \in 1..Len(fromRust') PROVE ~IsFrame(j)'
    <3>1. CASE j + d <= Len(fromRust)
      BY <1>1, <1>2, <3>1 DEF Moved, Silent, IsFrame
    <3>2. CASE j + d > Len(fromRust)
      BY <1>2, <3>2 DEF Moved, IsFrame
    <3>. QED
      BY <1>1, <3>1, <3>2
  <2>. QED
    BY <1>2, <2>2, <2>3 DEF Spawning, Silent
<1>3. CASE \E i \in 1..Len(fromRust) : Replied(i)
  <2>1. PICK i \in 1..Len(fromRust) : Replied(i)
    BY <1>3
  <2>2. i - d \in 1..Len(fromRust') /\ fromRust'[i - d] = fromRust[i]
    <3>1. i > d
      BY <1>1, <2>1 DEF Replied
    <3>2. i - d \in 1..Len(fromRust') /\ (i - d) + d = i
      BY <1>1, <3>1
    <3>. QED
      BY <1>1, <3>2 DEF Moved
  <2>3. ASSUME NEW j \in 1..(i - d) - 1 PROVE ~IsFrame(j)'
    <3>1. j \in 1..Len(fromRust') /\ j + d \in 1..i - 1 /\ j + d <= Len(fromRust)
      BY <1>1, <2>2
    <3>2. fromRust'[j] = fromRust[j + d] /\ j + d \in 1..Len(fromRust)
      BY <1>1, <3>1 DEF Moved
    <3>. QED
      BY <2>1, <3>1, <3>2 DEF Replied, IsFrame
  <2>4. Replied(i - d)'
    BY <2>1, <2>2, <2>3 DEF Replied
  <2>. QED
    BY <2>2, <2>4 DEF Spawning
<1>. QED
  BY <1>2, <1>3 DEF Spawning

\* The reply to the spawn is said.
LEMMA SpawningReplied ==
    ASSUME Shapes, Spawning, waits' = waits, NEW x, x.line \in {"spawned", "notSpawned"},
           Moved(fromRust, fromRust', 0, {x}), Len(fromRust') = Len(fromRust) + 1
    PROVE  Spawning'
<1>1. Len(fromRust) \in Nat /\ Len(fromRust') \in Nat
  BY DEF Moved
<1>2. \A j \in 1..Len(fromRust) : fromRust'[j] = fromRust[j]
  BY <1>1 DEF Moved
<1>3. CASE Silent /\ Asks(1, "spawn")
  <2>1. PICK L \in Nat : L = Len(fromRust) /\ Len(fromRust') = L + 1
    BY <1>1
  <2>2. L + 1 \in 1..L + 1 /\ (L + 1) - 1 = L /\ L + 1 > L /\ (L + 1) + 0 = L + 1
    OBVIOUS
  <2>3. fromRust'[L + 1] = x
    BY <2>1, <2>2 DEF Moved
  <2>4. \A j \in 1..L : ~IsFrame(j)'
    BY <1>2, <1>3, <2>1 DEF Silent, IsFrame
  <2>5. Replied(L + 1)'
    BY <2>1, <2>2, <2>3, <2>4 DEF Replied
  <2>. QED
    BY <2>1, <2>2, <2>5 DEF Spawning
<1>4. CASE \E i \in 1..Len(fromRust) : Replied(i)
  <2>1. PICK i \in 1..Len(fromRust) : Replied(i)
    BY <1>4
  <2>2. Replied(i)' /\ i \in 1..Len(fromRust')
    BY <1>1, <1>2, <2>1 DEF Replied, IsFrame
  <2>. QED
    BY <2>2 DEF Spawning
<1>. QED
  BY <1>3, <1>4 DEF Spawning

\* The exit stays behind the last frame.
LEMMA LeavingKept ==
    ASSUME NEW w \in Nat, Shapes, Leaving(w), NEW d \in {0, 1}, NEW N,
           Moved(fromRust, fromRust', d, N), \A x \in N : x.line # "frame" /\ x.line # "exited",
           shell' = shell \/ shell' = "gone" \/ (shell = "none" /\ shell' = "alive"),
           impatient' = impatient, batch' = batch, made' = made
    PROVE  Leaving(w)'
<1>1. Len(fromRust) \in Nat /\ Len(fromRust') \in Nat /\ d <= Len(fromRust) /\ d \in Nat
  BY DEF Moved
<1>2. ASSUME NEW j \in 1..Len(fromRust'), fromRust'[j].line \in {"frame", "exited"}
      PROVE  j + d \in 1..Len(fromRust) /\ fromRust'[j] = fromRust[j + d]
  <2>1. j + d <= Len(fromRust)
    <3>1. ~(fromRust'[j] \in N)
      BY <1>2
    <3>. QED
      BY <1>1, <3>1 DEF Moved
  <2>. QED
    BY <1>1, <2>1 DEF Moved
<1>3. ASSUME NEW i \in 1..Len(fromRust'), fromRust'[i].line = "exited"
      PROVE  /\ shell' = "gone"
             /\ ~impatient' => /\ batch' = <<>> /\ w = made'
                              /\ \A j \in 1..Len(fromRust') : IsFrame(j)' => j < i
  <2>1. i + d \in 1..Len(fromRust) /\ fromRust[i + d].line = "exited"
    BY <1>2, <1>3
  <2>2. /\ shell = "gone"
        /\ ~impatient => batch = <<>> /\ w = made /\ \A j \in 1..Len(fromRust) : IsFrame(j) => j < i + d
    BY <2>1 DEF Leaving
  <2>3. ASSUME ~impatient, NEW j \in 1..Len(fromRust'), IsFrame(j)'
        PROVE  j < i
    <3>1. j + d \in 1..Len(fromRust) /\ fromRust'[j] = fromRust[j + d]
      BY <1>2, <2>3 DEF IsFrame
    <3>2. IsFrame(j + d)
      BY <2>3, <3>1 DEF IsFrame
    <3>3. j + d < i + d
      BY <2>2, <2>3, <3>1, <3>2
    <3>. QED
      BY <1>1, <3>3
  <2>4. shell' = "gone"
    BY <2>2
  <2>5. (~impatient' => ~impatient) /\ batch' = batch /\ made' = made
    OBVIOUS
  <2>. QED
    BY <2>2, <2>3, <2>4, <2>5, Zenon
<1>4. shell' = "leaving" /\ ~impatient' => batch' = <<>> /\ w = made'
  BY DEF Leaving
<1>. QED
  BY <1>3, <1>4, Zenon DEF Leaving

\* What one step says or asks.
LEMMA NothingSaid ==
    ASSUME NEW S, NEW s \in Seq(S)
    PROVE  s \o <<>> \in Seq(S) /\ Moved(s, s \o <<>>, 0, {})
<1>1. <<>> \in Seq(S) /\ 1..Len(<<>>) = {}
  BY EmptySeq
<1>. QED
  BY <1>1, JoinMoved

LEMMA OneSaid ==
    ASSUME NEW S, NEW s \in Seq(S), NEW x \in S
    PROVE  /\ s \o <<x>> \in Seq(S) /\ Moved(s, s \o <<x>>, 0, {x})
           /\ Len(s \o <<x>>) = Len(s) + 1
<1> DEFINE t == <<x>>
<1>1. t \in Seq(S) /\ Len(t) = 1 /\ \A i \in 1..Len(t) : t[i] \in {x}
  OBVIOUS
<1> HIDE DEF t
<1>2. s \o t \in Seq(S) /\ Moved(s, s \o t, 0, {x})
  BY <1>1, JoinMoved
<1>3. Len(s \o t) = Len(s) + Len(t)
  BY <1>1, JoinedSeq
<1>4. Len(s \o t) = Len(s) + 1
  BY <1>1, <1>3
<1>. QED
  BY <1>2, <1>4 DEF t

LEMMA TwoSaid ==
    ASSUME NEW S, NEW s \in Seq(S), NEW x \in S, NEW y \in S
    PROVE  s \o <<x, y>> \in Seq(S) /\ Moved(s, s \o <<x, y>>, 0, {x, y})
<1>1. <<x, y>> \in Seq(S) /\ Len(<<x, y>>) = 2 /\ \A i \in 1..2 : <<x, y>>[i] \in {x, y}
  OBVIOUS
<1>. QED
  BY <1>1, JoinMoved

\* The main loop takes the first request.
LEMMA Taken ==
    ASSUME Shapes, NEW op, Request(op)
    PROVE  /\ toRust' \in Seq(Requests) /\ Moved(toRust, toRust', 1, {})
           /\ Head(toRust) = toRust[1] /\ toRust[1] \in Requests /\ 1 \in 1..Len(toRust)
           /\ Asks(1, op)
<1>1. toRust \in Seq(Requests) /\ toRust # <<>> /\ Head(toRust).op = op /\ toRust' = Tail(toRust)
  BY DEF Shapes, Request
<1>2. /\ Tail(toRust) \in Seq(Requests) /\ Moved(toRust, Tail(toRust), 1, {})
      /\ Head(toRust) = toRust[1] /\ toRust[1] \in Requests /\ 1 \in 1..Len(toRust)
  BY <1>1, TailMoved
<1>. QED
  BY <1>1, <1>2 DEF Asks

\* The Runtime takes the first line.
LEMMA Heard ==
    ASSUME Shapes, NEW name, Line(name)
    PROVE  /\ fromRust' \in Seq(Lines) /\ Moved(fromRust, fromRust', 1, {})
           /\ Head(fromRust) = fromRust[1] /\ fromRust[1] \in Lines /\ 1 \in 1..Len(fromRust)
           /\ fromRust[1].line = name
<1>1. fromRust \in Seq(Lines) /\ fromRust # <<>> /\ Head(fromRust).line = name /\ fromRust' = Tail(fromRust)
  BY DEF Shapes, Line
<1>2. /\ Tail(fromRust) \in Seq(Lines) /\ Moved(fromRust, Tail(fromRust), 1, {})
      /\ Head(fromRust) = fromRust[1] /\ fromRust[1] \in Lines /\ 1 \in 1..Len(fromRust)
  BY <1>1, TailMoved
<1>. QED
  BY <1>1, <1>2

-----------------------------------------------------------------------------
(* The pacing queue of the Runtime.                                        *)

\* What an event takes goes on where the events end, and the queue behind it.
LEMMA Emitted ==
    ASSUME Shapes, Chained, Addressed, Showing, NEW w \in Nat, Piped(w), NEW n \in 1..Len(queue),
           events' = Append(events, [to |-> consumer, frames |-> SubSeq(queue, 1, n)]),
           out' = queue[n], queue' = SubSeq(queue, n + 1, Len(queue)),
           consumer' = consumer, page' = page, shown' = shown
    PROVE  /\ queue' \in Seq(Nat) /\ out' \in Nat /\ events' \in Seq(Events)
           /\ out' = out + n /\ out' + Len(queue') = out + Len(queue)
           /\ \A i \in 1..Len(queue') : queue'[i] = out' + i
           /\ Chained' /\ Addressed' /\ Showing' /\ Seen' = Seen
<1>1. /\ Len(queue) \in Nat /\ out \in Nat /\ n \in Nat /\ 1 <= n
      /\ n <= Len(queue) /\ consumer \in Nat
  BY Facts
<1>2. queue \in Seq(Nat) /\ events \in Seq(Events)
  BY DEF Shapes
<1>3. PICK L \in Nat : L = Len(events)
  BY Facts
<1>4. \A i \in 1..Len(queue) : queue[i] = out + i
  BY DEF Piped
<1>5. out' = out + n
  BY <1>4
<1>6. /\ queue' \in Seq(Nat) /\ Len(queue') = Len(queue) - n
      /\ \A i \in 1..Len(queue) - n : queue'[i] = queue[n + i]
  <2>1. n \in Nat /\ Len(queue) \in Nat /\ n <= Len(queue) /\ Len(queue) <= Len(queue)
    BY <1>1
  <2>2. /\ SubSeq(queue, n + 1, Len(queue)) \in Seq(Nat)
        /\ Len(SubSeq(queue, n + 1, Len(queue))) = Len(queue) - n
        /\ \A i \in 1..Len(queue) - n : SubSeq(queue, n + 1, Len(queue))[i] = queue[n + i]
    BY <1>2, <2>1, Sliced
  <2>. QED
    BY <2>2
<1>7. \A i \in 1..Len(queue') : queue'[i] = out' + i
  <2>. SUFFICES ASSUME NEW i \in 1..Len(queue')
                PROVE  queue'[i] = out' + i
    OBVIOUS
  <2>0. i \in Nat /\ 1 <= i /\ i <= Len(queue) - n
    BY <1>1, <1>6
  <2>1. n + i \in 1..Len(queue) /\ i \in 1..Len(queue) - n /\ out + (n + i) = (out + n) + i
    BY <1>1, <2>0
  <2>2. queue'[i] = out + (n + i)
    BY <1>4, <1>6, <2>1
  <2>. QED
    BY <1>5, <2>1, <2>2
<1>8. out' + Len(queue') = out + Len(queue)
  <2>1. Len(queue') = Len(queue) - n
    BY <1>6
  <2>2. out + n + (Len(queue) - n) = out + Len(queue)
    BY <1>1
  <2>. QED
    BY <1>5, <2>1, <2>2
<1> DEFINE f == SubSeq(queue, 1, n)
<1>9. /\ f \in Seq(Nat) /\ Len(f) = n /\ \A k \in 1..n : f[k] = out + k
  <2>1. /\ SubSeq(queue, 0 + 1, n) \in Seq(Nat) /\ Len(SubSeq(queue, 0 + 1, n)) = n - 0
        /\ \A k \in 1..n - 0 : SubSeq(queue, 0 + 1, n)[k] = queue[0 + k]
    BY <1>1, <1>2, Sliced
  <2>2. 0 + 1 = 1 /\ n - 0 = n /\ \A k \in 1..n : 0 + k = k
    BY <1>1
  <2>3. f \in Seq(Nat) /\ Len(f) = n /\ \A k \in 1..n : f[k] = queue[k]
    BY <2>1, <2>2
  <2>4. \A k \in 1..n : k \in 1..Len(queue)
    BY <1>1
  <2>. QED
    BY <1>4, <2>3, <2>4
<1> HIDE DEF f
<1>10. [to |-> consumer, frames |-> f] \in Events
  BY <1>1, <1>9 DEF Events
<1>11. /\ events' \in Seq(Events) /\ Len(events') = L + 1
      /\ events'[L + 1] = [to |-> consumer, frames |-> f]
      /\ \A i \in 1..L : events'[i] = events[i]
  <2>1. events' = Append(events, [to |-> consumer, frames |-> f])
    BY DEF f
  <2>. QED
    BY <1>10, <1>2, <1>3, <2>1, Added
<1>12. /\ events'[L + 1].to = consumer /\ events'[L + 1].frames = f
      /\ First(L + 1)' = out + 1 /\ After(L + 1)' = out' + 1 /\ f # <<>>
  <2>1. events'[L + 1].to = consumer /\ events'[L + 1].frames = f
    BY <1>11
  <2>2. f[1] = out + 1 /\ f # <<>>
    BY <1>1, <1>9, EmptySeq
  <2>3. f[1] + Len(f) = out' + 1
    BY <1>1, <1>5, <1>9, <2>2
  <2>. QED
    BY <2>1, <2>2, <2>3 DEF First, After
<1>13. \A i \in 1..L : First(i)' = First(i) /\ After(i)' = After(i)
  BY <1>11 DEF First, After
<1>14. \A i \in 1..L + 1 : i \in 1..L \/ i = L + 1
  OBVIOUS
<1>15. \A i \in 1..L : i # L + 1 /\ ~(L + 1 < i) /\ i < L + 1
  OBVIOUS
<1>16. Chained'
  <2>1. ASSUME NEW i \in 1..L
        PROVE  /\ events'[i].frames # <<>> /\ First(i)' >= 1 /\ After(i)' <= out' + 1
               /\ \A k \in 1..Len(events'[i].frames) : events'[i].frames[k] = First(i)' + k - 1
               /\ First(i + 1)' = After(i)' /\ After(i) <= out + 1
    <3>1. /\ events[i].frames # <<>> /\ First(i) >= 1 /\ After(i) <= out + 1
          /\ \A k \in 1..Len(events[i].frames) : events[i].frames[k] = First(i) + k - 1
          /\ i < L => First(i + 1) = After(i)
          /\ i = L => After(i) = out + 1
      BY <1>3 DEF Chained
    <3>2. First(i + 1)' = After(i)'
      <4>1. CASE i = L
        BY <1>12, <1>13, <3>1, <4>1
      <4>2. CASE i < L
        BY <1>13, <1>15, <3>1, <4>2
      <4>. QED
        BY <1>15, <4>1, <4>2
    <3>3. After(i)' <= out' + 1
      <4>1. events[i] \in Events
        BY <1>2, <1>3, ElementOfSeq
      <4>2. events[i].frames \in Seq(Nat)
        BY <4>1 DEF Events
      <4>3. After(i) \in Nat
        <5>1. Len(events[i].frames) \in Nat \ {0}
          BY <3>1, <4>2, LenProperties, EmptySeq
        <5>2. 1 \in 1..Len(events[i].frames)
          BY <5>1
        <5>3. events[i].frames[1] \in Nat
          BY <4>2, <5>2, ElementOfSeq
        <5>. QED
          BY <5>1, <5>3 DEF After
      <4>. QED
        BY <1>1, <1>5, <1>13, <3>1, <4>3
    <3>. QED
      BY <1>11, <1>13, <3>1, <3>2, <3>3
  <2>2. /\ events'[L + 1].frames # <<>> /\ First(L + 1)' >= 1 /\ After(L + 1)' <= out' + 1
        /\ \A k \in 1..Len(events'[L + 1].frames) : events'[L + 1].frames[k] = First(L + 1)' + k - 1
        /\ After(L + 1)' = out' + 1
    <3>1. out' + 1 <= out' + 1 /\ out + 1 >= 1
      BY <1>1, <1>5
    <3>2. \A k \in 1..n : f[k] = (out + 1) + k - 1
      BY <1>1, <1>9
    <3>. QED
      BY <1>9, <1>12, <3>1, <3>2
  <2>3. ASSUME NEW i \in 1..L + 1, NEW j \in 1..L + 1, i < j
        PROVE  After(i)' <= First(j)'
    <3>1. i \in 1..L
      BY <1>1, <2>3
    <3>2. CASE j = L + 1
      BY <1>12, <1>13, <2>1, <3>1, <3>2
    <3>3. CASE j \in 1..L
      BY <1>13, <2>3, <3>1, <3>3, <1>3 DEF Chained
    <3>. QED
      BY <1>14, <3>2, <3>3
  <2>4. Len(events') = L + 1
    BY <1>11
  <2>5. \A i \in 1..L + 1 : /\ i < L + 1 => i \in 1..L
                            /\ i = L + 1 => ~(i < L + 1)
    BY <1>1
  <2>. QED
    BY <1>14, <1>15, <2>1, <2>2, <2>3, <2>4, <2>5 DEF Chained
<1>17. Addressed'
  <2>1. \A i \in 1..L : events'[i].to <= consumer
    BY <1>11, <1>3 DEF Addressed
  <2>2. ASSUME NEW i \in 1..L + 1, NEW j \in 1..L + 1, i < j
        PROVE  events'[i].to <= events'[j].to
    <3>1. i \in 1..L
      BY <1>1, <2>2
    <3>2. CASE j = L + 1
      BY <1>12, <2>1, <3>1, <3>2
    <3>3. CASE j \in 1..L
      BY <1>11, <2>2, <3>1, <3>3, <1>3 DEF Addressed
    <3>. QED
      BY <1>14, <3>2, <3>3
  <2>3. consumer <= consumer
    BY <1>1
  <2>4. Len(events') = L + 1
    BY <1>11
  <2>. QED
    BY <1>12, <1>14, <2>1, <2>2, <2>3, <2>4 DEF Addressed
<1>18. Seen' = Seen
  <2>1. events' # <<>>
    BY <1>11, EmptySeq
  <2>2. CASE events = <<>>
    <3>1. L = 0
      BY <1>3, <2>2, EmptySeq
    <3>2. First(1)' = out + 1
      BY <1>12, <3>1
    <3>. QED
      BY <1>1, <2>1, <2>2, <3>2 DEF Seen
  <2>3. CASE events # <<>>
    <3>1. 1 \in 1..L
      BY <1>2, <1>3, <2>3, EmptySeq
    <3>. QED
      BY <1>13, <2>1, <2>3, <3>1 DEF Seen
  <2>. QED
    BY <2>2, <2>3
<1>19. Showing'
  <2>1. \A i \in 1..Len(shown) - 1 : shown[i + 1] = shown[i] + 1
    BY DEF Showing
  <2>2. ASSUME shown # <<>>
        PROVE  /\ shown[Len(shown)] = Seen' /\ consumer = page
               /\ \A i \in 1..L + 1 : events'[i].to = page
    BY <1>11, <1>12, <1>14, <1>18, <1>3, <2>2 DEF Showing
  <2>3. Len(events') = L + 1
    BY <1>11
  <2>. QED
    BY <2>1, <2>2, <2>3, Zenon DEF Showing
<1>20. out' \in Nat
  BY <1>1, <1>5
<1>. QED
  BY <1>5, <1>6, <1>7, <1>8, <1>11, <1>16, <1>17, <1>18, <1>19, <1>20

\* What is flushed leaves nothing behind.
LEMMA Flushed ==
    ASSUME Shapes, Chained, Addressed, Showing, NEW w \in Nat, Piped(w), Flush,
           consumer' = consumer, page' = page, shown' = shown
    PROVE  /\ queue' \in Seq(Nat) /\ out' \in Nat /\ events' \in Seq(Events)
           /\ queue' = <<>> /\ out' = out + Len(queue) /\ out' + Len(queue') = out + Len(queue)
           /\ \A i \in 1..Len(queue') : queue'[i] = out' + i
           /\ Chained' /\ Addressed' /\ Showing' /\ Seen' = Seen
<1>1. /\ Len(queue) \in Nat /\ out \in Nat /\ (queue = <<>> <=> Len(queue) = 0)
      /\ queue \in Seq(Nat) /\ events \in Seq(Events)
  BY Facts DEF Shapes
<1>2. queue' = <<>> /\ Len(queue') = 0 /\ queue' \in Seq(Nat) /\ 1..Len(queue') = {}
  BY EmptySeq DEF Flush
<1>3. CASE queue = <<>>
  <2>1. events' = events /\ out' = out
    BY <1>3 DEF Flush
  <2>2. Chained' /\ Addressed' /\ Showing' /\ Seen' = Seen
    BY <2>1 DEF Chained, Addressed, Showing, Seen, First, After
  <2>3. out' = out + Len(queue) /\ out' + Len(queue') = out + Len(queue)
    BY <1>1, <1>2, <1>3, <2>1
  <2>. QED
    BY <1>1, <1>2, <2>1, <2>2, <2>3
<1>4. CASE queue # <<>>
  <2>1. Len(queue) \in 1..Len(queue)
    BY <1>1, <1>4
  <2>2. SubSeq(queue, 1, Len(queue)) = queue /\ SubSeq(queue, Len(queue) + 1, Len(queue)) = <<>>
    BY <1>1, SubSeqFull, SubSeqEmpty
  <2>3. /\ events' = Append(events, [to |-> consumer, frames |-> SubSeq(queue, 1, Len(queue))])
        /\ out' = queue[Len(queue)] /\ queue' = SubSeq(queue, Len(queue) + 1, Len(queue))
    BY <1>4, <2>2 DEF Flush, Last
  <2>4. /\ out' \in Nat /\ events' \in Seq(Events)
        /\ out' = out + Len(queue) /\ out' + Len(queue') = out + Len(queue)
        /\ Chained' /\ Addressed' /\ Showing' /\ Seen' = Seen
    BY <2>1, <2>3, Emitted
  <2>. QED
    BY <1>2, <2>4
<1>. QED
  BY <1>3, <1>4

-----------------------------------------------------------------------------
(* The threads of a session.                                               *)

LEMMA ReaderStep ==
    ASSUME NEW w \in Nat, NEW b \in Nat, Inv(w, b), Read
    PROVE  Inv(w, b)'
<1> USE DEF Inv
<1>1. /\ Window \in Nat /\ MaxFrames \in Nat
      /\ made \in Nat /\ made <= MaxFrames
      /\ Len(frames) \in Nat
      /\ Len(batch) \in Nat
      /\ emitted \in Nat /\ delivered \in Nat /\ batchEnd \in Nat
  BY Facts
<1>2. /\ ~shut /\ ~held /\ made < MaxFrames /\ shell \in {"alive", "ended"}
      /\ made' = made + 1
      /\ \/ held' /\ frames' = frames
         \/ ~held' /\ Len(frames) <= Window /\ frames' = Append(frames, made + 1)
      /\ held' \in BOOLEAN
      /\ UNCHANGED <<shell, emitted, delivered, gate, shut, batch,
                       batchEnd, impatient, toRust, fromRust, status,
                       current, reclaimed, consumer, timer, waits,
                       ackedThrough, queue, out, page, bound, events,
                       shown, timeouts>>
  <2>1. /\ ~shut /\ ~held /\ made < MaxFrames /\ shell \in {"alive", "ended"} /\ made' = made + 1
        /\ held' = Paused /\ frames' = IF Paused THEN frames ELSE Append(frames, made + 1)
        /\ UNCHANGED <<shell, emitted, delivered, gate, shut, batch, batchEnd, impatient, toRust,
                       fromRust, record, view, timeouts>>
    BY DEF Read, pipe
  <2>2. Paused \in BOOLEAN /\ (~Paused => Len(frames) <= Window)
    BY <1>1 DEF Paused
  <2>3. CASE Paused
    BY <2>1, <2>3, Zenon DEF record, view
  <2>4. CASE ~Paused
    BY <2>1, <2>2, <2>4, Zenon DEF record, view
  <2>. QED
    BY <2>3, <2>4, Zenon
<1>3. made + 1 \in Frames
  BY <1>1, <1>2 DEF Frames
<1>4. \/ held' /\ frames' = frames
      \/ /\ ~held' /\ Len(frames) <= Window /\ frames' # frames
         /\ frames' \in Seq(Frames) /\ Len(frames') = Len(frames) + 1
         /\ frames'[Len(frames) + 1] = made + 1
         /\ \A j \in 1..Len(frames) : frames'[j] = frames[j]
  <2>1. frames \in Seq(Frames)
    BY DEF Shapes
  <2>. QED
    BY <1>2, <1>3, <2>1, Added
<1>5. Shapes'
  BY <1>1, <1>2, <1>3, <1>4 DEF Shapes
<1>6. Positions'
  BY <1>1, <1>2, <1>3, <1>4 DEF Positions
<1>7. Unwritten(w, b)'
  <2>1. /\ w + Len(batch) <= made /\ \A i \in 1..Len(batch) : batch[i] = w + i
        /\ b + emitted = w + Len(batch) /\ \A i \in 1..Len(frames) : frames[i] = b + i
        /\ made = b + Len(frames)
    BY <1>2 DEF Unwritten
  <2>2. CASE held' /\ frames' = frames
    BY <1>1, <1>2, <2>1, <2>2 DEF Unwritten
  <2>3. CASE ~held' /\ frames' # frames
    <3>1. made' = b + Len(frames') /\ w + Len(batch) <= made'
      <4>1. made' = made + 1 /\ Len(frames') = Len(frames) + 1
        BY <1>2, <1>4, <2>3
      <4>. QED
        BY <1>1, <2>1, <4>1
    <3>2. ASSUME NEW i \in 1..Len(frames')
          PROVE  frames'[i] = b + i
      <4>1. /\ Len(frames') = Len(frames) + 1 /\ frames'[Len(frames) + 1] = made + 1
            /\ \A j \in 1..Len(frames) : frames'[j] = frames[j]
        BY <1>4, <2>3
      <4>2. i = Len(frames) + 1 \/ i \in 1..Len(frames)
        BY <1>1, <4>1
      <4>3. CASE i = Len(frames) + 1
        <5>1. made + 1 = b + (Len(frames) + 1)
          BY <1>1, <2>1
        <5>. QED
          BY <4>1, <4>3, <5>1
      <4>4. CASE i \in 1..Len(frames)
        BY <2>1, <4>1, <4>4
      <4>. QED
        BY <4>2, <4>3, <4>4
    <3>. QED
      BY <1>2, <2>1, <2>3, <3>1, <3>2 DEF Unwritten
  <2>. QED
    BY <1>4, <2>2, <2>3
<1>8. Exited'
  BY <1>1, <1>2, <1>3, <1>4 DEF Exited
<1>9. Leaving(w)'
  BY <1>1, <1>2, <1>3, <1>4 DEF Leaving, IsFrame
<1>10. Chained' /\ Addressed' /\ Announced' /\ Asked' /\ Showing'
  BY <1>2 DEF Chained, First, After, Addressed, Announced, Attached, Asked, Asks, Showing, Seen
<1>11. Piped(w)' /\ Acked' /\ Ahead(w, b)' /\ Spawning'
  BY <1>2 DEF Piped, IsFrame, Kept, Acked, Asks, Seen, First, Ahead, Spawning, Silent, Replied
<1>. QED
  BY <1>5, <1>6, <1>7, <1>8, <1>9, <1>10, <1>11

LEMMA PushStep ==
    ASSUME NEW w \in Nat, NEW b \in Nat, Inv(w, b), Push
    PROVE  Inv(w, b)'
<1> USE DEF Inv
<1>1. /\ Window \in Nat /\ MaxFrames \in Nat
      /\ made \in Nat /\ made <= MaxFrames
      /\ Len(frames) \in Nat
      /\ Len(batch) \in Nat
      /\ emitted \in Nat /\ delivered \in Nat /\ batchEnd \in Nat
  BY Facts
<1>2. /\ held /\ ~shut /\ Len(frames) <= Window
      /\ held' = FALSE /\ frames' = Append(frames, made)
      /\ UNCHANGED <<shell, made, emitted, delivered, gate, shut,
                       batch, batchEnd, impatient, toRust, fromRust,
                       status, current, reclaimed, consumer, timer, waits,
                       ackedThrough, queue, out, page, bound, events,
                       shown, timeouts>>
  <2>1. ~Paused => Len(frames) <= Window
    BY <1>1 DEF Paused
  <2>. QED
    BY <2>1, Zenon DEF Push, pipe, record, view
<1>3. made \in Frames /\ made = b + Len(frames) + 1
  BY <1>1, <1>2 DEF Unwritten, Frames
<1>4. /\ frames' \in Seq(Frames) /\ Len(frames') = Len(frames) + 1
      /\ frames'[Len(frames) + 1] = made
      /\ \A j \in 1..Len(frames) : frames'[j] = frames[j]
  <2>1. frames \in Seq(Frames)
    BY DEF Shapes
  <2>. QED
    BY <1>2, <1>3, <2>1, Added
<1>5. /\ emitted <= Len(frames') /\ ~held'
  <2>1. emitted <= Len(frames)
    BY DEF Shapes
  <2>. QED
    BY <1>1, <1>2, <1>4, <2>1
<1>6. Shapes'
  BY <1>2, <1>4, <1>5 DEF Shapes
<1>7. Positions'
  BY <1>1, <1>2, <1>3, <1>4 DEF Positions
<1>8. Unwritten(w, b)'
  <2>1. /\ w + Len(batch) <= made /\ \A i \in 1..Len(batch) : batch[i] = w + i
        /\ b + emitted = w + Len(batch) /\ \A i \in 1..Len(frames) : frames[i] = b + i
    BY <1>2 DEF Unwritten
  <2>2. ASSUME NEW i \in 1..Len(frames')
        PROVE  frames'[i] = b + i
    <3>1. i = Len(frames) + 1 \/ i \in 1..Len(frames)
      BY <1>1, <1>4
    <3>2. CASE i = Len(frames) + 1
      BY <1>1, <1>3, <1>4, <3>2
    <3>3. CASE i \in 1..Len(frames)
      BY <1>4, <2>1, <3>3
    <3>. QED
      BY <3>1, <3>2, <3>3
  <2>3. made = b + Len(frames')
    BY <1>1, <1>3, <1>4
  <2>. QED
    BY <1>2, <1>5, <2>1, <2>2, <2>3 DEF Unwritten
<1>9. Chained' /\ Addressed' /\ Announced' /\ Asked' /\ Showing'
  BY <1>2 DEF Chained, First, After, Addressed, Announced, Attached, Asked, Asks, Showing, Seen
<1>10. Piped(w)' /\ Acked' /\ Ahead(w, b)' /\ Spawning' /\ Exited'
  BY <1>2 DEF Piped, IsFrame, Kept, Acked, Asks, Seen, First, Ahead, Spawning, Silent, Replied, Exited
<1>11. Leaving(w)'
  BY <1>2 DEF Leaving, IsFrame
<1>. QED
  BY <1>6, <1>7, <1>8, <1>9, <1>10, <1>11

LEMMA TakeStep ==
    ASSUME NEW w \in Nat, NEW b \in Nat, Inv(w, b), Take
    PROVE  Inv(w, b)'
<1> USE DEF Inv
<1>1. /\ Window \in Nat /\ MaxFrames \in Nat
      /\ made \in Nat /\ made <= MaxFrames
      /\ Len(frames) \in Nat
      /\ Len(batch) \in Nat
      /\ emitted \in Nat /\ delivered \in Nat /\ batchEnd \in Nat
  BY Facts
<1>2. /\ batchEnd = 0 /\ gate /\ ~shut /\ emitted < Len(frames)
      /\ batch' = SubSeq(frames, emitted + 1, Len(frames))
      /\ batchEnd' = Len(frames) /\ emitted' = Len(frames)
      /\ UNCHANGED <<shell, made, held, frames, delivered, gate,
                       shut, impatient, toRust, fromRust, status,
                       current, reclaimed, consumer, timer, waits,
                       ackedThrough, queue, out, page, bound, events,
                       shown, timeouts>>
  BY DEF Take, pipe, record, view
<1>3. batch = <<>> /\ Len(batch) = 0 /\ delivered <= emitted
  BY <1>1, <1>2, Facts DEF Shapes, Positions
<1>4. /\ batch' \in Seq(Frames) /\ Len(batch') = Len(frames) - emitted
      /\ \A j \in 1..Len(frames) - emitted : batch'[j] = frames[emitted + j]
  <2>1. frames \in Seq(Frames) /\ emitted \in Nat /\ emitted <= Len(frames)
    BY DEF Shapes
  <2>2. /\ SubSeq(frames, emitted + 1, Len(frames)) \in Seq(Frames)
        /\ Len(SubSeq(frames, emitted + 1, Len(frames))) = Len(frames) - emitted
        /\ \A j \in 1..Len(frames) - emitted :
              SubSeq(frames, emitted + 1, Len(frames))[j] = frames[emitted + j]
    BY <1>1, <2>1, Sliced
  <2>. QED
    BY <1>2, <2>2
<1>5. b + emitted = w /\ b + Len(frames) = w + Len(batch')
  <2>1. b + emitted = w + Len(batch)
    BY <1>2 DEF Unwritten
  <2>2. Len(batch) = 0 /\ Len(batch') = Len(frames) - emitted
    BY <1>3, <1>4
  <2>. QED
    BY <1>1, <2>1, <2>2
<1>6. w < made
  <2>1. b + Len(frames) <= made
    BY <1>1, <1>2, <1>3 DEF Unwritten
  <2>. QED
    BY <1>1, <1>2, <1>5, <2>1
<1>7. Shapes'
  <2>1. /\ batch' \in Seq(Frames) /\ batchEnd' \in Nat /\ emitted' \in Nat
        /\ delivered' <= emitted' /\ emitted' <= Len(frames')
    <3>1. batch' \in Seq(Frames)
      BY <1>4
    <3>2. Len(frames) <= Len(frames) /\ delivered <= Len(frames)
      BY <1>1, <1>2, <1>3
    <3>. QED
      BY <1>1, <1>2, <3>1, <3>2
  <2>. QED
    BY <1>2, <2>1 DEF Shapes
<1>8. Positions'
  BY <1>1, <1>2, <1>3, <1>4 DEF Positions
<1>9. Unwritten(w, b)'
  <2>1. /\ \A i \in 1..Len(frames) : frames[i] = b + i
        /\ (held => made = b + Len(frames) + 1) /\ (~held => made = b + Len(frames))
    BY <1>2 DEF Unwritten
  <2>2. w + Len(batch') <= made
    BY <1>1, <1>5, <2>1
  <2>3. \A i \in 1..Len(batch') : batch'[i] = w + i
    <3>1. \A i \in 1..Len(batch') : emitted + i \in 1..Len(frames)
      BY <1>1, <1>2, <1>4
    <3>2. \A i \in 1..Len(batch') : batch'[i] = frames[emitted + i]
      BY <1>4
    <3>3. \A i \in 1..Len(batch') : b + (emitted + i) = w + i
      BY <1>1, <1>5, <3>1
    <3>. QED
      BY <2>1, <3>1, <3>2, <3>3
  <2>. QED
    BY <1>2, <1>5, <2>1, <2>2, <2>3 DEF Unwritten
<1>10. Ahead(w, b)'
  <2>1. b <= Seen
    BY <1>2 DEF Ahead
  <2>2. Seen' = Seen /\ Seen \in Nat
    BY <1>2, SeenIsNat DEF Seen, First
  <2>3. w + Len(batch') <= Seen + Window + 1
    <3>1. Len(frames) <= Window + 1
      BY <1>2 DEF Positions
    <3>. QED
      BY <1>1, <1>5, <2>1, <2>2, <3>1
  <2>. QED
    BY <1>2, <2>1, <2>2, <2>3 DEF Ahead
<1>11. Leaving(w)'
  <2>1. ~(shell = "leaving" /\ ~impatient) /\ \A i \in 1..Len(fromRust) : fromRust[i].line = "exited" => impatient
    BY <1>1, <1>6 DEF Leaving
  <2>. QED
    BY <1>2, <2>1, Zenon DEF Leaving, IsFrame
<1>12. Chained' /\ Addressed' /\ Announced' /\ Asked' /\ Showing'
  BY <1>2 DEF Chained, First, After, Addressed, Announced, Attached, Asked, Asks, Showing, Seen
<1>13. Piped(w)' /\ Acked' /\ Spawning' /\ Exited'
  BY <1>2 DEF Piped, IsFrame, Kept, Acked, Asks, Seen, First, Spawning, Silent, Replied, Exited
<1>. QED
  BY <1>7, <1>8, <1>9, <1>10, <1>11, <1>12, <1>13

LEMMA MarkDeliveredStep ==
    ASSUME NEW w \in Nat, NEW b \in Nat, Inv(w, b), MarkDelivered
    PROVE  Inv(w, b)'
<1> USE DEF Inv
<1>1. /\ batchEnd > 0 /\ batch = <<>>
      /\ batchEnd' = 0
      /\ delivered' \in Nat /\ delivered' <= emitted
      /\ UNCHANGED <<shell, made, held, frames, emitted, gate,
                       shut, batch, impatient, toRust, fromRust,
                       status, current, reclaimed, consumer, timer, waits,
                       ackedThrough, queue, out, page, bound, events,
                       shown, timeouts>>
  <2>1. delivered \in Nat /\ emitted \in Nat /\ batchEnd \in Nat /\ delivered <= emitted
    BY DEF Shapes, Frames
  <2>. QED
    BY <2>1 DEF MarkDelivered, LargerOf, SmallerOf, pipe, record, view
<1>2. Shapes'
  BY <1>1 DEF Shapes
<1>3. Positions'
  BY <1>1 DEF Positions
<1>4. Chained' /\ Addressed' /\ Announced' /\ Asked' /\ Showing'
  BY <1>1 DEF Chained, First, After, Addressed, Announced, Attached, Asked, Asks, Showing, Seen
<1>5. Piped(w)' /\ Unwritten(w, b)' /\ Acked' /\ Ahead(w, b)' /\ Spawning'
  BY <1>1 DEF Piped, IsFrame, Kept, Unwritten, Acked, Asks, Seen, First, Ahead, Spawning, Silent, Replied
<1>6. Exited' /\ Leaving(w)'
  BY <1>1 DEF Exited, Leaving, IsFrame
<1>. QED
  BY <1>2, <1>3, <1>4, <1>5, <1>6

LEMMA ShellExitStep ==
    ASSUME NEW w \in Nat, NEW b \in Nat, Inv(w, b), ShellExit
    PROVE  Inv(w, b)'
<1> USE DEF Inv
<1>1. /\ shell = "alive" /\ shell' = "ended"
      /\ UNCHANGED <<made, held, frames, emitted, delivered, gate,
                       shut, batch, batchEnd, impatient, toRust,
                       fromRust, status, current, reclaimed, consumer, timer,
                       waits, ackedThrough, queue, out, page, bound,
                       events, shown, timeouts>>
  BY DEF ShellExit, pipe, record, view
<1>2. Shapes'
  BY <1>1 DEF Shapes
<1>3. Spawning'
  BY <1>1 DEF Spawning, Silent, Replied, IsFrame, Asks
<1>4. Exited'
  BY <1>1 DEF Exited
<1>5. Leaving(w)'
  BY <1>1 DEF Leaving, IsFrame
<1>6. Positions' /\ Chained' /\ Addressed' /\ Announced' /\ Asked'
  BY <1>1 DEF Positions, Chained, First, After, Addressed, Announced, Attached, Asked, Asks
<1>7. Showing' /\ Piped(w)' /\ Unwritten(w, b)' /\ Acked' /\ Ahead(w, b)'
  BY <1>1 DEF Showing, Seen, First, Piped, IsFrame, Kept, Unwritten, Acked, Asks, Ahead
<1>. QED
  BY <1>2, <1>3, <1>4, <1>5, <1>6, <1>7

LEMMA LeaveStep ==
    ASSUME NEW w \in Nat, NEW b \in Nat, Inv(w, b), NEW patient \in BOOLEAN, Leave(patient)
    PROVE  Inv(w, b)'
<1> USE DEF Inv
<1>1. /\ Window \in Nat /\ MaxFrames \in Nat
      /\ made \in Nat /\ made <= MaxFrames
      /\ Len(frames) \in Nat
      /\ Len(batch) \in Nat
      /\ emitted \in Nat /\ delivered \in Nat /\ batchEnd \in Nat
  BY Facts
<1>2. /\ shell = "ended" /\ ~shut /\ ~held /\ shell' = "leaving"
      /\ impatient' = ~patient
      /\ patient => TailDelivered
      /\ UNCHANGED <<made, held, frames, emitted, delivered, gate,
                       shut, batch, batchEnd, toRust, fromRust,
                       status, current, reclaimed, consumer, timer, waits,
                       ackedThrough, queue, out, page, bound, events,
                       shown, timeouts>>
  BY Zenon DEF Leave, pipe, record, view
<1>3. patient => batch = <<>> /\ w = made
  <2>1. emitted <= Len(frames)
    BY DEF Shapes
  <2>2. delivered + Len(batch) <= emitted
    BY <1>2 DEF Positions
  <2>3. TailDelivered => Len(batch) = 0 /\ emitted = Len(frames)
    BY <1>1, <2>1, <2>2 DEF TailDelivered
  <2>4. b + emitted = w + Len(batch) /\ made = b + Len(frames)
    BY <1>2 DEF Unwritten
  <2>5. TailDelivered => w = made
    BY <1>1, <2>3, <2>4
  <2>6. TailDelivered => batch = <<>>
    BY <2>3, Facts
  <2>. QED
    BY <1>2, <2>5, <2>6, Zenon
<1>4. Shapes'
  BY <1>1, <1>2, <1>3 DEF Shapes
<1>5. Spawning'
  BY <1>1, <1>2, <1>3 DEF Spawning, Silent, Replied, IsFrame, Asks
<1>6. Exited'
  BY <1>1, <1>2, <1>3 DEF Exited
<1>7. Leaving(w)'
  BY <1>1, <1>2, <1>3 DEF Leaving, IsFrame
<1>8. Positions' /\ Chained' /\ Addressed' /\ Announced' /\ Asked'
  BY <1>2 DEF Positions, Chained, First, After, Addressed, Announced, Attached, Asked, Asks
<1>9. Showing' /\ Piped(w)' /\ Unwritten(w, b)' /\ Acked' /\ Ahead(w, b)'
  BY <1>2 DEF Showing, Seen, First, Piped, IsFrame, Kept, Unwritten, Acked, Asks, Ahead
<1>. QED
  BY <1>4, <1>5, <1>6, <1>7, <1>8, <1>9

LEMMA WriteFrameStep ==
    ASSUME NEW w \in Nat, NEW b \in Nat, Inv(w, b), WriteFrame
    PROVE  Inv(w + 1, b)'
<1> USE DEF Inv
<1>1. /\ Window \in Nat /\ MaxFrames \in Nat
      /\ made \in Nat /\ made <= MaxFrames
      /\ emitted \in Nat /\ delivered \in Nat /\ batchEnd \in Nat
      /\ Len(batch) \in Nat
      /\ Len(queue) \in Nat
      /\ out \in Nat
  BY Facts
<1>2. /\ batch # <<>> /\ batch' = Tail(batch)
      /\ fromRust' = Append(fromRust, [line |-> "frame", arg |-> Head(batch)])
      /\ UNCHANGED <<shell, made, held, frames, emitted, delivered,
                       gate, shut, batchEnd, impatient, toRust,
                       status, current, reclaimed, consumer, timer, waits,
                       ackedThrough, queue, out, page, bound, events,
                       shown, timeouts>>
  BY DEF WriteFrame, pipe, sidecar, record, view
<1>3. /\ batch' \in Seq(Frames) /\ Len(batch) \in Nat \ {0} /\ Len(batch') = Len(batch) - 1
      /\ Head(batch) = batch[1] /\ \A j \in 1..Len(batch) - 1 : batch'[j] = batch[j + 1]
  <2>1. batch \in Seq(Frames)
    BY DEF Shapes
  <2>. QED
    BY <1>2, <2>1, Popped
<1>4. Head(batch) = w + 1 /\ w + 1 \in Nat
  <2>1. batch[1] = w + 1
    BY <1>3 DEF Unwritten
  <2>. QED
    BY <1>3, <2>1
<1> DEFINE x == [line |-> "frame", arg |-> w + 1]
<1>5. x \in Lines /\ x.line = "frame" /\ x.arg = w + 1
  BY <1>4 DEF Lines
<1> HIDE DEF x
<1>6. fromRust' = Append(fromRust, x) /\ fromRust \in Seq(Lines)
  BY <1>2, <1>4 DEF x, Shapes
<1>7. /\ fromRust' \in Seq(Lines) /\ Moved(fromRust, fromRust', 0, {x})
      /\ \A y \in {x} : y.line # "attached"
  BY <1>5, <1>6, AddMoved
<1>8. Moved(toRust, toRust', 0, {})
  BY <1>2, StaysMoved DEF Shapes
<1>9. consumer' = consumer /\ page' \in Nat /\ page <= page'
  BY <1>2, Facts
<1>10. Shapes'
  BY <1>2, <1>7, <1>3 DEF Shapes
<1>11. Positions'
  <2>1. batchEnd # 0
    BY <1>2 DEF Positions
  <2>2. ~shut => delivered + Len(batch') <= emitted
    BY <1>1, <1>3 DEF Positions
  <2>. QED
    BY <1>2, <2>1, <2>2 DEF Positions
<1>12. Announced'
  BY <1>7, <1>9, PagesNamed, AnnouncedKept
<1>13. Asked'
  BY <1>7, <1>8, <1>9, AskedKept
<1>14. Piped(w + 1)'
  <2>1. /\ Len(fromRust') = Len(fromRust) + 1 /\ Len(fromRust) \in Nat
        /\ fromRust'[Len(fromRust) + 1] = x
        /\ \A j \in 1..Len(fromRust) : fromRust'[j] = fromRust[j]
    BY <1>5, <1>6, Added
  <2>2. PICK L \in Nat : L = Len(fromRust)
    BY <2>1
  <2>3. \A j \in 1..L : IsFrame(j)' = IsFrame(j) /\ fromRust'[j] = fromRust[j]
    BY <2>1, <2>2 DEF IsFrame
  <2>4. IsFrame(L + 1)' /\ fromRust'[L + 1].arg = w + 1
    BY <1>5, <2>1, <2>2 DEF IsFrame
  <2>5. \A j \in 1..L + 1 : j \in 1..L \/ j = L + 1
    OBVIOUS
  <2>6. PICK m \in Nat : m = out + Len(queue)
    BY <1>1
  <2>7. m <= w /\ m <= w + 1 /\ m + 1 \in Nat
    BY <2>6 DEF Piped
  <2>8. \A j \in 1..L + 1 : IsFrame(j)' => fromRust'[j].arg \in m + 1..w + 1
    <3>1. \A j \in 1..L : IsFrame(j) => fromRust[j].arg \in m + 1..w
      BY <2>2, <2>6 DEF Piped
    <3>2. w + 1 \in m + 1..w + 1 /\ \A n \in m + 1..w : n \in m + 1..w + 1
      BY <2>7
    <3>. QED
      BY <2>3, <2>4, <2>5, <3>1, <3>2
  <2>9. ASSUME Kept', NEW n \in m + 1..w + 1
        PROVE  \E j \in 1..L + 1 : IsFrame(j)' /\ fromRust'[j].arg = n
    <3>1. CASE n = w + 1
      BY <2>4, <3>1
    <3>2. CASE n \in m + 1..w
      <4>1. PICK j \in 1..L : IsFrame(j) /\ fromRust[j].arg = n
        BY <1>2, <2>2, <2>6, <2>9, <3>2 DEF Piped, Kept
      <4>2. j \in 1..L + 1
        OBVIOUS
      <4>. QED
        BY <2>3, <4>1, <4>2
    <3>. QED
      BY <2>7, <3>1, <3>2
  <2>10. ASSUME NEW i \in 1..L + 1, NEW j \in 1..L + 1, IsFrame(i)', IsFrame(j)', i < j
         PROVE  fromRust'[i].arg < fromRust'[j].arg
    <3>1. i \in 1..L
      BY <2>10
    <3>2. CASE j = L + 1
      <4>1. fromRust[i].arg \in m + 1..w
        BY <2>2, <2>3, <2>6, <2>10, <3>1 DEF Piped
      <4>. QED
        BY <2>3, <2>4, <2>7, <3>1, <3>2, <4>1
    <3>3. CASE j \in 1..L
      BY <2>2, <2>3, <2>10, <3>1, <3>3 DEF Piped
    <3>. QED
      BY <2>5, <3>2, <3>3
  <2>11. Len(fromRust') = L + 1 /\ out' + Len(queue') = m
    BY <1>2, <2>1, <2>2, <2>6
  <2>12. \A i \in 1..Len(queue') : queue'[i] = out' + i
    BY <1>2 DEF Piped
  <2>. QED
    BY <2>7, <2>8, <2>9, <2>10, <2>11, <2>12 DEF Piped
<1>15. Unwritten(w + 1, b)'
  <2>1. w + 1 + Len(batch') = w + Len(batch)
    BY <1>1, <1>3
  <2>2. ASSUME NEW i \in 1..Len(batch')
        PROVE  batch'[i] = (w + 1) + i
    <3>1. i + 1 \in 1..Len(batch) /\ i \in 1..Len(batch) - 1 /\ w + (i + 1) = (w + 1) + i
      BY <1>3
    <3>. QED
      BY <1>3, <3>1 DEF Unwritten
  <2>. QED
    BY <1>2, <2>1, <2>2 DEF Unwritten
<1>16. Ahead(w + 1, b)'
  <2>1. w + 1 + Len(batch') = w + Len(batch)
    BY <1>1, <1>3
  <2>. QED
    BY <1>2, <2>1 DEF Ahead, Seen, First
<1>17. Leaving(w + 1)'
  <2>1. shell = "leaving" => impatient
    BY <1>2 DEF Leaving
  <2>2. ASSUME NEW i \in 1..Len(fromRust'), fromRust'[i].line = "exited"
        PROVE  shell = "gone" /\ impatient
    <3>1. i + 0 <= Len(fromRust)
      BY <1>7, <1>5, <2>2 DEF Moved
    <3>2. i \in 1..Len(fromRust) /\ fromRust'[i] = fromRust[i]
      BY <1>7, <3>1 DEF Moved
    <3>. QED
      BY <1>2, <2>2, <3>2 DEF Leaving
  <2>. QED
    BY <1>2, <2>1, <2>2, Zenon DEF Leaving
<1>18. Chained' /\ Addressed' /\ Showing' /\ Acked'
  BY <1>2 DEF Chained, First, After, Addressed, Showing, Seen, Acked, Asks
<1>19. Exited'
  BY <1>2 DEF Exited
<1>20. Spawning'
  <2>1. ~Silent
    BY <1>2 DEF Silent
  <2>. QED
    BY <1>2, <1>7, <1>8, <2>1, SpawningKept
<1>. QED
  BY <1>10, <1>11, <1>12, <1>13, <1>14, <1>15, <1>16, <1>17, <1>18, <1>19, <1>20

LEMMA ReportStep ==
    ASSUME NEW w \in Nat, NEW b \in Nat, Inv(w, b), Report
    PROVE  Inv(w, b)'
<1> USE DEF Inv
<1>1. /\ shell = "leaving" /\ shell' = "gone"
      /\ fromRust' = Append(fromRust, [line |-> "exited"])
      /\ UNCHANGED <<made, held, frames, emitted, delivered, gate,
                       shut, batch, batchEnd, impatient, toRust,
                       status, current, reclaimed, consumer, timer, waits,
                       ackedThrough, queue, out, page, bound, events,
                       shown, timeouts>>
  BY DEF Report, pipe, sidecar, record, view
<1> DEFINE x == [line |-> "exited"]
<1>2. x \in Lines /\ x.line = "exited"
  BY DEF Lines
<1> HIDE DEF x
<1>3. fromRust' = Append(fromRust, x) /\ fromRust \in Seq(Lines)
  BY <1>1 DEF x, Shapes
<1>4. /\ fromRust' \in Seq(Lines) /\ Moved(fromRust, fromRust', 0, {x})
      /\ \A y \in {x} : y.line # "attached" /\ y.line # "frame"
  BY <1>2, <1>3, AddMoved
<1>5. Moved(toRust, toRust', 0, {})
  BY <1>1, StaysMoved DEF Shapes
<1>6. out' + Len(queue') = out + Len(queue) /\ \A i \in 1..Len(queue') : queue'[i] = out' + i
  BY <1>1 DEF Piped
<1>7. consumer' = consumer /\ page' \in Nat /\ page <= page'
  BY <1>1, Facts
<1>8. Shapes'
  BY <1>1, <1>4 DEF Shapes
<1>9. Announced'
  BY <1>4, <1>7, PagesNamed, AnnouncedKept
<1>10. Asked'
  BY <1>4, <1>5, <1>7, AskedKept
<1>11. Piped(w)'
  BY <1>4, <1>6, <1>1, PipedKept DEF Kept
<1>12. Spawning'
  BY <1>1, <1>4, <1>5, SpawningKept DEF Silent
<1>13. Exited'
  <2>1. status # "exited"
    BY <1>1 DEF Exited
  <2>. QED
    BY <1>1, <2>1, Zenon DEF Exited
<1>14. Leaving(w)'
  <2>1. /\ Len(fromRust') = Len(fromRust) + 1 /\ Len(fromRust) \in Nat
        /\ fromRust'[Len(fromRust) + 1] = x
        /\ \A j \in 1..Len(fromRust) : fromRust'[j] = fromRust[j]
    BY <1>2, <1>3, Added
  <2>2. \A i \in 1..Len(fromRust) : fromRust[i].line # "exited"
    BY <1>1 DEF Leaving
  <2>3. ~impatient => batch = <<>> /\ w = made
    BY <1>1 DEF Leaving
  <2>4. \A i \in 1..Len(fromRust') : fromRust'[i].line = "exited" => i = Len(fromRust) + 1
    <3>1. \A i \in 1..Len(fromRust) + 1 : i = Len(fromRust) + 1 \/ i \in 1..Len(fromRust)
      BY <2>1
    <3>. QED
      BY <2>1, <2>2, <3>1
  <2>5. \A j \in 1..Len(fromRust') : IsFrame(j)' => j < Len(fromRust) + 1
    <3>1. \A j \in 1..Len(fromRust) + 1 : j = Len(fromRust) + 1 \/ j < Len(fromRust) + 1
      BY <2>1
    <3>. QED
      BY <1>2, <2>1, <3>1 DEF IsFrame
  <2>6. \A i \in 1..Len(fromRust') : fromRust'[i].line = "exited" /\ ~impatient =>
           batch = <<>> /\ w = made /\ \A j \in 1..Len(fromRust') : IsFrame(j)' => j < i
    BY <2>3, <2>4, <2>5
  <2>. QED
    BY <1>1, <2>6, Zenon DEF Leaving
<1>15. Positions' /\ Chained' /\ Addressed' /\ Showing' /\ Unwritten(w, b)'
  BY <1>1 DEF Positions, Chained, First, After, Addressed, Showing, Seen, Unwritten
<1>16. Acked' /\ Ahead(w, b)'
  BY <1>1 DEF Acked, Asks, Seen, First, Ahead
<1>. QED
  BY <1>8, <1>9, <1>10, <1>11, <1>12, <1>13, <1>14, <1>15, <1>16

-----------------------------------------------------------------------------
(* The main loop of the system runtime.                                    *)

LEMMA SpawnStep ==
    ASSUME NEW w \in Nat, NEW b \in Nat, Inv(w, b), Spawn
    PROVE  Inv(w, b)'
<1> USE DEF Inv
<1>1. /\ shell = "none" /\ shell' = "alive"
      /\ fromRust' = fromRust \o <<[line |-> "running"]>>
      /\ UNCHANGED <<made, held, frames, emitted, delivered, gate,
                       shut, batch, batchEnd, impatient, toRust, status,
                       current, reclaimed, consumer, timer, waits,
                       ackedThrough, queue, out, page, bound, events,
                       shown, timeouts>>
  BY DEF Spawn, Say, sidecar, record, view
<1>2. toRust' \in Seq(Requests) /\ Moved(toRust, toRust', 0, {})
  BY <1>1, StaysMoved DEF Shapes
<1> DEFINE x == [line |-> "running"]
<1>3. /\ fromRust' \in Seq(Lines) /\ Moved(fromRust, fromRust', 0, {x})
      /\ \A y \in {x} : y.line # "frame" /\ y.line # "attached" /\ y.line # "exited"
  <2>1. x \in Lines /\ fromRust \in Seq(Lines)
    BY DEF Lines, Shapes
  <2>. QED
    BY <1>1, <2>1, OneSaid
<1> HIDE DEF x
<1>4. out' + Len(queue') = out + Len(queue) /\ \A i \in 1..Len(queue') : queue'[i] = out' + i
  BY <1>1 DEF Piped
<1>5. Seen \in Nat /\ Seen' = Seen /\ Seen <= Seen'
  BY <1>1, SeenIsNat DEF Seen, First
<1>6. consumer' = consumer /\ page' \in Nat /\ page <= page'
  BY <1>1, Facts
<1>7. Shapes'
  BY <1>1, <1>3, <1>2 DEF Shapes
<1>8. Announced'
  BY <1>3, <1>6, PagesNamed, AnnouncedKept
<1>9. Asked'
  BY <1>3, <1>2, <1>6, AskedKept
<1>10. Piped(w)'
  BY <1>3, <1>4, <1>1, PipedKept DEF Kept
<1>11. Acked'
  BY <1>2, <1>5, AckedKept
<1>12. Spawning'
  BY <1>1, <1>2, <1>3, SpawningKept DEF Silent
<1>13. Exited'
  BY <1>1, Zenon DEF Exited
<1>14. Leaving(w)'
  BY <1>1, <1>3, LeavingKept
<1>15. Positions' /\ Chained' /\ Addressed' /\ Showing' /\ Unwritten(w, b)'
  BY <1>1 DEF Positions, Chained, First, After, Addressed, Showing, Seen, Unwritten
<1>16. Ahead(w, b)'
  BY <1>1 DEF Ahead, Seen, First
<1>. QED
  BY <1>7, <1>8, <1>9, <1>10, <1>11, <1>12, <1>13, <1>14, <1>15, <1>16

LEMMA SpawnReplyStep ==
    ASSUME NEW w \in Nat, NEW b \in Nat, Inv(w, b), SpawnReply
    PROVE  Inv(w, b)'
<1> USE DEF Inv
<1>1. /\ Request("spawn")
      /\ fromRust' = fromRust \o <<[line |-> "spawned"]>>
      /\ UNCHANGED <<shell, made, held, frames, emitted, delivered,
                       gate, shut, batch, batchEnd, impatient,
                       status, current, reclaimed, consumer, timer, waits,
                       ackedThrough, queue, out, page, bound, events,
                       shown, timeouts>>
  BY DEF SpawnReply, Say, sidecar, record, view
<1>2. toRust' \in Seq(Requests) /\ Moved(toRust, toRust', 1, {})
  BY <1>1, Taken
<1> DEFINE x == [line |-> "spawned"]
<1>3. /\ fromRust' \in Seq(Lines) /\ Moved(fromRust, fromRust', 0, {x})
      /\ x.line = "spawned" /\ Len(fromRust') = Len(fromRust) + 1
      /\ \A y \in {x} : y.line # "frame" /\ y.line # "attached" /\ y.line # "exited"
  <2>1. x \in Lines /\ fromRust \in Seq(Lines)
    BY DEF Lines, Shapes
  <2>. QED
    BY <1>1, <2>1, OneSaid
<1> HIDE DEF x
<1>4. out' + Len(queue') = out + Len(queue) /\ \A i \in 1..Len(queue') : queue'[i] = out' + i
  BY <1>1 DEF Piped
<1>5. Seen \in Nat /\ Seen' = Seen /\ Seen <= Seen'
  BY <1>1, SeenIsNat DEF Seen, First
<1>6. consumer' = consumer /\ page' \in Nat /\ page <= page'
  BY <1>1, Facts
<1>7. Shapes'
  BY <1>1, <1>3, <1>2 DEF Shapes
<1>8. Announced'
  BY <1>3, <1>6, PagesNamed, AnnouncedKept
<1>9. Asked'
  BY <1>3, <1>2, <1>6, AskedKept
<1>10. Piped(w)'
  BY <1>3, <1>4, <1>1, PipedKept DEF Kept
<1>11. Acked'
  BY <1>2, <1>5, AckedKept
<1>12. Spawning'
  BY <1>1, <1>3, SpawningReplied
<1>13. Leaving(w)'
  <2>1. shell' = shell /\ impatient' = impatient /\ batch' = batch /\ made' = made
    BY <1>1
  <2>. QED
    BY <1>3, <2>1, LeavingKept
<1>14. Positions' /\ Chained' /\ Addressed' /\ Showing' /\ Unwritten(w, b)'
  BY <1>1 DEF Positions, Chained, First, After, Addressed, Showing, Seen, Unwritten
<1>15. Ahead(w, b)' /\ Exited'
  BY <1>1 DEF Ahead, Seen, First, Exited
<1>. QED
  BY <1>7, <1>8, <1>9, <1>10, <1>11, <1>12, <1>13, <1>14, <1>15

LEMMA SpawnErrorStep ==
    ASSUME NEW w \in Nat, NEW b \in Nat, Inv(w, b), SpawnError
    PROVE  Inv(w, b)'
<1> USE DEF Inv
<1>1. /\ Request("spawn")
      /\ fromRust' = fromRust \o <<[line |-> "notSpawned"]>>
      /\ UNCHANGED <<shell, made, held, frames, emitted, delivered,
                       gate, shut, batch, batchEnd, impatient,
                       status, current, reclaimed, consumer, timer, waits,
                       ackedThrough, queue, out, page, bound, events,
                       shown, timeouts>>
  BY DEF SpawnError, Say, sidecar, record, view
<1>2. toRust' \in Seq(Requests) /\ Moved(toRust, toRust', 1, {})
  BY <1>1, Taken
<1> DEFINE x == [line |-> "notSpawned"]
<1>3. /\ fromRust' \in Seq(Lines) /\ Moved(fromRust, fromRust', 0, {x})
      /\ x.line = "notSpawned" /\ Len(fromRust') = Len(fromRust) + 1
      /\ \A y \in {x} : y.line # "frame" /\ y.line # "attached" /\ y.line # "exited"
  <2>1. x \in Lines /\ fromRust \in Seq(Lines)
    BY DEF Lines, Shapes
  <2>. QED
    BY <1>1, <2>1, OneSaid
<1> HIDE DEF x
<1>4. out' + Len(queue') = out + Len(queue) /\ \A i \in 1..Len(queue') : queue'[i] = out' + i
  BY <1>1 DEF Piped
<1>5. Seen \in Nat /\ Seen' = Seen /\ Seen <= Seen'
  BY <1>1, SeenIsNat DEF Seen, First
<1>6. consumer' = consumer /\ page' \in Nat /\ page <= page'
  BY <1>1, Facts
<1>7. Shapes'
  BY <1>1, <1>3, <1>2 DEF Shapes
<1>8. Announced'
  BY <1>3, <1>6, PagesNamed, AnnouncedKept
<1>9. Asked'
  BY <1>3, <1>2, <1>6, AskedKept
<1>10. Piped(w)'
  BY <1>3, <1>4, <1>1, PipedKept DEF Kept
<1>11. Acked'
  BY <1>2, <1>5, AckedKept
<1>12. Spawning'
  BY <1>1, <1>3, SpawningReplied
<1>13. Leaving(w)'
  <2>1. shell' = shell /\ impatient' = impatient /\ batch' = batch /\ made' = made
    BY <1>1
  <2>. QED
    BY <1>3, <2>1, LeavingKept
<1>14. Positions' /\ Chained' /\ Addressed' /\ Showing' /\ Unwritten(w, b)'
  BY <1>1 DEF Positions, Chained, First, After, Addressed, Showing, Seen, Unwritten
<1>15. Ahead(w, b)' /\ Exited'
  BY <1>1 DEF Ahead, Seen, First, Exited
<1>. QED
  BY <1>7, <1>8, <1>9, <1>10, <1>11, <1>12, <1>13, <1>14, <1>15

LEMMA AttachStep ==
    ASSUME NEW w \in Nat, NEW b \in Nat, Inv(w, b), Attach
    PROVE  Inv(w, b)'
<1> USE DEF Inv
<1>1. /\ Request("attach") /\ gate' = (gate \/ Registered)
      /\ fromRust' = fromRust \o (IF Registered THEN <<[line |-> "attached", arg |-> Head(toRust).arg]>> ELSE <<>>)
      /\ UNCHANGED <<shell, made, held, frames, emitted, delivered,
                       shut, batch, batchEnd, impatient, status,
                       current, reclaimed, consumer, timer, waits,
                       ackedThrough, queue, out, page, bound, events,
                       shown, timeouts>>
  BY DEF Attach, Say, sidecar, record, view
<1>2. /\ toRust' \in Seq(Requests) /\ Moved(toRust, toRust', 1, {})
      /\ Head(toRust) = toRust[1] /\ 1 \in 1..Len(toRust) /\ Asks(1, "attach")
  BY <1>1, Taken
<1>3. PICK p \in Nat : p = toRust[1].arg
  BY <1>2, PagesNamed
<1>4. /\ consumer <= p /\ p <= page
      /\ \A j \in 1..Len(fromRust) : Attached(j) => fromRust[j].arg <= p
      /\ \A j \in 1..Len(toRust) : Asks(j, "attach") /\ 1 < j => p <= toRust[j].arg
  BY <1>2, <1>3 DEF Asked
<1> DEFINE x == [line |-> "attached", arg |-> p]
<1>5. x \in Lines /\ x.line = "attached" /\ x.arg = p
  BY DEF Lines
<1> HIDE DEF x
<1>6. fromRust' = fromRust \o <<x>> \/ fromRust' = fromRust \o <<>>
  BY <1>1, <1>2, <1>3, Zenon DEF x
<1>7. /\ fromRust' \in Seq(Lines) /\ Moved(fromRust, fromRust', 0, {x})
  <2>1. fromRust \in Seq(Lines)
    BY DEF Shapes
  <2>2. CASE fromRust' = fromRust \o <<x>>
    BY <1>5, <2>1, <2>2, OneSaid
  <2>3. CASE fromRust' = fromRust \o <<>>
    <3>1. fromRust' \in Seq(Lines) /\ Moved(fromRust, fromRust', 0, {})
      BY <2>1, <2>3, NothingSaid
    <3>. QED
      BY <3>1 DEF Moved
  <2>. QED
    BY <1>6, <2>2, <2>3
<1> HIDE DEF x
<1>8. Len(fromRust) \in Nat /\ Len(fromRust') \in Nat /\ Len(fromRust') <= Len(fromRust) + 1
  <2>1. fromRust \in Seq(Lines) /\ <<x>> \in Seq(Lines) /\ <<>> \in Seq(Lines) /\ Len(<<x>>) = 1 /\ Len(<<>>) = 0
    BY <1>5 DEF Shapes
  <2>2. Len(fromRust \o <<x>>) = Len(fromRust) + Len(<<x>>)
    BY <2>1, JoinedSeq
  <2>3. Len(fromRust \o <<>>) = Len(fromRust) + Len(<<>>)
    BY <2>1, JoinedSeq
  <2>4. Len(fromRust) \in Nat
    BY <2>1, LenProperties
  <2>. QED
    BY <1>6, <2>1, <2>2, <2>3, <2>4
<1>9. ASSUME NEW j \in 1..Len(fromRust'), Attached(j)'
       PROVE  \/ j = Len(fromRust) + 1 /\ fromRust'[j].arg = p
              \/ /\ j \in 1..Len(fromRust) /\ Attached(j) /\ fromRust'[j] = fromRust[j]
                 /\ fromRust'[j].arg \in Nat
  <2>1. CASE j \in 1..Len(fromRust)
    <3>1. fromRust'[j] = fromRust[j]
      BY <1>7, <1>8, <2>1 DEF Moved
    <3>2. Attached(j)
      BY <1>9, <2>1, <3>1 DEF Attached
    <3>. QED
      BY <2>1, <3>1, <3>2, PagesNamed
  <2>2. CASE j = Len(fromRust) + 1
    <3>1. fromRust'[j] = x
      BY <1>7, <1>8, <2>2 DEF Moved
    <3>. QED
      BY <1>5, <2>2, <3>1
  <2>. QED
    BY <1>8, <2>1, <2>2
<1>10. /\ consumer' = consumer /\ page' = page /\ consumer \in Nat /\ page \in Nat
  BY <1>1, Facts
<1>11. out' + Len(queue') = out + Len(queue) /\ \A i \in 1..Len(queue') : queue'[i] = out' + i
  BY <1>1 DEF Piped
<1>12. Seen \in Nat /\ Seen' = Seen /\ Seen <= Seen'
  BY <1>1, SeenIsNat DEF Seen, First
<1>13. Shapes'
  <2>1. gate' \in BOOLEAN
    <3>1. gate \in BOOLEAN /\ Registered \in BOOLEAN
      BY DEF Shapes, Registered
    <3>. QED
      BY <1>1, <3>1, Zenon
  <2>. QED
    BY <1>1, <1>7, <1>2, <2>1 DEF Shapes
<1>14. Announced'
  <2>1. \A j \in 1..Len(fromRust') : Attached(j)' => consumer <= fromRust'[j].arg /\ fromRust'[j].arg <= page
    BY <1>4, <1>9 DEF Announced
  <2>2. ASSUME NEW i \in 1..Len(fromRust'), NEW j \in 1..Len(fromRust'), Attached(i)', Attached(j)', i < j
        PROVE  fromRust'[i].arg <= fromRust'[j].arg
    <3>1. i \in 1..Len(fromRust) /\ Attached(i) /\ fromRust'[i] = fromRust[i]
      BY <1>8, <1>9, <2>2
    <3>2. CASE fromRust'[j].arg = p
      BY <1>4, <3>1, <3>2
    <3>3. CASE j \in 1..Len(fromRust) /\ Attached(j) /\ fromRust'[j] = fromRust[j]
      BY <2>2, <3>1, <3>3 DEF Announced
    <3>. QED
      BY <1>9, <2>2, <3>2, <3>3
  <2>. QED
    BY <1>10, <2>1, <2>2 DEF Announced
<1>15. Asked'
  <2>1. /\ Len(toRust) \in Nat /\ Len(toRust') \in Nat
        /\ \A i \in 1..Len(toRust') : i + 1 \in 1..Len(toRust) /\ toRust'[i] = toRust[i + 1]
    <3>1. /\ Len(toRust) \in Nat /\ Len(toRust') \in Nat /\ 1 <= Len(toRust)
          /\ \A i \in 1..Len(toRust') : i + 1 <= Len(toRust) => toRust'[i] = toRust[i + 1]
          /\ \A i \in 1..Len(toRust') : i + 1 > Len(toRust) => FALSE
      BY <1>2 DEF Moved
    <3>. QED
      BY <3>1
  <2>2. ASSUME NEW i \in 1..Len(toRust'), Asks(i, "attach")'
        PROVE  /\ i + 1 \in 1..Len(toRust) /\ Asks(i + 1, "attach") /\ toRust'[i] = toRust[i + 1]
               /\ p <= toRust'[i].arg
    <3>1. i + 1 \in 1..Len(toRust) /\ toRust'[i] = toRust[i + 1] /\ 1 < i + 1
      BY <2>1
    <3>2. Asks(i + 1, "attach")
      BY <2>2, <3>1 DEF Asks
    <3>. QED
      BY <1>4, <3>1, <3>2
  <2>3. \A i \in 1..Len(toRust') :
           Asks(i, "attach")' => consumer <= toRust'[i].arg /\ toRust'[i].arg <= page
    BY <2>2 DEF Asked
  <2>4. ASSUME NEW i \in 1..Len(toRust'), NEW j \in 1..Len(toRust'),
               Asks(i, "attach")', Asks(j, "attach")', i < j
        PROVE  toRust'[i].arg <= toRust'[j].arg
    <3>1. i + 1 < j + 1
      BY <2>1, <2>4
    <3>. QED
      BY <2>2, <2>4, <3>1 DEF Asked
  <2>5. ASSUME NEW i \in 1..Len(toRust'), NEW j \in 1..Len(fromRust'), Asks(i, "attach")', Attached(j)'
        PROVE  fromRust'[j].arg <= toRust'[i].arg
    <3>1. CASE fromRust'[j].arg = p
      BY <2>2, <2>5, <3>1
    <3>2. CASE j \in 1..Len(fromRust) /\ Attached(j) /\ fromRust'[j] = fromRust[j]
      BY <2>2, <2>5, <3>2 DEF Asked
    <3>. QED
      BY <1>9, <2>5, <3>1, <3>2
  <2>. QED
    BY <1>10, <2>3, <2>4, <2>5 DEF Asked
<1>16. Piped(w)'
  <2>1. \A y \in {x} : y.line # "frame"
    BY <1>5
  <2>2. Kept' => Kept
    BY <1>1 DEF Kept
  <2>. QED
    BY <1>7, <1>11, <2>1, <2>2, PipedKept
<1>17. Acked'
  BY <1>2, <1>12, AckedKept
<1>18. Spawning'
  <2>1. ~Asks(1, "spawn")
    BY <1>2 DEF Asks
  <2>2. waits' = waits
    BY <1>1
  <2>. QED
    BY <1>2, <1>7, <2>1, <2>2, SpawningKept
<1>19. Leaving(w)'
  <2>1. \A y \in {x} : y.line # "frame" /\ y.line # "exited"
    BY <1>5
  <2>2. shell' = shell /\ impatient' = impatient /\ batch' = batch /\ made' = made
    BY <1>1
  <2>. QED
    BY <1>7, <2>1, <2>2, LeavingKept
<1>20. Positions' /\ Chained' /\ Addressed' /\ Showing' /\ Unwritten(w, b)'
  BY <1>1 DEF Positions, Chained, First, After, Addressed, Showing, Seen, Unwritten
<1>21. Ahead(w, b)' /\ Exited'
  BY <1>1 DEF Ahead, Seen, First, Exited
<1>. QED
  BY <1>13, <1>14, <1>15, <1>16, <1>17, <1>18, <1>19, <1>20, <1>21

\* What an acknowledgement releases was handed to the sender and is named by it.
LEMMA ReleasedIs ==
    ASSUME NEW b \in Nat, NEW t \in Nat, emitted \in Nat, \A i \in 1..emitted : frames[i] = b + i
    PROVE  /\ Released(t) \in Nat /\ Released(t) <= emitted
           /\ Released(t) = 0 \/ b + Released(t) <= t
<1> DEFINE S == {i \in 1..emitted : \A j \in 1..i : frames[j] <= t}
<1>1. S = {i \in 1..emitted : b + i <= t}
  <2>1. ASSUME NEW i \in 1..emitted
        PROVE  (\A j \in 1..i : frames[j] <= t) <=> b + i <= t
    <3>1. \A j \in 1..i : j \in 1..emitted /\ b + j <= b + i
      OBVIOUS
    <3>2. i \in 1..i
      OBVIOUS
    <3>3. frames[i] = b + i
      OBVIOUS
    <3>4. ASSUME b + i <= t, NEW j \in 1..i
          PROVE  frames[j] <= t
      <4>1. frames[j] = b + j
        BY <3>1
      <4>. QED
        BY <3>1, <3>4, <4>1
    <3>. QED
      BY <3>2, <3>3, <3>4
  <2>. QED
    BY <2>1
<1>2. PICK k \in Nat : S = 1..k /\ k <= emitted /\ (k = 0 \/ b + k <= t)
  <2>1. CASE b + emitted <= t
    <3>1. S = 1..emitted
      BY <1>1, <2>1
    <3>. QED
      BY <2>1, <3>1
  <2>2. CASE t < b
    <3>1. S = 1..0
      BY <1>1, <2>2
    <3>. QED
      BY <3>1
  <2>3. CASE ~(b + emitted <= t) /\ ~(t < b)
    <3>1. t - b \in Nat /\ t - b <= emitted /\ b + (t - b) = t
      BY <2>3
    <3>2. S = 1..(t - b)
      BY <1>1, <3>1
    <3>. QED
      BY <3>1, <3>2
  <2>. QED
    BY <2>1, <2>2, <2>3
<1>3. Cardinality(1..k) = k
  BY FS_Interval
<1>. QED
  BY <1>2, <1>3 DEF Released

LEMMA AckStep ==
    ASSUME NEW w \in Nat, NEW b \in Nat, Inv(w, b), Ack
    PROVE  \E c \in Nat : Inv(w, c)'
<1> USE DEF Inv
<1>1. /\ emitted \in Nat /\ delivered \in Nat /\ delivered <= emitted /\ Len(frames) \in Nat
      /\ emitted <= Len(frames) /\ Len(batch) \in Nat /\ Window \in Nat
  BY Facts DEF Shapes
<1>2. /\ Request("ack") /\ toRust' \in Seq(Requests) /\ Moved(toRust, toRust', 1, {})
      /\ Head(toRust) = toRust[1] /\ 1 \in 1..Len(toRust) /\ Asks(1, "ack")
  BY Taken DEF Ack
<1>3. Seen \in Nat /\ Seen <= out /\ Seen' = Seen /\ Seen <= Seen'
  BY SeenIsNat DEF Seen, First, Ack, record, view
<1>4. PICK t \in Nat : t = Head(toRust).arg /\ t <= Seen
  BY <1>2, PagesNamed DEF Acked
<1>5. PICK n : n = IF Registered THEN Released(t) ELSE 0
  OBVIOUS
<1>6. /\ frames' = SubSeq(frames, n + 1, Len(frames)) /\ emitted' = emitted - n
      /\ delivered' = IF delivered < n THEN 0 ELSE delivered - n
      /\ UNCHANGED <<shell, made, held, gate, shut, batch, batchEnd, impatient, fromRust, status,
                     current, reclaimed, consumer, timer, waits, ackedThrough, queue, out, page, bound,
                     events, shown, timeouts>>
  <2>. HIDE DEF Inv
  <2>. QED
    BY <1>4, <1>5, Zenon DEF Ack, record, view
<1>7. /\ n \in Nat /\ n <= emitted
      /\ n = 0 \/ (~shut /\ b + n <= t)
  <2>1. CASE Registered
    <3>1. ~shut
      BY <2>1 DEF Registered
    <3>2. \A i \in 1..emitted : frames[i] = b + i
      <4>1. \A i \in 1..emitted : i \in 1..Len(frames)
        BY <1>1
      <4>. QED
        BY <3>1, <4>1 DEF Unwritten
    <3>3. n = Released(t)
      BY <1>5, <2>1
    <3>. QED
      BY <1>1, <3>1, <3>2, <3>3, ReleasedIs
  <2>2. CASE ~Registered
    BY <1>1, <1>5, <2>2
  <2>. QED
    BY <2>1, <2>2
<1>8. /\ frames' \in Seq(Frames) /\ Len(frames') = Len(frames) - n
      /\ \A j \in 1..Len(frames) - n : frames'[j] = frames[n + j]
  <2>1. frames \in Seq(Frames) /\ n <= Len(frames)
    BY <1>1, <1>7 DEF Shapes
  <2>2. n \in Nat /\ Len(frames) \in Nat /\ Len(frames) <= Len(frames)
    BY <1>1, <1>7
  <2>3. /\ SubSeq(frames, n + 1, Len(frames)) \in Seq(Frames)
        /\ Len(SubSeq(frames, n + 1, Len(frames))) = Len(frames) - n
        /\ \A j \in 1..Len(frames) - n : SubSeq(frames, n + 1, Len(frames))[j] = frames[n + j]
    BY <2>1, <2>2, Sliced
  <2>. QED
    BY <1>6, <2>3
<1>9. emitted' \in Nat /\ delivered' \in Nat /\ delivered' <= emitted' /\ emitted' <= Len(frames')
  BY <1>1, <1>6, <1>7, <1>8
\* What is not yet written is not yet seen, and so it is not released.
<1>10. ~shut => n + Len(batch) <= emitted
  <2>1. out <= w
    <3>1. out \in Nat /\ Len(queue) \in Nat
      BY Facts
    <3>2. out + Len(queue) <= w
      BY DEF Piped
    <3>. QED
      BY <3>1, <3>2
  <2>2. CASE n = 0 /\ ~shut
    <3>1. delivered + Len(batch) <= emitted
      BY <2>2 DEF Positions
    <3>. QED
      BY <1>1, <2>2, <3>1
  <2>3. CASE n # 0 /\ ~shut
    <3>1. b + n <= w
      <4>1. out \in Nat /\ t <= out
        <5>1. out \in Nat
          BY Facts
        <5>. QED
          BY <1>3, <1>4, <5>1
      <4>2. b + n <= t /\ n \in Nat
        BY <1>7, <2>3
      <4>. QED
        BY <2>1, <4>1, <4>2
    <3>2. b + emitted = w + Len(batch)
      BY <2>3 DEF Unwritten
    <3>. QED
      BY <1>1, <1>7, <3>1, <3>2
  <2>. QED
    BY <2>2, <2>3
<1>11. Shapes'
  <2>1. /\ frames' \in Seq(Frames) /\ toRust' \in Seq(Requests)
        /\ emitted' \in Nat /\ delivered' \in Nat /\ delivered' <= emitted' /\ emitted' <= Len(frames')
    BY <1>2, <1>8, <1>9
  <2>2. UNCHANGED <<shell, made, held, gate, shut, batch, batchEnd, impatient, fromRust, status,
                   current, reclaimed, consumer, timer, waits, ackedThrough, queue, out, page, bound,
                   events, shown, timeouts>>
    BY <1>6
  <2>. QED
    BY <2>1, <2>2 DEF Shapes
<1>12. Positions'
  <2>1. batchEnd' = 0 => batch' = <<>>
    BY <1>6 DEF Positions
  <2>2. shut' => frames' = <<>> /\ emitted' = 0 /\ ~held'
    <3>1. SUFFICES ASSUME shut
                   PROVE  frames' = <<>> /\ emitted' = 0 /\ ~held'
      BY <1>6
    <3>2. frames = <<>> /\ emitted = 0 /\ ~held /\ n = 0
      BY <1>7, <3>1 DEF Positions
    <3>3. Len(frames) = 0
      BY <3>2
    <3>4. Len(frames') = 0
      BY <1>8, <3>2, <3>3
    <3>5. frames' = <<>>
      BY <1>8, <3>4, EmptySeq
    <3>. QED
      BY <1>6, <3>2, <3>5
  <2>3. ASSUME ~shut
        PROVE  delivered' + Len(batch) <= emitted' /\ Len(frames') <= Window + 1
    <3>1. delivered + Len(batch) <= emitted /\ Len(frames) <= Window + 1
      BY <2>3 DEF Positions
    <3>2. Len(frames') <= Window + 1
      BY <1>1, <1>7, <1>8, <3>1
    <3>3. delivered' + Len(batch) <= emitted'
      BY <1>1, <1>6, <1>7, <1>10, <2>3, <3>1
    <3>. QED
      BY <3>2, <3>3
  <2>. QED
    BY <1>6, <2>1, <2>2, <2>3 DEF Positions
<1>13. Unwritten(w, b + n)'
  <2>1. w + Len(batch) <= made /\ \A i \in 1..Len(batch) : batch[i] = w + i
    BY DEF Unwritten
  <2>2. ASSUME ~shut
        PROVE  /\ (b + n) + emitted' = w + Len(batch)
               /\ \A i \in 1..Len(frames') : frames'[i] = (b + n) + i
               /\ (held => made = (b + n) + Len(frames') + 1) /\ (~held => made = (b + n) + Len(frames'))
    <3>1. /\ b + emitted = w + Len(batch) /\ \A i \in 1..Len(frames) : frames[i] = b + i
          /\ (held => made = b + Len(frames) + 1) /\ (~held => made = b + Len(frames))
      BY <2>2 DEF Unwritten
    <3>2. (b + n) + emitted' = b + emitted /\ (b + n) + Len(frames') = b + Len(frames)
      <4>1. emitted' = emitted - n /\ Len(frames') = Len(frames) - n
        BY <1>6, <1>8
      <4>2. (b + n) + (emitted - n) = b + emitted /\ (b + n) + (Len(frames) - n) = b + Len(frames)
        BY <1>1, <1>7
      <4>. QED
        BY <4>1, <4>2
    <3>3. ASSUME NEW i \in 1..Len(frames')
          PROVE  frames'[i] = (b + n) + i
      <4>1. i \in 1..Len(frames) - n /\ n + i \in 1..Len(frames) /\ b + (n + i) = (b + n) + i
        BY <1>1, <1>7, <1>8
      <4>. QED
        BY <1>8, <3>1, <4>1
    <3>. QED
      BY <3>1, <3>2, <3>3
  <2>3. batch' = batch /\ made' = made /\ shut' = shut /\ held' = held
    BY <1>6
  <2>. QED
    BY <2>1, <2>2, <2>3 DEF Unwritten
<1>14. Ahead(w, b + n)'
  <2>1. ~shut => b + n <= Seen
    <3>1. n = 0 => b + n = b
      OBVIOUS
    <3>2. ~shut => b <= Seen
      BY DEF Ahead
    <3>3. n # 0 => b + n <= Seen
      BY <1>3, <1>4, <1>7
    <3>. QED
      BY <3>1, <3>2, <3>3
  <2>2. w + Len(batch) <= Seen + Window + 1
    BY DEF Ahead
  <2>3. batch' = batch /\ shut' = shut
    BY <1>6
  <2>. QED
    BY <1>3, <2>1, <2>2, <2>3 DEF Ahead
<1>15. Chained' /\ Addressed' /\ Showing' /\ Exited'
  BY <1>6 DEF Chained, First, After, Addressed, Showing, Seen, Exited
<1>16. Announced' /\ Piped(w)' /\ Leaving(w)'
  BY <1>6 DEF Announced, Attached, Piped, IsFrame, Kept, Leaving
<1>17. Moved(fromRust, fromRust', 0, {})
  BY <1>6, StaysMoved DEF Shapes
<1>18. consumer' = consumer /\ page' \in Nat /\ page <= page'
  BY <1>6, Facts
<1>19. Asked'
  BY <1>17, <1>2, <1>18, AskedKept
<1>20. Acked'
  BY <1>2, <1>3, AckedKept
<1>21. Spawning'
  <2>1. ~Asks(1, "spawn")
    BY <1>2 DEF Asks
  <2>. QED
    BY <1>6, <1>2, <1>17, <2>1, SpawningKept
<1>22. b + n \in Nat
  BY <1>7
<1>. QED
  BY <1>11, <1>12, <1>13, <1>14, <1>15, <1>16, <1>19, <1>20, <1>21, <1>22

LEMMA CloseSessionStep ==
    ASSUME NEW w \in Nat, NEW b \in Nat, Inv(w, b), CloseSession
    PROVE  Inv(w, b)'
<1> USE DEF Inv
<1>1. /\ Request("close")
      /\ \/ /\ ~shut /\ shell # "none" /\ shut' /\ shut' \in BOOLEAN
            /\ shell' = shell \/ shell' = "gone"
            /\ ~held' /\ held' \in BOOLEAN /\ frames' = <<>> /\ emitted' = 0 /\ delivered' = 0
            /\ fromRust' = fromRust \o <<[line |-> "closed"], [line |-> "reaped", arg |-> Head(toRust).arg]>>
         \/ /\ UNCHANGED <<shut, shell, held, frames, emitted, delivered>>
            /\ fromRust' = fromRust \o <<[line |-> "reaped", arg |-> Head(toRust).arg]>>
      /\ UNCHANGED <<made, gate, batch, batchEnd, impatient,
                       status, current, reclaimed, consumer, timer, waits,
                       ackedThrough, queue, out, page, bound, events,
                       shown, timeouts>>
  <2>. HIDE DEF Inv
  <2>1. CASE Registered
    <3>1. /\ ~shut /\ shell # "none"
      BY <2>1 DEF Registered
    <3>2. /\ shut' = TRUE /\ held' = FALSE /\ frames' = <<>> /\ emitted' = 0 /\ delivered' = 0
          /\ shell' = IF shell = "leaving" THEN shell ELSE "gone"
          /\ fromRust' = fromRust \o <<[line |-> "closed"], [line |-> "reaped", arg |-> Head(toRust).arg]>>
      BY <2>1, Zenon DEF CloseSession, Say
    <3>3. Request("close") /\ UNCHANGED <<made, gate, batch, batchEnd, impatient, record, view, timeouts>>
      BY DEF CloseSession
    <3>. QED
      BY <3>1, <3>2, <3>3, Zenon DEF record, view
  <2>2. CASE ~Registered
    BY <2>2, Zenon DEF CloseSession, Say, record, view
  <2>. QED
    BY <2>1, <2>2
<1>2. /\ toRust' \in Seq(Requests) /\ Moved(toRust, toRust', 1, {})
      /\ Head(toRust) = toRust[1] /\ toRust[1] \in Requests /\ Asks(1, "close")
  BY <1>1, Taken
<1>3. toRust[1].arg \in {"quiet", "user"}
  BY <1>2 DEF Asks, Requests
<1> DEFINE x == [line |-> "closed"]
           y == [line |-> "reaped", arg |-> Head(toRust).arg]
<1>4. /\ x \in Lines /\ x.line # "frame" /\ x.line # "attached" /\ x.line # "exited"
      /\ y \in Lines /\ y.line # "frame" /\ y.line # "attached" /\ y.line # "exited"
  BY <1>2, <1>3 DEF Lines
<1>5. fromRust' = fromRust \o <<x, y>> \/ fromRust' = fromRust \o <<y>>
  BY <1>1, Zenon
<1>6. PICK N : /\ fromRust' \in Seq(Lines) /\ Moved(fromRust, fromRust', 0, N)
               /\ \A z \in N : z.line # "frame" /\ z.line # "attached" /\ z.line # "exited"
  <2>. HIDE DEF x, y
  <2>1. fromRust \in Seq(Lines)
    BY DEF Shapes
  <2>2. CASE fromRust' = fromRust \o <<x, y>>
    <3>1. fromRust' \in Seq(Lines) /\ Moved(fromRust, fromRust', 0, {x, y})
      BY <1>4, <2>1, <2>2, TwoSaid
    <3>2. \A z \in {x, y} : z.line # "frame" /\ z.line # "attached" /\ z.line # "exited"
      BY <1>4
    <3>. QED
      BY <3>1, <3>2
  <2>3. CASE fromRust' = fromRust \o <<y>>
    <3>1. fromRust' \in Seq(Lines) /\ Moved(fromRust, fromRust', 0, {y})
      BY <1>4, <2>1, <2>3, OneSaid
    <3>2. \A z \in {y} : z.line # "frame" /\ z.line # "attached" /\ z.line # "exited"
      BY <1>4
    <3>. QED
      BY <3>1, <3>2
  <2>. QED
    BY <1>5, <2>2, <2>3
<1>7. /\ shut' \in BOOLEAN /\ held' \in BOOLEAN
      /\ shell' = shell \/ shell' = "gone"
      /\ shell' # shell => shell # "none"
      /\ ~shut' => ~shut /\ frames' = frames /\ emitted' = emitted /\ held' = held /\ delivered' = delivered
      /\ shut' => frames' = <<>> /\ emitted' = 0 /\ ~held'
  <2>1. /\ shut \in BOOLEAN /\ held \in BOOLEAN
        /\ shut => frames = <<>> /\ emitted = 0 /\ ~held
    BY DEF Shapes, Positions
  <2>. HIDE DEF Inv
  <2>2. CASE /\ ~shut /\ shell # "none" /\ shut' /\ shut' \in BOOLEAN
             /\ shell' = shell \/ shell' = "gone"
             /\ ~held' /\ held' \in BOOLEAN /\ frames' = <<>> /\ emitted' = 0 /\ delivered' = 0
    BY <2>2, Zenon
  <2>3. CASE UNCHANGED <<shut, shell, held, frames, emitted, delivered>>
    BY <2>1, <2>3, Zenon
  <2>. QED
    BY <1>1, <2>2, <2>3, Zenon
<1>8. out' + Len(queue') = out + Len(queue) /\ \A i \in 1..Len(queue') : queue'[i] = out' + i
  BY <1>1 DEF Piped
<1>9. Seen \in Nat /\ Seen' = Seen /\ Seen <= Seen'
  BY <1>1, SeenIsNat DEF Seen, First
<1>10. consumer' = consumer /\ page' \in Nat /\ page <= page'
  BY <1>1, Facts
<1>11. Shapes'
  <2>1. /\ frames' \in Seq(Frames) /\ emitted' \in Nat /\ delivered' \in Nat
        /\ delivered' <= emitted' /\ emitted' <= Len(frames')
    <3>1. CASE emitted' = 0 /\ delivered' = 0 /\ frames' = <<>>
      BY <3>1
    <3>2. CASE UNCHANGED <<frames, emitted, delivered>>
      BY <3>2 DEF Shapes
    <3>. QED
      BY <1>1, <3>1, <3>2
  <2>2. shell' \in {"none", "alive", "ended", "leaving", "gone"}
    BY <1>7 DEF Shapes
  <2>. QED
    BY <1>1, <1>6, <1>2, <1>7, <2>1, <2>2 DEF Shapes
<1>12. Positions'
  BY <1>1, <1>7 DEF Positions
<1>13. Announced'
  BY <1>6, <1>10, PagesNamed, AnnouncedKept
<1>14. Asked'
  BY <1>6, <1>2, <1>10, AskedKept
<1>15. Piped(w)'
  BY <1>6, <1>8, <1>1, PipedKept DEF Kept
<1>16. Unwritten(w, b)'
  BY <1>1, <1>7 DEF Unwritten
<1>17. Acked'
  BY <1>2, <1>9, AckedKept
<1>18. Ahead(w, b)'
  BY <1>1, <1>9, <1>7 DEF Ahead
<1>19. Spawning'
  <2>1. ~Asks(1, "spawn")
    BY <1>2 DEF Asks
  <2>2. waits' = waits
    BY <1>1
  <2>. QED
    BY <1>2, <1>6, <2>1, <2>2, SpawningKept
<1>20. Exited'
  <2>1. shell = "gone" => shell' = "gone"
    BY <1>7
  <2>. QED
    BY <1>1, <2>1, Zenon DEF Exited
<1>21. Leaving(w)'
  <2>1. impatient' = impatient /\ batch' = batch /\ made' = made
    BY <1>1
  <2>. QED
    BY <1>6, <1>7, <2>1, LeavingKept
<1>22. Chained' /\ Addressed' /\ Showing'
  BY <1>1 DEF Chained, First, After, Addressed, Showing, Seen
<1>. QED
  BY <1>11, <1>12, <1>13, <1>14, <1>15, <1>16, <1>17, <1>18, <1>19, <1>20, <1>21, <1>22

-----------------------------------------------------------------------------
(* The Runtime.                                                            *)

LEMMA OnStaleStep ==
    ASSUME NEW w \in Nat, NEW b \in Nat, Inv(w, b), OnStale
    PROVE  Inv(w, b)'
<1> USE DEF Inv
<1>1. PICK name \in {"frame", "running", "exited", "closed"} : Line(name)
  BY DEF OnStale
<1>2. /\ ~current
      /\ UNCHANGED <<shell, made, held, frames, emitted, delivered,
                       gate, shut, batch, batchEnd, impatient,
                       toRust, status, current, reclaimed, consumer, timer, waits,
                       ackedThrough, queue, out, page, bound, events,
                       shown, timeouts>>
  BY DEF OnStale, sidecar, record, view
<1>3. /\ fromRust' \in Seq(Lines) /\ Moved(fromRust, fromRust', 1, {})
      /\ 1 \in 1..Len(fromRust) /\ fromRust[1].line = name
  BY <1>1, Heard
<1>4. Moved(toRust, toRust', 0, {})
  BY <1>2, StaysMoved DEF Shapes
<1>5. out' + Len(queue') = out + Len(queue) /\ \A i \in 1..Len(queue') : queue'[i] = out' + i
  BY <1>2 DEF Piped
<1>6. consumer' = consumer /\ page' \in Nat /\ page <= page'
  BY <1>2, Facts
<1>7. Shapes'
  BY <1>2, <1>3 DEF Shapes
<1>8. Announced'
  BY <1>3, <1>6, PagesNamed, AnnouncedKept
<1>9. Asked'
  BY <1>3, <1>4, <1>6, AskedKept
\* A frame comes behind the reply to the spawn: the Runtime does not wait for it.
<1>10. Piped(w)'
  <2>1. fromRust[1].line = "frame" => "spawn" \notin waits
    <3>1. SUFFICES ASSUME IsFrame(1), "spawn" \in waits PROVE FALSE
      BY <1>3 DEF IsFrame
    <3>2. ~Silent
      BY <1>3, <3>1 DEF Silent
    <3>3. PICK i \in 1..Len(fromRust) : Replied(i)
      BY <3>1, <3>2 DEF Spawning
    <3>4. i # 1
      BY <3>1, <3>3 DEF Replied, IsFrame
    <3>5. 1 \in 1..i - 1
      BY <3>4
    <3>. QED
      BY <3>1, <3>3, <3>5 DEF Replied
  <2>2. Kept' => Kept
    BY <1>2 DEF Kept
  <2>3. fromRust[1].line # "frame" \/ ~Kept'
    BY <1>2, <2>1 DEF Kept
  <2>. QED
    BY <1>3, <1>5, <2>2, <2>3, PipedKept
<1>11. Spawning'
  <2>1. (~gate' /\ batch' = <<>>) \/ ~Silent
    BY <1>2 DEF Silent
  <2>2. waits' = waits
    BY <1>2
  <2>. QED
    BY <1>3, <1>4, <2>1, <2>2, SpawningKept
<1>12. Leaving(w)'
  <2>1. shell' = shell /\ impatient' = impatient /\ batch' = batch /\ made' = made
    BY <1>2
  <2>. QED
    BY <1>3, <2>1, LeavingKept
<1>13. Positions' /\ Chained' /\ Addressed' /\ Showing' /\ Unwritten(w, b)'
  BY <1>2 DEF Positions, Chained, First, After, Addressed, Showing, Seen, Unwritten
<1>14. Acked' /\ Ahead(w, b)' /\ Exited'
  BY <1>2 DEF Acked, Asks, Seen, First, Ahead, Exited
<1>. QED
  BY <1>7, <1>8, <1>9, <1>10, <1>11, <1>12, <1>13, <1>14

LEMMA OnFrameStep ==
    ASSUME NEW w \in Nat, NEW b \in Nat, Inv(w, b), OnFrame
    PROVE  Inv(w, b)'
<1> USE DEF Inv
<1>1. /\ Window \in Nat /\ MaxFrames \in Nat
      /\ out \in Nat
      /\ Len(queue) \in Nat
  BY Facts
<1>2. /\ Line("frame") /\ current
      /\ queue' = Append(queue, Head(fromRust).arg)
      /\ UNCHANGED <<shell, made, held, frames, emitted, delivered,
                       gate, shut, batch, batchEnd, impatient,
                       toRust, status, current, reclaimed, consumer, timer,
                       waits, ackedThrough, out, page, bound, events,
                       shown, timeouts>>
  BY DEF OnFrame, Notice, sidecar, view
<1>3. /\ fromRust' \in Seq(Lines) /\ Moved(fromRust, fromRust', 1, {})
      /\ Head(fromRust) = fromRust[1] /\ fromRust[1] \in Lines /\ 1 \in 1..Len(fromRust)
      /\ fromRust[1].line = "frame"
  BY <1>2, Heard
<1>4. Moved(toRust, toRust', 0, {})
  BY <1>2, StaysMoved DEF Shapes
<1>5. consumer' = consumer /\ page' \in Nat /\ page <= page'
  BY <1>2, Facts
<1>6. PICK m \in Nat : m = out + Len(queue)
  BY <1>1
<1>7. /\ m <= w
      /\ \A i \in 1..Len(fromRust) : IsFrame(i) => fromRust[i].arg \in m + 1..w
      /\ \A n \in m + 1..w : \E i \in 1..Len(fromRust) : IsFrame(i) /\ fromRust[i].arg = n
      /\ \A i, j \in 1..Len(fromRust) : IsFrame(i) /\ IsFrame(j) /\ i < j => fromRust[i].arg < fromRust[j].arg
  BY <1>2, <1>6 DEF Piped, Kept
<1>8. Head(fromRust).arg = m + 1 /\ m + 1 <= w
  <2>1. IsFrame(1) /\ fromRust[1].arg \in m + 1..w
    BY <1>3, <1>7 DEF IsFrame
  <2>2. m + 1 \in m + 1..w
    BY <2>1
  <2>3. PICK i \in 1..Len(fromRust) : IsFrame(i) /\ fromRust[i].arg = m + 1
    BY <1>7, <2>2
  <2>4. i = 1
    <3>1. SUFFICES ASSUME i # 1 PROVE FALSE
      OBVIOUS
    <3>2. 1 < i
      BY <3>1
    <3>3. fromRust[1].arg < m + 1
      BY <1>3, <1>7, <2>1, <2>3, <3>2
    <3>. QED
      BY <2>1, <3>3
  <2>. QED
    BY <1>3, <2>1, <2>3, <2>4
<1>9. /\ queue' \in Seq(Nat) /\ Len(queue') = Len(queue) + 1 /\ queue'[Len(queue) + 1] = m + 1
      /\ \A j \in 1..Len(queue) : queue'[j] = queue[j]
  <2>1. queue \in Seq(Nat) /\ m + 1 \in Nat
    BY DEF Shapes
  <2>. QED
    BY <1>2, <1>8, <2>1, Added
<1>10. Shapes'
  BY <1>2, <1>3, <1>9 DEF Shapes
<1>11. Announced'
  BY <1>3, <1>5, PagesNamed, AnnouncedKept
<1>12. Asked'
  BY <1>3, <1>4, <1>5, AskedKept
<1>13. Piped(w)'
  <2>1. /\ Len(fromRust) \in Nat /\ Len(fromRust') \in Nat /\ Len(fromRust) <= Len(fromRust') + 1
        /\ \A j \in 1..Len(fromRust') : j + 1 \in 1..Len(fromRust) /\ fromRust'[j] = fromRust[j + 1]
    <3>1. /\ Len(fromRust) \in Nat /\ Len(fromRust') \in Nat /\ Len(fromRust) <= Len(fromRust') + 1
          /\ \A j \in 1..Len(fromRust') : j + 1 <= Len(fromRust) => fromRust'[j] = fromRust[j + 1]
          /\ \A j \in 1..Len(fromRust') : ~(j + 1 > Len(fromRust))
      BY <1>3 DEF Moved
    <3>. QED
      BY <3>1
  <2>2. \A j \in 1..Len(fromRust') : IsFrame(j)' => IsFrame(j + 1)
    BY <2>1 DEF IsFrame
  <2>3. IsFrame(1) /\ fromRust[1].arg = m + 1
    BY <1>3, <1>8 DEF IsFrame
  <2>4. ASSUME NEW j \in 1..Len(fromRust'), IsFrame(j)'
        PROVE  fromRust'[j].arg \in (m + 1) + 1..w
    <3>1. j + 1 \in 1..Len(fromRust) /\ IsFrame(j + 1) /\ fromRust'[j] = fromRust[j + 1] /\ 1 < j + 1
      BY <2>1, <2>2, <2>4
    <3>2. fromRust[j + 1].arg \in m + 1..w
      BY <1>7, <3>1
    <3>3. m + 1 < fromRust[j + 1].arg
      BY <1>3, <1>7, <2>3, <3>1
    <3>. QED
      BY <3>1, <3>2, <3>3
  <2>5. ASSUME NEW n \in (m + 1) + 1..w
        PROVE  \E j \in 1..Len(fromRust') : IsFrame(j)' /\ fromRust'[j].arg = n
    <3>1. n \in m + 1..w /\ n # m + 1
      OBVIOUS
    <3>2. PICK i \in 1..Len(fromRust) : IsFrame(i) /\ fromRust[i].arg = n
      BY <1>7, <3>1
    <3>3. i # 1
      BY <2>3, <3>1, <3>2
    <3>4. i - 1 \in 1..Len(fromRust') /\ (i - 1) + 1 = i
      BY <2>1, <3>3
    <3>5. fromRust'[i - 1] = fromRust[i]
      BY <2>1, <3>4
    <3>6. IsFrame(i - 1)'
      BY <3>2, <3>4, <3>5 DEF IsFrame
    <3>. QED
      BY <3>2, <3>4, <3>5, <3>6
  <2>6. ASSUME NEW i \in 1..Len(fromRust'), NEW j \in 1..Len(fromRust'), IsFrame(i)', IsFrame(j)', i < j
        PROVE  fromRust'[i].arg < fromRust'[j].arg
    <3>1. i + 1 < j + 1
      BY <2>1, <2>6
    <3>. QED
      BY <1>7, <2>1, <2>2, <2>6, <3>1
  <2>7. out' + Len(queue') = m + 1
    <3>1. out + (Len(queue) + 1) = (out + Len(queue)) + 1
      BY <1>1
    <3>. QED
      BY <1>2, <1>6, <1>9, <3>1
  <2>8. \A i \in 1..Len(queue') : queue'[i] = out' + i
    <3>1. \A i \in 1..Len(queue) + 1 : i = Len(queue) + 1 \/ i \in 1..Len(queue)
      BY <1>1
    <3>2. m + 1 = out + (Len(queue) + 1)
      BY <1>1, <1>6
    <3>3. \A i \in 1..Len(queue) : queue[i] = out + i
      BY DEF Piped
    <3>4. out' = out
      BY <1>2
    <3>. QED
      BY <1>9, <3>1, <3>2, <3>3, <3>4
  <2>. QED
    BY <1>8, <2>4, <2>5, <2>6, <2>7, <2>8 DEF Piped
<1>14. Leaving(w)'
  <2>1. shell' = shell /\ impatient' = impatient /\ batch' = batch /\ made' = made
    BY <1>2
  <2>. QED
    BY <1>3, <2>1, LeavingKept
<1>15. Positions' /\ Chained' /\ Addressed' /\ Showing' /\ Unwritten(w, b)'
  BY <1>2 DEF Positions, Chained, First, After, Addressed, Showing, Seen, Unwritten
<1>16. Acked' /\ Ahead(w, b)' /\ Exited'
  BY <1>2 DEF Acked, Asks, Seen, First, Ahead, Exited
<1>17. Spawning'
  <2>1. ~Silent
    BY <1>3 DEF Silent, IsFrame
  <2>. QED
    BY <1>2, <1>3, <1>4, <2>1, SpawningKept
<1>. QED
  BY <1>10, <1>11, <1>12, <1>13, <1>14, <1>15, <1>16, <1>17

LEMMA OnRunningStep ==
    ASSUME NEW w \in Nat, NEW b \in Nat, Inv(w, b), OnRunning
    PROVE  Inv(w, b)'
<1> USE DEF Inv
<1>1. /\ Line("running")
      /\ status' = status \/ status' = "running"
      /\ UNCHANGED <<shell, made, held, frames, emitted, delivered,
                       gate, shut, batch, batchEnd, impatient,
                       toRust, current, reclaimed, consumer, timer, waits,
                       ackedThrough, queue, out, page, bound, events,
                       shown, timeouts>>
  BY DEF OnRunning, Notice, Becomes, sidecar, view
<1>2. /\ fromRust' \in Seq(Lines) /\ Moved(fromRust, fromRust', 1, {})
      /\ Head(fromRust) = fromRust[1] /\ fromRust[1] \in Lines /\ 1 \in 1..Len(fromRust)
      /\ fromRust[1].line = "running"
  BY <1>1, Heard
<1>3. Moved(toRust, toRust', 0, {})
  BY <1>1, StaysMoved DEF Shapes
<1>4. out' + Len(queue') = out + Len(queue) /\ \A i \in 1..Len(queue') : queue'[i] = out' + i
  BY <1>1 DEF Piped
<1>5. consumer' = consumer /\ page' \in Nat /\ page <= page'
  BY <1>1, Facts
<1>6. Shapes'
  BY <1>1, <1>2 DEF Shapes, Active
<1>7. Announced'
  BY <1>2, <1>5, PagesNamed, AnnouncedKept
<1>8. Asked'
  BY <1>2, <1>3, <1>5, AskedKept
<1>9. Piped(w)'
  BY <1>2, <1>4, <1>1, PipedKept DEF Kept
<1>10. Exited'
  <2>1. status' = "exited" => status = "exited"
    BY <1>1
  <2>. QED
    BY <1>1, <2>1, Zenon DEF Exited
<1>11. Leaving(w)'
  <2>1. shell' = shell /\ impatient' = impatient /\ batch' = batch /\ made' = made
    BY <1>1
  <2>. QED
    BY <1>2, <2>1, LeavingKept
<1>12. Positions' /\ Chained' /\ Addressed' /\ Showing' /\ Unwritten(w, b)'
  BY <1>1 DEF Positions, Chained, First, After, Addressed, Showing, Seen, Unwritten
<1>13. Acked' /\ Ahead(w, b)'
  BY <1>1 DEF Acked, Asks, Seen, First, Ahead
<1>14. Spawning'
  <2>1. (~gate' /\ batch' = <<>>) \/ ~Silent
    BY <1>1 DEF Silent
  <2>2. waits' = waits
    BY <1>1
  <2>. QED
    BY <1>2, <1>3, <2>1, <2>2, SpawningKept
<1>. QED
  BY <1>6, <1>7, <1>8, <1>9, <1>10, <1>11, <1>12, <1>13, <1>14

LEMMA OnExitedStep ==
    ASSUME NEW w \in Nat, NEW b \in Nat, Inv(w, b), OnExited
    PROVE  Inv(w, b)'
<1> USE DEF Inv
<1>1. /\ Line("exited") /\ Flush /\ current
      /\ status' \in {status, "exited"} /\ reclaimed' \in BOOLEAN
      /\ toRust' = toRust \o <<[op |-> "close", arg |-> "quiet"]>> \/ toRust' = toRust \o <<>>
      /\ UNCHANGED <<shell, made, held, frames, emitted, delivered,
                       gate, shut, batch, batchEnd, impatient,
                       current, consumer, timer, waits, ackedThrough, page,
                       bound, shown, timeouts>>
  <2>. HIDE DEF Inv
  <2>1. Line("exited") /\ Flush /\ current /\ UNCHANGED <<sidecar, current, consumer, timer, waits, ackedThrough, page, bound, shown, timeouts>>
    BY DEF OnExited, Notice
  <2>2. status' \in {status, "exited"}
    BY DEF OnExited, Becomes
  <2>3. toRust' = toRust \o <<[op |-> "close", arg |-> "quiet"]>> \/ toRust' = toRust \o <<>>
    BY Zenon DEF OnExited, Ask
  <2>4. reclaimed' \in BOOLEAN
    <3>1. reclaimed \in BOOLEAN
      BY DEF Inv, Shapes
    <3>2. reclaimed' = (reclaimed \/ (status \notin Ended))
      BY DEF OnExited
    <3>. QED
      BY <3>1, <3>2, Zenon
  <2>. QED
    BY <2>1, <2>2, <2>3, <2>4 DEF sidecar
<1>2. /\ fromRust' \in Seq(Lines) /\ Moved(fromRust, fromRust', 1, {})
      /\ Head(fromRust) = fromRust[1] /\ fromRust[1] \in Lines /\ 1 \in 1..Len(fromRust)
      /\ fromRust[1].line = "exited"
  BY <1>1, Heard
<1> DEFINE x == [op |-> "close", arg |-> "quiet"]
<1>3. x \in Requests /\ x.op # "spawn" /\ x.op # "attach" /\ x.op # "ack"
  BY DEF Requests
<1> HIDE DEF x
<1>4. PICK M : /\ toRust' \in Seq(Requests) /\ Moved(toRust, toRust', 0, M)
               /\ \A z \in M : z.op # "spawn" /\ z.op # "attach" /\ z.op # "ack"
  <2>1. toRust \in Seq(Requests)
    BY DEF Shapes
  <2>2. CASE toRust' = toRust \o <<x>>
    <3>1. toRust' \in Seq(Requests) /\ Moved(toRust, toRust', 0, {x})
      BY <1>3, <2>1, <2>2, OneSaid
    <3>2. \A z \in {x} : z.op # "spawn" /\ z.op # "attach" /\ z.op # "ack"
      BY <1>3
    <3>. QED
      BY <3>1, <3>2
  <2>3. CASE toRust' = toRust
    <3>1. toRust' \in Seq(Requests) /\ Moved(toRust, toRust', 0, {})
      BY <2>1, <2>3, StaysMoved
    <3>. QED
      BY <3>1
  <2>4. CASE toRust' = toRust \o <<>>
    <3>1. toRust' \in Seq(Requests) /\ Moved(toRust, toRust', 0, {})
      BY <2>1, <2>4, NothingSaid
    <3>. QED
      BY <3>1
  <2>. QED
    BY <1>1, <2>2, <2>3, <2>4 DEF x
<1>5. /\ queue' \in Seq(Nat) /\ out' \in Nat /\ events' \in Seq(Events)
      /\ out' + Len(queue') = out + Len(queue) /\ \A i \in 1..Len(queue') : queue'[i] = out' + i
      /\ Chained' /\ Addressed' /\ Showing' /\ Seen' = Seen
      /\ out' = out \/ out' = out + Len(queue)
  <2>1. CASE Flush
    BY <1>1, <2>1, Flushed
  <2>2. CASE UNCHANGED <<queue, out, events>>
    <3>1. /\ queue' \in Seq(Nat) /\ out' \in Nat /\ events' \in Seq(Events)
      BY <2>2 DEF Shapes
    <3>2. out' + Len(queue') = out + Len(queue) /\ \A i \in 1..Len(queue') : queue'[i] = out' + i
      BY <2>2 DEF Piped
    <3>3. Chained' /\ Addressed' /\ Showing' /\ Seen' = Seen
      BY <1>1, <2>2 DEF Chained, First, After, Addressed, Showing, Seen
    <3>. QED
      BY <2>2, <3>1, <3>2, <3>3
  <2>. QED
    BY <1>1, <2>1, <2>2
<1>6. Seen \in Nat /\ Seen' \in Nat /\ Seen <= Seen'
  BY <1>5, SeenIsNat
<1>7. consumer' = consumer /\ page' \in Nat /\ page <= page'
  BY <1>1, Facts
<1>8. out \in Nat /\ Len(queue) \in Nat /\ made \in Nat /\ Len(batch) \in Nat
  BY Facts
<1>9. out = made => out' = made
  <2>1. out + Len(queue) <= w /\ w + Len(batch) <= made
    BY DEF Piped, Unwritten
  <2>2. out = made => out + Len(queue) = out
    BY <1>8, <2>1
  <2>. QED
    BY <1>5, <2>2
<1>10. shell = "gone" /\ (~impatient => out' = made)
  <2>1. /\ shell = "gone"
        /\ ~impatient => w = made /\ \A j \in 1..Len(fromRust) : IsFrame(j) => j < 1
    BY <1>2 DEF Leaving
  <2>2. ASSUME ~impatient
        PROVE  out + Len(queue) = made
    <3>1. \A j \in 1..Len(fromRust) : ~IsFrame(j)
      BY <2>1, <2>2
    <3>2. ~(out + Len(queue) < w)
      <4>1. SUFFICES ASSUME out + Len(queue) < w PROVE FALSE
        OBVIOUS
      <4>2. w \in out + Len(queue) + 1..w
        BY <1>8, <4>1
      <4>. QED
        BY <1>1, <3>1, <4>2 DEF Piped, Kept
    <3>3. out + Len(queue) <= w
      BY DEF Piped
    <3>. QED
      BY <1>8, <2>1, <2>2, <3>2, <3>3
  <2>3. out' = out + Len(queue)
    BY <1>1, Flushed
  <2>. QED
    BY <2>1, <2>2, <2>3, Zenon
<1>11. Shapes'
  <2>1. queue' \in Seq(Nat) /\ out' \in Nat /\ events' \in Seq(Events) /\ toRust' \in Seq(Requests) /\ fromRust' \in Seq(Lines)
    BY <1>2, <1>4, <1>5
  <2>. QED
    BY <1>1, <2>1 DEF Shapes, Ended
<1>12. Chained'
  BY <1>5
<1>13. Addressed'
  BY <1>5
<1>14. Announced'
  BY <1>2, <1>7, PagesNamed, AnnouncedKept
<1>15. Asked'
  BY <1>2, <1>4, <1>7, AskedKept
<1>16. Showing'
  BY <1>5
<1>17. Piped(w)'
  <2>1. Kept' => Kept
    BY <1>1 DEF Kept
  <2>. QED
    BY <1>2, <1>5, <2>1, PipedKept
<1>18. Acked'
  BY <1>4, <1>6, AckedKept
<1>19. Ahead(w, b)'
  <2>1. shut' = shut /\ batch' = batch
    BY <1>1
  <2>. QED
    BY <1>5, <2>1 DEF Ahead
<1>20. Spawning'
  <2>1. (~gate' /\ batch' = <<>>) \/ ~Silent
    BY <1>1 DEF Silent
  <2>2. waits' = waits
    BY <1>1
  <2>. QED
    BY <1>2, <1>4, <2>1, <2>2, SpawningKept
<1>21. Exited'
  <2>1. shell' = shell /\ made' = made /\ (~impatient' => ~impatient)
    BY <1>1
  <2>. QED
    BY <1>10, <2>1, Zenon DEF Exited
<1>22. Leaving(w)'
  <2>1. shell' = shell /\ impatient' = impatient /\ batch' = batch /\ made' = made
    BY <1>1
  <2>. QED
    BY <1>2, <2>1, LeavingKept
<1>23. Positions' /\ Unwritten(w, b)'
  BY <1>1 DEF Positions, Unwritten
<1>. QED
  BY <1>11, <1>12, <1>13, <1>14, <1>15, <1>16, <1>17, <1>18, <1>19, <1>20, <1>21, <1>22, <1>23

LEMMA OnClosedStep ==
    ASSUME NEW w \in Nat, NEW b \in Nat, Inv(w, b), OnClosed
    PROVE  Inv(w, b)'
<1> USE DEF Inv
<1>1. /\ Line("closed")
      /\ Flush \/ UNCHANGED <<queue, out, events>>
      /\ status' \in {status, "closed"}
      /\ UNCHANGED <<shell, made, held, frames, emitted, delivered,
                       gate, shut, batch, batchEnd, impatient,
                       toRust, current, reclaimed, consumer, timer, waits,
                       ackedThrough, page, bound, shown, timeouts>>
  <2>. HIDE DEF Inv
  <2>1. Line("closed") /\ UNCHANGED <<sidecar, toRust, current, reclaimed, consumer, timer, waits, ackedThrough, page, bound, shown, timeouts>>
    BY DEF OnClosed, Notice
  <2>2. Flush \/ UNCHANGED <<queue, out, events>>
    BY Zenon DEF OnClosed
  <2>3. status' \in {status, "closed"}
    BY DEF OnClosed, Becomes
  <2>. QED
    BY <2>1, <2>2, <2>3 DEF sidecar
<1>2. /\ fromRust' \in Seq(Lines) /\ Moved(fromRust, fromRust', 1, {})
      /\ Head(fromRust) = fromRust[1] /\ fromRust[1] \in Lines /\ 1 \in 1..Len(fromRust)
      /\ fromRust[1].line = "closed"
  BY <1>1, Heard
<1>3. Moved(toRust, toRust', 0, {})
  BY <1>1, StaysMoved DEF Shapes
<1>4. /\ queue' \in Seq(Nat) /\ out' \in Nat /\ events' \in Seq(Events)
      /\ out' + Len(queue') = out + Len(queue) /\ \A i \in 1..Len(queue') : queue'[i] = out' + i
      /\ Chained' /\ Addressed' /\ Showing' /\ Seen' = Seen
      /\ out' = out \/ out' = out + Len(queue)
  <2>1. CASE Flush
    BY <1>1, <2>1, Flushed
  <2>2. CASE UNCHANGED <<queue, out, events>>
    <3>1. /\ queue' \in Seq(Nat) /\ out' \in Nat /\ events' \in Seq(Events)
      BY <2>2 DEF Shapes
    <3>2. out' + Len(queue') = out + Len(queue) /\ \A i \in 1..Len(queue') : queue'[i] = out' + i
      BY <2>2 DEF Piped
    <3>3. Chained' /\ Addressed' /\ Showing' /\ Seen' = Seen
      BY <1>1, <2>2 DEF Chained, First, After, Addressed, Showing, Seen
    <3>. QED
      BY <2>2, <3>1, <3>2, <3>3
  <2>. QED
    BY <1>1, <2>1, <2>2
<1>5. Seen \in Nat /\ Seen' \in Nat /\ Seen <= Seen'
  BY <1>4, SeenIsNat
<1>6. consumer' = consumer /\ page' \in Nat /\ page <= page'
  BY <1>1, Facts
<1>7. out \in Nat /\ Len(queue) \in Nat /\ made \in Nat /\ Len(batch) \in Nat
  BY Facts
<1>8. out = made => out' = made
  <2>1. out + Len(queue) <= w /\ w + Len(batch) <= made
    BY DEF Piped, Unwritten
  <2>2. out = made => out + Len(queue) = out
    BY <1>7, <2>1
  <2>. QED
    BY <1>4, <2>2
<1>9. Shapes'
  <2>1. queue' \in Seq(Nat) /\ out' \in Nat /\ events' \in Seq(Events) /\ fromRust' \in Seq(Lines)
    BY <1>2, <1>4
  <2>. QED
    BY <1>1, <2>1 DEF Shapes, Ended
<1>10. Chained'
  BY <1>4
<1>11. Addressed'
  BY <1>4
<1>12. Announced'
  BY <1>2, <1>6, PagesNamed, AnnouncedKept
<1>13. Asked'
  BY <1>2, <1>3, <1>6, AskedKept
<1>14. Showing'
  BY <1>4
<1>15. Piped(w)'
  BY <1>2, <1>4, <1>1, PipedKept DEF Kept
<1>16. Acked'
  BY <1>3, <1>5, AckedKept
<1>17. Ahead(w, b)'
  <2>1. shut' = shut /\ batch' = batch
    BY <1>1
  <2>. QED
    BY <1>4, <2>1 DEF Ahead
<1>18. Exited'
  <2>1. status' = "exited" => status = "exited"
    BY <1>1
  <2>2. shell' = shell /\ impatient' = impatient /\ made' = made
    BY <1>1
  <2>. QED
    BY <1>8, <2>1, <2>2, Zenon DEF Exited
<1>19. Leaving(w)'
  <2>1. shell' = shell /\ impatient' = impatient /\ batch' = batch /\ made' = made
    BY <1>1
  <2>. QED
    BY <1>2, <2>1, LeavingKept
<1>20. Positions' /\ Unwritten(w, b)'
  BY <1>1 DEF Positions, Unwritten
<1>21. Spawning'
  <2>1. (~gate' /\ batch' = <<>>) \/ ~Silent
    BY <1>1 DEF Silent
  <2>2. waits' = waits
    BY <1>1
  <2>. QED
    BY <1>2, <1>3, <2>1, <2>2, SpawningKept
<1>. QED
  BY <1>9, <1>10, <1>11, <1>12, <1>13, <1>14, <1>15, <1>16, <1>17, <1>18, <1>19, <1>20, <1>21

LEMMA OnSpawnedStep ==
    ASSUME NEW w \in Nat, NEW b \in Nat, Inv(w, b), OnSpawned
    PROVE  Inv(w, b)'
<1> USE DEF Inv
<1>1. /\ Line("spawned")
      /\ status' \in {status, "running"}
      /\ timer' \in BOOLEAN /\ waits' = waits \ {"spawn"}
      /\ current' \in BOOLEAN /\ (current' => Kept)
      /\ UNCHANGED <<shell, made, held, frames, emitted, delivered,
                       gate, shut, batch, batchEnd, impatient,
                       toRust, reclaimed, consumer, ackedThrough,
                       queue, out, page, bound, events, shown,
                       timeouts>>
  <2>. HIDE DEF Inv
  <2>1. timer \in BOOLEAN /\ current \in BOOLEAN
    BY DEF Inv, Shapes
  <2>2. status' \in {status, "running"} /\ timer' \in BOOLEAN
    BY <2>1 DEF OnSpawned, Becomes
  <2>3. current' \in BOOLEAN /\ (current' => Kept)
    BY <2>1, Zenon DEF OnSpawned, Kept
  <2>. QED
    BY <2>2, <2>3 DEF OnSpawned, sidecar, view
<1>2. /\ fromRust' \in Seq(Lines) /\ Moved(fromRust, fromRust', 1, {})
      /\ Head(fromRust) = fromRust[1] /\ fromRust[1] \in Lines /\ 1 \in 1..Len(fromRust)
      /\ fromRust[1].line = "spawned"
  BY <1>1, Heard
<1>3. Moved(toRust, toRust', 0, {})
  BY <1>1, StaysMoved DEF Shapes
<1>4. out' + Len(queue') = out + Len(queue) /\ \A i \in 1..Len(queue') : queue'[i] = out' + i
  BY <1>1 DEF Piped
<1>5. consumer' = consumer /\ page' \in Nat /\ page <= page'
  BY <1>1, Facts
<1>6. Shapes'
  BY <1>1, <1>2 DEF Shapes, Active
<1>7. Announced'
  BY <1>2, <1>5, PagesNamed, AnnouncedKept
<1>8. Asked'
  BY <1>2, <1>3, <1>5, AskedKept
<1>9. Piped(w)'
  <2>1. Kept' => Kept
    BY <1>1 DEF Kept
  <2>. QED
    BY <1>2, <1>4, <2>1, PipedKept
<1>10. Exited'
  <2>1. status' = "exited" => status = "exited"
    BY <1>1
  <2>. QED
    BY <1>1, <2>1, Zenon DEF Exited
<1>11. Leaving(w)'
  <2>1. shell' = shell /\ impatient' = impatient /\ batch' = batch /\ made' = made
    BY <1>1
  <2>. QED
    BY <1>2, <2>1, LeavingKept
<1>12. Positions' /\ Chained' /\ Addressed' /\ Showing' /\ Unwritten(w, b)'
  BY <1>1 DEF Positions, Chained, First, After, Addressed, Showing, Seen, Unwritten
<1>13. Acked' /\ Ahead(w, b)' /\ Spawning'
  BY <1>1 DEF Acked, Asks, Seen, First, Ahead, Spawning, Silent, Replied, IsFrame
<1>. QED
  BY <1>6, <1>7, <1>8, <1>9, <1>10, <1>11, <1>12, <1>13

LEMMA OnNotSpawnedStep ==
    ASSUME NEW w \in Nat, NEW b \in Nat, Inv(w, b), OnNotSpawned
    PROVE  Inv(w, b)'
<1> USE DEF Inv
<1>1. /\ Line("notSpawned")
      /\ status' \in {status, "failed"}
      /\ waits' = waits \ {"spawn"}
      /\ UNCHANGED <<shell, made, held, frames, emitted, delivered,
                       gate, shut, batch, batchEnd, impatient,
                       toRust, current, reclaimed, consumer, timer,
                       ackedThrough, queue, out, page, bound, events,
                       shown, timeouts>>
  BY DEF OnNotSpawned, Becomes, sidecar, view
<1>2. /\ fromRust' \in Seq(Lines) /\ Moved(fromRust, fromRust', 1, {})
      /\ Head(fromRust) = fromRust[1] /\ fromRust[1] \in Lines /\ 1 \in 1..Len(fromRust)
      /\ fromRust[1].line = "notSpawned"
  BY <1>1, Heard
<1>3. Moved(toRust, toRust', 0, {})
  BY <1>1, StaysMoved DEF Shapes
<1>4. out' + Len(queue') = out + Len(queue) /\ \A i \in 1..Len(queue') : queue'[i] = out' + i
  BY <1>1 DEF Piped
<1>5. consumer' = consumer /\ page' \in Nat /\ page <= page'
  BY <1>1, Facts
<1>6. Shapes'
  BY <1>1, <1>2 DEF Shapes, Ended
<1>7. Announced'
  BY <1>2, <1>5, PagesNamed, AnnouncedKept
<1>8. Asked'
  BY <1>2, <1>3, <1>5, AskedKept
<1>9. Piped(w)'
  <2>1. Kept' => Kept
    BY <1>1 DEF Kept
  <2>. QED
    BY <1>2, <1>4, <2>1, PipedKept
<1>10. Exited'
  <2>1. status' = "exited" => status = "exited"
    BY <1>1
  <2>. QED
    BY <1>1, <2>1, Zenon DEF Exited
<1>11. Leaving(w)'
  <2>1. shell' = shell /\ impatient' = impatient /\ batch' = batch /\ made' = made
    BY <1>1
  <2>. QED
    BY <1>2, <2>1, LeavingKept
<1>12. Positions' /\ Chained' /\ Addressed' /\ Showing' /\ Unwritten(w, b)'
  BY <1>1 DEF Positions, Chained, First, After, Addressed, Showing, Seen, Unwritten
<1>13. Acked' /\ Ahead(w, b)' /\ Spawning'
  BY <1>1 DEF Acked, Asks, Seen, First, Ahead, Spawning, Silent, Replied, IsFrame
<1>. QED
  BY <1>6, <1>7, <1>8, <1>9, <1>10, <1>11, <1>12, <1>13

LEMMA OnReapedStep ==
    ASSUME NEW w \in Nat, NEW b \in Nat, Inv(w, b), OnReaped
    PROVE  Inv(w, b)'
<1> USE DEF Inv
<1>1. /\ Line("reaped")
      /\ Flush \/ UNCHANGED <<queue, out, events>>
      /\ status' \in {status, "closed"}
      /\ timer' \in BOOLEAN /\ waits' \subseteq waits
      /\ UNCHANGED <<shell, made, held, frames, emitted, delivered,
                       gate, shut, batch, batchEnd, impatient,
                       toRust, current, reclaimed, consumer, ackedThrough,
                       page, bound, shown, timeouts>>
  <2>. HIDE DEF Inv
  <2>1. Line("reaped") /\ UNCHANGED <<sidecar, toRust, current, reclaimed, consumer, ackedThrough, page, bound, shown, timeouts>>
    BY DEF OnReaped
  <2>2. Flush \/ UNCHANGED <<queue, out, events>>
    BY Zenon DEF OnReaped
  <2>3. status' \in {status, "closed"} /\ waits' \subseteq waits
    BY DEF OnReaped
  <2>4. timer' \in BOOLEAN
    BY DEF OnReaped, Inv, Shapes
  <2>. QED
    BY <2>1, <2>2, <2>3, <2>4 DEF sidecar
<1>2. /\ fromRust' \in Seq(Lines) /\ Moved(fromRust, fromRust', 1, {})
      /\ Head(fromRust) = fromRust[1] /\ fromRust[1] \in Lines /\ 1 \in 1..Len(fromRust)
      /\ fromRust[1].line = "reaped"
  BY <1>1, Heard
<1>3. Moved(toRust, toRust', 0, {})
  BY <1>1, StaysMoved DEF Shapes
<1>4. /\ queue' \in Seq(Nat) /\ out' \in Nat /\ events' \in Seq(Events)
      /\ out' + Len(queue') = out + Len(queue) /\ \A i \in 1..Len(queue') : queue'[i] = out' + i
      /\ Chained' /\ Addressed' /\ Showing' /\ Seen' = Seen
      /\ out' = out \/ out' = out + Len(queue)
  <2>1. CASE Flush
    BY <1>1, <2>1, Flushed
  <2>2. CASE UNCHANGED <<queue, out, events>>
    <3>1. /\ queue' \in Seq(Nat) /\ out' \in Nat /\ events' \in Seq(Events)
      BY <2>2 DEF Shapes
    <3>2. out' + Len(queue') = out + Len(queue) /\ \A i \in 1..Len(queue') : queue'[i] = out' + i
      BY <2>2 DEF Piped
    <3>3. Chained' /\ Addressed' /\ Showing' /\ Seen' = Seen
      BY <1>1, <2>2 DEF Chained, First, After, Addressed, Showing, Seen
    <3>. QED
      BY <2>2, <3>1, <3>2, <3>3
  <2>. QED
    BY <1>1, <2>1, <2>2
<1>5. Seen \in Nat /\ Seen' \in Nat /\ Seen <= Seen'
  BY <1>4, SeenIsNat
<1>6. consumer' = consumer /\ page' \in Nat /\ page <= page'
  BY <1>1, Facts
<1>7. out \in Nat /\ Len(queue) \in Nat /\ made \in Nat /\ Len(batch) \in Nat
  BY Facts
<1>8. out = made => out' = made
  <2>1. out + Len(queue) <= w /\ w + Len(batch) <= made
    BY DEF Piped, Unwritten
  <2>2. out = made => out + Len(queue) = out
    BY <1>7, <2>1
  <2>. QED
    BY <1>4, <2>2
<1>9. Shapes'
  <2>1. queue' \in Seq(Nat) /\ out' \in Nat /\ events' \in Seq(Events) /\ fromRust' \in Seq(Lines)
    BY <1>2, <1>4
  <2>. QED
    BY <1>1, <2>1 DEF Shapes, Ended
<1>10. Chained'
  BY <1>4
<1>11. Addressed'
  BY <1>4
<1>12. Announced'
  BY <1>2, <1>6, PagesNamed, AnnouncedKept
<1>13. Asked'
  BY <1>2, <1>3, <1>6, AskedKept
<1>14. Showing'
  BY <1>4
<1>15. Piped(w)'
  <2>1. Kept' => Kept
    BY <1>1 DEF Kept
  <2>. QED
    BY <1>2, <1>4, <2>1, PipedKept
<1>16. Acked'
  BY <1>3, <1>5, AckedKept
<1>17. Ahead(w, b)'
  <2>1. shut' = shut /\ batch' = batch
    BY <1>1
  <2>. QED
    BY <1>4, <2>1 DEF Ahead
<1>18. Exited'
  <2>1. status' = "exited" => status = "exited"
    BY <1>1
  <2>2. shell' = shell /\ impatient' = impatient /\ made' = made
    BY <1>1
  <2>. QED
    BY <1>8, <2>1, <2>2, Zenon DEF Exited
<1>19. Leaving(w)'
  <2>1. shell' = shell /\ impatient' = impatient /\ batch' = batch /\ made' = made
    BY <1>1
  <2>. QED
    BY <1>2, <2>1, LeavingKept
<1>20. Positions' /\ Unwritten(w, b)'
  BY <1>1 DEF Positions, Unwritten
<1>21. Spawning'
  <2>1. (~gate' /\ batch' = <<>>) \/ ~Silent
    BY <1>1 DEF Silent
  <2>2. "spawn" \in waits' => "spawn" \in waits
    BY <1>1
  <2>. QED
    BY <1>2, <1>3, <2>1, <2>2, SpawningKept
<1>. QED
  BY <1>9, <1>10, <1>11, <1>12, <1>13, <1>14, <1>15, <1>16, <1>17, <1>18, <1>19, <1>20, <1>21

LEMMA PumpStep ==
    ASSUME NEW w \in Nat, NEW b \in Nat, Inv(w, b), NEW n \in 1..MaxFrames, Pump(n)
    PROVE  Inv(w, b)'
<1> USE DEF Inv
<1>1. /\ n \in 1..Len(queue)
      /\ events' = Append(events, [to |-> consumer, frames |-> SubSeq(queue, 1, n)])
      /\ out' = queue[n] /\ queue' = SubSeq(queue, n + 1, Len(queue))
      /\ UNCHANGED <<shell, made, held, frames, emitted, delivered,
                       gate, shut, batch, batchEnd, impatient,
                       toRust, fromRust, status, current, reclaimed, consumer,
                       timer, waits, ackedThrough, page, bound,
                       shown, timeouts>>
  BY DEF Pump, pipe, sidecar
<1>2. Moved(fromRust, fromRust', 0, {})
  BY <1>1, StaysMoved DEF Shapes
<1>3. Moved(toRust, toRust', 0, {})
  BY <1>1, StaysMoved DEF Shapes
<1>4. /\ queue' \in Seq(Nat) /\ out' \in Nat /\ events' \in Seq(Events)
      /\ out' + Len(queue') = out + Len(queue) /\ \A i \in 1..Len(queue') : queue'[i] = out' + i
      /\ Chained' /\ Addressed' /\ Showing' /\ Seen' = Seen
  BY <1>1, Emitted
<1>5. Seen \in Nat /\ Seen' \in Nat /\ Seen <= Seen'
  BY <1>4, SeenIsNat
<1>6. consumer' = consumer /\ page' \in Nat /\ page <= page'
  BY <1>1, Facts
<1>7. Shapes'
  <2>1. /\ queue' \in Seq(Nat) /\ out' \in Nat /\ events' \in Seq(Events)
    BY <1>4
  <2>2. UNCHANGED <<shell, made, held, frames, emitted, delivered,
                   gate, shut, batch, batchEnd, impatient, toRust,
                   fromRust, status, current, reclaimed, consumer, timer,
                   waits, ackedThrough, page, bound, shown, timeouts>>
    BY <1>1
  <2>. QED
    BY <2>1, <2>2 DEF Shapes
<1>8. Chained'
  BY <1>4
<1>9. Addressed'
  BY <1>4
<1>10. Announced'
  BY <1>2, <1>6, PagesNamed, AnnouncedKept
<1>11. Asked'
  BY <1>2, <1>3, <1>6, AskedKept
<1>12. Showing'
  BY <1>4
<1>13. Piped(w)'
  <2>1. Kept' => Kept
    BY <1>1 DEF Kept
  <2>. QED
    BY <1>1, <1>4, <2>1, PipedStays
<1>14. Acked'
  BY <1>3, <1>5, AckedKept
<1>15. Ahead(w, b)'
  <2>1. shut' = shut /\ batch' = batch
    BY <1>1
  <2>. QED
    BY <1>4, <2>1 DEF Ahead
<1>16. Exited'
  <2>1. out \in Nat /\ Len(queue) \in Nat \ {0} /\ made \in Nat /\ Len(batch) \in Nat
    BY <1>1, Facts
  <2>2. out # made
    BY <2>1 DEF Piped, Unwritten
  <2>3. ~(status = "exited" /\ ~impatient) /\ (status = "exited" => shell = "gone")
    BY <2>2, Zenon DEF Exited
  <2>. QED
    BY <1>1, <2>3, Zenon DEF Exited
<1>17. Leaving(w)'
  <2>1. shell' = shell /\ impatient' = impatient /\ batch' = batch /\ made' = made
    BY <1>1
  <2>. QED
    BY <1>2, <2>1, LeavingKept
<1>18. Positions' /\ Unwritten(w, b)'
  BY <1>1 DEF Positions, Unwritten
<1>19. Spawning'
  <2>1. (~gate' /\ batch' = <<>>) \/ ~Silent
    BY <1>1 DEF Silent
  <2>2. waits' = waits
    BY <1>1
  <2>. QED
    BY <1>2, <1>3, <2>1, <2>2, SpawningKept
<1>. QED
  BY <1>7, <1>8, <1>9, <1>10, <1>11, <1>12, <1>13, <1>14, <1>15, <1>16, <1>17, <1>18, <1>19

LEMMA SpawnTimeoutStep ==
    ASSUME NEW w \in Nat, NEW b \in Nat, Inv(w, b), SpawnTimeout
    PROVE  Inv(w, b)'
<1> USE DEF Inv
<1>1. /\ toRust' = toRust \o <<[op |-> "close", arg |-> "quiet"]>>
      /\ status' \in {status, "failed"} /\ waits' = waits \ {"spawn"}
      /\ UNCHANGED <<shell, made, held, frames, emitted, delivered,
                       gate, shut, batch, batchEnd, impatient,
                       fromRust, current, reclaimed, consumer, timer,
                       ackedThrough, queue, out, page, bound, events,
                       shown>>
  BY DEF SpawnTimeout, Becomes, Ask, sidecar, view
<1>2. Moved(fromRust, fromRust', 0, {})
  BY <1>1, StaysMoved DEF Shapes
<1> DEFINE x == [op |-> "close", arg |-> "quiet"]
<1>3. x \in Requests /\ x.op # "spawn" /\ x.op # "attach" /\ x.op # "ack"
  BY DEF Requests
<1> HIDE DEF x
<1>4. PICK M : /\ toRust' \in Seq(Requests) /\ Moved(toRust, toRust', 0, M)
               /\ \A z \in M : z.op # "spawn" /\ z.op # "attach" /\ z.op # "ack"
  <2>1. toRust \in Seq(Requests)
    BY DEF Shapes
  <2>2. CASE toRust' = toRust \o <<x>>
    <3>1. toRust' \in Seq(Requests) /\ Moved(toRust, toRust', 0, {x})
      BY <1>3, <2>1, <2>2, OneSaid
    <3>2. \A z \in {x} : z.op # "spawn" /\ z.op # "attach" /\ z.op # "ack"
      BY <1>3
    <3>. QED
      BY <3>1, <3>2
  <2>3. CASE toRust' = toRust
    <3>1. toRust' \in Seq(Requests) /\ Moved(toRust, toRust', 0, {})
      BY <2>1, <2>3, StaysMoved
    <3>. QED
      BY <3>1
  <2>4. CASE toRust' = toRust \o <<>>
    <3>1. toRust' \in Seq(Requests) /\ Moved(toRust, toRust', 0, {})
      BY <2>1, <2>4, NothingSaid
    <3>. QED
      BY <3>1
  <2>. QED
    BY <1>1, <2>2, <2>3, <2>4 DEF x
<1>5. out' + Len(queue') = out + Len(queue) /\ \A i \in 1..Len(queue') : queue'[i] = out' + i
  BY <1>1 DEF Piped
<1>6. Seen \in Nat /\ Seen' = Seen /\ Seen <= Seen'
  BY <1>1, SeenIsNat DEF Seen, First
<1>7. consumer' = consumer /\ page' \in Nat /\ page <= page'
  BY <1>1, Facts
<1>8. Shapes'
  <2>1. /\ toRust' \in Seq(Requests) /\ waits' \subseteq {"spawn", "close"}
        /\ status' \in Active \cup Ended
    BY <1>1, <1>4 DEF Shapes, Ended
  <2>2. UNCHANGED <<shell, made, held, frames, emitted, delivered,
                   gate, shut, batch, batchEnd, impatient, fromRust,
                   current, reclaimed, consumer, timer, ackedThrough, queue,
                   out, page, bound, events, shown>>
    BY <1>1
  <2>. QED
    BY <2>1, <2>2 DEF Shapes
<1>9. Announced'
  BY <1>2, <1>7, PagesNamed, AnnouncedKept
<1>10. Asked'
  BY <1>2, <1>4, <1>7, AskedKept
<1>11. Acked'
  BY <1>4, <1>6, AckedKept
<1>12. Spawning'
  <2>1. (~gate' /\ batch' = <<>>) \/ ~Silent
    BY <1>1 DEF Silent
  <2>2. "spawn" \in waits' => "spawn" \in waits
    BY <1>1
  <2>. QED
    BY <1>2, <1>4, <2>1, <2>2, SpawningKept
<1>13. Exited'
  <2>1. status' = "exited" => status = "exited"
    BY <1>1
  <2>. QED
    BY <1>1, <2>1, Zenon DEF Exited
<1>14. Positions' /\ Chained' /\ Addressed' /\ Showing' /\ Piped(w)'
  BY <1>1 DEF Positions, Chained, First, After, Addressed, Showing, Seen, Piped, IsFrame, Kept
<1>15. Unwritten(w, b)' /\ Ahead(w, b)' /\ Leaving(w)'
  BY <1>1 DEF Unwritten, Ahead, Seen, First, Leaving, IsFrame
<1>. QED
  BY <1>8, <1>9, <1>10, <1>11, <1>12, <1>13, <1>14, <1>15

LEMMA AttachTimeoutStep ==
    ASSUME NEW w \in Nat, NEW b \in Nat, Inv(w, b), AttachTimeout
    PROVE  Inv(w, b)'
<1> USE DEF Inv
<1>1. /\ toRust' = toRust \o <<[op |-> "close", arg |-> "quiet"]>> \/ toRust' = toRust
      /\ status' \in {status, "failed"} /\ timer' = FALSE
      /\ UNCHANGED <<shell, made, held, frames, emitted, delivered,
                       gate, shut, batch, batchEnd, impatient,
                       fromRust, current, reclaimed, consumer, waits,
                       ackedThrough, queue, out, page, bound, events,
                       shown, timeouts>>
  <2>. HIDE DEF Inv
  <2>1. toRust' = toRust \o <<[op |-> "close", arg |-> "quiet"]>> \/ toRust' = toRust
    BY Zenon DEF AttachTimeout, Ask
  <2>2. status' \in {status, "failed"}
    BY DEF AttachTimeout
  <2>. QED
    BY <2>1, <2>2 DEF AttachTimeout, sidecar, view
<1>2. Moved(fromRust, fromRust', 0, {})
  BY <1>1, StaysMoved DEF Shapes
<1> DEFINE x == [op |-> "close", arg |-> "quiet"]
<1>3. x \in Requests /\ x.op # "spawn" /\ x.op # "attach" /\ x.op # "ack"
  BY DEF Requests
<1> HIDE DEF x
<1>4. PICK M : /\ toRust' \in Seq(Requests) /\ Moved(toRust, toRust', 0, M)
               /\ \A z \in M : z.op # "spawn" /\ z.op # "attach" /\ z.op # "ack"
  <2>1. toRust \in Seq(Requests)
    BY DEF Shapes
  <2>2. CASE toRust' = toRust \o <<x>>
    <3>1. toRust' \in Seq(Requests) /\ Moved(toRust, toRust', 0, {x})
      BY <1>3, <2>1, <2>2, OneSaid
    <3>2. \A z \in {x} : z.op # "spawn" /\ z.op # "attach" /\ z.op # "ack"
      BY <1>3
    <3>. QED
      BY <3>1, <3>2
  <2>3. CASE toRust' = toRust
    <3>1. toRust' \in Seq(Requests) /\ Moved(toRust, toRust', 0, {})
      BY <2>1, <2>3, StaysMoved
    <3>. QED
      BY <3>1
  <2>4. CASE toRust' = toRust \o <<>>
    <3>1. toRust' \in Seq(Requests) /\ Moved(toRust, toRust', 0, {})
      BY <2>1, <2>4, NothingSaid
    <3>. QED
      BY <3>1
  <2>. QED
    BY <1>1, <2>2, <2>3, <2>4 DEF x
<1>5. out' + Len(queue') = out + Len(queue) /\ \A i \in 1..Len(queue') : queue'[i] = out' + i
  BY <1>1 DEF Piped
<1>6. Seen \in Nat /\ Seen' = Seen /\ Seen <= Seen'
  BY <1>1, SeenIsNat DEF Seen, First
<1>7. consumer' = consumer /\ page' \in Nat /\ page <= page'
  BY <1>1, Facts
<1>8. Shapes'
  <2>1. /\ toRust' \in Seq(Requests) /\ timer' \in BOOLEAN
        /\ status' \in Active \cup Ended
    BY <1>1, <1>4 DEF Shapes, Ended
  <2>2. UNCHANGED <<shell, made, held, frames, emitted, delivered,
                   gate, shut, batch, batchEnd, impatient, fromRust,
                   current, reclaimed, consumer, waits, ackedThrough, queue,
                   out, page, bound, events, shown, timeouts>>
    BY <1>1
  <2>. QED
    BY <2>1, <2>2 DEF Shapes
<1>9. Announced'
  BY <1>2, <1>7, PagesNamed, AnnouncedKept
<1>10. Asked'
  BY <1>2, <1>4, <1>7, AskedKept
<1>11. Acked'
  BY <1>4, <1>6, AckedKept
<1>12. Spawning'
  <2>1. (~gate' /\ batch' = <<>>) \/ ~Silent
    BY <1>1 DEF Silent
  <2>2. waits' = waits
    BY <1>1
  <2>. QED
    BY <1>2, <1>4, <2>1, <2>2, SpawningKept
<1>13. Exited'
  <2>1. status' = "exited" => status = "exited"
    BY <1>1
  <2>. QED
    BY <1>1, <2>1, Zenon DEF Exited
<1>14. Positions' /\ Chained' /\ Addressed' /\ Showing' /\ Piped(w)'
  BY <1>1 DEF Positions, Chained, First, After, Addressed, Showing, Seen, Piped, IsFrame, Kept
<1>15. Unwritten(w, b)' /\ Ahead(w, b)' /\ Leaving(w)'
  BY <1>1 DEF Unwritten, Ahead, Seen, First, Leaving, IsFrame
<1>. QED
  BY <1>8, <1>9, <1>10, <1>11, <1>12, <1>13, <1>14, <1>15

LEMMA AskCloseStep ==
    ASSUME NEW w \in Nat, NEW b \in Nat, Inv(w, b), AskClose
    PROVE  Inv(w, b)'
<1> USE DEF Inv
<1>1. /\ toRust' = toRust \o <<[op |-> "close", arg |-> "user"]>> \/ toRust' = toRust
      /\ Flush \/ UNCHANGED <<queue, out, events>>
      /\ status' \in {"closed", "closing"} /\ timer' \in BOOLEAN /\ waits' \subseteq waits \cup {"close"}
      /\ UNCHANGED <<shell, made, held, frames, emitted, delivered,
                       gate, shut, batch, batchEnd, impatient,
                       fromRust, current, reclaimed, consumer, ackedThrough,
                       page, bound, shown, timeouts>>
  <2>. HIDE DEF Inv
  <2>1. toRust' = toRust \o <<[op |-> "close", arg |-> "user"]>> \/ toRust' = toRust
    BY Zenon DEF AskClose, Ask
  <2>2. Flush \/ UNCHANGED <<queue, out, events>>
    BY Zenon DEF AskClose
  <2>3. status' \in {"closed", "closing"} /\ waits' \subseteq waits \cup {"close"}
    BY DEF AskClose
  <2>4. timer' \in BOOLEAN
    BY DEF AskClose, Inv, Shapes
  <2>5. UNCHANGED <<sidecar, fromRust, current, reclaimed, consumer, ackedThrough, page, bound, shown, timeouts>>
    BY DEF AskClose
  <2>. QED
    BY <2>1, <2>2, <2>3, <2>4, <2>5 DEF sidecar
<1>2. Moved(fromRust, fromRust', 0, {})
  BY <1>1, StaysMoved DEF Shapes
<1> DEFINE x == [op |-> "close", arg |-> "user"]
<1>3. x \in Requests /\ x.op # "spawn" /\ x.op # "attach" /\ x.op # "ack"
  BY DEF Requests
<1> HIDE DEF x
<1>4. PICK M : /\ toRust' \in Seq(Requests) /\ Moved(toRust, toRust', 0, M)
               /\ \A z \in M : z.op # "spawn" /\ z.op # "attach" /\ z.op # "ack"
  <2>1. toRust \in Seq(Requests)
    BY DEF Shapes
  <2>2. CASE toRust' = toRust \o <<x>>
    <3>1. toRust' \in Seq(Requests) /\ Moved(toRust, toRust', 0, {x})
      BY <1>3, <2>1, <2>2, OneSaid
    <3>2. \A z \in {x} : z.op # "spawn" /\ z.op # "attach" /\ z.op # "ack"
      BY <1>3
    <3>. QED
      BY <3>1, <3>2
  <2>3. CASE toRust' = toRust
    <3>1. toRust' \in Seq(Requests) /\ Moved(toRust, toRust', 0, {})
      BY <2>1, <2>3, StaysMoved
    <3>. QED
      BY <3>1
  <2>4. CASE toRust' = toRust \o <<>>
    <3>1. toRust' \in Seq(Requests) /\ Moved(toRust, toRust', 0, {})
      BY <2>1, <2>4, NothingSaid
    <3>. QED
      BY <3>1
  <2>. QED
    BY <1>1, <2>2, <2>3, <2>4 DEF x
<1>5. /\ queue' \in Seq(Nat) /\ out' \in Nat /\ events' \in Seq(Events)
      /\ out' + Len(queue') = out + Len(queue) /\ \A i \in 1..Len(queue') : queue'[i] = out' + i
      /\ Chained' /\ Addressed' /\ Showing' /\ Seen' = Seen
      /\ out' = out \/ out' = out + Len(queue)
  <2>1. CASE Flush
    BY <1>1, <2>1, Flushed
  <2>2. CASE UNCHANGED <<queue, out, events>>
    <3>1. /\ queue' \in Seq(Nat) /\ out' \in Nat /\ events' \in Seq(Events)
      BY <2>2 DEF Shapes
    <3>2. out' + Len(queue') = out + Len(queue) /\ \A i \in 1..Len(queue') : queue'[i] = out' + i
      BY <2>2 DEF Piped
    <3>3. Chained' /\ Addressed' /\ Showing' /\ Seen' = Seen
      BY <1>1, <2>2 DEF Chained, First, After, Addressed, Showing, Seen
    <3>. QED
      BY <2>2, <3>1, <3>2, <3>3
  <2>. QED
    BY <1>1, <2>1, <2>2
<1>6. Seen \in Nat /\ Seen' \in Nat /\ Seen <= Seen'
  BY <1>5, SeenIsNat
<1>7. consumer' = consumer /\ page' \in Nat /\ page <= page'
  BY <1>1, Facts
<1>8. Shapes'
  <2>1. queue' \in Seq(Nat) /\ out' \in Nat /\ events' \in Seq(Events) /\ toRust' \in Seq(Requests)
    BY <1>4, <1>5
  <2>. QED
    BY <1>1, <2>1 DEF Shapes, Active, Ended
<1>9. Chained'
  BY <1>5
<1>10. Addressed'
  BY <1>5
<1>11. Announced'
  BY <1>2, <1>7, PagesNamed, AnnouncedKept
<1>12. Asked'
  BY <1>2, <1>4, <1>7, AskedKept
<1>13. Showing'
  BY <1>5
<1>14. Piped(w)'
  <2>1. Kept' => Kept
    BY <1>1 DEF Kept
  <2>. QED
    BY <1>1, <1>5, <2>1, PipedStays
<1>15. Acked'
  BY <1>4, <1>6, AckedKept
<1>16. Ahead(w, b)'
  <2>1. shut' = shut /\ batch' = batch
    BY <1>1
  <2>. QED
    BY <1>5, <2>1 DEF Ahead
<1>17. Spawning'
  <2>1. (~gate' /\ batch' = <<>>) \/ ~Silent
    BY <1>1 DEF Silent
  <2>2. "spawn" \in waits' => "spawn" \in waits
    BY <1>1
  <2>. QED
    BY <1>2, <1>4, <2>1, <2>2, SpawningKept
<1>18. Exited'
  BY <1>1 DEF Exited
<1>19. Positions' /\ Unwritten(w, b)' /\ Leaving(w)'
  BY <1>1 DEF Positions, Unwritten, Leaving, IsFrame
<1>. QED
  BY <1>8, <1>9, <1>10, <1>11, <1>12, <1>13, <1>14, <1>15, <1>16, <1>17, <1>18, <1>19

LEMMA CloseTimeoutStep ==
    ASSUME NEW w \in Nat, NEW b \in Nat, Inv(w, b), CloseTimeout
    PROVE  Inv(w, b)'
<1> USE DEF Inv
<1>1. /\ waits' \subseteq waits
      /\ UNCHANGED <<shell, made, held, frames, emitted, delivered,
                       gate, shut, batch, batchEnd, impatient,
                       toRust, fromRust, status, current, reclaimed, consumer,
                       timer, ackedThrough, queue, out, page, bound,
                       events, shown>>
  BY DEF CloseTimeout, pipe, sidecar, view
<1>2. Shapes'
  BY <1>1 DEF Shapes
<1>3. Positions' /\ Chained' /\ Addressed' /\ Announced' /\ Asked'
  BY <1>1 DEF Positions, Chained, First, After, Addressed, Announced, Attached, Asked, Asks
<1>4. Showing' /\ Piped(w)' /\ Unwritten(w, b)' /\ Acked' /\ Ahead(w, b)'
  BY <1>1 DEF Showing, Seen, First, Piped, IsFrame, Kept, Unwritten, Acked, Asks, Ahead
<1>5. Spawning' /\ Exited' /\ Leaving(w)'
  BY <1>1 DEF Spawning, Silent, Replied, Asks, Exited, Leaving, IsFrame
<1>. QED
  BY <1>2, <1>3, <1>4, <1>5

LEMMA SidecarEndsStep ==
    ASSUME NEW w \in Nat, NEW b \in Nat, Inv(w, b), NEW v \in Nat, v = out + Len(queue'), SidecarEnds
    PROVE  Inv(v, b)'
<1> USE DEF Inv
<1>1. /\ Window \in Nat /\ MaxFrames \in Nat
      /\ made \in Nat /\ made <= MaxFrames
      /\ Len(batch) \in Nat
      /\ out \in Nat
      /\ Len(queue) \in Nat
  BY Facts
<1>2. /\ shell' = "gone" /\ shut' = TRUE /\ held' = FALSE /\ frames' = <<>> /\ emitted' = 0 /\ delivered' = 0
      /\ batch' = <<>> /\ batchEnd' = 0 /\ toRust' = <<>> /\ fromRust' = <<>> /\ waits' = {}
      /\ queue' = queue \/ queue' = <<>>
      /\ status' \in {status, "disconnected"} /\ timer' \in BOOLEAN
      /\ UNCHANGED <<made, gate, impatient, current, reclaimed, consumer,
                       ackedThrough, out, page, bound, events, shown,
                       timeouts>>
  <2>. HIDE DEF Inv
  <2>1. queue' = queue \/ queue' = <<>>
    BY Zenon DEF SidecarEnds
  <2>2. status' \in {status, "disconnected"} /\ timer' \in BOOLEAN
    BY DEF SidecarEnds, Inv, Shapes
  <2>3. UNCHANGED <<made, gate, impatient, current, reclaimed, consumer, ackedThrough, out, view, timeouts>>
    BY DEF SidecarEnds
  <2>. QED
    BY <2>1, <2>2, <2>3 DEF SidecarEnds, view
<1>3. /\ Len(queue') \in Nat /\ Len(queue') <= Len(queue)
      /\ queue' \in Seq(Nat) /\ \A i \in 1..Len(queue') : queue'[i] = out + i
  <2>1. CASE queue' = queue
    BY <1>1, <2>1 DEF Piped, Shapes
  <2>2. CASE queue' = <<>>
    BY <1>1, <2>2
  <2>. QED
    BY <1>2, <2>1, <2>2
<1>4. v <= w /\ w <= made
  BY <1>1, <1>3 DEF Piped, Unwritten
<1>5. Seen \in Nat /\ Seen' = Seen
  BY <1>2, SeenIsNat DEF Seen, First
<1>6. Shapes'
  <2>1. frames' \in Seq(Frames) /\ batch' \in Seq(Frames) /\ toRust' \in Seq(Requests) /\ fromRust' \in Seq(Lines)
    BY <1>2, EmptySeq
  <2>2. emitted' \in Nat /\ delivered' \in Nat /\ delivered' <= emitted' /\ emitted' <= Len(frames') /\ batchEnd' \in Nat
    BY <1>2
  <2>3. /\ shell' \in {"none", "alive", "ended", "leaving", "gone"}
        /\ held' \in BOOLEAN /\ shut' \in BOOLEAN /\ status' \in Active \cup Ended
        /\ waits' \subseteq {"spawn", "close"}
    BY <1>2 DEF Shapes, Ended
  <2>. QED
    BY <1>2, <1>3, <2>1, <2>2, <2>3 DEF Shapes
<1>7. Positions'
  BY <1>2 DEF Positions
<1>8. Announced'
  BY <1>2 DEF Announced
<1>9. Asked'
  BY <1>2 DEF Asked
<1>10. Piped(v)'
  <2>1. 1..Len(fromRust') = {} /\ out' = out
    BY <1>2
  <2>2. v + 1..v = {} /\ v <= v
    OBVIOUS
  <2>. QED
    BY <1>3, <2>1, <2>2 DEF Piped
<1>11. Unwritten(v, b)'
  BY <1>1, <1>2, <1>4 DEF Unwritten
<1>12. Acked'
  BY <1>2 DEF Acked
<1>13. Ahead(v, b)'
  BY <1>1, <1>2, <1>4, <1>5 DEF Ahead
<1>14. Spawning'
  BY <1>2 DEF Spawning, Silent, Replied, IsFrame
<1>15. Exited'
  BY <1>2 DEF Exited
<1>16. Leaving(v)'
  BY <1>2 DEF Leaving
<1>17. Chained' /\ Addressed' /\ Showing'
  BY <1>2 DEF Chained, First, After, Addressed, Showing, Seen
<1>. QED
  BY <1>6, <1>7, <1>8, <1>9, <1>10, <1>11, <1>12, <1>13, <1>14, <1>15, <1>16, <1>17

-----------------------------------------------------------------------------
(* The page.                                                               *)

LEMMA AskAttachStep ==
    ASSUME NEW w \in Nat, NEW b \in Nat, Inv(w, b), AskAttach
    PROVE  Inv(w, b)'
<1> USE DEF Inv
<1>1. /\ page \in Nat /\ consumer \in Nat /\ consumer <= page
  BY Facts
<1>2. /\ page' = page /\ bound' = TRUE
      /\ toRust' = toRust \o <<[op |-> "attach", arg |-> page']>> \/ toRust' = toRust \o <<>>
      /\ UNCHANGED <<shell, made, held, frames, emitted, delivered,
                       gate, shut, batch, batchEnd, impatient,
                       fromRust, status, current, reclaimed, consumer, timer,
                       waits, ackedThrough, queue, out, events,
                       shown, timeouts>>
  <2>1. Binding = <<[op |-> "attach", arg |-> page']>> \/ Binding = <<>>
    BY DEF Binding
  <2>. HIDE DEF Inv
  <2>. QED
    BY <2>1, Zenon DEF AskAttach, Ask, sidecar, record
<1>3. Moved(fromRust, fromRust', 0, {})
  BY <1>2, StaysMoved DEF Shapes
<1>4. PICK M : /\ toRust' \in Seq(Requests) /\ Moved(toRust, toRust', 0, M)
               /\ \A z \in M : /\ z.op # "spawn" /\ z.op # "ack"
                               /\ z.op = "attach" => z.arg = page'
  <2>1. page' \in Nat
    BY <1>1, <1>2
  <2>. DEFINE x == [op |-> "attach", arg |-> page']
  <2>2. /\ toRust \in Seq(Requests) /\ x \in Requests
        /\ x.op # "spawn" /\ x.op # "ack" /\ x.arg = page'
    BY <2>1 DEF Shapes, Requests
  <2>3. toRust' = toRust \o <<x>> \/ toRust' = toRust \o <<>>
    BY <1>2
  <2>. HIDE DEF x
  <2>4. CASE toRust' = toRust \o <<x>>
    <3>1. toRust' \in Seq(Requests) /\ Moved(toRust, toRust', 0, {x})
      BY <2>2, <2>4, OneSaid
    <3>2. \A z \in {x} : z.op # "spawn" /\ z.op # "ack" /\ z.arg = page'
      BY <2>2
    <3>. QED
      BY <3>1, <3>2
  <2>5. CASE toRust' = toRust \o <<>>
    <3>1. toRust' \in Seq(Requests) /\ Moved(toRust, toRust', 0, {})
      BY <2>2, <2>5, NothingSaid
    <3>. QED
      BY <3>1
  <2>. QED
    BY <2>3, <2>4, <2>5
<1>5. /\ \A z \in M : z.op # "spawn"
      /\ \A z \in M : z.op = "ack" => z.arg <= Seen'
      /\ \A z \in M : z.op = "attach" => z.arg = page'
  <2>. HIDE DEF Inv
  <2>1. \A z \in M : z.op # "spawn" /\ z.op # "ack" /\ (z.op = "attach" => z.arg = page')
    BY <1>4, Zenon
  <2>. QED
    BY <2>1, Zenon
<1>6. out' + Len(queue') = out + Len(queue) /\ \A i \in 1..Len(queue') : queue'[i] = out' + i
  BY <1>2 DEF Piped
<1>7. Seen \in Nat /\ Seen' = Seen /\ Seen <= Seen'
  BY <1>2, SeenIsNat DEF Seen, First
<1>8. consumer' = consumer /\ page' \in Nat /\ page <= page'
  BY <1>2, Facts
<1>9. Shapes'
  BY <1>2, <1>4 DEF Shapes
<1>10. Announced'
  BY <1>3, <1>8, PagesNamed, AnnouncedKept
<1>11. Asked'
  BY <1>3, <1>4, <1>5, <1>8, AskedKept
<1>12. Showing'
  BY <1>1, <1>2 DEF Showing, Seen, First
<1>13. Acked'
  BY <1>4, <1>7, <1>5, AckedKept
<1>14. Spawning'
  <2>1. (~gate' /\ batch' = <<>>) \/ ~Silent
    BY <1>2 DEF Silent
  <2>2. waits' = waits
    BY <1>2
  <2>. QED
    BY <1>3, <1>4, <2>1, <2>2, SpawningKept
<1>15. Positions' /\ Chained' /\ Addressed' /\ Piped(w)' /\ Unwritten(w, b)'
  BY <1>2 DEF Positions, Chained, First, After, Addressed, Piped, IsFrame, Kept, Unwritten
<1>16. Ahead(w, b)' /\ Exited' /\ Leaving(w)'
  BY <1>2 DEF Ahead, Seen, First, Exited, Leaving, IsFrame
<1>. QED
  BY <1>9, <1>10, <1>11, <1>12, <1>13, <1>14, <1>15, <1>16

LEMMA ReloadStep ==
    ASSUME NEW w \in Nat, NEW b \in Nat, Inv(w, b), Reload
    PROVE  Inv(w, b)'
<1> USE DEF Inv
<1>1. /\ page \in Nat /\ consumer \in Nat /\ consumer <= page
  BY Facts
<1>2. /\ page < MaxPages /\ page' = page + 1
      /\ bound' = TRUE /\ events' = <<>> /\ shown' = <<>>
      /\ toRust' = toRust \o <<[op |-> "attach", arg |-> page']>> \/ toRust' = toRust \o <<>>
      /\ UNCHANGED <<shell, made, held, frames, emitted, delivered,
                       gate, shut, batch, batchEnd, impatient,
                       fromRust, status, current, reclaimed, consumer, timer,
                       waits, ackedThrough, queue, out, timeouts>>
  <2>1. Binding = <<[op |-> "attach", arg |-> page']>> \/ Binding = <<>>
    BY DEF Binding
  <2>. HIDE DEF Inv
  <2>. QED
    BY <2>1, Zenon DEF Reload, Ask, sidecar, record
<1>3. Moved(fromRust, fromRust', 0, {})
  BY <1>2, StaysMoved DEF Shapes
<1>4. PICK M : /\ toRust' \in Seq(Requests) /\ Moved(toRust, toRust', 0, M)
               /\ \A z \in M : /\ z.op # "spawn" /\ z.op # "ack"
                               /\ z.op = "attach" => z.arg = page'
  <2>1. page' \in Nat
    BY <1>1, <1>2
  <2>. DEFINE x == [op |-> "attach", arg |-> page']
  <2>2. /\ toRust \in Seq(Requests) /\ x \in Requests
        /\ x.op # "spawn" /\ x.op # "ack" /\ x.arg = page'
    BY <2>1 DEF Shapes, Requests
  <2>3. toRust' = toRust \o <<x>> \/ toRust' = toRust \o <<>>
    BY <1>2
  <2>. HIDE DEF x
  <2>4. CASE toRust' = toRust \o <<x>>
    <3>1. toRust' \in Seq(Requests) /\ Moved(toRust, toRust', 0, {x})
      BY <2>2, <2>4, OneSaid
    <3>2. \A z \in {x} : z.op # "spawn" /\ z.op # "ack" /\ z.arg = page'
      BY <2>2
    <3>. QED
      BY <3>1, <3>2
  <2>5. CASE toRust' = toRust \o <<>>
    <3>1. toRust' \in Seq(Requests) /\ Moved(toRust, toRust', 0, {})
      BY <2>2, <2>5, NothingSaid
    <3>. QED
      BY <3>1
  <2>. QED
    BY <2>3, <2>4, <2>5
<1>5. /\ \A z \in M : z.op # "spawn"
      /\ \A z \in M : z.op = "ack" => z.arg <= Seen'
      /\ \A z \in M : z.op = "attach" => z.arg = page'
  <2>. HIDE DEF Inv
  <2>1. \A z \in M : z.op # "spawn" /\ z.op # "ack" /\ (z.op = "attach" => z.arg = page')
    BY <1>4, Zenon
  <2>. QED
    BY <2>1, Zenon
<1>6. out' + Len(queue') = out + Len(queue) /\ \A i \in 1..Len(queue') : queue'[i] = out' + i
  BY <1>2 DEF Piped
<1>7. Seen \in Nat /\ Seen' = out /\ Seen' \in Nat /\ Seen <= Seen'
  BY <1>2, SeenIsNat, Facts DEF Seen
<1>8. consumer' = consumer /\ page' \in Nat /\ page <= page'
  BY <1>1, <1>2
<1>9. Shapes'
  <2>1. page' \in Pages /\ consumer \in 0..page'
    BY <1>2, TerminalAssumption, Facts DEF Shapes, Pages
  <2>2. events' \in Seq(Events) /\ shown' \in Seq(Nat)
    BY <1>2, EmptySeq
  <2>. QED
    BY <1>2, <1>4, <2>1, <2>2 DEF Shapes
<1>10. Chained'
  BY <1>2 DEF Chained
<1>11. Addressed'
  BY <1>2 DEF Addressed
<1>12. Announced'
  BY <1>3, <1>8, PagesNamed, AnnouncedKept
<1>13. Asked'
  BY <1>3, <1>4, <1>5, <1>8, AskedKept
<1>14. Showing'
  BY <1>2 DEF Showing
<1>15. Acked'
  BY <1>4, <1>7, <1>5, AckedKept
<1>16. Ahead(w, b)'
  <2>1. /\ ~shut => b <= Seen
        /\ w + Len(batch) <= Seen + Window + 1
        /\ Len(batch) \in Nat /\ Window \in Nat
    BY Facts DEF Ahead
  <2>2. w + Len(batch) <= Seen' + Window + 1 /\ (b <= Seen => b <= Seen')
    BY <1>7, <2>1
  <2>. QED
    BY <1>2, <2>1, <2>2 DEF Ahead
<1>17. Spawning'
  <2>1. (~gate' /\ batch' = <<>>) \/ ~Silent
    BY <1>2 DEF Silent
  <2>2. waits' = waits
    BY <1>2
  <2>. QED
    BY <1>3, <1>4, <2>1, <2>2, SpawningKept
<1>18. Positions' /\ Piped(w)' /\ Unwritten(w, b)' /\ Exited' /\ Leaving(w)'
  BY <1>2 DEF Positions, Piped, IsFrame, Kept, Unwritten, Exited, Leaving
<1>. QED
  BY <1>9, <1>10, <1>11, <1>12, <1>13, <1>14, <1>15, <1>16, <1>17, <1>18

LEMMA RenderStep ==
    ASSUME NEW w \in Nat, NEW b \in Nat, Inv(w, b), Render
    PROVE  Inv(w, b)'
<1> USE DEF Inv
<1>1. /\ out \in Nat
      /\ page \in Nat /\ consumer \in Nat /\ consumer <= page
      /\ Len(batch) \in Nat
      /\ Window \in Nat /\ MaxFrames \in Nat
      /\ Len(shown) \in Nat
      /\ (shown = <<>> <=> Len(shown) = 0)
  BY Facts
<1>2. /\ events # <<>> /\ events' = Tail(events)
      /\ shown' = IF Head(events).to = page THEN shown \o Head(events).frames ELSE shown
      /\ UNCHANGED <<shell, made, held, frames, emitted, delivered,
                       gate, shut, batch, batchEnd, impatient,
                       toRust, fromRust, status, current, reclaimed, consumer,
                       timer, waits, ackedThrough, queue, out, page,
                       bound, timeouts>>
  <2>. HIDE DEF Inv
  <2>. QED
    BY Zenon DEF Render, sidecar, pipe, record
<1>3. PICK L \in Nat : /\ L = Len(events) /\ L >= 1
                       /\ events' \in Seq(Events) /\ Len(events') = L - 1 /\ Head(events) = events[1]
                       /\ \A i \in 1..L - 1 : events'[i] = events[i + 1]
  <2>1. events \in Seq(Events)
    BY DEF Shapes
  <2>. QED
    BY <1>2, <2>1, Popped
<1>4. PICK f : /\ f = events[1].frames /\ f \in Seq(Nat) /\ f # <<>>
  <2>1. events[1] \in Events
    BY <1>3, ElementOfSeq DEF Shapes
  <2>2. events[1].frames \in Seq(Nat)
    BY <2>1 DEF Events
  <2>3. 1 \in 1..Len(events)
    BY <1>3
  <2>4. events[1].frames # <<>>
    BY <2>3 DEF Chained
  <2>. QED
    BY <2>2, <2>4
<1>5. PICK m \in Nat, s \in Nat : m = Len(f) /\ m >= 1 /\ s = f[1]
  <2>1. Len(f) \in Nat /\ Len(f) >= 1
    BY <1>4, LenProperties, EmptySeq
  <2>2. f[1] \in Nat
    BY <1>4, <2>1, ElementOfSeq
  <2>. QED
    BY <2>1, <2>2
<1>6. /\ s >= 1 /\ s + m <= out + 1 /\ \A k \in 1..m : f[k] = s + k - 1
      /\ L = 1 => s + m = out + 1
      /\ 1 < L => First(2) = s + m
      /\ First(1) = s /\ After(1) = s + m
  <2>1. First(1) = s /\ After(1) = s + m
    BY <1>4, <1>5 DEF First, After
  <2>2. 1 \in 1..L
    BY <1>3
  <2>3. /\ First(1) >= 1 /\ After(1) <= out + 1
        /\ \A k \in 1..Len(events[1].frames) : events[1].frames[k] = First(1) + k - 1
        /\ 1 < L => First(1 + 1) = After(1)
        /\ 1 = L => After(1) = out + 1
    BY <1>3, <2>2 DEF Chained
  <2>4. \A k \in 1..m : f[k] = s + k - 1
    BY <1>4, <1>5, <2>1, <2>3
  <2>5. s >= 1 /\ s + m <= out + 1 /\ (L = 1 => s + m = out + 1) /\ (1 < L => First(2) = s + m)
    BY <2>1, <2>3
  <2>. QED
    BY <2>1, <2>4, <2>5
<1>7. \A i \in 1..L - 1 : /\ i \in 1..L /\ i + 1 \in 1..L
                         /\ First(i)' = First(i + 1) /\ After(i)' = After(i + 1)
  BY <1>3 DEF First, After
<1>8. Seen = s - 1 /\ Seen' = s + m - 1 /\ Seen \in Nat /\ Seen' \in Nat /\ Seen <= Seen'
  <2>1. Seen = s - 1
    BY <1>2, <1>6 DEF Seen
  <2>2. CASE L = 1
    <3>1. events' = <<>> /\ s + m = out + 1
      BY <1>3, <1>6, <2>2, EmptySeq
    <3>2. Seen' = out
      BY <1>2, <3>1 DEF Seen
    <3>3. s \in Nat /\ m \in Nat /\ m >= 1 /\ s >= 1
      BY <1>5, <1>6
    <3>4. s + m - 1 = out /\ s - 1 \in Nat /\ s - 1 <= out
      BY <1>1, <3>1, <3>3
    <3>. QED
      BY <1>1, <2>1, <3>2, <3>4
  <2>3. CASE 1 < L
    <3>1. events' # <<>> /\ 1 \in 1..L - 1
      BY <1>3, <2>3
    <3>2. First(1)' = s + m
      BY <1>6, <1>7, <2>3, <3>1
    <3>3. Seen' = s + m - 1
      BY <3>1, <3>2 DEF Seen
    <3>. QED
      BY <1>5, <1>6, <2>1, <3>3
  <2>. QED
    BY <1>3, <2>2, <2>3
<1>9. \/ /\ events[1].to = page /\ shown' \in Seq(Nat) /\ Len(shown') = Len(shown) + m
         /\ \A j \in 1..Len(shown) : shown'[j] = shown[j]
         /\ \A j \in 1..m : shown'[Len(shown) + j] = f[j]
      \/ shown = <<>> /\ shown' = <<>>
  <2>1. CASE events[1].to = page
    <3>1. shown \in Seq(Nat) /\ shown' = shown \o f
      BY <1>2, <1>3, <1>4, <2>1 DEF Shapes
    <3>. QED
      BY <1>4, <1>5, <2>1, <3>1, JoinedSeq
  <2>2. CASE events[1].to # page
    <3>1. shown' = shown
      BY <1>2, <1>3, <2>2
    <3>2. shown # <<>> => events[1].to = page
      BY <1>3 DEF Showing
    <3>. QED
      BY <2>2, <3>1, <3>2
  <2>. QED
    BY <2>1, <2>2
<1>10. Moved(toRust, toRust', 0, {})
  BY <1>2, StaysMoved DEF Shapes
<1>11. Shapes'
  <2>1. shown' \in Seq(Nat)
    BY <1>9, EmptySeq
  <2>. QED
    BY <1>2, <1>3, <2>1 DEF Shapes
<1>12. Chained'
  <2>1. ASSUME NEW i \in 1..L - 1
        PROVE  /\ events'[i].frames # <<>> /\ First(i)' >= 1 /\ After(i)' <= out + 1
               /\ \A k \in 1..Len(events'[i].frames) : events'[i].frames[k] = First(i)' + k - 1
               /\ i < L - 1 => First(i + 1)' = After(i)'
               /\ i = L - 1 => After(i)' = out + 1
    <3>1. PICK j \in 1..L : j = i + 1
      BY <1>3
    <3>2. /\ events[j].frames # <<>> /\ First(j) >= 1 /\ After(j) <= out + 1
          /\ \A k \in 1..Len(events[j].frames) : events[j].frames[k] = First(j) + k - 1
          /\ j < L => First(j + 1) = After(j)
          /\ j = L => After(j) = out + 1
      BY <1>3 DEF Chained
    <3>3. events'[i] = events[j] /\ First(i)' = First(j) /\ After(i)' = After(j)
      BY <1>3, <1>7, <3>1
    <3>4. i < L - 1 => First(i + 1)' = After(i)'
      <4>1. SUFFICES ASSUME i < L - 1 PROVE First(i + 1)' = After(i)'
        OBVIOUS
      <4>2. i + 1 \in 1..L - 1 /\ j < L
        BY <3>1, <4>1
      <4>3. First(i + 1)' = First((i + 1) + 1)
        BY <1>7, <4>2
      <4>. QED
        BY <3>1, <3>2, <3>3, <4>2, <4>3
    <3>5. i = L - 1 => j = L
      BY <3>1
    <3>. QED
      BY <3>2, <3>3, <3>4, <3>5
  <2>2. ASSUME NEW i \in 1..L - 1, NEW j \in 1..L - 1, i < j
        PROVE  After(i)' <= First(j)'
    <3>1. i + 1 < j + 1
      BY <2>2
    <3>. QED
      BY <1>3, <1>7, <3>1 DEF Chained
  <2>3. Len(events') = L - 1 /\ out' = out
    BY <1>2, <1>3
  <2>. QED
    BY <2>1, <2>2, <2>3 DEF Chained
<1>13. Addressed'
  <2>1. \A i \in 1..L - 1 : events'[i].to <= consumer
    BY <1>3, <1>7 DEF Addressed
  <2>2. ASSUME NEW i \in 1..L - 1, NEW j \in 1..L - 1, i < j
        PROVE  events'[i].to <= events'[j].to
    <3>1. i + 1 < j + 1
      BY <2>2
    <3>. QED
      BY <1>3, <1>7, <3>1 DEF Addressed
  <2>3. Len(events') = L - 1 /\ consumer' = consumer
    BY <1>2, <1>3
  <2>. QED
    BY <2>1, <2>2, <2>3 DEF Addressed
<1>14. Showing'
  <2>1. CASE shown' = <<>>
    BY <2>1 DEF Showing
  <2>2. CASE /\ events[1].to = page /\ shown' \in Seq(Nat) /\ Len(shown') = Len(shown) + m
             /\ \A j \in 1..Len(shown) : shown'[j] = shown[j]
             /\ \A j \in 1..m : shown'[Len(shown) + j] = f[j]
    <3>1. PICK l \in Nat : l = Len(shown) /\ (l # 0 => shown[l] = s - 1)
      BY <1>1, <1>8 DEF Showing
    <3>2. shown'[l + 1] = s /\ shown'[l + m] = s + m - 1
      <4>1. 1 \in 1..m /\ m \in 1..m /\ f[1] = s + 1 - 1 /\ f[m] = s + m - 1
        BY <1>5, <1>6
      <4>. QED
        BY <1>5, <2>2, <3>1, <4>1
    <3>3. ASSUME NEW i \in 1..l + m - 1
          PROVE  shown'[i + 1] = shown'[i] + 1
      <4>1. CASE i < l
        <5>1. i \in 1..l - 1 /\ i \in 1..l /\ i + 1 \in 1..l
          BY <4>1
        <5>2. shown[i + 1] = shown[i] + 1
          BY <3>1, <5>1 DEF Showing
        <5>. QED
          BY <2>2, <3>1, <5>1, <5>2
      <4>2. CASE i = l
        <5>1. shown'[l] = s - 1
          BY <2>2, <3>1, <4>2
        <5>. QED
          BY <1>5, <3>2, <4>2, <5>1
      <4>3. CASE i > l
        <5>1. i - l \in 1..m /\ (i - l) + 1 \in 1..m /\ l + (i - l) = i /\ l + ((i - l) + 1) = i + 1
          BY <4>3
        <5>2. shown'[i] = f[i - l] /\ shown'[i + 1] = f[(i - l) + 1]
          <6>1. /\ shown'[l + (i - l)] = f[i - l]
                /\ shown'[l + ((i - l) + 1)] = f[(i - l) + 1]
            BY <2>2, <3>1, <5>1
          <6>. QED
            BY <5>1, <6>1
        <5>3. f[i - l] = s + (i - l) - 1 /\ f[(i - l) + 1] = s + ((i - l) + 1) - 1
          BY <1>6, <5>1
        <5>. QED
          BY <5>2, <5>3
      <4>. QED
        BY <4>1, <4>2, <4>3
    <3>4. Len(shown') = l + m /\ shown'[Len(shown')] = Seen'
      BY <1>8, <2>2, <3>1, <3>2
    <3>5. consumer = page
      <4>1. events[1].to <= consumer
        BY <1>3 DEF Addressed
      <4>. QED
        BY <1>1, <2>2, <4>1
    <3>6. \A i \in 1..Len(events') : events'[i].to = page
      <4>1. SUFFICES ASSUME NEW i \in 1..L - 1 PROVE events'[i].to = page
        BY <1>3
      <4>2. /\ 1 < i + 1 /\ i + 1 \in 1..L /\ 1 \in 1..L
        BY <1>3
      <4>3. events[1].to <= events[i + 1].to /\ events[i + 1].to <= consumer
        BY <1>3, <4>2 DEF Addressed
      <4>4. events[i + 1].to \in Nat
        <5>1. events[i + 1] \in Events
          BY <1>3, <4>2, ElementOfSeq DEF Shapes
        <5>. QED
          BY <5>1 DEF Events
      <4>. QED
        BY <1>1, <1>3, <2>2, <3>5, <4>3, <4>4
    <3>7. consumer' = consumer /\ page' = page
      BY <1>2
    <3>. QED
      BY <3>3, <3>4, <3>5, <3>6, <3>7 DEF Showing
  <2>. QED
    BY <1>9, <2>1, <2>2
<1>15. Acked'
  BY <1>8, <1>10, AckedKept
<1>16. Ahead(w, b)'
  <2>1. /\ ~shut => b <= Seen
        /\ w + Len(batch) <= Seen + Window + 1
    BY DEF Ahead
  <2>2. w + Len(batch) <= Seen' + Window + 1 /\ (b <= Seen => b <= Seen')
    BY <1>1, <1>8, <2>1
  <2>. QED
    BY <1>2, <2>1, <2>2 DEF Ahead
<1>17. Positions' /\ Announced' /\ Asked' /\ Piped(w)' /\ Unwritten(w, b)'
  BY <1>2 DEF Positions, Announced, Attached, Asked, Asks, Piped, IsFrame, Kept, Unwritten
<1>18. Spawning' /\ Exited' /\ Leaving(w)'
  BY <1>2 DEF Spawning, Silent, Replied, Asks, Exited, Leaving, IsFrame
<1>. QED
  BY <1>11, <1>12, <1>13, <1>14, <1>15, <1>16, <1>17, <1>18

LEMMA SendAckStep ==
    ASSUME NEW w \in Nat, NEW b \in Nat, Inv(w, b), SendAck
    PROVE  Inv(w, b)'
<1> USE DEF Inv
<1>1. /\ PendingHighest > ackedThrough /\ ackedThrough' = PendingHighest
      /\ toRust' = toRust \o <<[op |-> "ack", arg |-> PendingHighest]>>
      /\ UNCHANGED <<shell, made, held, frames, emitted, delivered,
                       gate, shut, batch, batchEnd, impatient,
                       fromRust, status, current, reclaimed, consumer, timer,
                       waits, queue, out, page, bound, events, shown,
                       timeouts>>
  BY DEF SendAck, Ask, sidecar
<1>2. PendingHighest = Seen /\ Seen \in Nat
  <2>1. shown # <<>>
    <3>1. ackedThrough \in Nat
      BY DEF Shapes
    <3>. QED
      BY <1>1, <3>1 DEF PendingHighest
  <2>. QED
    BY <2>1, SeenIsNat DEF PendingHighest, Showing, Last
<1> DEFINE x == [op |-> "ack", arg |-> Seen]
<1>3. x \in Requests /\ x.op = "ack" /\ x.arg = Seen
  BY <1>2 DEF Requests
<1> HIDE DEF x
<1>4. toRust' \in Seq(Requests) /\ Moved(toRust, toRust', 0, {x})
  <2>1. toRust' = toRust \o <<x>> /\ toRust \in Seq(Requests)
    BY <1>1, <1>2 DEF x, Shapes
  <2>. QED
    BY <1>3, <2>1, OneSaid
<1>5. Moved(fromRust, fromRust', 0, {})
  BY <1>1, StaysMoved DEF Shapes
<1>6. Seen \in Nat /\ Seen' = Seen /\ Seen <= Seen'
  BY <1>1, SeenIsNat DEF Seen, First
<1>7. consumer' = consumer /\ page' \in Nat /\ page <= page'
  BY <1>1, Facts
<1>8. Shapes'
  BY <1>1, <1>4, <1>2 DEF Shapes
<1>9. Asked'
  <2>1. \A y \in {x} : y.op = "attach" => y.arg = page'
    BY <1>3
  <2>. QED
    BY <1>5, <1>4, <1>7, <2>1, AskedKept
<1>10. Acked'
  <2>1. \A y \in {x} : y.op = "ack" => y.arg <= Seen'
    BY <1>6, <1>3
  <2>. QED
    BY <1>4, <1>6, <2>1, AckedKept
<1>11. Spawning'
  <2>1. (~gate' /\ batch' = <<>>) \/ ~Silent
    BY <1>1 DEF Silent
  <2>2. waits' = waits
    BY <1>1
  <2>. QED
    BY <1>4, <1>5, <2>1, <2>2, SpawningKept
<1>12. Positions' /\ Chained' /\ Addressed' /\ Announced' /\ Showing'
  BY <1>1 DEF Positions, Chained, First, After, Addressed, Announced, Attached, Showing, Seen
<1>13. Piped(w)' /\ Unwritten(w, b)' /\ Ahead(w, b)' /\ Exited' /\ Leaving(w)'
  BY <1>1 DEF Piped, IsFrame, Kept, Unwritten, Ahead, Seen, First, Exited, Leaving
<1>. QED
  BY <1>8, <1>9, <1>10, <1>11, <1>12, <1>13

LEMMA OnAttachedStep ==
    ASSUME NEW w \in Nat, NEW b \in Nat, Inv(w, b), OnAttached
    PROVE  Inv(w, b)'
<1> USE DEF Inv
<1>1. /\ page \in Nat /\ consumer \in Nat /\ consumer <= page
  BY Facts
<1>2. /\ Line("attached")
      /\ consumer' = Head(fromRust).arg /\ timer' = FALSE
      /\ UNCHANGED <<shell, made, held, frames, emitted, delivered,
                       gate, shut, batch, batchEnd, impatient,
                       toRust, status, current, reclaimed, waits,
                       ackedThrough, queue, out, page, bound, events,
                       shown, timeouts>>
  BY DEF OnAttached, sidecar, view
<1>3. /\ fromRust' \in Seq(Lines) /\ Moved(fromRust, fromRust', 1, {})
      /\ Head(fromRust) = fromRust[1] /\ fromRust[1] \in Lines /\ 1 \in 1..Len(fromRust)
      /\ fromRust[1].line = "attached"
  BY <1>2, Heard
<1>4. PICK p \in Nat : /\ p = fromRust[1].arg /\ consumer' = p
                       /\ consumer <= p /\ p <= page
                       /\ \A j \in 1..Len(fromRust) : Attached(j) /\ 1 < j => p <= fromRust[j].arg
                       /\ \A i \in 1..Len(toRust) : Asks(i, "attach") => p <= toRust[i].arg
  <2>1. Attached(1)
    BY <1>3 DEF Attached
  <2>. QED
    BY <1>2, <1>3, <2>1, PagesNamed DEF Announced, Asked
<1>5. /\ Len(fromRust) \in Nat /\ Len(fromRust') \in Nat
      /\ \A j \in 1..Len(fromRust') : j + 1 \in 1..Len(fromRust) /\ fromRust'[j] = fromRust[j + 1]
  <2>1. /\ Len(fromRust) \in Nat /\ Len(fromRust') \in Nat /\ 1 <= Len(fromRust)
        /\ \A j \in 1..Len(fromRust') : j + 1 <= Len(fromRust) => fromRust'[j] = fromRust[j + 1]
        /\ \A j \in 1..Len(fromRust') : j + 1 > Len(fromRust) => FALSE
    BY <1>3 DEF Moved
  <2>. QED
    BY <2>1
<1>6. \A j \in 1..Len(fromRust') : Attached(j)' => Attached(j + 1)
  BY <1>5 DEF Attached
<1>7. Moved(toRust, toRust', 0, {})
  BY <1>2, StaysMoved DEF Shapes
<1>8. out' + Len(queue') = out + Len(queue) /\ \A i \in 1..Len(queue') : queue'[i] = out' + i
  BY <1>2 DEF Piped
<1>9. Shapes'
  <2>1. consumer' \in 0..page
    BY <1>1, <1>4
  <2>2. timer' \in BOOLEAN
    BY <1>2
  <2>. QED
    BY <1>2, <1>3, <2>1, <2>2 DEF Shapes
<1>10. Addressed'
  <2>1. ASSUME NEW i \in 1..Len(events)
        PROVE  events[i].to <= p
    <3>1. events[i] \in Events
      BY ElementOfSeq DEF Shapes
    <3>2. events[i].to \in Nat /\ events[i].to <= consumer
      BY <3>1 DEF Events, Addressed
    <3>. QED
      BY <1>1, <1>4, <3>2
  <2>. QED
    BY <1>2, <1>4, <2>1 DEF Addressed
<1>11. Announced'
  <2>1. \A j \in 1..Len(fromRust') : Attached(j)' => p <= fromRust'[j].arg /\ fromRust'[j].arg <= page
    <3>1. \A j \in 1..Len(fromRust') : 1 < j + 1
      BY <1>5
    <3>. QED
      BY <1>4, <1>5, <1>6, <3>1 DEF Announced
  <2>2. ASSUME NEW i \in 1..Len(fromRust'), NEW j \in 1..Len(fromRust'), Attached(i)', Attached(j)', i < j
        PROVE  fromRust'[i].arg <= fromRust'[j].arg
    <3>1. i + 1 < j + 1
      BY <1>5, <2>2
    <3>. QED
      BY <1>5, <1>6, <2>2, <3>1 DEF Announced
  <2>. QED
    BY <1>2, <1>4, <2>1, <2>2 DEF Announced
<1>12. Asked'
  <2>1. ASSUME NEW i \in 1..Len(toRust), NEW j \in 1..Len(fromRust'), Asks(i, "attach"), Attached(j)'
        PROVE  fromRust'[j].arg <= toRust[i].arg
    BY <1>5, <1>6, <2>1 DEF Asked
  <2>2. toRust' = toRust /\ page' = page
    BY <1>2
  <2>3. \A i \in 1..Len(toRust) : Asks(i, "attach")' = Asks(i, "attach")
    BY <2>2 DEF Asks
  <2>4. /\ \A i \in 1..Len(toRust) : Asks(i, "attach") => p <= toRust[i].arg /\ toRust[i].arg <= page
        /\ \A i, j \in 1..Len(toRust) :
              Asks(i, "attach") /\ Asks(j, "attach") /\ i < j => toRust[i].arg <= toRust[j].arg
    <3>1. Asked
      OBVIOUS
    <3>. HIDE DEF Inv
    <3>. QED
      BY <1>4, <3>1, Zenon DEF Asked
  <2>5. consumer' = p
    BY <1>4
  <2>. QED
    BY <2>1, <2>2, <2>3, <2>4, <2>5 DEF Asked
<1>13. Showing'
  <2>1. consumer = page => consumer' = page
    BY <1>1, <1>4
  <2>2. Seen' = Seen
    BY <1>2 DEF Seen, First
  <2>. QED
    BY <1>2, <2>1, <2>2 DEF Showing
<1>14. Piped(w)'
  BY <1>3, <1>8, <1>2, PipedKept DEF Kept
<1>15. Leaving(w)'
  <2>1. shell' = shell /\ impatient' = impatient /\ batch' = batch /\ made' = made
    BY <1>2
  <2>. QED
    BY <1>3, <2>1, LeavingKept
<1>16. Positions' /\ Chained' /\ Unwritten(w, b)' /\ Acked' /\ Ahead(w, b)'
  BY <1>2 DEF Positions, Chained, First, After, Unwritten, Acked, Asks, Seen, Ahead
<1>17. Exited'
  BY <1>2 DEF Exited
<1>18. Spawning'
  <2>1. (~gate' /\ batch' = <<>>) \/ ~Silent
    BY <1>2 DEF Silent
  <2>2. waits' = waits
    BY <1>2
  <2>. QED
    BY <1>3, <1>7, <2>1, <2>2, SpawningKept
<1>. QED
  BY <1>9, <1>10, <1>11, <1>12, <1>13, <1>14, <1>15, <1>16, <1>17, <1>18

-----------------------------------------------------------------------------
(* All steps.                                                              *)

LEMMA StutterStep ==
    ASSUME NEW w \in Nat, NEW b \in Nat, Inv(w, b), UNCHANGED outputVars
    PROVE  Inv(w, b)'
<1> USE DEF Inv
<1>1. UNCHANGED <<shell, made, held, frames, emitted, delivered,
                       gate, shut, batch, batchEnd, impatient,
                       toRust, fromRust, status, current, reclaimed, consumer,
                       timer, waits, ackedThrough, queue, out, page,
                       bound, events, shown, timeouts>>
  BY DEF outputVars, sidecar, pipe, record, view
<1>2. Shapes'
  BY <1>1 DEF Shapes
<1>3. Positions' /\ Chained' /\ Addressed' /\ Announced' /\ Asked'
  BY <1>1 DEF Positions, Chained, First, After, Addressed, Announced, Attached, Asked, Asks
<1>4. Showing' /\ Piped(w)' /\ Unwritten(w, b)' /\ Acked' /\ Ahead(w, b)'
  BY <1>1 DEF Showing, Seen, First, Piped, IsFrame, Kept, Unwritten, Acked, Asks, Ahead
<1>5. Spawning' /\ Exited' /\ Leaving(w)'
  BY <1>1 DEF Spawning, Silent, Replied, Asks, Exited, Leaving, IsFrame
<1>. QED
  BY <1>2, <1>3, <1>4, <1>5

\* Every step keeps the invariant.
LEMMA NextStep ==
    ASSUME OInv, [OutputNext]_outputVars
    PROVE  OInv'
<1>1. PICK w \in Nat, b \in Nat : Inv(w, b)
  BY DEF OInv
<1>2. CASE Push
  BY <1>1, <1>2, PushStep DEF OInv
<1>3. CASE Sender
  <2>1. CASE Take
    BY <1>1, <2>1, TakeStep DEF OInv
  <2>2. CASE WriteFrame
    <3>1. Inv(w + 1, b)' /\ w + 1 \in Nat
      BY <1>1, <2>2, WriteFrameStep
    <3>. QED
      BY <3>1 DEF OInv
  <2>3. CASE MarkDelivered
    BY <1>1, <2>3, MarkDeliveredStep DEF OInv
  <2>. QED
    BY <1>3, <2>1, <2>2, <2>3, Zenon DEF Sender
<1>4. CASE ExitThread
  <2>1. CASE Leave(TRUE) \/ Leave(FALSE)
    <3>1. PICK patient \in BOOLEAN : Leave(patient)
      BY <2>1
    <3>2. Inv(w, b)'
      BY <1>1, <3>1, LeaveStep
    <3>. QED
      BY <3>2 DEF OInv
  <2>2. CASE Report
    BY <1>1, <2>2, ReportStep DEF OInv
  <2>. QED
    BY <1>4, <2>1, <2>2, Zenon DEF ExitThread
<1>5. CASE MainLoop
  <2>1. CASE Spawn
    BY <1>1, <2>1, SpawnStep DEF OInv
  <2>2. CASE Attach
    BY <1>1, <2>2, AttachStep DEF OInv
  <2>3. CASE Ack
    <3>1. \E c \in Nat : Inv(w, c)'
      BY <1>1, <2>3, AckStep
    <3>. QED
      BY <3>1 DEF OInv
  <2>4. CASE CloseSession
    BY <1>1, <2>4, CloseSessionStep DEF OInv
  <2>5. CASE SpawnReply
    BY <1>1, <2>5, SpawnReplyStep DEF OInv
  <2>. QED
    BY <1>5, <2>1, <2>2, <2>3, <2>4, <2>5, Zenon DEF MainLoop
<1>6. CASE Runtime
  <2>1. CASE OnFrame
    BY <1>1, <2>1, OnFrameStep DEF OInv
  <2>2. CASE OnRunning
    BY <1>1, <2>2, OnRunningStep DEF OInv
  <2>3. CASE OnExited
    BY <1>1, <2>3, OnExitedStep DEF OInv
  <2>4. CASE OnClosed
    BY <1>1, <2>4, OnClosedStep DEF OInv
  <2>5. CASE OnSpawned
    BY <1>1, <2>5, OnSpawnedStep DEF OInv
  <2>6. CASE OnNotSpawned
    BY <1>1, <2>6, OnNotSpawnedStep DEF OInv
  <2>7. CASE OnAttached
    BY <1>1, <2>7, OnAttachedStep DEF OInv
  <2>8. CASE OnReaped
    BY <1>1, <2>8, OnReapedStep DEF OInv
  <2>9. CASE AttachTimeout
    BY <1>1, <2>9, AttachTimeoutStep DEF OInv
  <2>10. CASE \E n \in 1..MaxFrames : Pump(n)
    <3>1. PICK n \in 1..MaxFrames : Pump(n)
      BY <2>10
    <3>2. Inv(w, b)'
      BY <1>1, <3>1, PumpStep
    <3>. QED
      BY <3>2 DEF OInv
  <2>11. CASE OnStale
    BY <1>1, <2>11, OnStaleStep DEF OInv
  <2>. QED
    BY <1>6, <2>1, <2>2, <2>3, <2>4, <2>5, <2>6, <2>7, <2>8, <2>9, <2>10, <2>11, Zenon DEF Runtime
<1>7. CASE Page
  <2>1. CASE Render
    BY <1>1, <2>1, RenderStep DEF OInv
  <2>2. CASE SendAck
    BY <1>1, <2>2, SendAckStep DEF OInv
  <2>. QED
    BY <1>7, <2>1, <2>2, Zenon DEF Page
<1>8. CASE World
  <2>1. CASE Read
    BY <1>1, <2>1, ReaderStep DEF OInv
  <2>2. CASE ShellExit
    BY <1>1, <2>2, ShellExitStep DEF OInv
  <2>3. CASE SpawnError
    BY <1>1, <2>3, SpawnErrorStep DEF OInv
  <2>4. CASE SpawnTimeout
    BY <1>1, <2>4, SpawnTimeoutStep DEF OInv
  <2>5. CASE CloseTimeout
    BY <1>1, <2>5, CloseTimeoutStep DEF OInv
  <2>6. CASE AskAttach
    BY <1>1, <2>6, AskAttachStep DEF OInv
  <2>7. CASE Reload
    BY <1>1, <2>7, ReloadStep DEF OInv
  <2>8. CASE AskClose
    BY <1>1, <2>8, AskCloseStep DEF OInv
  <2>9. CASE SidecarEnds
    <3>1. out \in Nat /\ queue \in Seq(Nat)
      BY <1>1 DEF Inv, Shapes
    <3>2. Len(queue') \in Nat
      <4>1. queue' = queue \/ queue' = <<>>
        BY <2>9, Zenon DEF SidecarEnds
      <4>. QED
        BY <3>1, <4>1, LenProperties, EmptySeq
    <3>3. PICK v \in Nat : v = out + Len(queue')
      BY <3>1, <3>2
    <3>4. Inv(v, b)'
      BY <1>1, <2>9, <3>3, SidecarEndsStep
    <3>. QED
      BY <3>4 DEF OInv
  <2>. QED
    BY <1>8, <2>1, <2>2, <2>3, <2>4, <2>5, <2>6, <2>7, <2>8, <2>9, Zenon DEF World
<1>9. CASE UNCHANGED outputVars
  BY <1>1, <1>9, StutterStep DEF OInv
<1>. QED
  BY <1>2, <1>3, <1>4, <1>5, <1>6, <1>7, <1>8, <1>9 DEF OutputNext

\* The invariant holds at the start.
LEMMA InitStep == OutputInit => OInv
<1>. SUFFICES ASSUME OutputInit PROVE Inv(0, 0)
  BY DEF OInv
<1>1. /\ toRust = <<[op |-> "spawn"]>> /\ fromRust = <<>> /\ batch = <<>> /\ frames = <<>>
      /\ queue = <<>> /\ events = <<>> /\ shown = <<>>
      /\ shell = "none" /\ status = "starting" /\ made = 0 /\ out = 0
      /\ emitted = 0 /\ delivered = 0 /\ batchEnd = 0 /\ ~held /\ ~shut /\ ~impatient /\ ~gate
  BY DEF OutputInit
<1>2. /\ Len(toRust) = 1 /\ toRust[1] = [op |-> "spawn"] /\ Len(fromRust) = 0 /\ Len(batch) = 0
      /\ Len(frames) = 0 /\ Len(queue) = 0 /\ Len(events) = 0 /\ Len(shown) = 0
  BY <1>1
<1>3. Shapes
  <2>1. /\ toRust \in Seq(Requests) /\ fromRust \in Seq(Lines) /\ batch \in Seq(Frames)
        /\ frames \in Seq(Frames) /\ queue \in Seq(Nat) /\ events \in Seq(Events) /\ shown \in Seq(Nat)
    BY <1>1 DEF Requests
  <2>2. page \in Pages /\ consumer \in 0..page /\ made \in 0..MaxFrames
    BY TerminalAssumption DEF OutputInit, Pages
  <2>3. delivered <= emitted /\ emitted <= Len(frames)
    BY <1>1, <1>2
  <2>. QED
    BY <2>1, <2>2, <2>3 DEF Shapes, OutputInit, Active
<1>4. Positions
  BY <1>1, <1>2, TerminalAssumption DEF Positions
<1>5. Chained /\ Addressed /\ Showing
  BY <1>1, <1>2 DEF Chained, Addressed, Showing
<1>6. Announced /\ Asked
  BY <1>2 DEF Announced, Asked, Asks
<1>7. Piped(0) /\ Unwritten(0, 0)
  BY <1>1, <1>2 DEF Piped, Unwritten
<1>8. Acked /\ Ahead(0, 0)
  BY <1>1, <1>2, TerminalAssumption DEF Acked, Asks, Ahead, Seen
<1>9. Spawning
  BY <1>1, <1>2 DEF Spawning, Silent, IsFrame, Asks
<1>10. Exited /\ Leaving(0)
  BY <1>1, <1>2 DEF Exited, Leaving
<1>. QED
  BY <1>3, <1>4, <1>5, <1>6, <1>7, <1>8, <1>9, <1>10 DEF Inv

LEMMA Always == OutputSpec => []OInv
BY InitStep, NextStep, PTL DEF OutputSpec

-----------------------------------------------------------------------------
(* The theorems.                                                           *)

\* What a page shows is a run of the shell's output without gap or repetition
\* (onOutput and the write callback of the screen, behind output_queue.rs and the
\* egress pacer).
THEOREM RunOfOutput == OutputSpec => []NoGapNoRepeat
<1>1. OInv => NoGapNoRepeat
  BY DEF OInv, Inv, Showing, NoGapNoRepeat
<1>. QED
  BY <1>1, Always, PTL

\* When the exit of the shell is known, every frame was handed to the page, unless
\* the exit thread gave up (finish_exit, applyRustState).
THEOREM ExitBehindTail == OutputSpec => []TailFirst
<1>1. OInv => TailFirst
  BY DEF OInv, Inv, Exited, TailFirst
<1>. QED
  BY <1>1, Always, PTL

\* The number of the frame that is at a place between the reader and the screen.
FrameAt(c) ==
    IF c[1] = "pipe" THEN fromRust[c[2]].arg
    ELSE IF c[1] = "queue" THEN queue[c[2]] ELSE events[c[2]].frames[c[3]]

\* Places of the events carry what is seen next, up to out.
LEMMA EventPlace ==
    ASSUME NEW w \in Nat, NEW b \in Nat, Inv(w, b), NEW i \in 1..Len(events),
           NEW k \in 1..Len(events[i].frames)
    PROVE  /\ events[i].frames[k] \in Seen + 1..out
           /\ First(i) <= events[i].frames[k] /\ events[i].frames[k] < After(i)
           /\ events[i].frames[k] = First(i) + k - 1
           /\ First(i) \in Nat /\ After(i) \in Nat
<1>. USE DEF Inv
<1>1. PICK L \in Nat : L = Len(events) /\ 1 \in 1..L /\ out \in Nat /\ events # <<>>
  <2>1. Len(events) \in Nat /\ out \in Nat /\ (events = <<>> <=> Len(events) = 0)
    BY Facts
  <2>2. 1 \in 1..Len(events)
    BY <2>1
  <2>. QED
    BY <2>1, <2>2
<1>2. ASSUME NEW j \in 1..L
      PROVE  First(j) \in Nat /\ After(j) \in Nat /\ Len(events[j].frames) \in Nat
  <2>1. events[j] \in Events
    BY <1>1, ElementOfSeq DEF Shapes
  <2>2. events[j].frames \in Seq(Nat) /\ events[j].frames # <<>>
    BY <1>1, <2>1 DEF Events, Chained
  <2>3. Len(events[j].frames) \in Nat \ {0}
    BY <2>2, LenProperties, EmptySeq
  <2>4. 1 \in 1..Len(events[j].frames)
    BY <2>3
  <2>5. events[j].frames[1] \in Nat
    BY <2>2, <2>4, ElementOfSeq
  <2>6. First(j) = events[j].frames[1] /\ After(j) = events[j].frames[1] + Len(events[j].frames)
    BY DEF First, After
  <2>. QED
    BY <2>3, <2>5, <2>6
<1>3. i \in 1..L /\ events[i].frames[k] = First(i) + k - 1
  BY <1>1 DEF Chained
<1>4. After(i) = First(i) + Len(events[i].frames) /\ After(i) <= out + 1
  BY <1>1, <1>3 DEF Chained, First, After
<1>5. First(1) <= First(i)
  <2>1. CASE i = 1
    BY <1>2, <1>3, <2>1
  <2>2. CASE 1 < i
    <3>1. After(1) <= First(i)
      BY <1>1, <1>3, <2>2 DEF Chained
    <3>2. After(1) = First(1) + Len(events[1].frames)
      BY DEF First, After
    <3>. QED
      BY <1>1, <1>2, <1>3, <3>1, <3>2
  <2>. QED
    BY <1>3, <2>1, <2>2
<1>6. Seen = First(1) - 1 /\ Seen \in Nat
  BY <1>1, SeenIsNat DEF Seen
<1>7. events[i].frames[k] < After(i) /\ First(i) <= events[i].frames[k]
  <2>1. First(i) \in Nat /\ Len(events[i].frames) \in Nat
    BY <1>2, <1>3
  <2>2. First(i) + k - 1 < First(i) + Len(events[i].frames) /\ First(i) <= First(i) + k - 1
    BY <2>1
  <2>. QED
    BY <1>3, <1>4, <2>2
<1>8. events[i].frames[k] \in Nat
  <2>1. First(i) \in Nat /\ Len(events[i].frames) \in Nat
    BY <1>2, <1>3
  <2>2. First(i) + k - 1 \in Nat
    BY <2>1
  <2>. QED
    BY <1>3, <2>2
<1>9. events[i].frames[k] \in Seen + 1..out
  <2>1. PICK x \in Nat : x = events[i].frames[k]
    BY <1>8
  <2>2. First(1) \in Nat /\ First(i) \in Nat /\ After(i) \in Nat /\ out \in Nat
    BY <1>1, <1>2, <1>3
  <2>3. x < After(i) /\ First(i) <= x
    BY <1>7, <2>1
  <2>4. x <= out
    BY <1>4, <2>2, <2>3
  <2>5. Seen + 1 <= x
    BY <1>5, <1>6, <2>2, <2>3
  <2>. QED
    BY <1>6, <2>1, <2>2, <2>4, <2>5
<1>. QED
  BY <1>2, <1>3, <1>7, <1>9

\* No frame is at two places between the reader and the screen.
LEMMA OnePlace ==
    ASSUME NEW w \in Nat, NEW b \in Nat, Inv(w, b), NEW c \in Carried
    PROVE  /\ FrameAt(c) \in Seen + 1..w
           /\ \A d \in Carried : FrameAt(c) = FrameAt(d) => c = d
<1>. USE DEF Inv
<1>1. PICK m \in Nat : /\ m = out + Len(queue) /\ out <= m /\ m <= w /\ Seen <= out
                       /\ out \in Nat /\ Seen \in Nat /\ Len(queue) \in Nat
  <2>1. out \in Nat /\ Seen \in Nat /\ Len(queue) \in Nat /\ Seen <= out
    BY Facts, SeenIsNat
  <2>2. out + Len(queue) <= w
    BY DEF Piped
  <2>. QED
    BY <2>1, <2>2
<1>2. ASSUME NEW x \in Carried
      PROVE  \/ \E i \in 1..Len(fromRust) :
                   x = <<"pipe", i, 1>> /\ IsFrame(i) /\ FrameAt(x) = fromRust[i].arg /\ FrameAt(x) \in m + 1..w
             \/ \E i \in 1..Len(queue) :
                   x = <<"queue", i, 1>> /\ FrameAt(x) = out + i /\ FrameAt(x) \in out + 1..m
             \/ \E i \in 1..Len(events) : \E k \in 1..Len(events[i].frames) :
                   x = <<"event", i, k>> /\ FrameAt(x) = events[i].frames[k] /\ FrameAt(x) \in Seen + 1..out
  <2>1. /\ DOMAIN fromRust = 1..Len(fromRust) /\ DOMAIN queue = 1..Len(queue) /\ DOMAIN events = 1..Len(events)
        /\ \A i \in 1..Len(events) : DOMAIN events[i].frames = 1..Len(events[i].frames)
    <3>1. \A i \in 1..Len(events) : events[i].frames \in Seq(Nat)
      <4>1. \A i \in 1..Len(events) : events[i] \in Events
        BY ElementOfSeq DEF Shapes
      <4>. QED
        BY <4>1 DEF Events
    <3>. QED
      BY <3>1, LenProperties DEF Shapes
  <2>2. CASE x \in {<<"pipe", i, 1>> : i \in {j \in DOMAIN fromRust : fromRust[j].line = "frame"}}
    <3>1. PICK i \in 1..Len(fromRust) : x = <<"pipe", i, 1>> /\ fromRust[i].line = "frame"
      BY <2>1, <2>2
    <3>2. IsFrame(i) /\ FrameAt(x) = fromRust[i].arg
      BY <3>1 DEF IsFrame, FrameAt
    <3>3. fromRust[i].arg \in m + 1..w
      BY <1>1, <3>2 DEF Piped
    <3>. QED
      BY <3>1, <3>2, <3>3
  <2>3. CASE x \in {<<"queue", i, 1>> : i \in DOMAIN queue}
    <3>1. PICK i \in 1..Len(queue) : x = <<"queue", i, 1>>
      BY <2>1, <2>3
    <3>2. FrameAt(x) = queue[i]
      BY <3>1 DEF FrameAt
    <3>3. queue[i] = out + i /\ out + i \in out + 1..m
      BY <1>1 DEF Piped
    <3>. QED
      BY <3>1, <3>2, <3>3
  <2>4. CASE x \in UNION {{<<"event", i, k>> : k \in DOMAIN events[i].frames} : i \in DOMAIN events}
    <3>1. PICK i \in 1..Len(events) : x \in {<<"event", i, k>> : k \in DOMAIN events[i].frames}
      BY <2>1, <2>4
    <3>2. PICK k \in 1..Len(events[i].frames) : x = <<"event", i, k>>
      BY <2>1, <3>1
    <3>3. FrameAt(x) = events[i].frames[k]
      BY <3>2 DEF FrameAt
    <3>4. events[i].frames[k] \in Seen + 1..out
      <4>. HIDE DEF Inv
      <4>. QED
        BY EventPlace
    <3>. QED
      BY <3>2, <3>3, <3>4
  <2>. QED
    BY <2>2, <2>3, <2>4 DEF Carried
<1>3. FrameAt(c) \in Seen + 1..w
  BY <1>1, <1>2
<1>4. ASSUME NEW d \in Carried, FrameAt(c) = FrameAt(d)
      PROVE  c = d
  <2>1. /\ \A n \in m + 1..w : n \notin out + 1..m /\ n \notin Seen + 1..out
        /\ \A n \in out + 1..m : n \notin Seen + 1..out
    BY <1>1
  <2>2. CASE FrameAt(c) \in m + 1..w
    <3>1. PICK i \in 1..Len(fromRust) : c = <<"pipe", i, 1>> /\ IsFrame(i) /\ FrameAt(c) = fromRust[i].arg
      BY <1>2, <2>1, <2>2
    <3>2. PICK j \in 1..Len(fromRust) : d = <<"pipe", j, 1>> /\ IsFrame(j) /\ FrameAt(d) = fromRust[j].arg
      BY <1>2, <1>4, <2>1, <2>2
    <3>3. ~(i < j) /\ ~(j < i)
      <4>1. fromRust[i].arg = fromRust[j].arg /\ fromRust[i].arg = FrameAt(c)
        BY <1>4, <3>1, <3>2
      <4>2. FrameAt(c) \in Nat
        BY <1>1, <2>2
      <4>3. fromRust[i].arg = fromRust[j].arg /\ fromRust[i].arg \in Nat
        BY <4>1, <4>2
      <4>. QED
        BY <3>1, <3>2, <4>3 DEF Piped
    <3>. QED
      BY <3>1, <3>2, <3>3
  <2>3. CASE FrameAt(c) \in out + 1..m
    <3>1. PICK i \in 1..Len(queue) : c = <<"queue", i, 1>> /\ FrameAt(c) = out + i
      BY <1>2, <2>1, <2>3
    <3>2. PICK j \in 1..Len(queue) : d = <<"queue", j, 1>> /\ FrameAt(d) = out + j
      BY <1>2, <1>4, <2>1, <2>3
    <3>3. out + i = out + j
      BY <1>4, <3>1, <3>2
    <3>4. i = j
      BY <1>1, <3>3
    <3>. QED
      BY <3>1, <3>2, <3>4
  <2>4. CASE FrameAt(c) \in Seen + 1..out
    <3>1. PICK i \in 1..Len(events) : \E k \in 1..Len(events[i].frames) :
             c = <<"event", i, k>> /\ FrameAt(c) = events[i].frames[k]
      BY <1>2, <2>1, <2>4
    <3>2. PICK k \in 1..Len(events[i].frames) : c = <<"event", i, k>> /\ FrameAt(c) = events[i].frames[k]
      BY <3>1
    <3>3. PICK j \in 1..Len(events) : \E l \in 1..Len(events[j].frames) :
             d = <<"event", j, l>> /\ FrameAt(d) = events[j].frames[l]
      BY <1>2, <1>4, <2>1, <2>4
    <3>4. PICK l \in 1..Len(events[j].frames) : d = <<"event", j, l>> /\ FrameAt(d) = events[j].frames[l]
      BY <3>3
    <3>5. /\ First(i) <= events[i].frames[k] /\ events[i].frames[k] < After(i)
          /\ First(j) <= events[j].frames[l] /\ events[j].frames[l] < After(j)
          /\ events[i].frames[k] = First(i) + k - 1 /\ events[j].frames[l] = First(j) + l - 1
          /\ First(i) \in Nat /\ After(i) \in Nat /\ First(j) \in Nat /\ After(j) \in Nat
      <4>. HIDE DEF Inv
      <4>. QED
        BY EventPlace
    <3>6. events[i].frames[k] = events[j].frames[l] /\ events[i].frames[k] \in Nat
      <4>1. events[i].frames[k] = events[j].frames[l]
        BY <1>4, <3>2, <3>4
      <4>2. FrameAt(c) \in Nat
        BY <1>1, <2>4
      <4>. QED
        BY <3>2, <4>1, <4>2
    <3>7. Len(events) \in Nat /\ Len(events[i].frames) \in Nat /\ Len(events[j].frames) \in Nat
      <4>1. events[i] \in Events /\ events[j] \in Events
        BY ElementOfSeq DEF Shapes
      <4>. QED
        BY <4>1, Facts, LenProperties DEF Events
    <3>8. ~(i < j) /\ ~(j < i)
      <4>1. i < j => After(i) <= First(j)
        BY DEF Chained
      <4>2. j < i => After(j) <= First(i)
        BY DEF Chained
      <4>. QED
        BY <3>5, <3>6, <4>1, <4>2
    <3>9. i = j
      BY <3>7, <3>8
    <3>10. k = l
      BY <3>5, <3>6, <3>7, <3>9
    <3>. QED
      BY <3>2, <3>4, <3>9, <3>10
  <2>. QED
    BY <1>2, <2>2, <2>3, <2>4
<1>. QED
  BY <1>3, <1>4

\* What travels never exceeds the window: each place holds a frame of its own, of
\* those between the last that was seen and the last that was written.
LEMMA Bounded == OInv => WindowBounds
<1>. SUFFICES ASSUME NEW w \in Nat, NEW b \in Nat, Inv(w, b)
              PROVE  WindowBounds
  BY DEF OInv
<1>1. Seen \in Nat /\ Window \in Nat /\ w <= Seen + Window + 1
  <2>1. Seen \in Nat /\ Window \in Nat /\ Len(batch) \in Nat
    BY SeenIsNat, Facts DEF Inv
  <2>2. w + Len(batch) <= Seen + Window + 1
    BY DEF Inv, Ahead
  <2>. QED
    BY <2>1, <2>2
<1>. DEFINE T == Seen + 1..w
            f == [c \in Carried |-> FrameAt(c)]
<1>2. f \in [Carried -> T] /\ \A c, d \in Carried : f[c] = f[d] => c = d
  BY OnePlace
<1>3. f \in Injection(Carried, T)
  BY <1>2 DEF Injection, IsInjective
<1>4. IsFiniteSet(T) /\ Cardinality(T) \in Nat /\ Cardinality(T) <= Window + 1
  <2>1. IsFiniteSet(T) /\ Cardinality(T) = IF Seen + 1 > w THEN 0 ELSE w - (Seen + 1) + 1
    BY <1>1, FS_Interval
  <2>. HIDE DEF T
  <2>. QED
    BY <1>1, <2>1
<1>5. IsFiniteSet(Carried) /\ Cardinality(Carried) <= Cardinality(T)
  <2>. HIDE DEF f, T
  <2>. QED
    BY <1>3, <1>4, FS_Injection
<1>6. Cardinality(Carried) \in Nat
  BY <1>5, FS_CardinalityType
<1>. HIDE DEF T
<1>. QED
  BY <1>1, <1>4, <1>5, <1>6 DEF WindowBounds

\* The shapes, the order of the queue's positions and the window (reader_should_pause
\* and the two pacing windows in series).
THEOREM Windowed == OutputSpec => []BoundedOutput
<1>1. OInv => OutputTypeOK
  BY DEF OInv, Inv, Shapes, OutputTypeOK, Frames
<1>2. OInv => BoundedOutput
  BY <1>1, Bounded DEF BoundedOutput
<1>. QED
  BY <1>2, Always, PTL
=============================================================================
