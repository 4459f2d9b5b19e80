---------------------------- MODULE TerminalInput ----------------------------
(***************************************************************************)
(* The input of one integrated terminal: the page numbers its batches and  *)
(* has a window of them in flight (features/terminal/input-channel.ts),    *)
(* the Runtime puts them in the order of their numbers (terminal/          *)
(* input-order.ts) and the system runtime takes each into the queue of the *)
(* thread that writes to the shell (terminal/session.rs).                  *)
(*                                                                         *)
(* Requests of a page may overtake one another, and so may their replies;  *)
(* the pipe to the system runtime keeps its order.  A page that is         *)
(* reloaded numbers its batches from 1 again; the record of the Runtime,   *)
(* and with it the last number it applied, stays.                          *)
(***************************************************************************)
EXTENDS Naturals, Sequences, FiniteSets

CONSTANTS
    InFlightMax,   \* INFLIGHT_MAX_BATCHES
    PendingMax,    \* config.inputPendingMax
    MaxBatches,    \* bound: batches the first page has to send, the next one fewer
    MaxPages,      \* bound: pages, one more than the reloads
    MaxTrouble     \* bound: writes that are refused or time out

ASSUME InputAssumption ==
    /\ InFlightMax \in Nat \ {0} /\ PendingMax \in Nat
    /\ MaxBatches \in Nat /\ MaxPages \in Nat \ {0} /\ MaxTrouble \in Nat

VARIABLES
    \* page
    page,
    lastSeq,     \* number of the last batch sent
    inflight,    \* numbers of the batches in flight
    awaited,     \* numbers whose request the page still waits for
    timers,      \* numbers with a retry timer armed
    retried,     \* numbers that were given a second try
    halted,
    \* requests under way to the Runtime, replies under way to the page
    wire, replies,
    \* Runtime
    status,      \* TerminalRecord.meta.status
    applied,     \* appliedInputSeq
    pending,     \* pendingInputs: batches whose writes wait for earlier ones
    gapTimer, gapDropped,
    writing,     \* terminal.write requests under way, each for an owner's write
    \* system runtime
    open,        \* the terminal is in its table
    taken,       \* batches it has taken, in order
    \* history and bound
    confirmed,   \* batches whose page was told that they were accepted
    trouble

vars == <<page, lastSeq, inflight, awaited, timers, retried, halted, wire, replies,
          status, applied, pending, gapTimer, gapDropped, writing, open, taken, confirmed, trouble>>
sender == <<page, lastSeq, inflight, awaited, timers, retried, halted, confirmed>>
order == <<applied, pending, gapTimer, gapDropped>>

None == [page |-> 0, seq |-> 0]

InputInit ==
    /\ page = 1 /\ lastSeq = 0 /\ halted = FALSE
    /\ inflight = {} /\ awaited = {} /\ timers = {} /\ retried = {}
    /\ wire = {} /\ replies = {}
    /\ status = "running" /\ applied = 0 /\ pending = {} /\ gapTimer = FALSE
    /\ gapDropped = FALSE /\ writing = <<>>
    /\ open = TRUE /\ taken = <<>> /\ confirmed = {} /\ trouble = 0

-----------------------------------------------------------------------------
(* The page.                                                               *)

\* A request leaves, and its answer is awaited.
Dispatch(seq) ==
    /\ wire' = wire \cup {[page |-> page, seq |-> seq]}
    /\ awaited' = awaited \cup {seq}

\* flushBuffer numbers a batch while the window has room.
Send ==
    /\ ~halted /\ lastSeq + page <= MaxBatches /\ Cardinality(inflight) < InFlightMax
    /\ lastSeq' = lastSeq + 1
    /\ inflight' = inflight \cup {lastSeq + 1}
    /\ Dispatch(lastSeq + 1)
    /\ UNCHANGED <<page, timers, retried, halted, replies, status, order, writing, open, taken, confirmed, trouble>>

\* clearInflight reaches the timers of the batches in flight.
Halt == halted' = TRUE /\ inflight' = {} /\ timers' = timers \ inflight

\* dispatch goes on after its await, in a page that has halted as well; the answer
\* to a request that timed out finds nobody.
Hear(r) ==
    /\ r \in replies /\ replies' = replies \ {r}
    /\ LET seq == r.batch.seq IN
       /\ awaited' = awaited \ {seq}
       /\ \/ /\ seq \notin awaited
             /\ UNCHANGED <<inflight, timers, retried, halted, confirmed>>
          \/ /\ seq \in awaited /\ r.verdict = "accepted"
             /\ inflight' = inflight \ {seq}
             /\ confirmed' = confirmed \cup {r.batch}
             /\ UNCHANGED <<timers, retried, halted>>
          \/ /\ seq \in awaited /\ r.verdict = "backpressure" /\ seq \notin retried
             /\ retried' = retried \cup {seq} /\ timers' = timers \cup {seq}
             /\ UNCHANGED <<inflight, halted, confirmed>>
          \/ /\ seq \in awaited
             /\ r.verdict = "refused" \/ (r.verdict = "backpressure" /\ seq \in retried)
             /\ Halt
             /\ UNCHANGED <<retried, confirmed>>
    /\ UNCHANGED <<page, lastSeq, wire, status, order, writing, open, taken, trouble>>

RetryTimer(seq) ==
    /\ seq \in timers /\ timers' = timers \ {seq}
    /\ Dispatch(seq)
    /\ UNCHANGED <<page, lastSeq, inflight, retried, halted, replies, status, order, writing, open,
                   taken, confirmed, trouble>>

\* The page gives a write up whose fate it does not know.
PageTimeout(seq) ==
    /\ seq \in awaited /\ trouble < MaxTrouble
    /\ awaited' = awaited \ {seq}
    /\ Halt /\ trouble' = trouble + 1
    /\ UNCHANGED <<page, lastSeq, retried, wire, replies, status, order, writing, open, taken, confirmed>>

\* rehydrate: a new channel with seqBaseline 0.
Reload ==
    /\ page < MaxPages /\ page' = page + 1
    /\ lastSeq' = 0 /\ halted' = FALSE
    /\ inflight' = {} /\ awaited' = {} /\ timers' = {} /\ retried' = {} /\ replies' = {}
    /\ UNCHANGED <<wire, status, order, writing, open, taken, confirmed, trouble>>

-----------------------------------------------------------------------------
(* InputOrder.write.                                                       *)

Answered(batches, verdict) == {[batch |-> b, verdict |-> verdict] : b \in {c \in batches : c.page = page}}
Tell(batches, verdict) == replies' = replies \cup Answered(batches, verdict)

Arrives(b) == b \in wire /\ wire' = wire \ {b}

NotRunning(b) ==
    /\ Arrives(b) /\ status # "running"
    /\ Tell({b}, "refused")
    /\ UNCHANGED <<sender, status, order, writing, open, taken, trouble>>

\* A number that was applied is confirmed and not written.
Repeated(b) ==
    /\ Arrives(b) /\ status = "running" /\ b.seq <= applied
    /\ Tell({b}, "accepted")
    /\ UNCHANGED <<sender, status, order, writing, open, taken, trouble>>

RustWrite(owner, b) == writing' = Append(writing, [owner |-> owner, now |-> b, outcome |-> "asked"])

\* Mutant: the number counts as applied when the batch is forwarded.
ExpectedCounts(b) ==
    /\ Arrives(b) /\ status = "running" /\ b.seq = applied + 1
    /\ RustWrite(b, b)
    /\ applied' = b.seq
    /\ UNCHANGED <<sender, replies, status, pending, gapTimer, gapDropped, open, taken, trouble>>

Expected(b) ==
    /\ Arrives(b) /\ status = "running" /\ b.seq = applied + 1
    /\ RustWrite(b, b)
    /\ UNCHANGED <<sender, replies, status, order, open, taken, trouble>>

\* Beyond a gap: refused once the gap has expired, refused while too many wait.
Refused(b) ==
    /\ Arrives(b) /\ status = "running" /\ b.seq > applied + 1
    /\ gapDropped \/ Cardinality(pending) >= PendingMax
    /\ Tell({b}, IF gapDropped THEN "refused" ELSE "backpressure")
    /\ UNCHANGED <<sender, status, order, writing, open, taken, trouble>>

Parked(b) ==
    /\ Arrives(b) /\ status = "running" /\ b.seq > applied + 1
    /\ ~gapDropped /\ Cardinality(pending) < PendingMax
    /\ pending' = {c \in pending : c.seq # b.seq} \cup {b}
    /\ gapTimer' = TRUE
    /\ UNCHANGED <<sender, replies, status, applied, gapDropped, writing, open, taken, trouble>>

\* Mutant: what waits is forgotten.
FailPendingSilently ==
    /\ UNCHANGED replies
    /\ pending' = {} /\ gapTimer' = FALSE

\* failPendingInputs.
FailPending ==
    /\ Tell(pending, "refused")
    /\ pending' = {} /\ gapTimer' = FALSE

\* discardGappedInputs, if anything waits.
GapExpires ==
    /\ gapTimer
    /\ FailPending
    /\ gapDropped' = (gapDropped \/ pending # {})
    /\ UNCHANGED <<sender, wire, status, applied, writing, open, taken, trouble>>

-----------------------------------------------------------------------------
(* terminal.write in the system runtime, and what its answer does.         *)

Close == [owner |-> None, now |-> None, outcome |-> "asked"]
IsFirst(i, outcome) ==
    /\ i \in DOMAIN writing /\ writing[i].outcome = outcome
    /\ \A j \in 1..i - 1 : writing[j].outcome # outcome

\* write_input puts the batch into the queue of the writing thread.
Take(i) ==
    /\ IsFirst(i, "asked") /\ writing[i].now # None /\ open
    /\ taken' = Append(taken, writing[i].now)
    /\ writing' = [writing EXCEPT ![i].outcome = "ok"]
    /\ UNCHANGED <<sender, wire, replies, status, order, open, trouble>>

\* The queue is full, or the shell is gone before its exit was told.
Refuse(i, outcome) ==
    /\ IsFirst(i, "asked") /\ writing[i].now # None
    /\ IF open THEN trouble < MaxTrouble /\ trouble' = trouble + 1
               ELSE outcome = "refused" /\ UNCHANGED trouble
    /\ writing' = [writing EXCEPT ![i].outcome = outcome]
    /\ UNCHANGED <<sender, wire, replies, status, order, open, taken>>

\* The write succeeded: the owner goes on with what waits for the next number.
Applied ==
    /\ writing # <<>> /\ Head(writing).outcome = "ok" /\ Head(writing).owner # None
    /\ LET w == Head(writing)
           left == IF w.now = w.owner THEN pending ELSE {c \in pending : c.seq # w.now.seq}
           next == {c \in left : c.seq = w.now.seq + 1}
           done == (IF next = {} THEN {w.owner} ELSE {}) \cup (pending \cap {w.now})
       IN  /\ applied' = w.now.seq
           /\ gapDropped' = (gapDropped /\ w.now # w.owner)
           /\ pending' = left
           /\ gapTimer' = (gapTimer /\ left # {})
           /\ Tell(done, "accepted")
           /\ writing' = Tail(writing) \o
                 [i \in 1..Cardinality(next) |->
                     [owner |-> w.owner, now |-> CHOOSE c \in next : TRUE, outcome |-> "asked"]]
    /\ UNCHANGED <<sender, wire, status, open, taken, trouble>>

\* The write failed: the owner is told, and what waits goes on waiting.
Failed ==
    /\ writing # <<>> /\ Head(writing).outcome \in {"backpressure", "refused"}
    /\ Tell({Head(writing).owner}, Head(writing).outcome)
    /\ writing' = Tail(writing)
    /\ UNCHANGED <<sender, wire, status, order, open, taken, trouble>>

\* Mutant: a write whose request timed out may be retried.
GiveUpRetries(i) ==
    /\ i \in DOMAIN writing /\ writing[i].owner # None /\ trouble < MaxTrouble
    /\ trouble' = trouble + 1
    /\ Tell({writing[i].owner}, "backpressure")
    /\ writing' = [writing EXCEPT ![i].owner = None]
    /\ UNCHANGED <<sender, wire, status, order, open, taken>>

\* The request times out; the system runtime may still take the batch.
GiveUp(i) ==
    /\ i \in DOMAIN writing /\ writing[i].owner # None /\ trouble < MaxTrouble
    /\ trouble' = trouble + 1
    /\ Tell({writing[i].owner}, "refused")
    /\ writing' = [writing EXCEPT ![i].owner = None]
    /\ UNCHANGED <<sender, wire, status, order, open, taken>>

\* The answer to a request that was given up.
Ignored ==
    /\ writing # <<>> /\ Head(writing).owner = None /\ Head(writing).now # None
    /\ Head(writing).outcome # "asked"
    /\ writing' = Tail(writing)
    /\ UNCHANGED <<sender, wire, replies, status, order, open, taken, trouble>>

-----------------------------------------------------------------------------
(* The end of the terminal.                                                *)

AskClose ==
    /\ status = "running" /\ status' = "closing"
    /\ writing' = Append(writing, Close)
    /\ UNCHANGED <<sender, wire, replies, order, open, taken, trouble>>

CloseSession(i) ==
    /\ IsFirst(i, "asked") /\ writing[i].now = None
    /\ open' = FALSE
    /\ writing' = [writing EXCEPT ![i].outcome = "ok"]
    /\ UNCHANGED <<sender, wire, replies, status, order, taken, trouble>>

\* doClose goes on after its await.
Closed ==
    /\ writing # <<>> /\ Head(writing).now = None /\ Head(writing).outcome = "ok"
    /\ status' = "over" /\ writing' = Tail(writing)
    /\ FailPending /\ gapDropped' = FALSE
    /\ UNCHANGED <<sender, wire, applied, open, taken, trouble>>

\* markAllDisconnected, and then the requests under way are rejected.
Disconnect ==
    /\ status # "over" /\ status' = "over" /\ open' = FALSE
    /\ pending' = {} /\ gapTimer' = FALSE /\ gapDropped' = FALSE /\ writing' = <<>>
    /\ Tell(pending \cup {writing[i].owner : i \in DOMAIN writing}, "refused")
    /\ UNCHANGED <<sender, wire, applied, taken, trouble>>

-----------------------------------------------------------------------------
Runtime ==
    \/ \E b \in wire : NotRunning(b) \/ Repeated(b) \/ Expected(b) \/ Refused(b) \/ Parked(b)
    \/ GapExpires \/ Applied \/ Failed \/ Ignored \/ Closed
System == \E i \in DOMAIN writing :
    \/ Take(i) \/ CloseSession(i) \/ Refuse(i, "backpressure") \/ Refuse(i, "refused")
Page == (\E r \in replies : Hear(r)) \/ \E seq \in timers : RetryTimer(seq)

InputNext ==
    \/ Send \/ Page \/ (\E seq \in awaited : PageTimeout(seq)) \/ Reload
    \/ Runtime \/ System \/ (\E i \in DOMAIN writing : GiveUp(i))
    \/ AskClose \/ Disconnect

\* Requests, answers, the gap timer and the retry timers are served; users, refusals, timeouts and
\* the loss of the system runtime owe nothing.
InputSpec ==
    /\ InputInit /\ [][InputNext]_vars
    /\ WF_vars(Runtime) /\ WF_vars(System) /\ WF_vars(Page)

-----------------------------------------------------------------------------
(* Properties.                                                             *)

\* The shell gets the input of the page that opened it in order, nothing twice and
\* nothing after a hole, with requests that overtake one another, that are refused
\* and retried, that time out and are taken all the same.
InputIsPrefix ==
    page = 1 => \A i \in DOMAIN taken : taken[i] = [page |-> 1, seq |-> i]

\* Only what the system runtime has taken is confirmed.
ConfirmedIsTaken ==
    page = 1 => \A b \in confirmed : \E i \in DOMAIN taken : taken[i] = b

\* No write is left without an answer: the page has its window back or halts.
WritesAnswered == (inflight # {}) ~> (inflight = {})
=============================================================================
