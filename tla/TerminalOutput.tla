---------------------------- MODULE TerminalOutput ----------------------------
(***************************************************************************)
(* The output of one integrated terminal, from the threads that read its   *)
(* shell (system-runtime terminal/session.rs, output_queue.rs) through the *)
(* pipe and the pacing queue of the Runtime (apps/runtime/src/terminal) to *)
(* the page that renders it (features/terminal), and the acknowledgements  *)
(* on the way back that let the reader go on; with the life of the shell:  *)
(* spawning, attaching, exit, closing and the loss of the system runtime.  *)
(*                                                                         *)
(* Frames are numbered from 1 and pages too.  An event may carry several   *)
(* neighbouring frames.  The pipes keep their order; page reloads lose     *)
(* what is on its way to the page.                                         *)
(***************************************************************************)
EXTENDS Naturals, Sequences, FiniteSets, SequencesExt

CONSTANTS
    Window,       \* frames the output queue takes before the reader pauses
    MaxFrames,    \* bound: frames the shell produces
    MaxPages,     \* bound: pages, one more than the reloads
    MaxTimeouts   \* bound: requests to spawn or to close that time out

ASSUME TerminalAssumption ==
    /\ Window \in Nat /\ MaxFrames \in Nat
    /\ MaxPages \in Nat \ {0} /\ MaxTimeouts \in Nat

VARIABLES
    \* system runtime
    shell,      \* the shell and the thread that waits for its exit
    made,       \* output_seq: frames numbered so far
    held,       \* the reader waits in push with the last of them
    frames,     \* OutputQueue.frames
    emitted,    \* OutputQueue.emitted_upto
    delivered,  \* OutputQueue.delivered_upto
    gate,       \* OutputQueue.attached
    shut,       \* OutputQueue.closed, and the session removed from the table
    batch,      \* frames the sender has taken and not written yet
    batchEnd,   \* the end index of that batch, 0 without one
    impatient,  \* the exit thread gave up waiting for the tail
    \* the two directions of the pipe
    toRust,
    fromRust,
    \* Runtime
    status,     \* TerminalRecord.meta.status
    current,    \* meta.generation is the one that the lines of this shell carry
    reclaimed,  \* TerminalRecord.rustReclaimed
    consumer,   \* EgressChannel.consumerId, 0 for 'detached'
    timer,      \* an attach timer is armed
    waits,      \* requests whose reply the Runtime still waits for
    ackedThrough,
    queue,      \* EgressChannel.queue
    out,        \* the last frame that went out in an event
    \* page
    page,       \* the page that is loaded
    bound,      \* it has asked to attach
    events,     \* output events on their way to it
    shown,      \* frames it has written to its screen
    timeouts

sidecar == <<shell, made, held, frames, emitted, delivered, gate, shut, batch, batchEnd, impatient>>
pipe == <<toRust, fromRust>>
record == <<status, current, reclaimed, consumer, timer, waits, ackedThrough, queue, out>>
view == <<page, bound, events, shown>>
outputVars == <<sidecar, pipe, record, view, timeouts>>

Active == {"starting", "running", "closing"}
Ended == {"exited", "closed", "failed", "disconnected"}
Pages == 1..MaxPages

\* The Runtime has created the record, with the generation it counts itself, and
\* asks for a shell.
OutputInit ==
    /\ shell = "none" /\ made = 0 /\ held = FALSE /\ frames = <<>> /\ emitted = 0 /\ delivered = 0
    /\ gate = FALSE /\ shut = FALSE /\ batch = <<>> /\ batchEnd = 0
    /\ impatient = FALSE
    /\ toRust = <<[op |-> "spawn"]>> /\ fromRust = <<>>
    /\ current \in BOOLEAN
    /\ status = "starting" /\ reclaimed = FALSE /\ consumer = 0 /\ timer = FALSE
    /\ waits = {"spawn"} /\ ackedThrough = 0 /\ queue = <<>> /\ out = 0
    /\ page = 1 /\ bound = FALSE /\ events = <<>> /\ shown = <<>>
    /\ timeouts = 0

-----------------------------------------------------------------------------
(* The threads of a session.                                               *)

\* reader_should_pause.
Paused == Len(frames) > Window

\* The reader numbers a frame and pushes it, or is held in OutputQueue.push; a
\* shell that has ended may have left some.
Read ==
    /\ shell \in {"alive", "ended"} /\ ~shut /\ ~held /\ made < MaxFrames
    /\ made' = made + 1 /\ held' = Paused
    /\ frames' = IF Paused THEN frames ELSE Append(frames, made + 1)
    /\ UNCHANGED <<shell, emitted, delivered, gate, shut, batch, batchEnd, impatient,
                   pipe, record, view, timeouts>>

\* The window has room again.
Push ==
    /\ held /\ ~shut /\ ~Paused
    /\ held' = FALSE
    /\ frames' = Append(frames, made)
    /\ UNCHANGED <<shell, made, emitted, delivered, gate, shut, batch, batchEnd, impatient,
                   pipe, record, view, timeouts>>

\* OutputQueue.take_emit_batch.
Take ==
    /\ batchEnd = 0 /\ gate /\ ~shut /\ emitted < Len(frames)
    /\ batch' = SubSeq(frames, emitted + 1, Len(frames))
    /\ batchEnd' = Len(frames)
    /\ emitted' = Len(frames)
    /\ UNCHANGED <<shell, made, held, frames, delivered, gate, shut, impatient,
                   pipe, record, view, timeouts>>

WriteFrame ==
    /\ batch # <<>>
    /\ fromRust' = Append(fromRust, [line |-> "frame", arg |-> Head(batch)])
    /\ batch' = Tail(batch)
    /\ UNCHANGED <<shell, made, held, frames, emitted, delivered, gate, shut, batchEnd, impatient,
                   toRust, record, view, timeouts>>

SmallerOf(a, b) == IF a < b THEN a ELSE b
LargerOf(a, b) == IF a < b THEN b ELSE a

\* OutputQueue.mark_delivered, with an index of the time the batch was taken.
MarkDelivered ==
    /\ batchEnd > 0 /\ batch = <<>>
    /\ delivered' = LargerOf(delivered, SmallerOf(batchEnd, emitted))
    /\ batchEnd' = 0
    /\ UNCHANGED <<shell, made, held, frames, emitted, gate, shut, batch, impatient,
                   pipe, record, view, timeouts>>

\* The shell ends by itself.
ShellExit ==
    /\ shell = "alive" /\ shell' = "ended"
    /\ UNCHANGED <<made, held, frames, emitted, delivered, gate, shut, batch, batchEnd, impatient,
                   pipe, record, view, timeouts>>

\* Mutant: a frame counts as delivered when the sender has taken it.
TailTaken == emitted >= Len(frames)

\* OutputQueue.wait_final_delivery.
TailDelivered == delivered >= Len(frames)

\* The reader is at its end; the exit thread has waited for the tail to be
\* written, or runs out of patience.
Leave(patient) ==
    /\ shell = "ended" /\ ~shut /\ ~held
    /\ patient = TailDelivered
    /\ shell' = "leaving"
    /\ impatient' = ~patient
    /\ UNCHANGED <<made, held, frames, emitted, delivered, gate, shut, batch, batchEnd,
                   pipe, record, view, timeouts>>

Report ==
    /\ shell = "leaving" /\ shell' = "gone"
    /\ fromRust' = Append(fromRust, [line |-> "exited"])
    /\ UNCHANGED <<made, held, frames, emitted, delivered, gate, shut, batch, batchEnd, impatient,
                   toRust, record, view, timeouts>>

-----------------------------------------------------------------------------
(* The main loop of the system runtime takes one request after the other.  *)

Request(op) == toRust # <<>> /\ Head(toRust).op = op /\ toRust' = Tail(toRust)
Say(lines) == fromRust' = fromRust \o lines
Registered == shell # "none" /\ ~shut

\* session::spawn starts the shell and its threads, which do not wait for the reply.
Spawn ==
    /\ toRust # <<>> /\ Head(toRust).op = "spawn" /\ shell = "none"
    /\ shell' = "alive"
    /\ Say(<<[line |-> "running"]>>)
    /\ UNCHANGED <<toRust, made, held, frames, emitted, delivered, gate, shut, batch, batchEnd, impatient,
                   record, view, timeouts>>

SpawnReply ==
    /\ Request("spawn") /\ shell # "none"
    /\ Say(<<[line |-> "spawned"]>>)
    /\ UNCHANGED <<sidecar, record, view, timeouts>>

SpawnError ==
    /\ Request("spawn") /\ shell = "none"
    /\ Say(<<[line |-> "notSpawned"]>>)
    /\ UNCHANGED <<sidecar, record, view, timeouts>>

\* Mutant: an attach sends again what no page has acknowledged.
AttachReplays ==
    /\ Request("attach")
    /\ gate' = (gate \/ Registered) /\ emitted' = 0 /\ delivered' = 0
    /\ Say(IF Registered THEN <<[line |-> "attached", arg |-> Head(toRust).arg]>> ELSE <<>>)
    /\ UNCHANGED <<shell, made, held, frames, shut, batch, batchEnd, impatient,
                   record, view, timeouts>>

\* OutputQueue.attach opens the gate: the sender may write before the reply.
Attach ==
    /\ Request("attach")
    /\ gate' = (gate \/ Registered)
    /\ Say(IF Registered THEN <<[line |-> "attached", arg |-> Head(toRust).arg]>> ELSE <<>>)
    /\ UNCHANGED <<shell, made, held, frames, emitted, delivered, shut, batch, batchEnd, impatient,
                   record, view, timeouts>>

\* Mutant: the frame that is acknowledged itself stays.
ReleasedBelow(through) ==
    Cardinality({i \in 1..emitted : \A j \in 1..i : frames[j] < through})

\* OutputQueue.ack releases from the front what was handed to the sender.
Released(through) ==
    Cardinality({i \in 1..emitted : \A j \in 1..i : frames[j] <= through})

Ack ==
    /\ Request("ack")
    /\ LET n == IF Registered THEN Released(Head(toRust).arg) ELSE 0
       IN  /\ frames' = SubSeq(frames, n + 1, Len(frames))
           /\ emitted' = emitted - n
           /\ delivered' = IF delivered < n THEN 0 ELSE delivered - n
    /\ UNCHANGED <<shell, made, held, gate, shut, batch, batchEnd, impatient,
                   fromRust, record, view, timeouts>>

\* handle_close, idempotent; the shell is killed and reaped before the reply, and
\* what the queue holds is released with it.
CloseSession ==
    /\ Request("close")
    /\ IF Registered
       THEN /\ shut' = TRUE
            /\ shell' = IF shell = "leaving" THEN shell ELSE "gone"
            /\ held' = FALSE /\ frames' = <<>> /\ emitted' = 0 /\ delivered' = 0
            /\ Say(<<[line |-> "closed"], [line |-> "reaped", arg |-> Head(toRust).arg]>>)
       ELSE /\ UNCHANGED <<shut, shell, held, frames, emitted, delivered>>
            /\ Say(<<[line |-> "reaped", arg |-> Head(toRust).arg]>>)
    /\ UNCHANGED <<made, gate, batch, batchEnd, impatient,
                   record, view, timeouts>>

-----------------------------------------------------------------------------
(* The Runtime reads one line after the other.                             *)

Line(name) == fromRust # <<>> /\ Head(fromRust).line = name /\ fromRust' = Tail(fromRust)
Notice(name) == current /\ Line(name)
Ask(requests) == toRust' = toRust \o requests

\* transitionStatus without force: an ended terminal absorbs notifications.
Becomes(next) == status' = IF status \in Ended THEN status ELSE next

\* EgressPacer.flushChannel.
Flush ==
    /\ events' = IF queue = <<>> THEN events
                 ELSE Append(events, [to |-> consumer, frames |-> queue])
    /\ out' = IF queue = <<>> THEN out ELSE Last(queue)
    /\ queue' = <<>>

\* InboundProcessor.handle: the record has another generation, because the Runtime
\* has not heard the reply to the spawn yet or does not wait for it any more.
OnStale ==
    /\ ~current
    /\ Line("frame") \/ Line("running") \/ Line("exited") \/ Line("closed")
    /\ UNCHANGED <<sidecar, toRust, record, view, timeouts>>

OnFrame ==
    /\ Notice("frame")
    /\ queue' = Append(queue, Head(fromRust).arg)
    /\ UNCHANGED <<sidecar, toRust, status, current, reclaimed, consumer, timer, waits, ackedThrough, out,
                   view, timeouts>>

OnRunning ==
    /\ Notice("running")
    /\ Becomes("running")
    /\ UNCHANGED <<sidecar, toRust, current, reclaimed, consumer, timer, waits, ackedThrough, queue, out,
                   view, timeouts>>

\* applyRustState for 'exited': the tail, the state, and the slot is given back.
OnExited ==
    /\ Notice("exited")
    /\ Flush
    /\ Becomes("exited")
    /\ LET changed == status \notin Ended
       IN  /\ Ask(IF changed /\ ~reclaimed THEN <<[op |-> "close", arg |-> "quiet"]>> ELSE <<>>)
           /\ reclaimed' = (reclaimed \/ changed)
    /\ UNCHANGED <<sidecar, current, consumer, timer, waits, ackedThrough,
                   page, bound, shown, timeouts>>

\* applyRustState for 'closed', swallowed after an exit that gave the slot back.
OnClosed ==
    /\ Notice("closed")
    /\ IF status = "exited" /\ reclaimed
       THEN UNCHANGED <<status, queue, events, out>>
       ELSE Flush /\ Becomes("closed")
    /\ UNCHANGED <<sidecar, toRust, current, reclaimed, consumer, timer, waits, ackedThrough,
                   page, bound, shown, timeouts>>

\* runSpawn goes on after its await.
OnSpawned ==
    /\ Line("spawned")
    /\ waits' = waits \ {"spawn"}
    /\ IF "spawn" \in waits
       THEN Becomes("running") /\ current' = TRUE /\ timer' = TRUE
       ELSE UNCHANGED <<status, current, timer>>
    /\ UNCHANGED <<sidecar, toRust, reclaimed, consumer, ackedThrough, queue, out,
                   view, timeouts>>

OnNotSpawned ==
    /\ Line("notSpawned")
    /\ waits' = waits \ {"spawn"}
    /\ IF "spawn" \in waits THEN Becomes("failed") ELSE UNCHANGED status
    /\ UNCHANGED <<sidecar, toRust, current, reclaimed, consumer, timer, ackedThrough, queue, out,
                   view, timeouts>>

\* attach goes on after its await: only now events carry the page.
OnAttached ==
    /\ Line("attached")
    /\ consumer' = Head(fromRust).arg
    /\ timer' = FALSE
    /\ UNCHANGED <<sidecar, toRust, status, current, reclaimed, waits, ackedThrough, queue, out,
                   view, timeouts>>

\* doClose goes on after its await.
OnReaped ==
    /\ Line("reaped")
    /\ IF Head(fromRust).arg = "user" /\ "close" \in waits
       THEN /\ waits' = waits \ {"close"}
            /\ Flush
            /\ timer' = FALSE
            /\ status' = "closed"
       ELSE UNCHANGED <<waits, queue, events, out, timer, status>>
    /\ UNCHANGED <<sidecar, toRust, current, reclaimed, consumer, ackedThrough,
                   page, bound, shown, timeouts>>

\* EgressPacer.pump: neighbouring frames in one event, as tokens allow.
Pump(n) ==
    /\ n \in 1..Len(queue)
    /\ events' = Append(events, [to |-> consumer, frames |-> SubSeq(queue, 1, n)])
    /\ out' = queue[n]
    /\ queue' = SubSeq(queue, n + 1, Len(queue))
    /\ UNCHANGED <<sidecar, pipe, status, current, reclaimed, consumer, timer, waits, ackedThrough,
                   page, bound, shown, timeouts>>

\* Mutant: a spawn that timed out counts as one that failed.
SpawnTimeoutForgets ==
    /\ timeouts < MaxTimeouts /\ "spawn" \in waits
    /\ timeouts' = timeouts + 1
    /\ waits' = waits \ {"spawn"}
    /\ Becomes("failed")
    /\ UNCHANGED <<sidecar, pipe, current, reclaimed, consumer, timer, ackedThrough, queue, out, view>>

\* A spawn that timed out may still succeed: its shell is closed behind it.
SpawnTimeout ==
    /\ timeouts < MaxTimeouts /\ "spawn" \in waits
    /\ timeouts' = timeouts + 1
    /\ waits' = waits \ {"spawn"}
    /\ Ask(<<[op |-> "close", arg |-> "quiet"]>>)
    /\ Becomes("failed")
    /\ UNCHANGED <<sidecar, fromRust, current, reclaimed, consumer, timer, ackedThrough, queue, out, view>>

\* Nobody attached in time.
AttachTimeout ==
    /\ timer /\ timer' = FALSE
    /\ IF consumer = 0 /\ status = "running"
       THEN /\ Ask(<<[op |-> "close", arg |-> "quiet"]>>)
            /\ status' = "failed"
       ELSE UNCHANGED <<toRust, status>>
    /\ UNCHANGED <<sidecar, fromRust, current, reclaimed, consumer, waits, ackedThrough, queue, out,
                   view, timeouts>>

-----------------------------------------------------------------------------
(* The page.                                                               *)

Binding == IF status \in {"starting", "running"} THEN <<[op |-> "attach", arg |-> page']>> ELSE <<>>

\* The page that asked for the terminal attaches when create has returned.
AskAttach ==
    /\ ~bound /\ bound' = TRUE
    /\ status = "running" /\ "spawn" \notin waits
    /\ page' = page
    /\ Ask(Binding)
    /\ UNCHANGED <<sidecar, fromRust, record, events, shown, timeouts>>

\* handleEvent: output of another consumer is dropped.
Render ==
    /\ events # <<>> /\ events' = Tail(events)
    /\ shown' = IF Head(events).to = page THEN shown \o Head(events).frames ELSE shown
    /\ UNCHANGED <<sidecar, pipe, record, page, bound, timeouts>>

\* Mutant: what was handed to the page counts as shown.
HighestHandedOut == out

\* AckState.pendingHighest, moved by the write callback of the screen.
PendingHighest == IF shown = <<>> THEN 0 ELSE Last(shown)
AckInFlight == \E i \in DOMAIN toRust : toRust[i].op = "ack"

\* AckTracker.flush and TerminalService.ack, which skips what was acknowledged.
SendAck ==
    /\ PendingHighest > ackedThrough /\ ~AckInFlight
    /\ ackedThrough' = PendingHighest
    /\ Ask(<<[op |-> "ack", arg |-> PendingHighest]>>)
    /\ UNCHANGED <<sidecar, fromRust, status, current, reclaimed, consumer, timer, waits, queue, out,
                   page, bound, events, shown, timeouts>>

\* rehydrate: the next page lists the terminals and attaches to those that live.
Reload ==
    /\ page < MaxPages /\ page' = page + 1
    /\ bound' = TRUE /\ events' = <<>> /\ shown' = <<>>
    /\ Ask(Binding)
    /\ UNCHANGED <<sidecar, fromRust, record, timeouts>>

\* close and doClose up to its await.
AskClose ==
    /\ status # "closed" /\ "close" \notin waits
    /\ IF status = "exited" /\ reclaimed
       THEN /\ status' = "closed" /\ Flush /\ timer' = FALSE
            /\ UNCHANGED <<toRust, waits>>
       ELSE IF status = "disconnected"
       THEN /\ status' = "closed" /\ Flush /\ timer' = FALSE
            /\ UNCHANGED <<toRust, waits>>
       ELSE /\ status' = "closing"
            /\ Ask(<<[op |-> "close", arg |-> "user"]>>)
            /\ waits' = waits \cup {"close"}
            /\ UNCHANGED <<queue, events, out, timer>>
    /\ UNCHANGED <<sidecar, fromRust, current, reclaimed, consumer, ackedThrough,
                   page, bound, shown, timeouts>>

\* The request to close times out: the user may close once more.
CloseTimeout ==
    /\ timeouts < MaxTimeouts /\ "close" \in waits
    /\ timeouts' = timeouts + 1
    /\ waits' = waits \ {"close"}
    /\ UNCHANGED <<sidecar, pipe, status, current, reclaimed, consumer, timer, ackedThrough, queue, out, view>>

-----------------------------------------------------------------------------
\* The system runtime ends, and with it the shell and all that is in the pipe;
\* markAllDisconnected runs before the rejected requests go on.
SidecarEnds ==
    /\ shell' = "gone" /\ shut' = TRUE /\ held' = FALSE
    /\ frames' = <<>> /\ emitted' = 0 /\ delivered' = 0
    /\ batch' = <<>> /\ batchEnd' = 0
    /\ toRust' = <<>> /\ fromRust' = <<>> /\ waits' = {}
    /\ IF status \in Ended
       THEN UNCHANGED <<status, queue, timer>>
       ELSE status' = "disconnected" /\ queue' = <<>> /\ timer' = FALSE
    /\ UNCHANGED <<made, gate, impatient, current, reclaimed, consumer, ackedThrough, out, view, timeouts>>

-----------------------------------------------------------------------------
Sender == Take \/ WriteFrame \/ MarkDelivered
ExitThread == Leave(TRUE) \/ Leave(FALSE) \/ Report
MainLoop == Spawn \/ SpawnReply \/ Attach \/ Ack \/ CloseSession
Runtime ==
    \/ OnStale \/ OnFrame \/ OnRunning \/ OnExited \/ OnClosed
    \/ OnSpawned \/ OnNotSpawned \/ OnAttached \/ OnReaped
    \/ AttachTimeout \/ \E n \in 1..MaxFrames : Pump(n)
Page == Render \/ SendAck

\* The shell, the user, the losses and the requests that fail owe nothing.
World ==
    \/ Read \/ ShellExit \/ SpawnError \/ SpawnTimeout \/ CloseTimeout
    \/ AskAttach \/ Reload \/ AskClose \/ SidecarEnds

OutputNext == Push \/ Sender \/ ExitThread \/ MainLoop \/ Runtime \/ Page \/ World

\* Threads, loops and timers go on by themselves.
OutputFairness ==
    /\ WF_outputVars(Push) /\ WF_outputVars(Sender) /\ WF_outputVars(ExitThread)
    /\ WF_outputVars(MainLoop) /\ WF_outputVars(Runtime) /\ WF_outputVars(Page)

OutputSpec == OutputInit /\ [][OutputNext]_outputVars /\ OutputFairness

-----------------------------------------------------------------------------
(* Properties.                                                             *)

OutputTypeOK ==
    /\ shell \in {"none", "alive", "ended", "leaving", "gone"}
    /\ made \in 0..MaxFrames /\ frames \in Seq(1..MaxFrames)
    /\ delivered <= emitted /\ emitted <= Len(frames)
    /\ {held, gate, shut, impatient, current, reclaimed, timer, bound} \subseteq BOOLEAN
    /\ status \in Active \cup Ended /\ waits \subseteq {"spawn", "close"}
    /\ page \in Pages /\ consumer \in 0..page

\* "Single producer, single sender, frames leave only when acknowledged": what a
\* page shows is a run of the shell's output without gap or repetition, whatever
\* was waiting, flushed, re-attached or lost on the way to an earlier page.
NoGapNoRepeat ==
    \A i \in 1..Len(shown) - 1 : shown[i + 1] = shown[i] + 1

\* The tail comes before the exit: when the Runtime reports that the shell has
\* exited, every frame was handed to the page before, unless the exit thread gave
\* up on a page that did not acknowledge.
TailFirst == (status = "exited" /\ ~impatient) => out = made

\* The places of the frames between the reader and the screen.
Carried ==
    {<<"pipe", i, 1>> : i \in {j \in DOMAIN fromRust : fromRust[j].line = "frame"}}
    \cup {<<"queue", i, 1>> : i \in DOMAIN queue}
    \cup UNION {{<<"event", i, k>> : k \in DOMAIN events[i].frames} : i \in DOMAIN events}

\* Two windows in series are still one window: what travels between the reader
\* and the screen never exceeds what the reader may have unacknowledged.
WindowBounds == Cardinality(Carried) <= Window + 1

\* Shapes, the order of the queue's positions, and the window.
BoundedOutput == OutputTypeOK /\ WindowBounds

\* A terminal that the user sees as over holds no shell: a spawn that timed out,
\* an attach that never came and a close that was cut short all end in a reaped
\* process.
NoOrphanShell == (status \in Ended /\ shell # "none") ~> shut

\* What a page has shown is released to the reader: an acknowledgement that stands
\* for later ones, or is skipped as an old one, leaves nothing in the window that
\* was shown.  (It promises nothing of frames that were lost with an earlier page.)
AckLands ==
    (ToSet(shown) \cap ToSet(frames) # {}) ~> (shut \/ ToSet(shown) \cap ToSet(frames) = {})
=============================================================================
