-------------------------- MODULE RunExecutionProofs --------------------------
(***************************************************************************)
(* What RunExecution states of one run, for any number of turns, calls,    *)
(* crashes and failed saves: a run that has ended leaves nothing open, the *)
(* five tables tell one story, calls keep to their place and an ended call *)
(* keeps its result.                                                       *)
(*                                                                         *)
(* None of the four is inductive.  IInv adds what the process knows about  *)
(* the rows while it executes (which turn, draft and rows are open in      *)
(* which stage) and what each step of a recovery has already repaired.     *)
(***************************************************************************)
EXTENDS RunExecution, FiniteSetTheorems, SequenceTheorems, TLAPS

-----------------------------------------------------------------------------
(* The inductive invariant.                                                *)

\* What the process knows besides the rows has its shape.
Stages == {"between", "model", "draining", "judged", "scheduled", "batch",
           "unwind", "ending", "idle"}
Slots == Busy \cup {"none", "declared", "done", "threw"}

ProcessTypes ==
    /\ stage \in Stages
    /\ reply \in {"none", "final", "continue", "halt", "tools"}
    /\ verdict \in {"none", "completed", "failed", "cancelled"}
    /\ fresh \in BOOLEAN /\ unsaved \in BOOLEAN
    /\ boot \in {"turns", "runs", "interactions", "messages", "calls", "up"}

\* Only the latest turn is open, a turn exists while one is worked on, and none is
\* open before the next one or once the answer without tools has been stored.
Turning ==
    /\ \A t \in DOMAIN turns : turns[t] \in OpenPhases => t = Len(turns)
    /\ stage \in {"model", "draining", "judged", "scheduled", "batch"} => turns # <<>>
    /\ stage \in {"between", "judged"} => \A t \in DOMAIN turns : turns[t] \notin OpenPhases

\* The run has one draft from the request to the stored answer, or the one it was
\* made with until its first turn, and none in between.
Drafting ==
    /\ stage = "between" => drafts = IF fresh THEN 1 ELSE 0
    /\ stage \in {"model", "draining"} => drafts = 1 /\ ~fresh
    /\ stage \in {"judged", "scheduled", "batch"} => drafts = 0 /\ ~fresh

\* A run that executes has not ended; outside a batch it is plainly running, and in
\* a batch its status is owed to a card or to a question, waiting or withdrawn.
Reporting ==
    /\ stage # "idle" => run \in Live /\ boot = "up" /\ ~unsaved
    /\ stage \in {"between", "model", "draining", "judged", "scheduled"} => run = "running"
    /\ StatusTellsWait
    /\ stage = "batch" /\ run = "awaiting_user_input" => With("asking") \cup With("threw") # {}
    /\ stage = "ending" => verdict # "none"

\* Outside a batch the only calls under way are early reads of this turn, kept or
\* given up.
Reading ==
    /\ stage \notin {"model", "draining", "unwind"} => early \cup stale = {}
    /\ stage = "unwind" => early = {}
    /\ \A c \in early \cup stale : kind[c] = "read" /\ slot[c] \in {"running", "done", "threw"}
    /\ stage \in {"model", "draining"} =>
          \A c \in Calls : slot[c] \in {"done", "threw"} => c \in early \cup stale
    /\ stage # "batch" => \A c \in Engaged : slot[c] = "running" /\ c \in early \cup stale

\* Calls under way keep to their place; a question is under way only as itself.
Placing ==
    /\ BarrierOrder
    /\ \A c \in With("asking") : kind[c] = "ask" /\ row[c] = "awaiting_user_input"
    /\ stage = "idle" => slot = NoSlots
    /\ stage = "model" => With("declared") = {}
    /\ stage = "draining" => \A c \in With("declared") : row[c] = "none"

\* What is under way has an open row, and an open row belongs to a call of this turn.
Recording ==
    /\ \A c \in Engaged : row[c] \in OpenRows
    /\ \A c \in Calls : slot[c] \in {"done", "threw"} => row[c] # "none"
    /\ stage \in {"between", "judged"} => \A c \in Calls : row[c] \notin OpenRows
    /\ stage \in {"model", "draining", "scheduled", "batch"} =>
          \A c \in Calls : row[c] \in OpenRows => slot[c] \in Busy \cup {"declared", "threw"}
    /\ stage = "scheduled" =>
          \A c \in Calls : row[c] \in OpenRows => slot[c] = "declared"
    /\ stage \in {"scheduled", "batch"} =>
          \A c \in With("declared") : row[c] \in OpenRows

\* Calls get rows, and places, in the order of their declaration.
Counting ==
    /\ \E n \in 0..MaxCalls : \A c \in Calls : row[c] # "none" <=> c <= n
    /\ \E n \in 0..MaxCalls : \A c \in Calls : (row[c] # "none" \/ slot[c] # "none") <=> c <= n

\* The five tables agree that the run waits for the answer to c.
Waiting(c) ==
    /\ questions = {c} /\ row[c] = "awaiting_user_input"
    /\ run = "awaiting_user_input"
    /\ turns # <<>> /\ turns[Len(turns)] = "awaiting_user_input"
    /\ drafts = 0

\* Pending questions are those under way, and never more than the one the run waits
\* for.
Asking ==
    /\ stage # "idle" => questions = With("asking")
    /\ questions # {} => \E c \in Calls : Waiting(c)

\* What each step of the recovery has repaired stays repaired; a process that could
\* not save an end leaves no question behind.
Repairing ==
    /\ unsaved => stage = "idle" /\ boot = "up" /\ questions = {} /\ run \in Live
    /\ stage = "idle" /\ ~unsaved =>
          /\ boot # "turns" /\ questions = {} => \A t \in DOMAIN turns : turns[t] \notin OpenPhases
          /\ boot \notin {"turns", "runs"} /\ questions = {} => run \in Terminal
          /\ boot \in {"calls", "up"} => drafts = 0
          /\ boot = "up" => \A c \in Calls : row[c] \in OpenRows => c \in questions

IInv ==
    /\ RunTypeOK /\ ProcessTypes /\ Turning /\ Drafting /\ Reporting /\ Reading
    /\ Placing /\ Recording /\ Counting /\ Asking /\ Repairing

-----------------------------------------------------------------------------
(* Operators of the model.                                                 *)

USE DEF Live, Terminal, OpenPhases, OpenRows, Busy

\* transition of the latest turn changes that turn alone.
LEMMA PhaseOf ==
    ASSUME RunTypeOK, turns # <<>>, NEW x \in OpenPhases \cup Terminal,
           turns' = Phase(x)
    PROVE  /\ turns' \in Seq(OpenPhases \cup Terminal)
           /\ Len(turns') = Len(turns) /\ turns' # <<>>
           /\ DOMAIN turns' = DOMAIN turns /\ Len(turns) \in DOMAIN turns
           /\ turns'[Len(turns)] = x
           /\ \A t \in DOMAIN turns : t # Len(turns) => turns'[t] = turns[t]
<1>1. turns \in Seq(OpenPhases \cup Terminal)
  BY DEF RunTypeOK
<1>2. Len(turns) \in Nat \ {0} /\ DOMAIN turns = 1..Len(turns)
  BY <1>1, EmptySeq, LenProperties
<1>3. turns' \in Seq(OpenPhases \cup Terminal) /\ Len(turns') = Len(turns)
  BY <1>1, <1>2, ExceptSeq DEF Phase
<1>4. DOMAIN turns' = 1..Len(turns)
  BY <1>2 DEF Phase
<1>. QED
  BY <1>1, <1>2, <1>3, <1>4 DEF Phase

\* A turn is opened behind the others.
LEMMA TurnOpened ==
    ASSUME RunTypeOK, NEW x \in OpenPhases \cup Terminal, turns' = Append(turns, x)
    PROVE  /\ turns' \in Seq(OpenPhases \cup Terminal)
           /\ Len(turns) \in Nat /\ Len(turns') = Len(turns) + 1 /\ turns' # <<>>
           /\ turns'[Len(turns')] = x
           /\ \A t \in DOMAIN turns' : t # Len(turns') => t \in DOMAIN turns /\ turns'[t] = turns[t]
<1>1. turns \in Seq(OpenPhases \cup Terminal)
  BY DEF RunTypeOK
<1>2. Len(turns) \in Nat /\ DOMAIN turns = 1..Len(turns)
  BY <1>1, LenProperties
<1>3. /\ turns' \in Seq(OpenPhases \cup Terminal)
      /\ Len(turns') = Len(turns) + 1 /\ turns'[Len(turns) + 1] = x
      /\ \A t \in 1..Len(turns) : turns'[t] = turns[t]
  BY <1>1, <1>2, AppendProperties
<1>4. DOMAIN turns' = 1..(Len(turns) + 1)
  BY <1>3, LenProperties
<1>. QED
  BY <1>2, <1>3, <1>4, EmptySeq

\* Outside a batch nobody is asked, and where no read is under way nothing is.
LEMMA Quiet ==
    ASSUME IInv
    PROVE  /\ stage \notin {"model", "draining", "unwind", "batch"} => Engaged = {}
           /\ stage # "batch" => With("asking") = {}
           /\ stage \notin {"batch", "idle"} => questions = {}
<1>1. stage \notin {"model", "draining", "unwind", "batch"} => Engaged = {}
  BY DEF IInv, Reading, Engaged
<1>2. stage # "batch" => With("asking") = {}
  BY DEF IInv, Reading, Engaged, With
<1>. QED
  BY <1>1, <1>2 DEF IInv, Asking

\* A question is asked alone.
LEMMA Alone ==
    ASSUME IInv, NEW c \in With("asking")
    PROVE  Engaged = {c} /\ stage = "batch" /\ run = "awaiting_user_input"
<1>1. c \in Engaged /\ kind[c] = "ask"
  BY DEF IInv, Placing, With, Engaged
<1>2. Engaged = {c}
  BY <1>1 DEF IInv, Placing, BarrierOrder
<1>3. stage = "batch"
  BY Quiet
<1>. QED
  BY <1>2, <1>3 DEF IInv, Reporting, StatusTellsWait

\* Rows and places are counted by what has one.
LEMMA Counted ==
    ASSUME Counting,
           \A c \in Calls : row'[c] # "none" <=> row[c] # "none",
           \A c \in Calls : (row'[c] # "none" \/ slot'[c] # "none")
                            <=> (row[c] # "none" \/ slot[c] # "none")
    PROVE  Counting'
BY DEF Counting, Calls

\* A step of one call under way disturbs no other call.
LEMMA CallMoved ==
    ASSUME IInv, NEW c \in Engaged,
           NEW s \in Busy \cup {"done", "threw"}, slot' = [slot EXCEPT ![c] = s],
           NEW r \in OpenRows \cup {"completed", "failed"}, row' = [row EXCEPT ![c] = r],
           UNCHANGED <<stage, kind, early, stale>>,
           s \in Busy => stage = "batch" /\ r \in OpenRows,
           s = "done" => r \notin OpenRows,
           s = "asking" => kind[c] = "ask" /\ r = "awaiting_user_input"
    PROVE  /\ slot' \in [Calls -> Slots]
           /\ row' \in [Calls -> {"none"} \cup OpenRows \cup {"completed", "failed", "cancelled"}]
           /\ slot'[c] = s /\ row'[c] = r
           /\ \A d \in Calls : d # c => slot'[d] = slot[d] /\ row'[d] = row[d]
           /\ Reading' /\ Placing' /\ Recording' /\ Counting'
<1> USE DEF IInv
<1>1. /\ c \in Calls /\ slot \in [Calls -> Slots]
      /\ row \in [Calls -> {"none"} \cup OpenRows \cup {"completed", "failed", "cancelled"}]
      /\ slot[c] \in Busy /\ row[c] \in OpenRows
  BY DEF Engaged, RunTypeOK, Slots, Recording
<1>2. /\ slot' \in [Calls -> Slots]
      /\ row' \in [Calls -> {"none"} \cup OpenRows \cup {"completed", "failed", "cancelled"}]
      /\ slot'[c] = s /\ row'[c] = r
      /\ \A d \in Calls : d # c => slot'[d] = slot[d] /\ row'[d] = row[d]
  BY <1>1 DEF Slots
<1>3. Engaged' \subseteq Engaged /\ With("declared")' = With("declared")
  BY <1>1, <1>2 DEF Engaged, With
<1>4. stage \in {"model", "draining", "unwind", "batch"}
  BY <1>1, Quiet
<1>5. Reading'
  BY <1>1, <1>2, <1>3, <1>4 DEF Reading, Engaged
<1>6. BarrierOrder'
  BY <1>3 DEF Placing, BarrierOrder
<1>7. Placing'
  BY <1>1, <1>2, <1>3, <1>4, <1>6 DEF Placing, With
<1>8. Recording'
  BY <1>1, <1>2, <1>3, <1>4 DEF Recording, Engaged, With
<1>9. Counting'
  BY <1>1, <1>2, Counted
<1>. QED
  BY <1>2, <1>5, <1>7, <1>8, <1>9

\* While the model talks, the next call is the first without a row.
LEMMA FirstFree ==
    ASSUME IInv, stage = "model"
    PROVE  \E n \in 0..MaxCalls :
              /\ NextCall = n + 1
              /\ \A c \in Calls : row[c] # "none" <=> c <= n
              /\ \A c \in Calls : slot[c] # "none" => c <= n
<1> USE RunAssumption DEF IInv
<1>1. PICK n \in 0..MaxCalls : \A c \in Calls : row[c] # "none" <=> c <= n
  BY DEF Counting
<1>2. \A c \in Calls : slot[c] # "none" => row[c] # "none"
  BY DEF Recording, Placing, Engaged, With, RunTypeOK
<1>3. {c \in Calls : row[c] # "none" \/ slot[c] # "none"} = 1..n
  BY <1>1, <1>2 DEF Calls
<1>4. Cardinality(1..n) = n
  BY <1>1, FS_Interval
<1>. QED
  BY <1>1, <1>2, <1>3, <1>4 DEF NextCall

-----------------------------------------------------------------------------
(* Model turns.                                                            *)

LEMMA UnwindingIInv ==
    ASSUME IInv, stage \in {"between", "model", "draining", "batch"},
           stage = "batch" => Engaged = {},
           UNCHANGED <<run, turns, drafts, row, questions, verdict, stop, fresh,
                       slot, kind, boot, unsaved>>,
           reply' \in {reply, "none"},
           stage' = "unwind", early' = {}, stale' = stale \cup early
    PROVE  IInv'
<1> USE RunAssumption DEF IInv
<1>1. With("asking") = {} /\ run \in Live /\ boot = "up" /\ ~unsaved
  BY Quiet DEF Engaged, With, Reporting
<1>2. RunTypeOK'
  BY <1>1 DEF RunTypeOK
<1>3. ProcessTypes'
  BY <1>1 DEF ProcessTypes, Stages
<1>4. Turning'
  BY <1>1 DEF Turning
<1>5. Drafting'
  BY <1>1 DEF Drafting
<1>6. Reporting'
  BY <1>1 DEF Reporting, StatusTellsWait, With
<1>7. Reading'
  BY <1>1 DEF Reading, Engaged
<1>8. Placing'
  BY <1>1 DEF Placing, BarrierOrder, Engaged, With, NoSlots
<1>9. Recording'
  BY <1>1 DEF Recording, Engaged, With
<1>10. Asking'
  BY <1>1 DEF Asking, Waiting, With
<1>11. Repairing'
  BY <1>1 DEF Repairing
<1>12. Counting'
  BY <1>1 DEF Counting
<1>. QED
  BY <1>2, <1>3, <1>4, <1>5, <1>6, <1>7, <1>8, <1>9, <1>10, <1>11, <1>12

LEMMA StartTurnIInv ==
    ASSUME IInv, StartTurn
    PROVE  IInv'
<1> USE RunAssumption DEF IInv
<1>1. /\ UNCHANGED <<run, row, questions, reply, verdict, stop, kind, boot,
                      unsaved>>
      /\ stage = "between" /\ stage' \in {"model", "unwind"} /\ slot' = NoSlots
  BY DEF StartTurn, Unwind, startup
<1>2. /\ turns' \in Seq(OpenPhases \cup Terminal)
      /\ Len(turns) \in Nat /\ Len(turns') = Len(turns) + 1 /\ turns' # <<>>
      /\ turns'[Len(turns')] = "awaiting_model_response"
      /\ \A t \in DOMAIN turns' : t # Len(turns') => t \in DOMAIN turns /\ turns'[t] = turns[t]
  BY TurnOpened DEF StartTurn
<1>3. Engaged = {} /\ questions = {}
  BY Quiet DEF StartTurn
<1>4. /\ drafts' \in 0..1 /\ early' = {} /\ stale' = {} /\ fresh' \in BOOLEAN
      /\ stage' = "model" => drafts' = 1 /\ ~fresh'
  <2>1. CASE stage' = "model"
    <3>1. /\ drafts' = IF fresh THEN drafts ELSE drafts + 1
          /\ fresh' = FALSE /\ UNCHANGED <<early, stale>>
      BY <2>1 DEF StartTurn, Unwind
    <3>2. drafts = IF fresh THEN 1 ELSE 0
      BY <1>1 DEF Drafting
    <3>3. drafts' = 1
      BY <3>1, <3>2
    <3>4. early = {} /\ stale = {}
      BY <1>1 DEF Reading
    <3>5. drafts' \in 0..1 /\ early' = {} /\ stale' = {}
      BY <3>1, <3>3, <3>4
    <3>. QED
      BY <3>1, <3>3, <3>5
  <2>2. CASE stage' = "unwind"
    <3>1. UNCHANGED <<drafts, fresh>> /\ GiveUpEarly
      BY <2>2 DEF StartTurn, Unwind
    <3>. QED
      BY <1>1, <2>2, <3>1 DEF GiveUpEarly, Reading, RunTypeOK, ProcessTypes
  <2>. QED
    BY <1>1, <2>1, <2>2
<1>5. With("asking")' = {} /\ Engaged' = {}
  BY <1>1 DEF NoSlots, With, Engaged
<1>6. RunTypeOK'
  BY <1>2, <1>4 DEF RunTypeOK, StartTurn, NoSlots, Unwind
<1>7. ProcessTypes'
  BY <1>1, <1>2, <1>3, <1>4, <1>5 DEF ProcessTypes, Stages
<1>8. Turning'
  BY <1>1, <1>2, <1>3, <1>4, <1>5 DEF Turning
<1>9. Drafting'
  BY <1>1, <1>2, <1>3, <1>4, <1>5 DEF Drafting
<1>10. Reporting'
  BY <1>1, <1>2, <1>3, <1>4, <1>5 DEF Reporting, StatusTellsWait, With
<1>11. Reading'
  BY <1>1, <1>2, <1>3, <1>4, <1>5 DEF Reading, Engaged, NoSlots
<1>12. Placing'
  BY <1>1, <1>2, <1>3, <1>4, <1>5 DEF Placing, BarrierOrder, Engaged, With,
     NoSlots
<1>13. Recording'
  BY <1>1, <1>2, <1>3, <1>4, <1>5 DEF Recording, Engaged, With, NoSlots
<1>14. Counting'
  BY <1>1, <1>2, <1>3, <1>4, <1>5 DEF Counting, NoSlots
<1>15. Asking'
  BY <1>3, <1>5 DEF Asking, StartTurn
<1>16. Repairing'
  BY <1>1, <1>2, <1>3, <1>4, <1>5 DEF Repairing
<1>. QED
  BY <1>6, <1>7, <1>8, <1>9, <1>10, <1>11, <1>12, <1>13, <1>14, <1>15, <1>16

LEMMA OutOfTurnsIInv ==
    ASSUME IInv, OutOfTurns
    PROVE  IInv'
<1> USE RunAssumption DEF IInv
<1>1. /\ UNCHANGED <<run, turns, drafts, row, questions, reply, stop, fresh,
                      slot, kind, early, stale, boot, unsaved>>
      /\ stage = "between" /\ stage' = "ending" /\ verdict' = "failed"
  BY DEF OutOfTurns, tables, calls, startup
<1>2. ProcessTypes'
  BY <1>1 DEF ProcessTypes, Stages
<1>3. Turning'
  BY <1>1 DEF Turning
<1>4. Drafting'
  BY <1>1 DEF Drafting
<1>5. Reporting'
  BY <1>1 DEF Reporting, StatusTellsWait, With
<1>6. Reading'
  BY <1>1 DEF Reading, Engaged
<1>7. Placing'
  BY <1>1 DEF Placing, BarrierOrder, Engaged, With, NoSlots
<1>8. Recording'
  BY <1>1 DEF Recording, Engaged, With
<1>9. Asking'
  BY <1>1 DEF Asking, Waiting, With
<1>10. Repairing'
  BY <1>1 DEF Repairing
<1>11. RunTypeOK' /\ Counting'
  BY <1>1 DEF RunTypeOK, Counting
<1>. QED
  BY <1>2, <1>3, <1>4, <1>5, <1>6, <1>7, <1>8, <1>9, <1>10, <1>11

LEMMA InterruptedIInv ==
    ASSUME IInv, Interrupted
    PROVE  IInv'
BY UnwindingIInv DEF Interrupted, Unwind, GiveUpEarly, tables, startup

LEMMA StreamIInv ==
    ASSUME IInv, Stream
    PROVE  IInv'
<1> USE RunAssumption DEF IInv
<1>1. /\ UNCHANGED <<run, drafts, row, questions, stage, reply, verdict,
                      stop, fresh, slot, kind, early, stale, boot, unsaved>>
      /\ stage = "model"
  BY DEF Stream, process, runner, calls, startup
<1>2. /\ turns' \in Seq(OpenPhases \cup Terminal)
      /\ Len(turns') = Len(turns) /\ turns' # <<>>
      /\ DOMAIN turns' = DOMAIN turns /\ Len(turns) \in DOMAIN turns
      /\ turns'[Len(turns)] = "streaming"
      /\ \A t \in DOMAIN turns : t # Len(turns) => turns'[t] = turns[t]
  BY PhaseOf DEF Turning, Stream
<1>3. questions = {}
  BY Quiet DEF Stream
<1>4. RunTypeOK'
  BY <1>1, <1>2, <1>3 DEF RunTypeOK
<1>5. Turning'
  BY <1>1, <1>2, <1>3 DEF Turning
<1>6. Reporting'
  BY <1>1, <1>2, <1>3 DEF Reporting, StatusTellsWait, With
<1>7. Asking'
  BY <1>1, <1>2, <1>3 DEF Asking, Waiting, With
<1>8. Repairing'
  BY <1>1, <1>2, <1>3 DEF Repairing
<1>9. ProcessTypes' /\ Drafting' /\ Reading' /\ Placing' /\ Recording' /\ Counting'
  BY <1>1 DEF ProcessTypes, Stages, Drafting, Reading, Engaged, Placing,
     BarrierOrder, With, NoSlots, Recording, Counting
<1>. QED
  BY <1>4, <1>5, <1>6, <1>7, <1>8, <1>9

LEMMA EarlyReadIInv ==
    ASSUME IInv, EarlyRead
    PROVE  IInv'
<1> USE RunAssumption DEF IInv
<1>1. PICK n \in 0..MaxCalls :
        /\ NextCall = n + 1
        /\ \A c \in Calls : row[c] # "none" <=> c <= n
        /\ \A c \in Calls : slot[c] # "none" => c <= n
  BY FirstFree DEF EarlyRead
<1>2. PICK c \in Calls : c = n + 1
  BY <1>1 DEF EarlyRead
<1>3. row[c] = "none" /\ slot[c] = "none" /\ stage = "model" /\ With("asking") = {} /\ questions = {}
  BY <1>1, <1>2, Quiet DEF Calls, EarlyRead
<1>4. PICK s \in {"running", "done", "threw"}, r \in {"running", "failed"} :
        /\ slot' = [slot EXCEPT ![c] = s] /\ row' = [row EXCEPT ![c] = r]
        /\ (s = "running" <=> r = "running")
  BY <1>1, <1>2 DEF EarlyRead
<1>5. /\ UNCHANGED <<run, turns, drafts, questions, stage, fresh, verdict, reply, stop, stale, boot, unsaved>>
      /\ early' = early \cup {c} /\ kind' = [kind EXCEPT ![c] = "read"]
  BY <1>1, <1>2 DEF EarlyRead, runner, startup
<1>6. /\ slot' \in [Calls -> Slots] /\ kind' \in [Calls -> Kinds]
      /\ row' \in [Calls -> {"none"} \cup OpenRows \cup {"completed", "failed", "cancelled"}]
      /\ slot'[c] = s /\ row'[c] = r /\ kind'[c] = "read"
      /\ \A d \in Calls : d # c => slot'[d] = slot[d] /\ row'[d] = row[d] /\ kind'[d] = kind[d]
  BY <1>4, <1>5 DEF RunTypeOK, Slots, Kinds
<1>7. Engaged' \subseteq Engaged \cup {c} /\ With("declared")' = {} /\ With("asking")' = {}
  BY <1>3, <1>6, <1>4 DEF Engaged, With, Placing
<1>8. RunTypeOK'
  BY <1>6, <1>5 DEF RunTypeOK, Slots
<1>9. Reporting'
  BY <1>5, <1>3 DEF Reporting, StatusTellsWait
<1>10. Reading'
  BY <1>6, <1>5, <1>3, <1>4, <1>7 DEF Reading, Engaged
<1>11. Placing'
  <2>1. Reading'
    BY <1>10
  <2>2. \A d \in Engaged' : kind'[d] = "read"
    BY <2>1, <1>5, <1>3 DEF Reading
  <2>. QED
    BY <2>2, <1>7, <1>5, <1>3 DEF Placing, BarrierOrder
<1>12. Recording'
  BY <1>6, <1>5, <1>3, <1>4, <1>7 DEF Recording, Engaged
<1>13. Counting'
  <2>1. n + 1 \in 0..MaxCalls /\ \A d \in Calls : d \in Nat
    BY <1>2 DEF Calls
  <2>2. \A d \in Calls : /\ row'[d] # "none" <=> d <= n + 1
                         /\ (row'[d] # "none" \/ slot'[d] # "none") <=> d <= n + 1
    BY <2>1, <1>1, <1>2, <1>6, <1>4
  <2>. QED
    BY <2>1, <2>2 DEF Counting
<1>14. Asking'
  BY <1>5, <1>3, <1>7 DEF Asking
<1>15. Repairing'
  BY <1>5, <1>3 DEF Repairing, Reporting
<1>16. ProcessTypes' /\ Turning' /\ Drafting'
  BY <1>5 DEF ProcessTypes, Stages, Turning, Drafting
<1>. QED
  BY <1>8, <1>9, <1>10, <1>11, <1>12, <1>13, <1>14, <1>15, <1>16

LEMMA RetryIInv ==
    ASSUME IInv, Retry
    PROVE  IInv'
<1> USE RunAssumption DEF IInv
<1>1. /\ UNCHANGED <<run, turns, drafts, row, questions, stage, reply,
                      verdict, stop, fresh, slot, kind, boot, unsaved>>
      /\ stage = "model" /\ early' = {} /\ stale' = stale \cup early
  BY DEF Retry, GiveUpEarly, tables, runner, startup
<1>2. RunTypeOK'
  BY <1>1 DEF RunTypeOK
<1>3. Reading'
  BY <1>1 DEF Reading, Engaged
<1>4. ProcessTypes' /\ Turning' /\ Drafting' /\ Reporting' /\ Placing' /\ Recording'
      /\ Counting' /\ Asking' /\ Repairing'
  BY <1>1 DEF ProcessTypes, Stages, Turning, Drafting, Reporting,
     StatusTellsWait, With, Placing, BarrierOrder, Engaged, NoSlots, Recording,
     Counting, Asking, Waiting, Repairing
<1>. QED
  BY <1>2, <1>3, <1>4

LEMMA ModelFailsIInv ==
    ASSUME IInv, ModelFails
    PROVE  IInv'
BY UnwindingIInv DEF ModelFails, Unwind, GiveUpEarly, tables, startup

LEMMA ReplyEndsIInv ==
    ASSUME IInv, ModelReplies, GiveUpEarly, slot' = slot, kind' = kind, fresh' = fresh
    PROVE  IInv'
<1> USE RunAssumption DEF IInv
<1>1. /\ UNCHANGED <<run, turns, drafts, row, questions, verdict, stop,
                      fresh, slot, kind, boot, unsaved>>
      /\ stage = "model" /\ stage' = "draining" /\ reply' \in {"final", "continue", "halt", "tools"}
      /\ early' = {} /\ stale' = stale \cup early
  BY DEF ModelReplies, GiveUpEarly, tables, startup
<1>2. With("asking") = {} /\ questions = {} /\ With("declared") = {}
  BY Quiet DEF ModelReplies, Placing
<1>3. RunTypeOK'
  BY <1>1, <1>2 DEF RunTypeOK
<1>4. ProcessTypes'
  BY <1>1, <1>2 DEF ProcessTypes, Stages
<1>5. Turning'
  BY <1>1, <1>2 DEF Turning
<1>6. Drafting'
  BY <1>1, <1>2 DEF Drafting
<1>7. Reporting'
  BY <1>1, <1>2 DEF Reporting, StatusTellsWait, With
<1>8. Reading'
  BY <1>1, <1>2 DEF Reading, Engaged
<1>9. Placing'
  BY <1>1, <1>2 DEF Placing, BarrierOrder, Engaged, With, NoSlots
<1>10. Recording'
  BY <1>1, <1>2 DEF Recording, Engaged, With
<1>11. Asking'
  BY <1>1, <1>2 DEF Asking, Waiting, With
<1>12. Repairing'
  BY <1>1, <1>2 DEF Repairing
<1>13. Counting'
  BY <1>1 DEF Counting
<1>. QED
  BY <1>3, <1>4, <1>5, <1>6, <1>7, <1>8, <1>9, <1>10, <1>11, <1>12, <1>13

LEMMA ReplyDeclaresIInv ==
    ASSUME IInv, ModelReplies, NEW m \in 0..MaxCalls, NEW ks \in [Calls -> Kinds], NEW new,
           new = {c \in Calls : NextCall <= c /\ c < NextCall + m},
           \A c \in Calls \ new : ks[c] = kind[c],
           reply' = "tools", kind' = ks, UNCHANGED <<early, stale>>,
           slot' = [c \in Calls |-> IF c \in new THEN "declared" ELSE slot[c]]
    PROVE  IInv'
<1> USE RunAssumption DEF IInv
<1>1. /\ UNCHANGED <<run, turns, drafts, row, questions, verdict, stop,
                      fresh, early, stale, boot, unsaved>>
      /\ stage = "model" /\ stage' = "draining"
  BY DEF ModelReplies, tables, startup
<1>2. PICK n \in 0..MaxCalls :
        /\ NextCall = n + 1
        /\ \A c \in Calls : row[c] # "none" <=> c <= n
        /\ \A c \in Calls : slot[c] # "none" => c <= n
  BY FirstFree DEF ModelReplies
<1>3. m \in Nat /\ \A c \in Calls : c \in Nat
  BY DEF Calls
<1>4. \A c \in Calls : c \in new <=> n + 1 <= c /\ c < n + 1 + m
  BY <1>2
<1>5. With("asking") = {} /\ questions = {} /\ With("declared") = {}
  BY Quiet, <1>1 DEF Placing
<1>6. /\ slot' \in [Calls -> Slots] /\ kind' \in [Calls -> Kinds]
      /\ \A c \in new : slot[c] = "none" /\ row[c] = "none" /\ slot'[c] = "declared"
      /\ \A c \in Calls : c \notin new => slot'[c] = slot[c] /\ kind'[c] = kind[c]
  BY <1>2, <1>3, <1>4 DEF RunTypeOK, Slots
<1>7. Engaged' = Engaged /\ With("declared")' = new /\ With("asking")' = {}
  BY <1>6, <1>5 DEF Engaged, With
<1>8. \A c \in early \cup stale : c \in Calls /\ c \notin new
  BY <1>6 DEF Reading, RunTypeOK
<1>9. RunTypeOK'
  BY <1>6, <1>1 DEF RunTypeOK, Slots
<1>10. ProcessTypes'
  BY <1>1 DEF ProcessTypes, Stages
<1>11. Turning'
  BY <1>1 DEF Turning
<1>12. Drafting'
  BY <1>1 DEF Drafting
<1>13. Reporting'
  BY <1>1 DEF Reporting, StatusTellsWait
<1>14. Reading'
  BY <1>1, <1>6, <1>7, <1>8 DEF Reading, Engaged
<1>15. Placing'
  <2>1. \A c \in Engaged : c <= n /\ c \in Nat /\ c \in Calls /\ c \notin new
    BY <1>2, <1>3, <1>6 DEF Engaged
  <2>2. BarrierOrder'
    <3>1. \A c \in Engaged, d \in new : c < d
      BY <2>1, <1>2, <1>3, <1>4
    <3>. QED
      BY <2>1, <3>1, <1>6, <1>7 DEF Placing, BarrierOrder
  <2>. QED
    BY <2>2, <1>7, <1>6, <1>1 DEF Placing
<1>16. Recording'
  BY <1>1, <1>6, <1>7 DEF Recording, Engaged
<1>17. Counting'
  <2>1. PICK t \in 0..MaxCalls : t = IF n + m <= MaxCalls THEN n + m ELSE MaxCalls
    BY <1>2, <1>3
  <2>2. \A c \in Calls : (row[c] # "none" \/ slot'[c] # "none") <=> c <= t
    BY <2>1, <1>2, <1>3, <1>4, <1>6 DEF Calls
  <2>. QED
    BY <2>2, <1>2, <1>1 DEF Counting
<1>18. Asking'
  BY <1>1, <1>5, <1>7 DEF Asking
<1>19. Repairing'
  BY <1>1 DEF Repairing, Reporting
<1>. QED
  BY <1>9, <1>10, <1>11, <1>12, <1>13, <1>14, <1>15, <1>16, <1>17, <1>18, <1>19

-----------------------------------------------------------------------------
(* The answer is complete.                                                 *)

LEMMA DrainedAsideIInv ==
    ASSUME IInv, Drained, stage' = "unwind"
    PROVE  IInv'
BY UnwindingIInv DEF Drained, Unwind, GiveUpEarly, tables, startup

LEMMA DrainedOnIInv ==
    ASSUME IInv, Drained, stage' # "unwind"
    PROVE  IInv'
<1> USE RunAssumption DEF IInv
<1>1. questions = {} /\ With("asking") = {} /\ turns # <<>> /\ run = "running" /\ drafts = 1 /\ ~fresh
  BY Quiet DEF Drained, Turning, Drafting, Reporting
<1>2. /\ Engaged = {} /\ \A c \in early : slot[c] = "done"
      /\ \A c \in stale : slot[c] # "declared"
  BY DEF Drained, Unwind, Settled, Reading, Engaged
<1>3. /\ stage' \in {"scheduled", "judged"} /\ (stage' = "scheduled" <=> reply = "tools")
      /\ early' = {} /\ stale' = {} /\ drafts' = 0 /\ slot' = Forget(stale)
      /\ UNCHANGED <<run, questions, reply, verdict, stop, fresh, kind, boot, unsaved>>
  BY <1>1 DEF Drained, Unwind, CloseDraft, startup
<1>4. \E x \in {"scheduling_tools", "completed", "failed"} :
        turns' = Phase(x) /\ (stage' # "scheduled" => x # "scheduling_tools")
  BY <1>3 DEF Drained, Unwind
<1>5. /\ turns' \in Seq(OpenPhases \cup Terminal)
      /\ Len(turns') = Len(turns) /\ turns' # <<>> /\ Len(turns) \in DOMAIN turns
      /\ DOMAIN turns' = DOMAIN turns
      /\ \A t \in DOMAIN turns : t # Len(turns) => turns'[t] = turns[t]
      /\ stage' = "judged" => turns'[Len(turns)] \notin OpenPhases
  BY <1>1, <1>4, <1>3, PhaseOf
<1>6. \A c \in Calls :
        row'[c] = IF slot[c] = "declared" /\ reply = "tools" THEN "pending"
                  ELSE IF c \in stale /\ row[c] \in OpenRows THEN "cancelled" ELSE row[c]
  BY <1>3, <1>2 DEF Drained, Unwind, DropGivenUp
<1>7. row' = [c \in Calls |-> row'[c]] /\ slot' = [c \in Calls |-> slot'[c]]
  BY <1>3 DEF Drained, Unwind, DropGivenUp, Forget
<1>8. \A c \in Calls : slot'[c] = IF c \in stale THEN "none" ELSE slot[c]
  BY <1>3 DEF Forget
<1>9. Engaged' = {} /\ With("declared")' = With("declared") /\ With("asking")' = {}
  BY <1>2, <1>8 DEF Engaged, With
<1>10. \A c \in Calls : row'[c] \in OpenRows => slot'[c] = "declared" /\ reply = "tools"
  BY <1>1, <1>2, <1>6, <1>8 DEF Drained, Recording, Reading, Engaged, Placing,
     With
<1>11. RunTypeOK'
  BY <1>5, <1>3, <1>1, <1>6, <1>7, <1>8 DEF RunTypeOK, Calls
<1>12. ProcessTypes'
  BY <1>3 DEF ProcessTypes, Stages
<1>13. Turning'
  BY <1>5, <1>3 DEF Turning
<1>14. Drafting'
  BY <1>3, <1>1 DEF Drafting
<1>15. Reporting'
  BY <1>3, <1>1 DEF Reporting, StatusTellsWait, Drained
<1>16. Reading'
  BY <1>3, <1>9 DEF Reading
<1>17. Placing'
  BY <1>3, <1>9 DEF Placing, BarrierOrder
<1>18. Recording'
  BY <1>3, <1>9, <1>8, <1>10, <1>6 DEF Recording, With
<1>19. Counting'
  <2>1. \A c \in Calls : slot[c] \notin {"none", "declared"} => row[c] # "none"
    BY DEF Recording, Engaged, RunTypeOK
  <2>2. \A c \in Calls : (row'[c] # "none" \/ slot'[c] # "none")
                          <=> (row[c] # "none" \/ slot[c] # "none")
    BY <2>1, <1>6, <1>8, <1>2 DEF Reading
  <2>3. CASE reply = "tools"
    <3>1. \A c \in Calls : row'[c] # "none" <=> (row[c] # "none" \/ slot[c] # "none")
      BY <2>1, <2>3, <1>6
    <3>. QED
      BY <2>2, <3>1 DEF Counting
  <2>4. CASE reply # "tools"
    <3>1. \A c \in Calls : row'[c] # "none" <=> row[c] # "none"
      BY <2>4, <1>6
    <3>. QED
      BY <2>2, <3>1, Counted DEF Counting
  <2>. QED
    BY <2>3, <2>4
<1>20. Asking'
  BY <1>3, <1>1, <1>9 DEF Asking
<1>21. Repairing'
  BY <1>3, <1>1 DEF Repairing, Drained, startup, Reporting
<1>. QED
  BY <1>11, <1>12, <1>13, <1>14, <1>15, <1>16, <1>17, <1>18, <1>19, <1>20, <1>21

LEMMA JudgeIInv ==
    ASSUME IInv, Judge
    PROVE  IInv'
<1> USE RunAssumption DEF IInv
<1>1. /\ UNCHANGED <<run, turns, drafts, row, questions, fresh, slot, kind,
                      boot, unsaved>>
      /\ stage = "judged" /\ stop' \in {stop, "limit"} /\ reply' = "none"
      /\ stage' \in {"unwind", "ending", "between"} /\ early' = {} /\ stale' = {}
      /\ verdict' \in {verdict, "completed", "failed"} /\ (stage' = "ending" => verdict' # "none")
  BY DEF Judge, Unwind, GiveUpEarly, tables, startup, Reading
<1>2. Engaged = {} /\ questions = {}
  BY Quiet DEF Judge
<1>3. RunTypeOK'
  BY <1>1, <1>2 DEF RunTypeOK
<1>4. ProcessTypes'
  BY <1>1, <1>2 DEF ProcessTypes, Stages
<1>5. Turning'
  BY <1>1, <1>2 DEF Turning
<1>6. Drafting'
  BY <1>1, <1>2 DEF Drafting
<1>7. Reporting'
  BY <1>1, <1>2 DEF Reporting, StatusTellsWait, With
<1>8. Reading'
  BY <1>1, <1>2 DEF Reading, Engaged
<1>9. Placing'
  BY <1>1, <1>2 DEF Placing, BarrierOrder, Engaged, With, NoSlots
<1>10. Recording'
  BY <1>1, <1>2 DEF Recording, Engaged, With
<1>11. Asking'
  BY <1>1, <1>2 DEF Asking, Waiting, With
<1>12. Repairing'
  BY <1>1, <1>2 DEF Repairing
<1>13. Counting'
  BY <1>1 DEF Counting
<1>. QED
  BY <1>3, <1>4, <1>5, <1>6, <1>7, <1>8, <1>9, <1>10, <1>11, <1>12, <1>13

-----------------------------------------------------------------------------
(* Batches of tool calls.                                                  *)

LEMMA StartBatchIInv ==
    ASSUME IInv, StartBatch
    PROVE  IInv'
<1> USE RunAssumption DEF IInv
<1>1. /\ UNCHANGED <<run, drafts, row, questions, verdict, fresh, slot, kind,
                      boot, unsaved>>
      /\ stage = "scheduled" /\ stage' \in {"batch", "unwind"} /\ reply' = "none"
      /\ early' = {} /\ stale' = {} /\ stop' \in {stop, "limit"} /\ run = "running"
  BY DEF StartBatch, Unwind, GiveUpEarly, startup, Reading, Reporting
<1>2. Engaged = {} /\ questions = {} /\ With("asking") = {} /\ turns # <<>>
  BY Quiet DEF StartBatch, Turning
<1>3. /\ turns' \in Seq(OpenPhases \cup Terminal)
      /\ Len(turns') = Len(turns) /\ turns' # <<>> /\ Len(turns) \in DOMAIN turns
      /\ DOMAIN turns' = DOMAIN turns
      /\ \A t \in DOMAIN turns : t # Len(turns) => turns'[t] = turns[t]
  BY <1>2, PhaseOf, LenProperties, EmptySeq DEF StartBatch, RunTypeOK
<1>4. RunTypeOK'
  BY <1>3, <1>1 DEF RunTypeOK
<1>5. ProcessTypes'
  BY <1>1, <1>2, <1>3 DEF ProcessTypes, Stages
<1>6. Turning'
  BY <1>3, <1>1 DEF Turning
<1>7. Drafting'
  BY <1>1, <1>2, <1>3 DEF Drafting
<1>8. Reporting'
  BY <1>2, <1>1 DEF Reporting, StatusTellsWait, With, Engaged
<1>9. Reading'
  BY <1>1, <1>2, <1>3 DEF Reading, Engaged
<1>10. Placing'
  BY <1>1, <1>2, <1>3 DEF Placing, BarrierOrder, Engaged, With, NoSlots
<1>11. Recording'
  BY <1>1, <1>2, <1>3 DEF Recording, Engaged, With
<1>12. Asking'
  BY <1>2, <1>1 DEF Asking, With
<1>13. Repairing'
  BY <1>1, <1>2, <1>3 DEF Repairing
<1>14. Counting'
  BY <1>1 DEF Counting
<1>. QED
  BY <1>4, <1>5, <1>6, <1>7, <1>8, <1>9, <1>10, <1>11, <1>12, <1>13, <1>14

LEMMA NextBatchIInv ==
    ASSUME IInv, NextBatch
    PROVE  IInv'
<1> USE RunAssumption DEF IInv
<1>1. /\ UNCHANGED <<run, turns, drafts, row, questions, stage, reply,
                      verdict, stop, fresh, kind, early, stale, boot,
                      unsaved>>
      /\ stage = "batch" /\ Engaged = {}
  BY DEF NextBatch, BatchSettled, tables, runner, startup
<1>2. PICK cs \in SUBSET With("declared") :
        /\ Share(cs)
        /\ \A c \in cs, d \in With("declared") \ cs : c < d
        /\ slot' = [c \in Calls |-> IF c \in cs THEN "entered" ELSE slot[c]]
  BY DEF NextBatch
<1>3. \A c \in Calls : slot'[c] = IF c \in cs THEN "entered" ELSE slot[c]
  BY <1>2
<1>4. Engaged' = cs /\ With("declared")' = With("declared") \ cs /\ With("asking")' = With("asking")
  BY <1>2, <1>1, <1>3 DEF Engaged, With
<1>5. \A c, d \in cs : c # d => kind[c] = kind[d] /\ kind[c] # "ask"
  <2>1. CASE Cardinality(cs) = 1
    <3>0. cs \subseteq 1..MaxCalls /\ IsFiniteSet(1..MaxCalls)
      BY <1>2, FS_Interval DEF With, Calls
    <3>1. IsFiniteSet(cs)
      BY <3>0, FS_Subset
    <3>. QED
      BY <3>1, <2>1, FS_Singleton
  <2>2. CASE \E k \in {"read", "write"} : \A c \in cs : kind[c] = k
    BY <2>2
  <2>. QED
    BY <2>1, <2>2, <1>2 DEF Share
<1>6. RunTypeOK'
  BY <1>1, <1>2, <1>3, <1>4, <1>5 DEF RunTypeOK
<1>7. Reporting'
  BY <1>1, <1>2, <1>3, <1>4, <1>5 DEF Reporting, StatusTellsWait, With
<1>8. Reading'
  BY <1>1, <1>2, <1>3, <1>4, <1>5 DEF Reading, Engaged
<1>9. Placing'
  BY <1>2, <1>1, <1>4, <1>3, <1>5 DEF Placing, BarrierOrder, With
<1>10. Recording'
  BY <1>1, <1>2, <1>3, <1>4, <1>5 DEF Recording, Engaged, With
<1>11. Counting'
  BY <1>3, <1>1, <1>2, Counted DEF Counting, With
<1>12. Asking'
  BY <1>1, <1>2, <1>3, <1>4, <1>5 DEF Asking, Waiting, With
<1>13. ProcessTypes' /\ Turning' /\ Drafting' /\ Repairing'
  BY <1>1 DEF ProcessTypes, Stages, Turning, Drafting, Repairing
<1>. QED
  BY <1>6, <1>7, <1>8, <1>9, <1>10, <1>11, <1>12, <1>13

LEMMA BatchFailsIInv ==
    ASSUME IInv, BatchFails
    PROVE  IInv'
BY UnwindingIInv DEF BatchFails, BatchSettled, Unwind, GiveUpEarly, tables,
   startup

LEMMA BatchDoneIInv ==
    ASSUME IInv, BatchDone
    PROVE  IInv'
<1> USE RunAssumption DEF IInv
<1>1. /\ UNCHANGED <<run, drafts, row, questions, reply, stop, fresh, slot,
                      kind, early, stale, boot, unsaved>>
      /\ stage = "batch" /\ stage' \in {"between", "ending"}
      /\ verdict' \in {verdict, "failed"} /\ (stage' = "ending" => verdict' # "none")
  BY DEF BatchDone, calls, startup
<1>2. /\ Engaged = {} /\ With("asking") = {} /\ With("approval") = {}
      /\ questions = {} /\ turns # <<>> /\ run = "running"
      /\ With("threw") = {} /\ With("declared") = {}
  BY DEF BatchDone, BatchSettled, Engaged, With, Asking, Turning, Reporting,
     StatusTellsWait
<1>3. /\ turns' \in Seq(OpenPhases \cup Terminal)
      /\ Len(turns') = Len(turns) /\ turns' # <<>> /\ Len(turns) \in DOMAIN turns
      /\ DOMAIN turns' = DOMAIN turns
      /\ \A t \in DOMAIN turns : t # Len(turns) => turns'[t] = turns[t]
      /\ turns'[Len(turns)] = "completed"
  BY <1>2, PhaseOf DEF BatchDone, CompleteTurn
<1>4. RunTypeOK'
  BY <1>1, <1>2, <1>3 DEF RunTypeOK
<1>5. ProcessTypes'
  BY <1>1, <1>2, <1>3 DEF ProcessTypes, Stages
<1>6. Turning'
  BY <1>1, <1>2, <1>3 DEF Turning
<1>7. Drafting'
  BY <1>1 DEF Drafting
<1>8. Reporting'
  BY <1>2, <1>1 DEF Reporting, StatusTellsWait
<1>9. Reading'
  BY <1>1, <1>2, <1>3 DEF Reading, Engaged
<1>10. Placing'
  BY <1>1, <1>2, <1>3 DEF Placing, BarrierOrder, Engaged, With, NoSlots
<1>11. Recording'
  BY <1>1, <1>2, <1>3 DEF Recording, Engaged, With
<1>12. Asking'
  BY <1>2, <1>1 DEF Asking, With
<1>13. Repairing'
  BY <1>1 DEF Repairing, ProcessTypes
<1>14. Counting'
  BY <1>1 DEF Counting
<1>. QED
  BY <1>4, <1>5, <1>6, <1>7, <1>8, <1>9, <1>10, <1>11, <1>12, <1>13, <1>14

-----------------------------------------------------------------------------
(* One tool call.                                                          *)

LEMMA BeginIInv ==
    ASSUME IInv, NEW c \in Calls, Begin(c)
    PROVE  IInv'
<1> USE RunAssumption DEF IInv
<1>1. /\ UNCHANGED <<drafts, stage, reply, verdict, stop, fresh, kind, early,
                      stale, boot, unsaved>>
  BY DEF Begin, runner, startup
<1>2. /\ c \in Engaged /\ stage = "batch" /\ row[c] \in OpenRows /\ questions = With("asking") /\ turns # <<>>
      /\ slot[c] = "entered"
  BY Quiet DEF Begin, Engaged, Reading, Asking, Recording, Turning
<1>3. With("asking") = {}
  BY <1>2, Alone DEF Begin, With, Engaged
<1>4. PICK s \in {"done", "threw", "approval", "running", "asking"},
             r \in OpenRows \cup {"failed"} :
        /\ slot' = [slot EXCEPT ![c] = s] /\ row' = [row EXCEPT ![c] = r]
        /\ (s = "done" => r = "failed") /\ (s \in Busy => r \in OpenRows)
        /\ (s = "asking" => kind[c] = "ask" /\ r = "awaiting_user_input")
        /\ \/ /\ s \in {"done", "threw", "running"}
              /\ UNCHANGED <<run, turns, questions>>
           \/ /\ s = "approval" /\ run' = "awaiting_approval" /\ UNCHANGED questions
              /\ turns' = Phase("awaiting_permission")
           \/ /\ s = "asking" /\ run' = "awaiting_user_input" /\ questions' = questions \cup {c}
              /\ turns' = Phase("awaiting_user_input")
  BY <1>2 DEF Begin, RunTypeOK, Reporting, Intermediate
<1>5. /\ slot' \in [Calls -> Slots]
      /\ row' \in [Calls -> {"none"} \cup OpenRows \cup {"completed", "failed", "cancelled"}]
      /\ slot'[c] = s /\ row'[c] = r
      /\ \A d \in Calls : d # c => slot'[d] = slot[d] /\ row'[d] = row[d]
      /\ Reading' /\ Placing' /\ Recording' /\ Counting'
  BY CallMoved, <1>2, <1>4 DEF Begin, runner
<1>6. /\ turns' \in Seq(OpenPhases \cup Terminal)
      /\ Len(turns') = Len(turns) /\ turns' # <<>> /\ Len(turns) \in DOMAIN turns
      /\ DOMAIN turns' = DOMAIN turns
      /\ \A t \in DOMAIN turns : t # Len(turns) => turns'[t] = turns[t]
      /\ s = "approval" => turns'[Len(turns)] = "awaiting_permission"
      /\ s = "asking" => turns'[Len(turns)] = "awaiting_user_input"
      /\ s \notin {"approval", "asking"} => turns' = turns
  BY <1>2, <1>4, PhaseOf, LenProperties, EmptySeq DEF RunTypeOK
<1>7. questions' = With("asking")' /\ (s = "asking" => questions' = {c}) /\ (s # "asking" => questions' = {})
  BY <1>2, <1>3, <1>5, <1>4 DEF With
<1>8. drafts = 0 /\ (s = "asking" => With("approval") = {})
  BY <1>2, <1>4 DEF Placing, BarrierOrder, With, Engaged, Begin, Drafting
<1>9. RunTypeOK'
  BY <1>1, <1>2, <1>3, <1>4, <1>5, <1>6, <1>7, <1>8 DEF RunTypeOK
<1>10. Turning'
  BY <1>1, <1>2, <1>3, <1>4, <1>5, <1>6, <1>7, <1>8 DEF Turning
<1>11. Reporting'
  BY <1>1, <1>2, <1>3, <1>4, <1>5, <1>6, <1>7, <1>8 DEF Reporting,
     StatusTellsWait, With
<1>12. Reading'
  BY <1>5
<1>13. Placing'
  BY <1>5
<1>14. Recording'
  BY <1>5
<1>15. Counting'
  BY <1>5
<1>16. Asking'
  BY <1>1, <1>2, <1>3, <1>4, <1>5, <1>6, <1>7, <1>8 DEF Asking, Waiting, With
<1>17. Repairing'
  BY <1>1, <1>2, <1>3, <1>4, <1>5, <1>6, <1>7, <1>8 DEF Repairing
<1>18. ProcessTypes' /\ Drafting'
  BY <1>1 DEF ProcessTypes, Stages, Drafting
<1>. QED
  BY <1>9, <1>10, <1>11, <1>12, <1>13, <1>14, <1>15, <1>16, <1>17, <1>18

LEMMA ResolveIInv ==
    ASSUME IInv, NEW c \in Calls, Resolve(c)
    PROVE  IInv'
<1> USE RunAssumption DEF IInv
<1>1. /\ UNCHANGED <<run, turns, drafts, row, questions, stage, reply,
                      verdict, stop, fresh, kind, early, stale, boot,
                      unsaved>>
  BY DEF Resolve, tables, runner, startup
<1>2. /\ c \in Engaged /\ stage = "batch" /\ questions = With("asking")
      /\ slot[c] = "approval"
  BY Quiet DEF Resolve, Engaged, Reading, Asking
<1>3. row[c] \in OpenRows
  BY <1>2 DEF Recording
<1>4. PICK s \in {"approved", "denied"} : slot' = [slot EXCEPT ![c] = s]
  BY DEF Resolve
<1>5. PICK r \in OpenRows : r = row[c] /\ row' = [row EXCEPT ![c] = r]
  BY <1>3 DEF Resolve, tables, RunTypeOK
<1>6. /\ slot' \in [Calls -> Slots]
      /\ row' \in [Calls -> {"none"} \cup OpenRows \cup {"completed", "failed", "cancelled"}]
      /\ slot'[c] = s /\ row'[c] = r
      /\ \A d \in Calls : d # c => slot'[d] = slot[d] /\ row'[d] = row[d]
      /\ Reading' /\ Placing' /\ Recording' /\ Counting'
  BY CallMoved, <1>2, <1>3, <1>4, <1>5 DEF Resolve, runner
<1>7. With("asking")' = With("asking")
  BY <1>6, <1>4 DEF With, Resolve
<1>8. RunTypeOK'
  BY <1>1, <1>2, <1>3, <1>4, <1>5, <1>6, <1>7 DEF RunTypeOK
<1>9. Reporting'
  BY <1>1, <1>2, <1>3, <1>4, <1>5, <1>6, <1>7 DEF Reporting, StatusTellsWait,
     With
<1>10. Reading'
  BY <1>6
<1>11. Placing'
  BY <1>6
<1>12. Recording'
  BY <1>6
<1>13. Counting'
  BY <1>6
<1>14. Asking'
  BY <1>1, <1>2, <1>3, <1>4, <1>5, <1>6, <1>7 DEF Asking, Waiting, With
<1>15. ProcessTypes' /\ Turning' /\ Drafting' /\ Repairing'
  BY <1>1 DEF ProcessTypes, Stages, Turning, Drafting, Repairing
<1>. QED
  BY <1>8, <1>9, <1>10, <1>11, <1>12, <1>13, <1>14, <1>15

LEMMA ContinueIInv ==
    ASSUME IInv, NEW c \in Calls, Continue(c)
    PROVE  IInv'
<1> USE RunAssumption DEF IInv
<1>1. /\ UNCHANGED <<drafts, questions, stage, reply, verdict, stop, fresh,
                      kind, early, stale, boot, unsaved>>
  BY DEF Continue, runner, startup
<1>2. /\ c \in Engaged /\ stage = "batch" /\ row[c] \in OpenRows /\ questions = With("asking") /\ turns # <<>>
      /\ slot[c] \in {"approved", "denied", "rejected"}
  BY Quiet DEF Continue, Engaged, Reading, Asking, Recording, Turning
<1>3. With("asking") = {}
  BY <1>2, Alone DEF Continue, With, Engaged
<1>4. PICK s \in {"approval", "running", "done", "threw"}, r \in OpenRows \cup {"failed"} :
        /\ slot' = [slot EXCEPT ![c] = s] /\ row' = [row EXCEPT ![c] = r]
        /\ (s = "done" <=> r = "failed")
        /\ \/ /\ s = "approval" /\ run' = "awaiting_approval"
              /\ turns' = Phase("awaiting_permission")
           \/ /\ s # "approval" /\ HasPending /\ UNCHANGED <<run, turns>>
           \/ /\ s # "approval" /\ ~HasPending /\ run' = "running"
              /\ turns' = Phase("executing_tools")
  BY <1>2 DEF Continue, RunTypeOK, Reporting, Intermediate
<1>5. /\ slot' \in [Calls -> Slots]
      /\ row' \in [Calls -> {"none"} \cup OpenRows \cup {"completed", "failed", "cancelled"}]
      /\ slot'[c] = s /\ row'[c] = r
      /\ \A d \in Calls : d # c => slot'[d] = slot[d] /\ row'[d] = row[d]
      /\ Reading' /\ Placing' /\ Recording' /\ Counting'
  BY CallMoved, <1>2, <1>4 DEF Continue, runner
<1>6. /\ turns' \in Seq(OpenPhases \cup Terminal)
      /\ Len(turns') = Len(turns) /\ turns' # <<>> /\ Len(turns) \in DOMAIN turns
      /\ DOMAIN turns' = DOMAIN turns
      /\ \A t \in DOMAIN turns : t # Len(turns) => turns'[t] = turns[t]
      /\ s = "approval" => turns'[Len(turns)] = "awaiting_permission"
      /\ s # "approval" /\ HasPending => turns' = turns
  BY <1>2, <1>4, PhaseOf, LenProperties, EmptySeq DEF RunTypeOK
<1>7. With("asking")' = {} /\ questions' = {}
  BY <1>2, <1>3, <1>5, <1>4 DEF With, Continue
<1>8. RunTypeOK'
  BY <1>1, <1>2, <1>3, <1>4, <1>5, <1>6, <1>7 DEF RunTypeOK
<1>9. Turning'
  BY <1>1, <1>2, <1>3, <1>4, <1>5, <1>6, <1>7 DEF Turning
<1>10. Reporting'
  BY <1>1, <1>2, <1>3, <1>4, <1>5, <1>6, <1>7 DEF Reporting, StatusTellsWait,
     With, HasPending
<1>11. Reading'
  BY <1>5
<1>12. Placing'
  BY <1>5
<1>13. Recording'
  BY <1>5
<1>14. Counting'
  BY <1>5
<1>15. Asking'
  BY <1>1, <1>2, <1>3, <1>4, <1>5, <1>6, <1>7 DEF Asking, Waiting, With
<1>16. Repairing'
  BY <1>1, <1>2, <1>3, <1>4, <1>5, <1>6, <1>7 DEF Repairing
<1>17. ProcessTypes' /\ Drafting'
  BY <1>1 DEF ProcessTypes, Stages, Drafting
<1>. QED
  BY <1>8, <1>9, <1>10, <1>11, <1>12, <1>13, <1>14, <1>15, <1>16, <1>17

LEMMA AnswerIInv ==
    ASSUME IInv, NEW c \in Calls, Answer(c)
    PROVE  IInv'
<1> USE RunAssumption DEF IInv
<1>1. /\ UNCHANGED <<drafts, stage, reply, verdict, stop, fresh, kind, early,
                      stale, boot, unsaved>>
  BY DEF Answer, runner, startup
<1>2. c \in Engaged /\ stage = "batch" /\ questions = With("asking")
  BY Quiet DEF Answer, Engaged, Reading, Asking
<1>3. Engaged = {c} /\ run = "awaiting_user_input" /\ turns # <<>>
  BY <1>2, Alone DEF Answer, With, Turning
<1>4. PICK s \in {"running"} : slot' = [slot EXCEPT ![c] = s]
  BY DEF Answer
<1>5. PICK r \in {"running"} : row' = [row EXCEPT ![c] = r]
  BY DEF Answer
<1>6. /\ slot' \in [Calls -> Slots]
      /\ row' \in [Calls -> {"none"} \cup OpenRows \cup {"completed", "failed", "cancelled"}]
      /\ slot'[c] = s /\ row'[c] = r
      /\ \A d \in Calls : d # c => slot'[d] = slot[d] /\ row'[d] = row[d]
      /\ Reading' /\ Placing' /\ Recording' /\ Counting'
  BY CallMoved, <1>2, <1>4, <1>5 DEF Answer, runner
<1>7. /\ turns' \in Seq(OpenPhases \cup Terminal)
      /\ Len(turns') = Len(turns) /\ turns' # <<>>
      /\ DOMAIN turns' = DOMAIN turns /\ Len(turns) \in DOMAIN turns
      /\ turns'[Len(turns)] = "executing_tools"
      /\ \A t \in DOMAIN turns : t # Len(turns) => turns'[t] = turns[t]
  BY PhaseOf, <1>3 DEF Answer
<1>8. /\ With("asking")' = {} /\ questions' = {} /\ With("approval")' = {}
      /\ run' = "running"
  BY <1>2, <1>3, <1>6, <1>4 DEF With, Engaged, Answer, Intermediate
<1>9. RunTypeOK'
  BY <1>1, <1>2, <1>3, <1>4, <1>5, <1>6, <1>7, <1>8 DEF RunTypeOK
<1>10. Turning'
  BY <1>1, <1>2, <1>3, <1>4, <1>5, <1>6, <1>7, <1>8 DEF Turning
<1>11. Reporting'
  BY <1>1, <1>2, <1>3, <1>4, <1>5, <1>6, <1>7, <1>8 DEF Reporting,
     StatusTellsWait, With
<1>12. Reading'
  BY <1>6
<1>13. Placing'
  BY <1>6
<1>14. Recording'
  BY <1>6
<1>15. Counting'
  BY <1>6
<1>16. Asking'
  BY <1>1, <1>2, <1>3, <1>4, <1>5, <1>6, <1>7, <1>8 DEF Asking, Waiting, With
<1>17. Repairing'
  BY <1>1, <1>2, <1>3, <1>4, <1>5, <1>6, <1>7, <1>8 DEF Repairing
<1>18. ProcessTypes' /\ Drafting'
  BY <1>1 DEF ProcessTypes, Stages, Drafting
<1>. QED
  BY <1>9, <1>10, <1>11, <1>12, <1>13, <1>14, <1>15, <1>16, <1>17, <1>18

LEMMA CallEndsIInv ==
    ASSUME IInv, NEW c \in Calls, CallEnds(c)
    PROVE  IInv'
<1> USE RunAssumption DEF IInv
<1>1. /\ UNCHANGED <<run, turns, drafts, questions, stage, reply, verdict,
                      stop, fresh, kind, early, stale, boot, unsaved>>
  BY DEF CallEnds, runner, startup
<1>2. /\ c \in Engaged /\ row[c] \in OpenRows /\ questions = With("asking")
      /\ slot[c] = "running"
  BY Quiet DEF CallEnds, Engaged, Reading, Asking, Recording
<1>3. PICK s \in {"done", "threw"} : slot' = [slot EXCEPT ![c] = s] /\ (s = "threw" => UNCHANGED row) /\ (s = "done" => row' \in {[row EXCEPT ![c] = "completed"], [row EXCEPT ![c] = "failed"]})
  BY DEF CallEnds
<1>4. PICK r \in OpenRows \cup {"completed", "failed"} : row' = [row EXCEPT ![c] = r] /\ (s = "done" => r \notin OpenRows)
  BY <1>2, <1>3 DEF CallEnds, RunTypeOK
<1>5. /\ slot' \in [Calls -> Slots]
      /\ row' \in [Calls -> {"none"} \cup OpenRows \cup {"completed", "failed", "cancelled"}]
      /\ slot'[c] = s /\ row'[c] = r
      /\ \A d \in Calls : d # c => slot'[d] = slot[d] /\ row'[d] = row[d]
      /\ Reading' /\ Placing' /\ Recording' /\ Counting'
  BY CallMoved, <1>2, <1>3, <1>4 DEF CallEnds, runner
<1>6. With("asking")' = With("asking")
  BY <1>5, <1>3 DEF With, CallEnds
<1>7. RunTypeOK'
  BY <1>1, <1>2, <1>3, <1>4, <1>5, <1>6 DEF RunTypeOK
<1>8. Reporting'
  BY <1>1, <1>2, <1>3, <1>4, <1>5, <1>6 DEF Reporting, StatusTellsWait, With
<1>9. Reading'
  BY <1>5
<1>10. Placing'
  BY <1>5
<1>11. Recording'
  BY <1>5
<1>12. Counting'
  BY <1>5
<1>13. Asking'
  BY <1>1, <1>2, <1>3, <1>4, <1>5, <1>6 DEF Asking, Waiting, With
<1>14. Repairing'
  BY <1>1, <1>2, <1>3, <1>4, <1>5, <1>6 DEF Repairing
<1>15. ProcessTypes' /\ Turning' /\ Drafting'
  BY <1>1 DEF ProcessTypes, Stages, Turning, Drafting
<1>. QED
  BY <1>7, <1>8, <1>9, <1>10, <1>11, <1>12, <1>13, <1>14, <1>15

-----------------------------------------------------------------------------
(* The end of a run.                                                       *)

LEMMA AbortIInv ==
    ASSUME IInv, Abort
    PROVE  IInv'
<1> USE RunAssumption DEF IInv
<1>1. /\ UNCHANGED <<run, turns, drafts, row, stage, reply, verdict, fresh,
                      kind, early, stale, boot, unsaved>>
      /\ stop' \in {"cancel", "limit"} /\ stage \notin {"idle", "ending"}
      /\ questions' = questions \ With("asking")
  BY DEF Abort, startup
<1>2. \A c \in Calls : /\ slot'[c] = Withdraw(c) /\ (Withdraw(c) # slot[c] => slot[c] \in {"approval", "asking"})
  BY DEF Abort, Withdraw
<1>3. \A c \in Calls : stage # "batch" \/ c \in early \cup stale => slot'[c] = slot[c]
  BY <1>2 DEF Reading, Engaged
<1>4. Engaged' \subseteq Engaged /\ (stage # "batch" => slot' = slot)
  BY <1>2, <1>3 DEF Engaged, Withdraw, Abort, RunTypeOK
<1>5. RunTypeOK'
  BY <1>1, <1>2, <1>3, <1>4 DEF RunTypeOK, Abort, Withdraw
<1>6. Reporting'
  BY <1>1, <1>2, <1>3, <1>4 DEF Reporting, StatusTellsWait, With, Abort,
     Withdraw
<1>7. Reading'
  BY <1>4, <1>3, <1>1 DEF Reading
<1>8. Placing'
  BY <1>1, <1>2, <1>3, <1>4 DEF Placing, BarrierOrder, Engaged, With, NoSlots,
     Abort, Withdraw
<1>9. Recording'
  BY <1>1, <1>2, <1>3, <1>4 DEF Recording, Engaged, With, Abort, Withdraw
<1>10. Counting'
  BY <1>1, <1>2, <1>3, <1>4 DEF Counting, Abort, Withdraw
<1>11. Asking'
  BY <1>1, <1>2, <1>3, <1>4 DEF Asking, Waiting, With, Abort, Withdraw
<1>12. Repairing'
  BY <1>1, <1>2, <1>3, <1>4 DEF Repairing
<1>13. ProcessTypes' /\ Turning' /\ Drafting'
  BY <1>1 DEF ProcessTypes, Stages, Turning, Drafting
<1>. QED
  BY <1>5, <1>6, <1>7, <1>8, <1>9, <1>10, <1>11, <1>12, <1>13

LEMMA UnwoundIInv ==
    ASSUME IInv, Unwound
    PROVE  IInv'
<1> USE RunAssumption DEF IInv
<1>1. /\ UNCHANGED <<run, turns, drafts, questions, reply, stop, fresh, slot,
                      kind, early, boot, unsaved>>
      /\ stage = "unwind" /\ stage' = "ending" /\ stale' = {}
      /\ verdict' \in {"cancelled", "failed"} /\ row' = DropGivenUp(stale) /\ Settled(stale)
  BY DEF Unwound, startup
<1>2. RunTypeOK'
  BY <1>1 DEF RunTypeOK, DropGivenUp, Settled
<1>3. ProcessTypes'
  BY <1>1 DEF ProcessTypes, Stages
<1>4. Turning'
  BY <1>1 DEF Turning
<1>5. Drafting'
  BY <1>1 DEF Drafting
<1>6. Reporting'
  BY <1>1 DEF Reporting, StatusTellsWait, With
<1>7. Reading'
  BY <1>1 DEF Reading, Engaged, DropGivenUp, Settled
<1>8. Placing'
  BY <1>1 DEF Placing, BarrierOrder, Engaged, With, NoSlots, DropGivenUp,
     Settled
<1>9. Recording'
  BY <1>1 DEF Recording, Engaged, With, DropGivenUp, Settled
<1>10. Counting'
  BY <1>1 DEF Counting, DropGivenUp, Settled
<1>11. Asking'
  BY <1>1 DEF Asking, Waiting, With, DropGivenUp, Settled
<1>12. Repairing'
  BY <1>1 DEF Repairing
<1>. QED
  BY <1>2, <1>3, <1>4, <1>5, <1>6, <1>7, <1>8, <1>9, <1>10, <1>11, <1>12

LEMMA FinalizeSavesIInv ==
    ASSUME IInv, Finalize, Commit
    PROVE  IInv'
<1> USE RunAssumption DEF IInv
<1>1. /\ stage = "ending" /\ Engaged = {} /\ questions = {} /\ run \in Live
      /\ boot = "up" /\ ~unsaved /\ verdict \in {"completed", "failed", "cancelled"}
  BY Quiet DEF Finalize, Reporting, ProcessTypes
<1>2. /\ stage' = "idle" /\ reply' = "none" /\ verdict' = "none" /\ stop' = "none"
      /\ slot' = NoSlots /\ early' = {} /\ stale' = {} /\ fresh' = FALSE
      /\ UNCHANGED <<kind, boot, questions, unsaved>> /\ run' = verdict /\ drafts' = 0
  BY DEF Finalize, Commit, Rest
<1>3. Engaged' = {}
  BY <1>2 DEF NoSlots, Engaged
<1>4. /\ row' \in [Calls -> {"none"} \cup OpenRows \cup {"completed", "failed", "cancelled"}]
      /\ \A c \in Calls : row'[c] = IF row[c] \in OpenRows THEN "cancelled" ELSE row[c]
  BY DEF Commit, NonTerminal, RunTypeOK
<1>5. /\ turns' \in Seq(OpenPhases \cup Terminal) /\ Len(turns') = Len(turns)
      /\ \A t \in DOMAIN turns' : turns'[t] \notin OpenPhases
  <2>1. CASE turns # <<>> /\ turns[Len(turns)] \in OpenPhases
    BY <2>1, <1>1, PhaseOf DEF Commit, Turning
  <2>2. CASE ~(turns # <<>> /\ turns[Len(turns)] \in OpenPhases)
    <3>1. turns = <<>> \/ Len(turns) \in DOMAIN turns
      BY LenProperties, EmptySeq DEF RunTypeOK
    <3>. QED
      BY <2>2, <3>1 DEF Commit, Turning, RunTypeOK
  <2>. QED
    BY <2>1, <2>2
<1>6. RunTypeOK'
  BY <1>5, <1>1, <1>4, <1>2 DEF RunTypeOK, NoSlots
<1>7. ProcessTypes'
  BY <1>1, <1>2 DEF ProcessTypes, Stages
<1>8. Turning'
  BY <1>5, <1>2 DEF Turning
<1>9. Drafting'
  BY <1>2 DEF Drafting
<1>10. Reporting'
  BY <1>1, <1>2, <1>3 DEF Reporting, StatusTellsWait, With, NoSlots
<1>11. Reading'
  BY <1>2, <1>3 DEF Reading
<1>12. Placing'
  BY <1>2, <1>3 DEF Placing, BarrierOrder, With, NoSlots
<1>13. Recording'
  BY <1>2, <1>3 DEF Recording, NoSlots
<1>14. Counting'
  BY <1>2, <1>4 DEF Counting, NoSlots
<1>15. Asking'
  BY <1>1, <1>2 DEF Asking
<1>16. Repairing'
  BY <1>1, <1>5, <1>4, <1>2 DEF Repairing
<1>. QED
  BY <1>6, <1>7, <1>8, <1>9, <1>10, <1>11, <1>12, <1>13, <1>14, <1>15, <1>16

LEMMA FinalizeFailsIInv ==
    ASSUME IInv, Finalize, CommitFails
    PROVE  IInv'
<1> USE RunAssumption DEF IInv
<1>1. /\ stage = "ending" /\ Engaged = {} /\ questions = {} /\ run \in Live
      /\ boot = "up" /\ ~unsaved /\ verdict \in {"completed", "failed", "cancelled"}
  BY Quiet DEF Finalize, Reporting, ProcessTypes
<1>2. /\ stage' = "idle" /\ reply' = "none" /\ verdict' = "none" /\ stop' = "none"
      /\ slot' = NoSlots /\ early' = {} /\ stale' = {} /\ fresh' = FALSE
      /\ UNCHANGED <<kind, boot, run, turns, drafts, row, questions>> /\ unsaved' = TRUE
  BY DEF Finalize, CommitFails, Rest, tables
<1>3. Engaged' = {}
  BY <1>2 DEF NoSlots, Engaged
<1>4. RunTypeOK'
  BY <1>2 DEF RunTypeOK, NoSlots
<1>5. ProcessTypes'
  BY <1>1, <1>2 DEF ProcessTypes, Stages
<1>6. Turning'
  BY <1>2 DEF Turning
<1>7. Drafting'
  BY <1>2 DEF Drafting
<1>8. Reporting'
  BY <1>1, <1>2, <1>3 DEF Reporting, StatusTellsWait, With, NoSlots
<1>9. Reading'
  BY <1>2, <1>3 DEF Reading
<1>10. Placing'
  BY <1>2, <1>3 DEF Placing, BarrierOrder, With, NoSlots
<1>11. Recording'
  BY <1>2, <1>3 DEF Recording, NoSlots
<1>12. Counting'
  BY <1>2 DEF Counting, NoSlots
<1>13. Asking'
  BY <1>1, <1>2 DEF Asking
<1>14. Repairing'
  BY <1>1, <1>2 DEF Repairing
<1>. QED
  BY <1>4, <1>5, <1>6, <1>7, <1>8, <1>9, <1>10, <1>11, <1>12, <1>13, <1>14

-----------------------------------------------------------------------------
(* Crashes and recovery.                                                   *)

LEMMA CrashIInv ==
    ASSUME IInv, Crash
    PROVE  IInv'
<1> USE RunAssumption DEF IInv
<1>1. /\ UNCHANGED <<run, turns, drafts, row, questions, kind>>
      /\ stage' = "idle" /\ reply' = "none" /\ verdict' = "none" /\ stop' = "none"
      /\ slot' = NoSlots /\ early' = {} /\ stale' = {} /\ fresh' = FALSE
      /\ boot' = "turns" /\ unsaved' = FALSE
  BY DEF Crash, Rest, tables
<1>2. RunTypeOK'
  BY <1>1 DEF RunTypeOK, NoSlots
<1>3. ProcessTypes'
  BY <1>1 DEF ProcessTypes, Stages
<1>4. Turning'
  BY <1>1 DEF Turning
<1>5. Drafting'
  BY <1>1 DEF Drafting
<1>6. Reporting'
  BY <1>1 DEF Reporting, StatusTellsWait, With
<1>7. Reading'
  BY <1>1 DEF Reading, Engaged, NoSlots
<1>8. Placing'
  BY <1>1 DEF Placing, BarrierOrder, Engaged, With, NoSlots
<1>9. Recording'
  BY <1>1 DEF Recording, Engaged, With, NoSlots
<1>10. Counting'
  BY <1>1 DEF Counting, NoSlots
<1>11. Asking'
  BY <1>1 DEF Asking, Waiting, With
<1>12. Repairing'
  BY <1>1 DEF Repairing
<1>. QED
  BY <1>2, <1>3, <1>4, <1>5, <1>6, <1>7, <1>8, <1>9, <1>10, <1>11, <1>12

LEMMA RecoverTurnsIInv ==
    ASSUME IInv, RecoverTurns
    PROVE  IInv'
<1> USE RunAssumption DEF IInv
<1>1. /\ UNCHANGED <<run, drafts, row, questions, stage, reply, verdict,
                      stop, fresh, slot, kind, early, stale, unsaved>>
      /\ boot = "turns" /\ boot' = "runs"
  BY DEF RecoverTurns, runner, calls
<1>2. /\ turns' \in Seq(OpenPhases \cup Terminal)
      /\ Len(turns') = Len(turns) /\ DOMAIN turns' = DOMAIN turns /\ (turns' # <<>> <=> turns # <<>>)
      /\ \A t \in DOMAIN turns : turns'[t] = IF turns[t] \in OpenPhases /\ ~ResumableTurn(t) THEN "interrupted" ELSE turns[t]
  <2>1. turns \in Seq(OpenPhases \cup Terminal) /\ Len(turns) \in Nat /\ DOMAIN turns = 1..Len(turns)
    BY LenProperties DEF RunTypeOK
  <2>2. \A t \in DOMAIN turns : turns[t] \in OpenPhases \cup Terminal
    BY <2>1, ElementOfSeq
  <2>3. turns' = [t \in 1..Len(turns) |-> turns'[t]] /\ \A t \in 1..Len(turns) : turns'[t] \in OpenPhases \cup Terminal
    BY <2>1, <2>2 DEF RecoverTurns
  <2>4. turns' \in Seq(OpenPhases \cup Terminal)
    BY <2>1, <2>3, IsASeq
  <2>5. Len(turns') = Len(turns)
    BY <2>1, <2>3, <2>4, LenProperties
  <2>. QED
    BY <2>1, <2>4, <2>5, EmptySeq DEF RecoverTurns
<1>3. turns # <<>> => Len(turns) \in DOMAIN turns
  BY LenProperties, EmptySeq DEF RunTypeOK
<1>4. RunTypeOK'
  BY <1>1, <1>2, <1>3 DEF RunTypeOK
<1>5. ProcessTypes'
  BY <1>1, <1>2, <1>3 DEF ProcessTypes, Stages
<1>6. Turning'
  BY <1>1, <1>2, <1>3 DEF Turning
<1>7. Reporting'
  BY <1>1, <1>2, <1>3 DEF Reporting, StatusTellsWait, With
<1>8. Asking'
  BY <1>1, <1>2, <1>3 DEF Asking, Waiting, With, ResumableTurn
<1>9. Repairing'
  BY <1>1, <1>2, <1>3 DEF Repairing, ResumableTurn
<1>10. Drafting' /\ Reading' /\ Placing' /\ Recording' /\ Counting'
  BY <1>1 DEF Drafting, Reading, Engaged, Placing, BarrierOrder, With, NoSlots,
     Recording, Counting
<1>. QED
  BY <1>4, <1>5, <1>6, <1>7, <1>8, <1>9, <1>10

LEMMA RecoverRunsIInv ==
    ASSUME IInv, RecoverRuns
    PROVE  IInv'
<1> USE RunAssumption DEF IInv
<1>1. /\ UNCHANGED <<turns, drafts, row, questions, stage, reply, verdict,
                      stop, fresh, slot, kind, early, stale, unsaved>>
      /\ boot = "runs" /\ boot' = "interactions"
      /\ run' = IF run \in Live /\ ~ResumableRun THEN "interrupted" ELSE run
  BY DEF RecoverRuns, runner, calls
<1>2. RunTypeOK'
  BY <1>1 DEF RunTypeOK
<1>3. ProcessTypes'
  BY <1>1 DEF ProcessTypes, Stages
<1>4. Reporting'
  BY <1>1 DEF Reporting, StatusTellsWait, With
<1>5. Asking'
  BY <1>1 DEF Asking, Waiting, With, ResumableRun
<1>6. Repairing'
  BY DEF Repairing, RecoverRuns, ResumableRun, RunTypeOK, runner
<1>7. Turning' /\ Drafting' /\ Reading' /\ Placing' /\ Recording' /\ Counting'
  BY <1>1 DEF Turning, Drafting, Reading, Engaged, Placing, BarrierOrder, With,
     NoSlots, Recording, Counting
<1>. QED
  BY <1>2, <1>3, <1>4, <1>5, <1>6, <1>7

LEMMA RecoverInteractionsIInv ==
    ASSUME IInv, RecoverInteractions
    PROVE  IInv'
<1> USE RunAssumption DEF IInv
<1>1. /\ UNCHANGED <<run, turns, drafts, row, stage, reply, verdict, stop,
                      fresh, slot, kind, early, stale, unsaved>>
      /\ boot = "interactions" /\ boot' = "messages" /\ questions' = questions
  BY DEF RecoverInteractions, runner, calls, Asking, Waiting
<1>2. RunTypeOK'
  BY <1>1 DEF RunTypeOK
<1>3. ProcessTypes'
  BY <1>1 DEF ProcessTypes, Stages
<1>4. Reporting'
  BY <1>1 DEF Reporting, StatusTellsWait, With
<1>5. Asking'
  BY <1>1 DEF Asking, Waiting, With
<1>6. Repairing'
  BY <1>1 DEF Repairing
<1>7. Turning' /\ Drafting' /\ Reading' /\ Placing' /\ Recording' /\ Counting'
  BY <1>1 DEF Turning, Drafting, Reading, Engaged, Placing, BarrierOrder, With,
     NoSlots, Recording, Counting
<1>. QED
  BY <1>2, <1>3, <1>4, <1>5, <1>6, <1>7

LEMMA RecoverMessagesIInv ==
    ASSUME IInv, RecoverMessages
    PROVE  IInv'
<1> USE RunAssumption DEF IInv
<1>1. /\ UNCHANGED <<run, turns, row, questions, stage, reply, verdict, stop,
                      fresh, slot, kind, early, stale, unsaved>>
      /\ boot = "messages" /\ boot' = "calls" /\ drafts' = 0
  BY DEF RecoverMessages, runner, calls
<1>2. RunTypeOK'
  BY <1>1 DEF RunTypeOK
<1>3. ProcessTypes'
  BY <1>1 DEF ProcessTypes, Stages
<1>4. Drafting'
  BY <1>1 DEF Drafting, Reporting
<1>5. Reporting'
  BY <1>1 DEF Reporting, StatusTellsWait, With
<1>6. Asking'
  BY <1>1 DEF Asking, Waiting, With
<1>7. Repairing'
  BY <1>1 DEF Repairing
<1>8. Turning' /\ Reading' /\ Placing' /\ Recording' /\ Counting'
  BY <1>1 DEF Turning, Reading, Engaged, Placing, BarrierOrder, With, NoSlots,
     Recording, Counting
<1>. QED
  BY <1>2, <1>3, <1>4, <1>5, <1>6, <1>7, <1>8

LEMMA RecoverCallsIInv ==
    ASSUME IInv, RecoverCalls
    PROVE  IInv'
<1> USE RunAssumption DEF IInv
<1>1. /\ UNCHANGED <<run, turns, drafts, questions, stage, reply, verdict,
                      stop, fresh, slot, kind, early, stale, unsaved>>
      /\ boot = "calls" /\ boot' = "up"
  BY DEF RecoverCalls, runner, calls
<1>2. stage = "idle" /\ Engaged = {} /\ slot = NoSlots
  BY Quiet DEF RecoverCalls, Reporting, Placing
<1>3. \A c \in Calls :
        row'[c] = IF row[c] \in OpenRows /\ ~(row[c] = "awaiting_user_input" /\ c \in questions)
                  THEN "cancelled" ELSE row[c]
  BY DEF RecoverCalls
<1>4. RunTypeOK'
  BY <1>1, <1>2, <1>3 DEF RunTypeOK, RecoverCalls
<1>5. ProcessTypes'
  BY <1>1, <1>2, <1>3 DEF ProcessTypes, Stages
<1>6. Reporting'
  BY <1>1, <1>2, <1>3 DEF Reporting, StatusTellsWait, With
<1>7. Placing'
  BY <1>2 DEF Placing, BarrierOrder, With, NoSlots, Engaged, RecoverCalls,
     runner, calls
<1>8. Recording'
  BY <1>2 DEF Recording, With, NoSlots, Engaged, RecoverCalls, runner, calls
<1>9. Counting'
  BY <1>1, <1>2, <1>3 DEF Counting
<1>10. Asking'
  BY <1>1, <1>2, <1>3 DEF Asking, Waiting, With
<1>11. Repairing'
  BY <1>1, <1>2, <1>3 DEF Repairing
<1>12. Turning' /\ Drafting' /\ Reading'
  BY <1>1 DEF Turning, Drafting, Reading, Engaged
<1>. QED
  BY <1>4, <1>5, <1>6, <1>7, <1>8, <1>9, <1>10, <1>11, <1>12

LEMMA ResumeIInv ==
    ASSUME IInv, NEW c \in Calls, Resume(c)
    PROVE  IInv'
<1> USE RunAssumption DEF IInv
<1>1. /\ questions = {c} /\ row[c] = "awaiting_user_input" /\ drafts = 0
      /\ turns # <<>> /\ turns[Len(turns)] = "awaiting_user_input"
      /\ ~unsaved /\ boot = "up" /\ stage = "idle" /\ Engaged = {}
      /\ slot = NoSlots
  BY Quiet DEF Resume, Asking, Waiting, Repairing, Placing
<1>2. /\ turns' \in Seq(OpenPhases \cup Terminal)
      /\ Len(turns') = Len(turns) /\ turns' # <<>> /\ Len(turns) \in DOMAIN turns
      /\ DOMAIN turns' = DOMAIN turns
      /\ \A t \in DOMAIN turns : t # Len(turns) => turns'[t] = turns[t]
      /\ turns'[Len(turns)] = "completed"
  BY <1>1, PhaseOf DEF Resume
<1>3. row' = [row EXCEPT ![c] = "completed"] /\ row'[c] = "completed" /\ \A d \in Calls : d # c => row'[d] = row[d]
  BY DEF Resume, RunTypeOK
<1>4. /\ UNCHANGED <<slot, early, stale, kind, boot, unsaved, stop, reply, verdict>>
      /\ questions' = {} /\ stage' = "between" /\ fresh' = TRUE /\ drafts' = 1 /\ run' = "running"
  BY <1>1 DEF Resume, calls, startup
<1>5. RunTypeOK'
  BY <1>2, <1>3, <1>4 DEF RunTypeOK
<1>6. ProcessTypes'
  BY <1>4 DEF ProcessTypes, Stages
<1>7. Turning'
  BY <1>1, <1>2, <1>4 DEF Turning
<1>8. Drafting'
  BY <1>4 DEF Drafting
<1>9. Reporting'
  BY <1>1, <1>4 DEF Reporting, StatusTellsWait
<1>10. Reading'
  BY <1>1, <1>4 DEF Reading, Engaged, NoSlots
<1>11. Placing'
  BY <1>1, <1>4 DEF Placing, BarrierOrder, With, Engaged, NoSlots
<1>12. Recording'
  BY <1>1, <1>3, <1>4 DEF Recording, Repairing, Engaged, With, NoSlots
<1>13. Counting'
  BY <1>1, <1>3, <1>4, Counted
<1>14. Asking'
  BY <1>1, <1>4 DEF Asking, With, NoSlots
<1>15. Repairing'
  BY <1>1, <1>4 DEF Repairing
<1>. QED
  BY <1>5, <1>6, <1>7, <1>8, <1>9, <1>10, <1>11, <1>12, <1>13, <1>14, <1>15

-----------------------------------------------------------------------------
(* The theorems.                                                           *)

LEMMA InitIInv == Init => IInv
<1> SUFFICES ASSUME Init PROVE IInv
  OBVIOUS
<1> USE RunAssumption DEF Init, IInv
<1>1. turns \in Seq(OpenPhases \cup Terminal) /\ Len(turns) = 0 /\ DOMAIN turns = {}
  BY EmptySeq
<1>2. Engaged = {} /\ \A state \in Slots \ {"none"} : With(state) = {}
  BY DEF Engaged, With, NoSlots, Slots
<1>3. RunTypeOK /\ ProcessTypes
  <2>1. run \in Live /\ drafts \in 0..1 /\ Len(turns) <= MaxTurns
    BY <1>1
  <2>. QED
    BY <1>1, <2>1 DEF RunTypeOK, ProcessTypes, Stages, NoSlots, Kinds
<1>4. Turning /\ Drafting /\ Reporting /\ Reading
  BY <1>1, <1>2 DEF Turning, Drafting, Reporting, StatusTellsWait, Reading, NoSlots
<1>5. Placing /\ Recording
  BY <1>2 DEF Placing, BarrierOrder, Recording, With, Slots, NoSlots
<1>6. Counting
  <2>. /\ 0 \in 0..MaxCalls
       /\ \A c \in Calls : c \in Nat /\ ~(c <= 0)
    BY DEF Calls
  <2>. QED
    BY DEF Counting, NoSlots
<1>7. Asking /\ Repairing
  BY <1>2 DEF Asking, Repairing, Slots
<1>. QED
  BY <1>3, <1>4, <1>5, <1>6, <1>7

LEMMA NextIInv == IInv /\ [Next]_vars => IInv'
<1> SUFFICES ASSUME IInv, [Next]_vars PROVE IInv'
  OBVIOUS
<1>1. CASE Runner
  <2>1. CASE ModelReplies
    <3>1. CASE GiveUpEarly /\ slot' = slot /\ kind' = kind /\ fresh' = fresh
      BY <2>1, <3>1, ReplyEndsIInv
    <3>2. CASE ~(GiveUpEarly /\ slot' = slot /\ kind' = kind /\ fresh' = fresh)
      <4>1. PICK n \in 0..MaxCalls, ks \in [Calls -> Kinds] :
              LET new == {c \in Calls : NextCall <= c /\ c < NextCall + n} IN
              /\ \A c \in Calls \ new : ks[c] = kind[c]
              /\ reply' = "tools" /\ kind' = ks
              /\ slot' = [c \in Calls |-> IF c \in new THEN "declared" ELSE slot[c]]
              /\ UNCHANGED <<early, stale>>
        BY <2>1, <3>2 DEF ModelReplies
      <4>. QED
        BY <2>1, <4>1, ReplyDeclaresIInv
    <3>. QED
      BY <3>1, <3>2
  <2>2. CASE Drained
    BY <2>2, DrainedAsideIInv, DrainedOnIInv
  <2>3. CASE Finalize
    BY <2>3, FinalizeSavesIInv, FinalizeFailsIInv DEF Finalize
  <2>4. CASE StartTurn \/ OutOfTurns \/ Stream \/ ModelFails \/ Judge \/ StartBatch
    BY <2>4, StartTurnIInv, OutOfTurnsIInv, StreamIInv, ModelFailsIInv, JudgeIInv,
       StartBatchIInv
  <2>5. CASE NextBatch \/ BatchFails \/ BatchDone \/ Unwound \/ Interrupted
    BY <2>5, NextBatchIInv, BatchFailsIInv, BatchDoneIInv, UnwoundIInv,
       InterruptedIInv
  <2>. QED
    BY <1>1, <2>1, <2>2, <2>3, <2>4, <2>5 DEF Runner
<1>2. CASE Interrupted \/ EarlyRead \/ Retry \/ Abort \/ Crash
  BY <1>2, InterruptedIInv, EarlyReadIInv, RetryIInv, AbortIInv, CrashIInv
<1>3. CASE User
  BY <1>3, ResolveIInv, AnswerIInv, ResumeIInv DEF User
<1>4. CASE \E c \in Calls : CallStep(c)
  BY <1>4, BeginIInv, ContinueIInv, CallEndsIInv DEF CallStep
<1>5. CASE Recovery
  BY <1>5, RecoverTurnsIInv, RecoverRunsIInv, RecoverInteractionsIInv,
     RecoverMessagesIInv, RecoverCallsIInv DEF Recovery
<1>6. CASE UNCHANGED vars
  <2>. USE <1>6 DEF vars, tables, process, runner, calls, startup, bounds
  <2>1. RunTypeOK' /\ ProcessTypes' /\ Turning' /\ Drafting' /\ Reporting'
    BY DEF IInv, RunTypeOK, ProcessTypes, Turning, Drafting, Reporting,
           StatusTellsWait, With
  <2>2. Reading' /\ Placing' /\ Recording'
    BY DEF IInv, Reading, Placing, BarrierOrder, Recording, Engaged, With
  <2>3. Counting' /\ Asking' /\ Repairing'
    BY DEF IInv, Counting, Asking, Waiting, With, Repairing
  <2>. QED
    BY <2>1, <2>2, <2>3 DEF IInv
<1>. QED
  BY <1>1, <1>2, <1>3, <1>4, <1>5, <1>6 DEF Next

LEMMA Invariance == Spec => []IInv
BY InitIInv, NextIInv, PTL DEF Spec

\* A run whose terminal status is durable has no open turn, draft, tool call or
\* question left: the transaction of RunFinalizer closes what the executing process
\* has open, and the recovery closes what a process that died had open.
THEOREM EndsClosed == Spec => []ClosedAtEnd
<1>1. IInv => ClosedAtEnd
  <2> SUFFICES ASSUME IInv, run \in Terminal, boot = "up" PROVE Closed
    BY DEF ClosedAtEnd
  <2>1. stage = "idle" /\ ~unsaved /\ questions = {}
    BY DEF IInv, Reporting, Repairing, Asking, Waiting
  <2>2. \A t \in DOMAIN turns : turns[t] \in OpenPhases \cup Terminal
    BY ElementOfSeq, LenProperties DEF IInv, RunTypeOK
  <2>. QED
    BY <2>1, <2>2 DEF IInv, Repairing, Closed
<1>. QED
  BY <1>1, Invariance, PTL

\* Shapes, one open turn at most, a status that names what the run waits for while
\* it executes, and after every recovery five tables that agree (the passes of
\* Store.recoverRuntimeState, each of which looks at one table).
THEOREM OneStory == Spec => []TablesAgree
<1>1. IInv => RecoveryAgrees
  <2> SUFFICES ASSUME IInv, stage = "idle", boot = "up", run \in Live, ~unsaved
               PROVE  /\ run = "awaiting_user_input"
                      /\ turns[Len(turns)] = "awaiting_user_input"
                      /\ Cardinality(questions) = 1
                      /\ {c \in Calls : row[c] \in OpenRows} = questions
                      /\ drafts = 0
    BY DEF RecoveryAgrees
  <2>1. questions # {}
    BY DEF IInv, Repairing
  <2>2. PICK c \in Calls : Waiting(c)
    BY <2>1 DEF IInv, Asking
  <2>3. Cardinality(questions) = 1
    BY <2>2, FS_Singleton DEF Waiting
  <2>. QED
    BY <2>2, <2>3 DEF IInv, Repairing, Waiting
<1>2. IInv => OnlyLatestTurnOpen
  BY DEF IInv, Turning, Recording, OnlyLatestTurnOpen
<1>3. IInv => TablesAgree
  BY <1>1, <1>2 DEF TablesAgree, IInv, Reporting
<1>. QED
  BY <1>3, Invariance, PTL

\* No tool call is under way between turns, at the end or after it, and writes and
\* questions begin only behind all that was declared before them (planBatches and
\* the early reads of the stream).
THEOREM InPlace == Spec => []CallsInPlace
<1>1. IInv => CallsInPlace
  BY Quiet DEF CallsInPlace, NoOrphanCalls, IInv, Placing
<1>. QED
  BY <1>1, Invariance, PTL

\* The result of a tool call that has ended stays.
Kept == \A c \in Calls : row[c] \in {"completed", "failed", "cancelled"} => row'[c] = row[c]

LEMMA RowsKept == IInv /\ [Next]_vars => Kept
<1> SUFFICES ASSUME IInv, [Next]_vars,
                    NEW c \in Calls, row[c] \in {"completed", "failed", "cancelled"}
             PROVE  row'[c] = row[c]
  BY DEF Kept
<1>0. c \notin Engaged /\ row \in [Calls -> {"none"} \cup OpenRows \cup {"completed", "failed", "cancelled"}]
  BY DEF IInv, Recording, RunTypeOK
<1>1. CASE Runner \/ Interrupted
  <2>1. CASE Drained
    <3>1. slot[c] # "declared"
      BY <2>1 DEF IInv, Drained, Placing, With
    <3>. QED
      BY <2>1, <3>1 DEF Drained, DropGivenUp, tables
  <2>2. CASE Unwound
    BY <2>2 DEF Unwound, DropGivenUp
  <2>3. CASE Finalize
    BY <2>3 DEF Finalize, Commit, CommitFails, NonTerminal, tables
  <2>4. CASE StartTurn \/ OutOfTurns \/ Stream \/ ModelFails \/ ModelReplies \/ Judge
    BY <2>4 DEF StartTurn, OutOfTurns, Stream, ModelFails, ModelReplies, Judge, tables
  <2>5. CASE StartBatch \/ NextBatch \/ BatchFails \/ BatchDone \/ Interrupted
    BY <2>5 DEF StartBatch, NextBatch, BatchFails, BatchDone, Interrupted, tables
  <2>. QED
    BY <1>1, <2>1, <2>2, <2>3, <2>4, <2>5 DEF Runner
<1>2. CASE EarlyRead
  <2>1. PICK n \in 0..MaxCalls : NextCall = n + 1 /\ (row[c] # "none" <=> c <= n)
    BY <1>2, FirstFree DEF EarlyRead
  <2>2. c # NextCall
    BY <2>1 DEF Calls
  <2>. QED
    BY <1>0, <1>2, <2>2 DEF EarlyRead
<1>3. CASE Retry \/ Abort \/ Crash
  BY <1>3 DEF Retry, Abort, Crash, tables
<1>4. CASE User
  <2>1. ASSUME NEW d \in Calls, Resume(d) PROVE row'[c] = row[c]
    BY <1>0, <2>1 DEF Resume, IInv, Asking, Waiting
  <2>2. ASSUME NEW d \in Calls, Resolve(d) \/ Answer(d) PROVE row'[c] = row[c]
    BY <1>0, <2>2 DEF Resolve, Answer, Engaged, tables
  <2>. QED
    BY <1>4, <2>1, <2>2 DEF User
<1>5. CASE \E d \in Calls : CallStep(d)
  <2> SUFFICES ASSUME NEW d \in Calls, CallStep(d) PROVE row'[c] = row[c]
    BY <1>5
  <2>1. d \in Engaged
    BY DEF CallStep, Begin, Continue, CallEnds, Engaged
  <2>. QED
    BY <1>0, <2>1 DEF CallStep, Begin, Continue, CallEnds
<1>6. CASE Recovery
  BY <1>6 DEF Recovery, RecoverTurns, RecoverRuns, RecoverInteractions, RecoverMessages, RecoverCalls
<1>7. CASE UNCHANGED vars
  BY <1>7 DEF vars, tables
<1>. QED
  BY <1>1, <1>2, <1>3, <1>4, <1>5, <1>6, <1>7 DEF Next

\* While a turn is worked on, the latest turn is open.
InTurn == stage \in {"model", "draining", "scheduled", "batch"} => turns[Len(turns)] \in OpenPhases

TurnsKept ==
  \A t \in DOMAIN turns : turns[t] \in Terminal => t \in DOMAIN turns' /\ turns'[t] = turns[t]

\* A transition of a latest turn that is open changes no turn that has ended.
LEMMA OpenTurnMoves ==
    ASSUME IInv, turns[Len(turns)] \in OpenPhases, NEW x \in OpenPhases \cup Terminal,
           turns' = Phase(x)
    PROVE  TurnsKept /\ (turns # <<>> => turns'[Len(turns')] = x)
<1>1. CASE turns = <<>>
  BY <1>1 DEF TurnsKept
<1>2. CASE turns # <<>>
  <2>1. /\ Len(turns') = Len(turns) /\ DOMAIN turns' = DOMAIN turns /\ turns'[Len(turns)] = x
        /\ \A t \in DOMAIN turns : t # Len(turns) => turns'[t] = turns[t]
    BY <1>2, PhaseOf DEF IInv
  <2>. QED
    BY <2>1 DEF TurnsKept
<1>. QED
  BY <1>1, <1>2

LEMMA TurnSteps ==
    ASSUME IInv, InTurn, [Next]_vars
    PROVE  TurnsKept /\ InTurn'
<1>1. ASSUME turns' = turns, stage' = stage \/ (stage = "model" /\ stage' = "draining")
                              \/ stage' \notin {"model", "draining", "scheduled", "batch"}
      PROVE  TurnsKept /\ InTurn'
  BY <1>1 DEF InTurn, TurnsKept
<1>2. CASE Runner \/ Interrupted
  <2>1. CASE StartTurn
    <3>1. turns' = Append(turns, "awaiting_model_response") /\ turns \in Seq(OpenPhases \cup Terminal)
      BY <2>1 DEF StartTurn, IInv, RunTypeOK
    <3>2. /\ Len(turns) \in Nat /\ Len(turns') = Len(turns) + 1 /\ DOMAIN turns = 1..Len(turns)
          /\ \A t \in 1..Len(turns) : turns'[t] = turns[t]
          /\ turns'[Len(turns) + 1] = "awaiting_model_response" /\ DOMAIN turns' = 1..Len(turns')
      BY <3>1
    <3>. QED
      BY <3>2 DEF InTurn, TurnsKept
  <2>2. CASE Stream
    <3>1. /\ turns' = Phase("streaming") /\ stage' = "model" /\ turns # <<>>
          /\ turns[Len(turns)] \in OpenPhases
      BY <2>2 DEF Stream, process, runner, IInv, Turning
    <3>. QED
      BY <3>1, OpenTurnMoves DEF InTurn
  <2>3. CASE Drained
    <3>1. stage = "draining" /\ turns # <<>> /\ turns[Len(turns)] \in OpenPhases
      BY <2>3 DEF Drained, InTurn, IInv, Turning
    <3>2. CASE turns' = turns /\ stage' = "unwind"
      BY <1>1, <3>2
    <3>3. CASE turns' = Phase("scheduling_tools") /\ stage' = "scheduled"
      BY <3>1, <3>3, OpenTurnMoves DEF InTurn
    <3>4. CASE (turns' = Phase("completed") \/ turns' = Phase("failed")) /\ stage' = "judged"
      BY <3>1, <3>4, OpenTurnMoves DEF InTurn
    <3>. QED
      BY <2>3, <3>2, <3>3, <3>4 DEF Drained, Unwind, tables
  <2>4. CASE StartBatch
    <3>1. stage = "scheduled" /\ turns # <<>> /\ turns[Len(turns)] \in OpenPhases
      BY <2>4 DEF StartBatch, InTurn, IInv, Turning
    <3>2. CASE turns' = turns /\ stage' = "unwind"
      BY <1>1, <3>2
    <3>3. CASE turns' = Phase("executing_tools") /\ stage' = "batch"
      BY <3>1, <3>3, OpenTurnMoves DEF InTurn
    <3>. QED
      BY <2>4, <3>2, <3>3 DEF StartBatch, Unwind
  <2>5. CASE BatchDone
    <3>1. /\ turns[Len(turns)] \in OpenPhases /\ turns' = Phase("completed")
          /\ stage' \in {"ending", "between"}
      BY <2>5 DEF BatchDone, CompleteTurn, InTurn
    <3>. QED
      BY <3>1, OpenTurnMoves DEF InTurn
  <2>6. CASE Finalize
    <3>1. stage' = "idle"
      BY <2>6 DEF Finalize, Rest
    <3>2. CASE turns' = turns
      BY <1>1, <3>1, <3>2
    <3>3. CASE turns[Len(turns)] \in OpenPhases /\ turns' = Phase(verdict)
      <4>1. verdict \in Terminal
        BY <2>6 DEF Finalize, IInv, ProcessTypes, Reporting
      <4>. QED
        BY <3>1, <3>3, <4>1, OpenTurnMoves DEF InTurn
    <3>. QED
      BY <2>6, <3>2, <3>3 DEF Finalize, Commit, CommitFails, tables
  <2>7. CASE OutOfTurns \/ ModelFails \/ ModelReplies \/ Judge
    BY <1>1, <2>7 DEF OutOfTurns, ModelFails, ModelReplies, Judge, Unwind, tables
  <2>8. CASE NextBatch \/ BatchFails \/ Unwound \/ Interrupted
    BY <1>1, <2>8 DEF NextBatch, BatchFails, Unwound, Interrupted, Unwind, tables, runner
  <2>. QED
    BY <1>2, <2>1, <2>2, <2>3, <2>4, <2>5, <2>6, <2>7, <2>8 DEF Runner
<1>3. CASE EarlyRead \/ Retry \/ Abort \/ Crash
  BY <1>1, <1>3 DEF EarlyRead, Retry, Abort, Crash, Rest, tables, runner
<1>4. ASSUME NEW c \in Calls, slot[c] \in {"entered", "approved", "denied", "rejected", "asking"},
             stage' = stage,
             turns' = turns \/ \E x \in OpenPhases : turns' = Phase(x)
      PROVE  TurnsKept /\ InTurn'
  <2>1. stage = "batch"
    BY <1>4 DEF IInv, Reading, Engaged
  <2>2. turns # <<>> /\ turns[Len(turns)] \in OpenPhases
    BY <2>1 DEF InTurn, IInv, Turning
  <2>. QED
    BY <1>1, <1>4, <2>2, OpenTurnMoves DEF InTurn
<1>5. CASE User
  <2>1. ASSUME NEW c \in Calls, Resolve(c) PROVE TurnsKept /\ InTurn'
    BY <1>1, <2>1 DEF Resolve, tables, runner
  <2>2. ASSUME NEW c \in Calls, Answer(c) PROVE TurnsKept /\ InTurn'
    <3>1. "executing_tools" \in OpenPhases
      OBVIOUS
    <3>. QED
      BY <1>4, <2>2, <3>1 DEF Answer, runner
  <2>3. ASSUME NEW c \in Calls, Resume(c) PROVE TurnsKept /\ InTurn'
    <3>1. stage' = "between"
      BY <2>3 DEF Resume
    <3>2. CASE turns' = turns
      BY <1>1, <3>1, <3>2
    <3>3. CASE turns[Len(turns)] \in OpenPhases /\ turns' = Phase("completed")
      BY <3>1, <3>3, OpenTurnMoves DEF InTurn
    <3>. QED
      BY <2>3, <3>2, <3>3 DEF Resume
  <2>. QED
    BY <1>5, <2>1, <2>2, <2>3 DEF User
<1>6. ASSUME NEW c \in Calls, CallStep(c) PROVE TurnsKept /\ InTurn'
  <2>1. CASE Begin(c)
    <3>1. /\ slot[c] = "entered" /\ stage' = stage
          /\ turns' \in {turns, Phase("awaiting_permission"), Phase("awaiting_user_input")}
      BY <2>1 DEF Begin, runner
    <3>. QED
      BY <1>4, <3>1
  <2>2. CASE Continue(c)
    <3>1. /\ slot[c] \in {"approved", "denied", "rejected"} /\ stage' = stage
          /\ turns' \in {turns, Phase("awaiting_permission"), Phase("executing_tools")}
      BY <2>2 DEF Continue, runner
    <3>. QED
      BY <1>4, <3>1
  <2>3. CASE CallEnds(c)
    BY <1>1, <2>3 DEF CallEnds, runner
  <2>. QED
    BY <1>6, <2>1, <2>2, <2>3 DEF CallStep
<1>7. CASE Recovery
  <2>1. CASE RecoverTurns
    <3>1. stage' = "idle"
      BY <2>1 DEF RecoverTurns, runner, IInv, Reporting
    <3>. QED
      BY <2>1, <3>1 DEF RecoverTurns, TurnsKept, InTurn
  <2>2. CASE RecoverRuns \/ RecoverInteractions \/ RecoverMessages \/ RecoverCalls
    BY <1>1, <2>2 DEF RecoverRuns, RecoverInteractions, RecoverMessages, RecoverCalls, runner
  <2>. QED
    BY <1>7, <2>1, <2>2 DEF Recovery
<1>8. CASE UNCHANGED vars
  BY <1>1, <1>8 DEF vars, tables, process, runner
<1>. QED
  BY <1>2, <1>3, <1>5, <1>6, <1>7, <1>8 DEF Next

\* A run whose status is terminal keeps it: intermediate statuses are written over
\* unfinished ones only, and an execution works on an unfinished run.
LEMMA RunKept ==
    ASSUME IInv, [Next]_vars, run \in Terminal
    PROVE  run' = run
<1>0. stage = "idle" /\ \A c \in Calls : slot[c] = "none"
  BY DEF IInv, Reporting, Placing, NoSlots
<1>1. CASE Runner \/ Interrupted \/ EarlyRead \/ Retry \/ Abort
  BY <1>0, <1>1 DEF Runner, StartTurn, OutOfTurns, Stream, ModelFails, ModelReplies, Drained, Judge,
     StartBatch, NextBatch, BatchFails, BatchDone, Unwound, Finalize, Interrupted, EarlyRead, Retry, Abort
<1>2. CASE User
  BY <1>0, <1>2 DEF User, Resolve, Answer, Resume
<1>3. CASE \E c \in Calls : CallStep(c)
  BY <1>0, <1>3 DEF CallStep, Begin, Continue, CallEnds
<1>4. CASE Recovery
  BY <1>4 DEF Recovery, RecoverTurns, RecoverRuns, RecoverInteractions, RecoverMessages, RecoverCalls
<1>5. CASE Crash \/ UNCHANGED vars
  BY <1>5 DEF Crash, tables, vars
<1>. QED
  BY <1>1, <1>2, <1>3, <1>4, <1>5 DEF Next

\* What has ended keeps its end, whichever of early reads, batches, withdrawal,
\* finalization and recovery comes upon its row: every tool call, turn and the run.
THEOREM FinalRows == Spec => FinalRowStays
<1>1. IInv /\ InTurn /\ [Next]_vars => InTurn'
  BY TurnSteps
<1>2. Init => InTurn
  BY DEF Init, InTurn
<1>3. Spec => []InTurn
  BY <1>1, <1>2, Invariance, PTL DEF Spec
<1> DEFINE Stays ==
      /\ \A c \in Calls : row[c] \in {"completed", "failed", "cancelled"} => row'[c] = row[c]
      /\ \A t \in DOMAIN turns : turns[t] \in Terminal => t \in DOMAIN turns' /\ turns'[t] = turns[t]
      /\ run \in Terminal => run' = run
<1>4. IInv /\ InTurn /\ [Next]_vars => [Stays]_vars
  BY RowsKept, TurnSteps, RunKept DEF Kept, TurnsKept
<1>5. Spec => [][Stays]_vars
  BY <1>3, <1>4, Invariance, PTL DEF Spec
<1>. QED
  BY <1>5 DEF FinalRowStays
=============================================================================
