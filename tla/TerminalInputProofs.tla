-------------------------- MODULE TerminalInputProofs --------------------------
(***************************************************************************)
(* The input of a terminal, for any window, any queue of waiting batches   *)
(* and any number of batches, reloads, refusals and time-outs: while the   *)
(* page that opened it lives, the shell gets its input in order and        *)
(* without a hole, and what is confirmed has arrived.                      *)
(*                                                                         *)
(* Both rest on two facts about tokens.  A batch is in one place at a      *)
(* time, so nothing but an answer "backpressure" and its retry timer bring *)
(* it back on the wire; and the next number never has that answer while a write of it is  *)
(* under way or was given up and taken.                                    *)
(***************************************************************************)
EXTENDS TerminalInput, FiniteSetTheorems, SequenceTheorems, TLAPS

-----------------------------------------------------------------------------
(* The inductive invariant.                                                *)

\* The batches of the first page.
Batch(n) == [page |-> 1, seq |-> n]
Batches == {Batch(n) : n \in Nat \ {0}}
Verdicts == {"accepted", "backpressure", "refused"}
Writes == [owner : Batches \cup {None}, now : Batches \cup {None},
           outcome : {"asked", "ok", "backpressure", "refused"}]

FirstTypes ==
    /\ lastSeq \in Nat /\ applied \in Nat /\ timers \subseteq Nat \ {0}
    /\ wire \subseteq Batches /\ pending \subseteq Batches
    /\ replies \subseteq [batch : Batches, verdict : Verdicts]
    /\ writing \in Seq(Writes) /\ taken \in Seq(Batches)

\* Nothing is on its way that was not sent.
OnlySent ==
    /\ \A b \in wire \cup pending : b.seq <= lastSeq
    /\ \A r \in replies : r.batch.seq <= lastSeq
    /\ \A n \in timers : n <= lastSeq
    /\ applied <= lastSeq /\ Len(taken) <= lastSeq
    /\ \A i \in DOMAIN writing : writing[i].now # None => applied + 1 <= lastSeq

\* The shell is at most one batch ahead of the number that counts as applied.
InOrder ==
    /\ Len(taken) = applied \/ Len(taken) = applied + 1
    /\ \A i \in DOMAIN taken : taken[i] = Batch(i)

\* One write is under way, of the next number, for itself or for a batch before it.
Underway ==
    /\ \A i, j \in DOMAIN writing :
          writing[i].now # None /\ writing[j].now # None => i = j
    /\ \A i \in DOMAIN writing :
          /\ writing[i].now = None => writing[i].owner = None
          /\ writing[i].now # None =>
                /\ writing[i].now = Batch(applied + 1)
                /\ \/ writing[i].owner \in {None, Batch(applied + 1)}
                   \/ writing[i].owner.seq <= applied
                /\ writing[i].outcome = "ok" <=> Len(taken) = applied + 1

\* A batch is in one place: on the wire, waiting, the owner of a write, told, or
\* waiting in the page for its second try.
Owned(b) == \E i \in DOMAIN writing : writing[i].owner = b
OnePlace ==
    /\ \A b \in wire : b \notin pending /\ ~Owned(b)
    /\ \A b \in pending : ~Owned(b)
    /\ \A r \in replies : r.batch \notin wire /\ r.batch \notin pending /\ ~Owned(r.batch)
    /\ \A r, s \in replies : r.batch = s.batch => r = s
    /\ \A n \in timers :
          /\ Batch(n) \notin wire /\ Batch(n) \notin pending /\ ~Owned(Batch(n))
          /\ \A r \in replies : r.batch # Batch(n)

\* The next number does not come again while its write is under way, or was given
\* up and taken.
NextIsSettled ==
    Len(taken) = applied + 1 \/ (\E i \in DOMAIN writing : writing[i].now # None) =>
        /\ Batch(applied + 1) \notin wire /\ applied + 1 \notin timers
        /\ \A r \in replies : r.batch = Batch(applied + 1) => r.verdict # "backpressure"

\* What is confirmed was applied.
Honest ==
    /\ \A r \in replies : r.verdict = "accepted" => r.batch.seq <= applied
    /\ \A b \in confirmed : \E n \in 1..applied : b = Batch(n)

FirstPage == FirstTypes /\ OnlySent /\ InOrder /\ Underway /\ OnePlace /\ NextIsSettled /\ Honest
IInv == page \in Nat \ {0} /\ (page = 1 => FirstPage)

-----------------------------------------------------------------------------
(* Operators of the model.                                                 *)

LEMMA BatchFacts ==
    /\ None \notin Batches
    /\ \A n \in Nat \ {0} : Batch(n) \in Batches /\ Batch(n).seq = n /\ Batch(n).page = 1
    /\ \A b \in Batches : b = Batch(b.seq) /\ b.seq \in Nat \ {0} /\ b.page = 1
    /\ \A m, n \in Nat \ {0} : Batch(m) = Batch(n) => m = n
<1>1. \A n : Batch(n).seq = n /\ Batch(n).page = 1
  BY DEF Batch
<1>2. None.page = 0
  BY DEF None
<1>. QED
  BY <1>1, <1>2 DEF Batches

\* The answers to the batches of the page that is there.
LEMMA Told ==
    ASSUME page = 1, NEW bs \in SUBSET (Batches \cup {None}), NEW v
    PROVE  Answered(bs, v) = {[batch |-> b, verdict |-> v] : b \in bs \ {None}}
<1>1. \A b \in bs : b.page = page <=> b # None
  BY BatchFacts DEF None
<1>. QED
  BY <1>1 DEF Answered

\* An answer changes one entry of the queue of writes, a give-up too.
LEMMA Changed ==
    ASSUME writing \in Seq(Writes), NEW i \in DOMAIN writing, NEW w \in Writes,
           writing' = [writing EXCEPT ![i] = w]
    PROVE  /\ writing' \in Seq(Writes) /\ DOMAIN writing' = DOMAIN writing
           /\ writing'[i] = w
           /\ \A j \in DOMAIN writing : j # i => writing'[j] = writing[j]
<1>1. DOMAIN writing = 1..Len(writing)
  BY LenProperties
<1>2. writing' \in Seq(Writes)
  BY <1>1, ExceptSeq
<1>. QED
  BY <1>1, <1>2

LEMMA Queued ==
    ASSUME writing \in Seq(Writes), NEW w \in Writes, writing' = Append(writing, w)
    PROVE  /\ writing' \in Seq(Writes) /\ DOMAIN writing' = 1..Len(writing) + 1
           /\ DOMAIN writing = 1..Len(writing) /\ Len(writing) \in Nat
           /\ writing'[Len(writing) + 1] = w
           /\ \A j \in DOMAIN writing : writing'[j] = writing[j]
BY AppendProperties, LenProperties

LEMMA Served ==
    ASSUME writing \in Seq(Writes), writing # <<>>, writing' = Tail(writing)
    PROVE  /\ writing' \in Seq(Writes) /\ DOMAIN writing' = 1..Len(writing) - 1
           /\ DOMAIN writing = 1..Len(writing) /\ Len(writing) \in Nat \ {0}
           /\ Head(writing) = writing[1] /\ Head(writing) \in Writes /\ 1 \in DOMAIN writing
           /\ \A j \in DOMAIN writing' : writing'[j] = writing[j + 1] /\ j + 1 \in DOMAIN writing
<1>1. writing' \in Seq(Writes) /\ Len(writing') = Len(writing) - 1
      /\ \A j \in 1..Len(writing') : writing'[j] = writing[j + 1]
  BY HeadTailProperties
<1>2. DOMAIN writing = 1..Len(writing) /\ Len(writing) \in Nat \ {0} /\ DOMAIN writing' = 1..Len(writing')
  BY <1>1, EmptySeq, LenProperties
<1>3. Head(writing) = writing[1] /\ writing[1] \in Writes
  BY <1>2, ElementOfSeq
<1>. QED
  BY <1>1, <1>2, <1>3

\* What one write joined to others leaves them as.
LEMMA JoinedOne ==
    ASSUME NEW S, NEW s \in Seq(S), NEW t \in Seq(S), Len(t) = 1
    PROVE  /\ s \o t \in Seq(S) /\ Len(s \o t) = Len(s) + 1
           /\ (s \o t)[Len(s) + 1] = t[1]
           /\ \A j \in 1..Len(s) : (s \o t)[j] = s[j]
<1>1. Len(s) \in Nat
  BY LenProperties
<1>2. s \o t \in Seq(S) /\ Len(s \o t) = Len(s) + 1
  BY ConcatProperties
<1>3. \A j \in 1..Len(s) : (s \o t)[j] = s[j]
  BY ConcatProperties
<1>4. (s \o t)[Len(s) + 1] = t[1]
  <2> DEFINE k == Len(s) + 1
  <2>1. k \in 1..Len(s) + Len(t) /\ ~(k <= Len(s)) /\ k - Len(s) = 1
    BY <1>1
  <2>2. (s \o t)[k] = IF k <= Len(s) THEN s[k] ELSE t[k - Len(s)]
    <3> HIDE DEF k
    <3>. QED
      BY <2>1, ConcatProperties
  <2>. QED
    BY <2>1, <2>2
<1>. QED
  BY <1>2, <1>3, <1>4

-----------------------------------------------------------------------------
(* The page.                                                               *)

LEMMA SendStep ==
    ASSUME page = 1, FirstPage, Send
    PROVE  FirstPage'
<1> USE BatchFacts DEF FirstPage
<1>1. /\ lastSeq' = lastSeq + 1
      /\ wire' = wire \cup {Batch(lastSeq + 1)}
      /\ UNCHANGED <<applied, timers, pending, replies, writing, taken, confirmed>>
  BY DEF Send, Dispatch, order, Batch
<1>20. FirstTypes'
  BY <1>1 DEF FirstTypes
<1>21. OnlySent'
  BY <1>1 DEF OnlySent, FirstTypes
<1>22. InOrder'
  BY <1>1 DEF InOrder, FirstTypes
<1>23. Underway'
  BY <1>1 DEF Underway, FirstTypes
<1>24. OnePlace'
  BY <1>1 DEF OnePlace, FirstTypes, OnlySent, Underway, Owned
<1>25. NextIsSettled'
  BY <1>1 DEF NextIsSettled, FirstTypes, OnlySent
<1>26. Honest'
  BY <1>1 DEF Honest, FirstTypes
<1>. QED
  BY <1>20, <1>21, <1>22, <1>23, <1>24, <1>25, <1>26

LEMMA HearStep ==
    ASSUME page = 1, FirstPage, NEW r, Hear(r)
    PROVE  FirstPage'
<1> USE BatchFacts DEF FirstPage
<1>1. /\ r \in replies /\ replies' = replies \ {r}
      /\ \/ timers' \subseteq timers
         \/ r.verdict = "backpressure" /\ timers' = timers \cup {r.batch.seq}
      /\ confirmed' = confirmed \/ (r.verdict = "accepted" /\ confirmed' = confirmed \cup {r.batch})
      /\ UNCHANGED <<lastSeq, wire, applied, pending, writing, taken>>
  BY DEF Hear, order, Halt
<1>2. r.batch \in Batches /\ r.batch.seq \in Nat \ {0} /\ Batch(r.batch.seq) = r.batch
  BY <1>1 DEF FirstTypes
<1>20. FirstTypes'
  BY <1>1, <1>2 DEF FirstTypes
<1>21. OnlySent'
  <2>1. r.batch.seq <= lastSeq
    BY <1>1 DEF OnlySent
  <2>. QED
    BY <1>1, <2>1 DEF OnlySent
<1>22. InOrder'
  BY <1>1 DEF InOrder, FirstTypes
<1>23. Underway'
  BY <1>1 DEF Underway, FirstTypes
<1>24. OnePlace'
  <2>1. /\ r.batch \notin wire /\ r.batch \notin pending /\ ~Owned(r.batch)
        /\ \A s \in replies : s.batch = r.batch => s = r
    BY <1>1 DEF OnePlace
  <2>2. \A n \in timers' : \/ n \in timers
                          \/ Batch(n) = r.batch
    BY <1>1, <1>2
  <2>3. \A b : (Owned(b))' <=> Owned(b)
    BY <1>1 DEF Owned
  <2>4. ASSUME NEW n \in timers'
        PROVE  /\ Batch(n) \notin wire /\ Batch(n) \notin pending /\ ~Owned(Batch(n))
               /\ \A s \in replies' : s.batch # Batch(n)
    <3>1. CASE n \in timers
      BY <1>1, <3>1 DEF OnePlace
    <3>2. CASE Batch(n) = r.batch
      BY <1>1, <2>1, <3>2
    <3>. QED
      BY <2>2, <3>1, <3>2
  <2>. QED
    BY <1>1, <2>3, <2>4 DEF OnePlace
<1>25. NextIsSettled'
  BY <1>1 DEF NextIsSettled, FirstTypes
<1>26. Honest'
  BY <1>1 DEF Honest, FirstTypes
<1>. QED
  BY <1>20, <1>21, <1>22, <1>23, <1>24, <1>25, <1>26

LEMMA RetryTimerStep ==
    ASSUME page = 1, FirstPage, NEW n, RetryTimer(n)
    PROVE  FirstPage'
<1> USE BatchFacts DEF FirstPage
<1>1. /\ n \in timers /\ timers' = timers \ {n} /\ n \in Nat \ {0}
      /\ wire' = wire \cup {Batch(n)}
      /\ UNCHANGED <<lastSeq, applied, pending, replies, confirmed, writing, taken>>
  BY DEF RetryTimer, Dispatch, order, Batch, FirstTypes
<1>20. FirstTypes'
  BY <1>1 DEF FirstTypes
<1>21. OnlySent'
  BY <1>1 DEF OnlySent, FirstTypes
<1>22. InOrder'
  BY <1>1 DEF InOrder, FirstTypes
<1>23. Underway'
  BY <1>1 DEF Underway, FirstTypes
<1>24. OnePlace'
  BY <1>1 DEF OnePlace, FirstTypes, Owned
<1>25. NextIsSettled'
  BY <1>1 DEF NextIsSettled, FirstTypes
<1>26. Honest'
  BY <1>1 DEF Honest, FirstTypes
<1>. QED
  BY <1>20, <1>21, <1>22, <1>23, <1>24, <1>25, <1>26

LEMMA PageTimeoutStep ==
    ASSUME page = 1, FirstPage, NEW n, PageTimeout(n)
    PROVE  FirstPage'
<1> USE BatchFacts DEF FirstPage
<1>1. /\ timers' \subseteq timers
      /\ UNCHANGED <<lastSeq, applied, wire, replies, confirmed, pending, writing, taken>>
  BY DEF PageTimeout, order, Halt
<1>20. FirstTypes'
  BY <1>1 DEF FirstTypes
<1>21. OnlySent'
  BY <1>1 DEF OnlySent, FirstTypes
<1>22. InOrder'
  BY <1>1 DEF InOrder, FirstTypes
<1>23. Underway'
  BY <1>1 DEF Underway, FirstTypes
<1>24. OnePlace'
  BY <1>1 DEF OnePlace, FirstTypes, Owned
<1>25. NextIsSettled'
  BY <1>1 DEF NextIsSettled, FirstTypes
<1>26. Honest'
  BY <1>1 DEF Honest, FirstTypes
<1>. QED
  BY <1>20, <1>21, <1>22, <1>23, <1>24, <1>25, <1>26

-----------------------------------------------------------------------------
(* InputOrder.write.                                                       *)

LEMMA NotRunningStep ==
    ASSUME page = 1, FirstPage, NEW b, NotRunning(b)
    PROVE  FirstPage'
<1> USE BatchFacts DEF FirstPage
<1>1. /\ b \in wire /\ wire' = wire \ {b} /\ b \in Batches
      /\ \E v \in {"refused"} : replies' = replies \cup {[batch |-> b, verdict |-> v]}
      /\ UNCHANGED <<lastSeq, timers, applied, pending, confirmed, writing, taken>>
  <2>1. b \in Batches /\ b # None
    BY DEF NotRunning, Arrives, FirstTypes
  <2>2. \A v : Answered({b}, v) = {[batch |-> b, verdict |-> v]}
    BY <2>1, Told
  <2>. QED
    BY <2>1, <2>2 DEF NotRunning, Arrives, Tell, sender, order
<1>2. \E v \in Verdicts : replies' = replies \cup {[batch |-> b, verdict |-> v]}
  BY <1>1 DEF Verdicts
<1>20. FirstTypes'
  BY <1>1, <1>2 DEF FirstTypes
<1>21. OnlySent'
  BY <1>1 DEF OnlySent, FirstTypes
<1>22. InOrder'
  BY <1>1 DEF InOrder, FirstTypes
<1>23. Underway'
  BY <1>1 DEF Underway, FirstTypes
<1>24. OnePlace'
  BY <1>1 DEF OnePlace, FirstTypes, Owned
<1>25. NextIsSettled'
  BY <1>1 DEF NextIsSettled, FirstTypes
<1>26. Honest'
  BY <1>1 DEF Honest, FirstTypes
<1>. QED
  BY <1>20, <1>21, <1>22, <1>23, <1>24, <1>25, <1>26

LEMMA RepeatedStep ==
    ASSUME page = 1, FirstPage, NEW b, Repeated(b)
    PROVE  FirstPage'
<1> USE BatchFacts DEF FirstPage
<1>1. /\ b \in wire /\ b.seq <= applied /\ wire' = wire \ {b} /\ b \in Batches
      /\ \E v \in {"accepted"} : replies' = replies \cup {[batch |-> b, verdict |-> v]}
      /\ UNCHANGED <<lastSeq, timers, applied, pending, confirmed, writing, taken>>
  <2>1. b \in Batches /\ b # None
    BY DEF Repeated, Arrives, FirstTypes
  <2>2. \A v : Answered({b}, v) = {[batch |-> b, verdict |-> v]}
    BY <2>1, Told
  <2>. QED
    BY <2>1, <2>2 DEF Repeated, Arrives, Tell, sender, order
<1>2. \E v \in Verdicts : replies' = replies \cup {[batch |-> b, verdict |-> v]}
  BY <1>1 DEF Verdicts
<1>20. FirstTypes'
  BY <1>1, <1>2 DEF FirstTypes
<1>21. OnlySent'
  BY <1>1 DEF OnlySent, FirstTypes
<1>22. InOrder'
  BY <1>1 DEF InOrder, FirstTypes
<1>23. Underway'
  BY <1>1 DEF Underway, FirstTypes
<1>24. OnePlace'
  BY <1>1 DEF OnePlace, FirstTypes, Owned
<1>25. NextIsSettled'
  BY <1>1 DEF NextIsSettled, FirstTypes
<1>26. Honest'
  BY <1>1 DEF Honest, FirstTypes
<1>. QED
  BY <1>20, <1>21, <1>22, <1>23, <1>24, <1>25, <1>26

LEMMA RefusedStep ==
    ASSUME page = 1, FirstPage, NEW b, Refused(b)
    PROVE  FirstPage'
<1> USE BatchFacts DEF FirstPage
<1>1. /\ b \in wire /\ b.seq > applied + 1 /\ wire' = wire \ {b} /\ b \in Batches
      /\ \E v \in {"refused", "backpressure"} : replies' = replies \cup {[batch |-> b, verdict |-> v]}
      /\ UNCHANGED <<lastSeq, timers, applied, pending, confirmed, writing, taken>>
  <2>1. b \in Batches /\ b # None
    BY DEF Refused, Arrives, FirstTypes
  <2>2. \A v : Answered({b}, v) = {[batch |-> b, verdict |-> v]}
    BY <2>1, Told
  <2>. QED
    BY <2>1, <2>2 DEF Refused, Arrives, Tell, sender, order
<1>2. \E v \in Verdicts : replies' = replies \cup {[batch |-> b, verdict |-> v]}
  BY <1>1 DEF Verdicts
<1>20. FirstTypes'
  BY <1>1, <1>2 DEF FirstTypes
<1>21. OnlySent'
  BY <1>1 DEF OnlySent, FirstTypes
<1>22. InOrder'
  BY <1>1 DEF InOrder, FirstTypes
<1>23. Underway'
  BY <1>1 DEF Underway, FirstTypes
<1>24. OnePlace'
  BY <1>1 DEF OnePlace, FirstTypes, Owned
<1>25. NextIsSettled'
  BY <1>1 DEF NextIsSettled, FirstTypes
<1>26. Honest'
  BY <1>1 DEF Honest, FirstTypes
<1>. QED
  BY <1>20, <1>21, <1>22, <1>23, <1>24, <1>25, <1>26

LEMMA ExpectedStep ==
    ASSUME page = 1, FirstPage, NEW b, Expected(b)
    PROVE  FirstPage'
<1> USE BatchFacts DEF FirstPage
<1>1. /\ b \in wire /\ wire' = wire \ {b} /\ b = Batch(applied + 1)
      /\ writing' = Append(writing, [owner |-> b, now |-> b, outcome |-> "asked"])
      /\ UNCHANGED <<lastSeq, timers, applied, pending, confirmed, replies, taken>>
  BY DEF Expected, Arrives, RustWrite, sender, order, FirstTypes
<1>2. /\ Len(taken) = applied
      /\ \A i \in DOMAIN writing : writing[i].now = None
  BY <1>1 DEF NextIsSettled, InOrder
<1>3. /\ writing' \in Seq(Writes) /\ DOMAIN writing' = 1..Len(writing) + 1
      /\ DOMAIN writing = 1..Len(writing) /\ Len(writing) \in Nat
      /\ writing'[Len(writing) + 1] = [owner |-> b, now |-> b, outcome |-> "asked"]
      /\ \A j \in DOMAIN writing : writing'[j] = writing[j]
  <2>1. [owner |-> b, now |-> b, outcome |-> "asked"] \in Writes
    BY <1>1 DEF Writes, FirstTypes
  <2>. QED
    BY <1>1, <2>1, Queued DEF FirstTypes
<1>20. FirstTypes'
  BY <1>1, <1>2, <1>3 DEF FirstTypes
<1>21. OnlySent'
  BY <1>1, <1>2, <1>3 DEF OnlySent, FirstTypes
<1>22. InOrder'
  BY <1>1, <1>2, <1>3 DEF InOrder, FirstTypes
<1>23. Underway'
  BY <1>1, <1>2, <1>3 DEF Underway, FirstTypes
<1>24. OnePlace'
  BY <1>1, <1>2, <1>3 DEF OnePlace, FirstTypes, Owned
<1>25. NextIsSettled'
  BY <1>1, <1>2, <1>3 DEF NextIsSettled, FirstTypes, OnePlace
<1>26. Honest'
  BY <1>1, <1>2, <1>3 DEF Honest, FirstTypes
<1>. QED
  BY <1>20, <1>21, <1>22, <1>23, <1>24, <1>25, <1>26

LEMMA ParkedStep ==
    ASSUME page = 1, FirstPage, NEW b, Parked(b)
    PROVE  FirstPage'
<1> USE BatchFacts DEF FirstPage
<1>1. /\ b \in wire /\ wire' = wire \ {b}
      /\ pending' \subseteq pending \cup {b}
      /\ UNCHANGED <<lastSeq, timers, applied, replies, confirmed, writing, taken>>
  BY DEF Parked, Arrives, sender
<1>20. FirstTypes'
  BY <1>1 DEF FirstTypes
<1>21. OnlySent'
  BY <1>1 DEF OnlySent, FirstTypes
<1>22. InOrder'
  BY <1>1 DEF InOrder, FirstTypes
<1>23. Underway'
  BY <1>1 DEF Underway, FirstTypes
<1>24. OnePlace'
  BY <1>1 DEF OnePlace, FirstTypes, Owned
<1>25. NextIsSettled'
  BY <1>1 DEF NextIsSettled, FirstTypes
<1>26. Honest'
  BY <1>1 DEF Honest, FirstTypes
<1>. QED
  BY <1>20, <1>21, <1>22, <1>23, <1>24, <1>25, <1>26

LEMMA GapExpiresStep ==
    ASSUME page = 1, FirstPage, GapExpires
    PROVE  FirstPage'
<1> USE BatchFacts DEF FirstPage
<1>1. /\ pending' = {}
      /\ replies' = replies \cup {[batch |-> c, verdict |-> "refused"] : c \in pending}
      /\ UNCHANGED <<lastSeq, timers, applied, wire, confirmed, writing, taken>>
  <2>1. Answered(pending, "refused") = {[batch |-> c, verdict |-> "refused"] : c \in pending}
    BY Told DEF FirstTypes
  <2>. QED
    BY <2>1 DEF GapExpires, FailPending, Tell, sender
<1>20. FirstTypes'
  BY <1>1 DEF FirstTypes, Verdicts
<1>21. OnlySent'
  BY <1>1 DEF OnlySent, FirstTypes
<1>22. InOrder'
  BY <1>1 DEF InOrder, FirstTypes
<1>23. Underway'
  BY <1>1 DEF Underway, FirstTypes
<1>24. OnePlace'
  BY <1>1 DEF OnePlace, FirstTypes, Owned
<1>25. NextIsSettled'
  BY <1>1 DEF NextIsSettled, FirstTypes
<1>26. Honest'
  BY <1>1 DEF Honest, FirstTypes
<1>. QED
  BY <1>20, <1>21, <1>22, <1>23, <1>24, <1>25, <1>26

-----------------------------------------------------------------------------
(* Writes of the system runtime and their answers.                         *)

LEMMA TakeStep ==
    ASSUME page = 1, FirstPage, NEW i, Take(i)
    PROVE  FirstPage'
<1> USE BatchFacts DEF FirstPage
<1>1. /\ i \in DOMAIN writing /\ writing[i].outcome = "asked" /\ writing[i].now # None
      /\ taken' = Append(taken, writing[i].now)
      /\ writing' = [writing EXCEPT ![i] = [writing[i] EXCEPT !.outcome = "ok"]]
      /\ UNCHANGED <<lastSeq, timers, applied, wire, replies, confirmed, pending>>
  BY DEF Take, IsFirst, sender, order
<1>2. writing[i].now = Batch(applied + 1) /\ Len(taken) = applied
  BY <1>1 DEF Underway, InOrder
<1>3. /\ writing' \in Seq(Writes) /\ DOMAIN writing' = DOMAIN writing
      /\ writing'[i] = [writing[i] EXCEPT !.outcome = "ok"]
      /\ \A j \in DOMAIN writing : j # i => writing'[j] = writing[j]
  <2>1. writing[i] \in Writes
    BY <1>1, ElementOfSeq DEF FirstTypes
  <2>2. [writing[i] EXCEPT !.outcome = "ok"] \in Writes
    BY <1>1, <2>1 DEF Writes
  <2>. QED
    BY <1>1, <2>2, Changed DEF FirstTypes
<1>4. /\ \A j \in DOMAIN writing : writing'[j].now = writing[j].now
      /\ \A j \in DOMAIN writing : writing'[j].owner = writing[j].owner
      /\ writing'[i].outcome = "ok"
  <2>1. writing[i] \in Writes
    BY <1>1, ElementOfSeq DEF FirstTypes
  <2>. QED
    BY <1>1, <1>3, <2>1 DEF Writes
<1>5. /\ taken' \in Seq(Batches) /\ Len(taken') = applied + 1
      /\ DOMAIN taken' = 1..applied + 1 /\ DOMAIN taken = 1..applied
      /\ \A j \in 1..applied : taken'[j] = taken[j]
      /\ taken'[applied + 1] = Batch(applied + 1)
  BY <1>1, <1>2, AppendProperties, LenProperties DEF FirstTypes
<1>20. FirstTypes'
  BY <1>1, <1>2, <1>3, <1>4, <1>5 DEF FirstTypes
<1>21. OnlySent'
  BY <1>1, <1>2, <1>3, <1>4, <1>5 DEF OnlySent, FirstTypes
<1>22. InOrder'
  BY <1>1, <1>2, <1>3, <1>4, <1>5 DEF InOrder, FirstTypes
<1>23. Underway'
  BY <1>1, <1>2, <1>3, <1>4, <1>5 DEF Underway, FirstTypes
<1>24. OnePlace'
  BY <1>1, <1>2, <1>3, <1>4, <1>5 DEF OnePlace, FirstTypes, Owned
<1>25. NextIsSettled'
  BY <1>1, <1>2, <1>3, <1>4, <1>5 DEF NextIsSettled, FirstTypes
<1>26. Honest'
  BY <1>1, <1>2, <1>3, <1>4, <1>5 DEF Honest, FirstTypes
<1>. QED
  BY <1>20, <1>21, <1>22, <1>23, <1>24, <1>25, <1>26

LEMMA RefuseStep ==
    ASSUME page = 1, FirstPage, NEW i, NEW outcome \in {"backpressure", "refused"}, Refuse(i, outcome)
    PROVE  FirstPage'
<1> USE BatchFacts DEF FirstPage
<1>1. /\ i \in DOMAIN writing /\ writing[i].outcome = "asked" /\ writing[i].now # None
      /\ writing' = [writing EXCEPT ![i] = [writing[i] EXCEPT !.outcome = outcome]]
      /\ UNCHANGED <<lastSeq, timers, applied, wire, replies, confirmed, pending, taken>>
  BY DEF Refuse, IsFirst, sender, order
<1>3. /\ writing' \in Seq(Writes) /\ DOMAIN writing' = DOMAIN writing
      /\ writing'[i] = [writing[i] EXCEPT !.outcome = outcome]
      /\ \A j \in DOMAIN writing : j # i => writing'[j] = writing[j]
  <2>1. writing[i] \in Writes
    BY <1>1, ElementOfSeq DEF FirstTypes
  <2>2. [writing[i] EXCEPT !.outcome = outcome] \in Writes
    BY <1>1, <2>1 DEF Writes
  <2>. QED
    BY <1>1, <2>2, Changed DEF FirstTypes
<1>4. /\ \A j \in DOMAIN writing : writing'[j].now = writing[j].now
      /\ \A j \in DOMAIN writing : writing'[j].owner = writing[j].owner
      /\ writing'[i].outcome = outcome
  <2>1. writing[i] \in Writes
    BY <1>1, ElementOfSeq DEF FirstTypes
  <2>. QED
    BY <1>1, <1>3, <2>1 DEF Writes
<1>20. FirstTypes'
  BY <1>1, <1>3, <1>4 DEF FirstTypes
<1>21. OnlySent'
  BY <1>1, <1>3, <1>4 DEF OnlySent, FirstTypes
<1>22. InOrder'
  BY <1>1, <1>3, <1>4 DEF InOrder, FirstTypes
<1>23. Underway'
  BY <1>1, <1>3, <1>4 DEF Underway, FirstTypes
<1>24. OnePlace'
  BY <1>1, <1>3, <1>4 DEF OnePlace, FirstTypes, Owned
<1>25. NextIsSettled'
  BY <1>1, <1>3, <1>4 DEF NextIsSettled, FirstTypes
<1>26. Honest'
  BY <1>1, <1>3, <1>4 DEF Honest, FirstTypes
<1>. QED
  BY <1>20, <1>21, <1>22, <1>23, <1>24, <1>25, <1>26

LEMMA GiveUpStep ==
    ASSUME page = 1, FirstPage, NEW i, GiveUp(i)
    PROVE  FirstPage'
<1> USE BatchFacts DEF FirstPage
<1>1. /\ i \in DOMAIN writing /\ writing[i].owner # None /\ writing[i].owner \in Batches
      /\ replies' = replies \cup {[batch |-> writing[i].owner, verdict |-> "refused"]}
      /\ writing' = [writing EXCEPT ![i] = [writing[i] EXCEPT !.owner = None]]
      /\ UNCHANGED <<lastSeq, timers, applied, wire, confirmed, pending, taken>>
  <2>1. i \in DOMAIN writing /\ writing[i].owner # None /\ writing[i] \in Writes
    BY ElementOfSeq DEF GiveUp, FirstTypes
  <2>2. writing[i].owner \in Batches
    BY <2>1 DEF Writes
  <2>3. Answered({writing[i].owner}, "refused") = {[batch |-> writing[i].owner, verdict |-> "refused"]}
    BY <2>1, <2>2, Told
  <2>. QED
    BY <2>1, <2>2, <2>3 DEF GiveUp, Tell, sender, order
<1>3. /\ writing' \in Seq(Writes) /\ DOMAIN writing' = DOMAIN writing
      /\ writing'[i] = [writing[i] EXCEPT !.owner = None]
      /\ \A j \in DOMAIN writing : j # i => writing'[j] = writing[j]
  <2>1. writing[i] \in Writes
    BY <1>1, ElementOfSeq DEF FirstTypes
  <2>2. [writing[i] EXCEPT !.owner = None] \in Writes
    BY <1>1, <2>1 DEF Writes
  <2>. QED
    BY <1>1, <2>2, Changed DEF FirstTypes
<1>4. /\ \A j \in DOMAIN writing : writing'[j].now = writing[j].now
      /\ \A j \in DOMAIN writing : writing'[j].outcome = writing[j].outcome
      /\ \A j \in DOMAIN writing : j # i => writing'[j].owner = writing[j].owner
      /\ writing'[i].owner = None
  <2>1. writing[i] \in Writes
    BY <1>1, ElementOfSeq DEF FirstTypes
  <2>. QED
    BY <1>1, <1>3, <2>1 DEF Writes
<1>5. writing[i].owner.seq <= lastSeq
  <2>1. writing[i].now # None
    BY <1>1 DEF Underway
  <2>2. applied + 1 <= lastSeq /\ applied \in Nat /\ lastSeq \in Nat
    BY <1>1, <2>1 DEF OnlySent, FirstTypes
  <2>3. CASE writing[i].owner = Batch(applied + 1)
    BY <2>2, <2>3
  <2>4. CASE writing[i].owner.seq <= applied
    BY <1>1, <2>2, <2>4
  <2>. QED
    BY <1>1, <2>1, <2>3, <2>4 DEF Underway
<1>20. FirstTypes'
  BY <1>1, <1>3, <1>4 DEF FirstTypes, Verdicts
<1>21. OnlySent'
  BY <1>1, <1>3, <1>4, <1>5 DEF OnlySent, FirstTypes
<1>22. InOrder'
  BY <1>1, <1>3, <1>4 DEF InOrder, FirstTypes
<1>23. Underway'
  BY <1>1, <1>3, <1>4 DEF Underway, FirstTypes
<1>24. OnePlace'
  <2>1. \A b : b # None /\ (Owned(b))' => Owned(b) /\ b # writing[i].owner
    <3>1. \A j \in DOMAIN writing : j # i => writing[j].owner = None \/ writing[j].owner # writing[i].owner
      BY <1>1 DEF Underway
    <3>. QED
      BY <1>1, <1>3, <1>4, <3>1 DEF Owned
  <2>2. Owned(writing[i].owner)
    BY <1>1 DEF Owned
  <2>3. /\ None \notin wire \cup pending
        /\ \A r \in replies : r.batch # None
    BY DEF FirstTypes
  <2>4. /\ \A b \in wire : b \notin pending /\ ~(Owned(b))'
        /\ \A b \in pending : ~(Owned(b))'
        /\ writing[i].owner \notin wire /\ writing[i].owner \notin pending /\ \A b : b = writing[i].owner => ~(Owned(b))'
        /\ \A r \in replies : r.batch # writing[i].owner /\ ~(Owned(r.batch))'
    <3>1. \A b \in wire \cup pending : b # None /\ ~(Owned(b))'
      BY <2>1, <2>3 DEF OnePlace
    <3>2. \A r \in replies : ~(Owned(r.batch))'
      BY <2>1, <2>3 DEF OnePlace
    <3>3. \A b : b = writing[i].owner => ~(Owned(b))'
      BY <1>1, <2>1
    <3>. QED
      BY <2>2, <3>1, <3>2, <3>3 DEF OnePlace
  <2>5. \A r \in replies' : r \in replies \/ r = [batch |-> writing[i].owner, verdict |-> "refused"]
    BY <1>1
  <2>6. \A r, s \in replies' : r.batch = s.batch => r = s
    BY <2>4, <2>5 DEF OnePlace
  <2>7. \A r \in replies' : r.batch \notin wire' /\ r.batch \notin pending' /\ ~(Owned(r.batch))'
    BY <1>1, <2>4, <2>5 DEF OnePlace
  <2>8. ASSUME NEW n \in timers
        PROVE  /\ Batch(n) \notin wire /\ Batch(n) \notin pending /\ ~(Owned(Batch(n)))'
               /\ \A r \in replies' : r.batch # Batch(n)
    <3>1. /\ Batch(n) \notin wire /\ Batch(n) \notin pending /\ ~Owned(Batch(n))
          /\ \A r \in replies : r.batch # Batch(n)
      BY DEF OnePlace
    <3>2. Batch(n) # None
      BY DEF FirstTypes
    <3>. QED
      BY <2>1, <2>2, <2>5, <3>1, <3>2
  <2>. QED
    BY <1>1, <2>4, <2>6, <2>7, <2>8 DEF OnePlace
<1>25. NextIsSettled'
  BY <1>1, <1>3, <1>4 DEF NextIsSettled, FirstTypes
<1>26. Honest'
  BY <1>1, <1>3, <1>4 DEF Honest, FirstTypes
<1>. QED
  BY <1>20, <1>21, <1>22, <1>23, <1>24, <1>25, <1>26

LEMMA IgnoredStep ==
    ASSUME page = 1, FirstPage, Ignored
    PROVE  FirstPage'
<1> USE BatchFacts DEF FirstPage
<1>1. /\ writing # <<>> /\ Head(writing).now # None /\ Head(writing).outcome # "asked"
      /\ writing' = Tail(writing)
      /\ UNCHANGED <<lastSeq, timers, applied, wire, replies, confirmed, pending, taken>>
  BY DEF Ignored, sender, order
<1>2. /\ writing' \in Seq(Writes) /\ DOMAIN writing' = 1..Len(writing) - 1
      /\ DOMAIN writing = 1..Len(writing) /\ Len(writing) \in Nat \ {0}
      /\ Head(writing) = writing[1] /\ Head(writing) \in Writes /\ 1 \in DOMAIN writing
      /\ \A j \in DOMAIN writing' : writing'[j] = writing[j + 1] /\ j + 1 \in DOMAIN writing
  BY <1>1, Served DEF FirstTypes
<1>20. FirstTypes'
  BY <1>1, <1>2 DEF FirstTypes
<1>21. OnlySent'
  BY <1>1, <1>2 DEF OnlySent, FirstTypes
<1>22. InOrder'
  BY <1>1, <1>2 DEF InOrder, FirstTypes
<1>23. Underway'
  BY <1>1, <1>2 DEF Underway, FirstTypes
<1>24. OnePlace'
  BY <1>1, <1>2 DEF OnePlace, FirstTypes, Owned
<1>25. NextIsSettled'
  BY <1>1, <1>2 DEF NextIsSettled, FirstTypes
<1>26. Honest'
  BY <1>1, <1>2 DEF Honest, FirstTypes
<1>. QED
  BY <1>20, <1>21, <1>22, <1>23, <1>24, <1>25, <1>26

LEMMA FailedStep ==
    ASSUME page = 1, FirstPage, Failed
    PROVE  FirstPage'
<1> USE BatchFacts DEF FirstPage
<1>1. /\ writing # <<>> /\ Head(writing).outcome \in {"backpressure", "refused"}
      /\ replies' = replies \cup Answered({Head(writing).owner}, Head(writing).outcome)
      /\ writing' = Tail(writing)
      /\ UNCHANGED <<lastSeq, timers, applied, wire, confirmed, pending, taken>>
  BY DEF Failed, Tell, sender, order
<1>2. /\ writing' \in Seq(Writes) /\ DOMAIN writing' = 1..Len(writing) - 1
      /\ DOMAIN writing = 1..Len(writing) /\ Len(writing) \in Nat \ {0}
      /\ Head(writing) = writing[1] /\ Head(writing) \in Writes /\ 1 \in DOMAIN writing
      /\ \A j \in DOMAIN writing' : writing'[j] = writing[j + 1] /\ j + 1 \in DOMAIN writing
  BY <1>1, Served DEF FirstTypes
<1>3. /\ Head(writing).owner \in Batches \cup {None}
      /\ Head(writing).now # None => Len(taken) = applied
      /\ Head(writing).owner # None => Head(writing).now # None
  BY <1>1, <1>2 DEF Writes, Underway, InOrder
<1>4. CASE Head(writing).owner = None
  <2>1. UNCHANGED <<lastSeq, timers, applied, wire, replies, confirmed, pending, taken>>
    BY <1>1, <1>4, Told
  <2>2. FirstTypes'
    BY <1>2, <1>3, <2>1 DEF FirstTypes
  <2>3. OnlySent'
    BY <1>2, <1>3, <2>1 DEF OnlySent, FirstTypes
  <2>4. InOrder'
    BY <1>2, <1>3, <2>1 DEF InOrder, FirstTypes
  <2>5. Underway'
    BY <1>2, <1>3, <2>1 DEF Underway, FirstTypes
  <2>6. OnePlace'
    BY <1>2, <1>3, <2>1 DEF OnePlace, FirstTypes, Owned
  <2>7. NextIsSettled'
    BY <1>2, <1>3, <2>1 DEF NextIsSettled, FirstTypes
  <2>8. Honest'
    BY <1>2, <1>3, <2>1 DEF Honest, FirstTypes
  <2>. QED
    BY <2>2, <2>3, <2>4, <2>5, <2>6, <2>7, <2>8
<1>5. CASE Head(writing).owner # None
  <2> DEFINE o == Head(writing).owner
             v == Head(writing).outcome
  <2>1. /\ replies' = replies \cup {[batch |-> o, verdict |-> v]}
        /\ o \in Batches /\ o # None /\ v \in Verdicts /\ v # "accepted"
        /\ Len(taken) = applied
        /\ o.seq <= lastSeq
        /\ UNCHANGED <<lastSeq, timers, applied, wire, confirmed, pending, taken>>
        /\ writing' \in Seq(Writes) /\ DOMAIN writing' \subseteq Nat
    <3>1. o \in Batches /\ v \in {"backpressure", "refused"}
      BY <1>1, <1>3, <1>5
    <3>2. replies' = replies \cup {[batch |-> o, verdict |-> v]}
      BY <1>1, <1>5, <3>1, Told
    <3>3. applied + 1 <= lastSeq /\ applied \in Nat /\ lastSeq \in Nat
      BY <1>2, <1>3, <1>5 DEF OnlySent, FirstTypes
    <3>4. o = Batch(applied + 1) \/ o.seq <= applied
      BY <1>2, <1>3, <1>5 DEF Underway
    <3>5. o.seq <= lastSeq
      BY <3>1, <3>3, <3>4
    <3>6. DOMAIN writing' \subseteq Nat
      BY <1>2
    <3>7. Len(taken) = applied /\ v \in Verdicts /\ v # "accepted"
      BY <1>3, <1>5, <3>1 DEF Verdicts
    <3>. QED
      BY <1>1, <1>2, <1>5, <3>1, <3>2, <3>5, <3>6, <3>7
  <2>2. \A j \in DOMAIN writing' : writing'[j].now = None /\ writing'[j].owner = None
    BY <1>2, <1>3, <1>5 DEF Underway
  <2>3. \A b : b # None => ~(Owned(b))'
    BY <2>2 DEF Owned
  <2>4. Owned(o)
    BY <1>2 DEF Owned
  <2> HIDE DEF o, v
  <2>12. FirstTypes'
    BY <2>1, <2>2, <2>3, <2>4 DEF FirstTypes
  <2>13. OnlySent'
    BY <2>1, <2>2, <2>3, <2>4 DEF OnlySent, FirstTypes
  <2>14. InOrder'
    BY <2>1, <2>2, <2>3, <2>4 DEF InOrder, FirstTypes
  <2>15. Underway'
    BY <2>1, <2>2, <2>3, <2>4 DEF Underway, FirstTypes
  <2>16. OnePlace'
    BY <2>1, <2>2, <2>3, <2>4 DEF OnePlace, FirstTypes
  <2>17. NextIsSettled'
    BY <2>1, <2>2, <2>3, <2>4 DEF NextIsSettled, FirstTypes
  <2>18. Honest'
    BY <2>1, <2>2, <2>3, <2>4 DEF Honest, FirstTypes
  <2>. QED
    BY <2>12, <2>13, <2>14, <2>15, <2>16, <2>17, <2>18
<1>. QED
  BY <1>4, <1>5

LEMMA AppliedStep ==
    ASSUME page = 1, FirstPage, Applied
    PROVE  FirstPage'
<1> USE BatchFacts DEF FirstPage
<1> DEFINE w == Head(writing)
           left == IF w.now = w.owner THEN pending ELSE {c \in pending : c.seq # w.now.seq}
           next == {c \in left : c.seq = w.now.seq + 1}
           done == (IF next = {} THEN {w.owner} ELSE {}) \cup (pending \cap {w.now})
           more == [i \in 1..Cardinality(next) |->
                       [owner |-> w.owner, now |-> CHOOSE c \in next : TRUE, outcome |-> "asked"]]
<1>1. /\ writing # <<>> /\ w.outcome = "ok" /\ w.owner # None
      /\ applied' = w.now.seq /\ pending' = left
      /\ replies' = replies \cup Answered(done, "accepted")
      /\ writing' = Tail(writing) \o more
      /\ UNCHANGED <<lastSeq, timers, wire, confirmed, taken>>
  BY DEF Applied, Tell, sender
<1>2. /\ Tail(writing) \in Seq(Writes) /\ Len(Tail(writing)) = Len(writing) - 1
      /\ DOMAIN writing = 1..Len(writing) /\ Len(writing) \in Nat \ {0} /\ 1 \in DOMAIN writing
      /\ w = writing[1] /\ w \in Writes
      /\ \A j \in 1..Len(writing) - 1 : Tail(writing)[j] = writing[j + 1] /\ j + 1 \in DOMAIN writing
  <2>1. /\ Tail(writing) \in Seq(Writes) /\ Len(Tail(writing)) = Len(writing) - 1
        /\ \A j \in 1..Len(Tail(writing)) : Tail(writing)[j] = writing[j + 1]
    <3>1. writing \in Seq(Writes) /\ writing # <<>>
      BY <1>1 DEF FirstTypes
    <3>. QED
      BY <3>1, HeadTailProperties
  <2>2. DOMAIN writing = 1..Len(writing) /\ Len(writing) \in Nat \ {0}
    BY <1>1, EmptySeq, LenProperties DEF FirstTypes
  <2>3. w = writing[1] /\ writing[1] \in Writes
    BY <2>2, ElementOfSeq DEF FirstTypes
  <2>. QED
    BY <2>1, <2>2, <2>3
<1>3. /\ w.owner \in Batches /\ w.now = Batch(applied + 1) /\ Len(taken) = applied + 1
      /\ applied' = applied + 1 /\ applied' <= lastSeq
      /\ w.owner = w.now \/ w.owner.seq <= applied
      /\ applied \in Nat /\ lastSeq \in Nat
  <2>1. w.owner \in Batches /\ w.now # None
    BY <1>1, <1>2 DEF Writes, Underway
  <2>2. w.now = Batch(applied + 1) /\ Len(taken) = applied + 1 /\ applied + 1 <= lastSeq
    BY <1>1, <1>2, <2>1 DEF Underway, OnlySent
  <2>3. w.owner = w.now \/ w.owner.seq <= applied
    BY <1>1, <1>2, <2>1, <2>2 DEF Underway
  <2>4. applied \in Nat /\ lastSeq \in Nat
    BY DEF FirstTypes
  <2>5. applied' = applied + 1
    <3>1. applied' = w.now.seq
      BY <1>1
    <3>2. w.now = Batch(applied + 1) /\ applied + 1 \in Nat
      BY <2>2, <2>4
    <3> HIDE DEF w
    <3>. QED
      BY <3>1, <3>2 DEF Batch
  <2>. QED
    BY <2>1, <2>2, <2>3, <2>4, <2>5
<1>4. \A j \in 1..Len(writing) - 1 : Tail(writing)[j].now = None /\ Tail(writing)[j].owner = None
  BY <1>2, <1>3 DEF Underway
<1>5. Owned(w.owner)
  BY <1>2 DEF Owned
<1>6. \A c : c \in left <=> c \in pending /\ c # w.now
  <2>1. CASE w.now = w.owner
    BY <1>5, <2>1 DEF OnePlace
  <2>2. CASE w.now # w.owner
    BY <1>3, <2>2 DEF FirstTypes
  <2>. QED
    BY <2>1, <2>2
<1>7. \A c : c \in next <=> c \in pending /\ c = Batch(applied + 2)
  BY <1>3, <1>6 DEF FirstTypes
<1>8. done \in SUBSET Batches
  BY <1>3 DEF FirstTypes
<1>9. replies' = replies \cup {[batch |-> b, verdict |-> "accepted"] : b \in done}
  <2>1. done \in SUBSET (Batches \cup {None}) /\ done \ {None} = done
    BY <1>8
  <2>2. replies' = replies \cup Answered(done, "accepted")
    BY <1>1
  <2> HIDE DEF done
  <2>. QED
    BY <2>1, <2>2, Told
<1>10. \A b \in done : \/ b = w.owner /\ next = {}
                       \/ b = w.now /\ b \in pending /\ b # w.owner
  BY <1>5 DEF OnePlace
<1>11. \A b \in done : b.seq <= applied + 1
  BY <1>3, <1>8, <1>10
<1> HIDE DEF left, done, next
<1>12. CASE next = {}
  <2>1. writing' = Tail(writing)
    <3>1. Cardinality(next) = 0
      BY <1>12, FS_EmptySet
    <3>2. more = <<>>
      BY <3>1
    <3>. QED
      BY <1>1, <1>2, <3>2, ConcatEmptySeq
  <2>2. /\ writing' \in Seq(Writes)
        /\ \A j \in DOMAIN writing' : writing'[j].now = None /\ writing'[j].owner = None
    BY <1>2, <1>4, <2>1, LenProperties
  <2>3. \A b : b # None => ~(Owned(b))'
    BY <2>2 DEF Owned
  <2>4. \A b \in done : b \notin wire /\ b \notin pending' /\ b # None /\ \A r \in replies : r.batch # b
    BY <1>1, <1>3, <1>5, <1>6, <1>8, <1>10, <1>12 DEF OnePlace
  <2>5. pending' \subseteq pending /\ UNCHANGED <<lastSeq, timers, wire, confirmed, taken>>
    BY <1>1, <1>6
  <2>11. FirstTypes'
    BY <1>3, <1>8, <1>9, <2>2, <2>5 DEF FirstTypes, Verdicts
  <2>12. OnlySent'
    BY <1>3, <1>8, <1>9, <1>11, <2>2, <2>3, <2>4, <2>5 DEF OnlySent, FirstTypes
  <2>13. InOrder'
    BY <1>3, <1>8, <1>9, <1>11, <2>2, <2>3, <2>4, <2>5 DEF InOrder, FirstTypes
  <2>14. Underway'
    BY <1>3, <1>8, <1>9, <1>11, <2>2, <2>3, <2>4, <2>5 DEF Underway, FirstTypes
  <2>15. OnePlace'
    <3>1. \A n \in timers : Batch(n) \notin done /\ Batch(n) # None
      BY <1>5, <1>10 DEF OnePlace, FirstTypes
    <3>2. /\ wire' = wire /\ timers' = timers /\ pending' \subseteq pending
          /\ wire \subseteq Batches /\ pending \subseteq Batches /\ None \notin Batches
          /\ \A r \in replies : r.batch \in Batches
      BY <2>5 DEF FirstTypes
    <3>3. \A r \in replies' : r \in replies \/ (r.batch \in done /\ r = [batch |-> r.batch, verdict |-> "accepted"])
      BY <1>9
    <3>4. \A b \in Batches : ~(Owned(b))'
      BY <2>3, <3>2
    <3>5. \A b \in wire' : b \notin pending' /\ ~(Owned(b))'
      BY <3>2, <3>4 DEF OnePlace
    <3>6. \A r \in replies' : r.batch \notin wire' /\ r.batch \notin pending' /\ ~(Owned(r.batch))'
      BY <2>3, <2>4, <3>2, <3>3, <3>4 DEF OnePlace
    <3>7. \A r, q \in replies' : r.batch = q.batch => r = q
      BY <2>4, <3>3 DEF OnePlace
    <3>8. ASSUME NEW n \in timers
          PROVE  /\ Batch(n) \notin wire' /\ Batch(n) \notin pending' /\ ~(Owned(Batch(n)))'
                 /\ \A r \in replies' : r.batch # Batch(n)
      BY <2>3, <3>1, <3>2, <3>3 DEF OnePlace
    <3>9. \A b \in pending' : ~(Owned(b))'
      BY <3>2, <3>4
    <3>. QED
      BY <3>2, <3>5, <3>6, <3>7, <3>8, <3>9 DEF OnePlace
  <2>16. NextIsSettled'
    BY <1>3, <1>8, <1>9, <1>11, <2>2, <2>3, <2>4, <2>5 DEF NextIsSettled, FirstTypes
  <2>17. Honest'
    BY <1>3, <1>8, <1>9, <1>11, <2>2, <2>3, <2>4, <2>5 DEF Honest, FirstTypes
  <2>. QED
    BY <2>11, <2>12, <2>13, <2>14, <2>15, <2>16, <2>17
<1>13. CASE next # {}
  <2> DEFINE c == CHOOSE c \in next : TRUE
             x == [owner |-> w.owner, now |-> c, outcome |-> "asked"]
  <2>1. next = {c} /\ c = Batch(applied + 2) /\ c \in pending /\ c \in Batches
    BY <1>3, <1>7, <1>13 DEF FirstTypes
  <2> HIDE DEF c
  <2>2. c.seq = applied + 2 /\ c.seq <= lastSeq /\ x \in Writes
    <3>1. c.seq = applied + 2
      BY <1>3, <2>1
    <3>2. c.seq <= lastSeq
      BY <2>1 DEF OnlySent
    <3>3. x \in Writes
      BY <1>3, <2>1 DEF Writes
    <3>. QED
      BY <3>1, <3>2, <3>3
  <2>3. more \in Seq(Writes) /\ Len(more) = 1 /\ more[1] = x
    <3>1. Cardinality(next) = 1
      BY <2>1, FS_Singleton
    <3>2. more = [i \in 1..1 |-> x]
      BY <3>1 DEF c
    <3> HIDE DEF x, more
    <3>3. more \in Seq(Writes) /\ DOMAIN more = 1..1
      BY <2>2, <3>2, IsASeq
    <3>. QED
      BY <3>2, <3>3, LenProperties
  <2>4. /\ writing' \in Seq(Writes) /\ DOMAIN writing' = 1..Len(writing)
        /\ writing'[Len(writing)] = x
        /\ \A j \in 1..Len(writing) - 1 : writing'[j] = Tail(writing)[j]
    <3> HIDE DEF x, more
    <3>1. Tail(writing) \in Seq(Writes) /\ more \in Seq(Writes) /\ writing' = Tail(writing) \o more
      BY <1>1, <1>2, <2>3
    <3>2. /\ writing' \in Seq(Writes) /\ Len(writing') = Len(Tail(writing)) + 1
          /\ writing'[Len(Tail(writing)) + 1] = x
          /\ \A j \in 1..Len(Tail(writing)) : writing'[j] = Tail(writing)[j]
      BY <2>3, <3>1, JoinedOne
    <3>. QED
      BY <1>2, <3>2, LenProperties
  <2>5. /\ x.owner = w.owner /\ x.now = c /\ x.outcome = "asked"
        /\ Len(writing) \in Nat \ {0}
        /\ \A j \in 1..Len(writing) - 1 : writing'[j].now = None /\ writing'[j].owner = None
    BY <1>2, <1>4, <2>4
  <2> HIDE DEF x
  <2>6. \A b : b # None /\ (Owned(b))' => b = w.owner
    BY <2>4, <2>5 DEF Owned
  <2>7. \A b \in done : /\ b \notin wire /\ b \notin pending' /\ b # None /\ b # w.owner
                       /\ \A r \in replies : r.batch # b
    BY <1>1, <1>3, <1>6, <1>8, <1>10, <1>13 DEF OnePlace
  <2>8. pending' \subseteq pending /\ UNCHANGED <<lastSeq, timers, wire, confirmed, taken>>
    BY <1>1, <1>6
  <2>9. /\ \A b \in wire \cup pending \cup done : b # None
        /\ \A r \in replies : r.batch # None
    BY <1>8 DEF FirstTypes
  <2>10. /\ \A b \in wire \cup pending \cup done : ~(Owned(b))'
         /\ \A r \in replies : ~(Owned(r.batch))'
    BY <1>5, <2>6, <2>7, <2>9 DEF OnePlace
  <2>11. FirstTypes'
    BY <1>3, <1>8, <1>9, <2>4, <2>8 DEF FirstTypes, Verdicts
  <2>12. OnlySent'
    BY <1>3, <1>8, <1>9, <1>11, <2>2, <2>4, <2>5, <2>8 DEF OnlySent, FirstTypes
  <2>13. InOrder'
    BY <1>3, <1>5, <1>8, <1>9, <1>11, <2>1, <2>2, <2>4, <2>5, <2>6, <2>7, <2>8 DEF InOrder, FirstTypes
  <2>14. Underway'
    BY <1>3, <2>1, <2>4, <2>5, <2>8 DEF Underway, FirstTypes
  <2>15. OnePlace'
    <3>1. ASSUME NEW n \in timers
          PROVE  Batch(n) \notin done /\ Batch(n) # None /\ Batch(n) # w.owner
      <4>1. ~Owned(Batch(n)) /\ Batch(n) \notin pending
        BY DEF OnePlace
      <4>2. Batch(n) # None
        BY DEF FirstTypes
      <4>3. Batch(n) # w.owner
        BY <1>5, <4>1
      <4>. QED
        BY <1>10, <4>1, <4>2, <4>3
    <3>2. \A n \in timers : ~(Owned(Batch(n)))'
      BY <2>6, <3>1
    <3>. QED
      BY <1>9, <2>7, <2>8, <2>9, <2>10, <3>1, <3>2 DEF OnePlace
  <2>16. NextIsSettled'
    BY <1>3, <1>8, <1>9, <2>1, <2>7, <2>8 DEF NextIsSettled, OnePlace, FirstTypes
  <2>17. Honest'
    BY <1>3, <1>5, <1>8, <1>9, <1>11, <2>1, <2>2, <2>4, <2>5, <2>6, <2>7, <2>8 DEF Honest, FirstTypes
  <2>. QED
    BY <2>11, <2>12, <2>13, <2>14, <2>15, <2>16, <2>17
<1>. QED
  BY <1>12, <1>13

LEMMA AskCloseStep ==
    ASSUME page = 1, FirstPage, AskClose
    PROVE  FirstPage'
<1> USE BatchFacts DEF FirstPage
<1>1. /\ writing' = Append(writing, Close)
      /\ UNCHANGED <<lastSeq, timers, applied, wire, replies, confirmed, pending, taken>>
  BY DEF AskClose, sender, order
<1>2. /\ writing' \in Seq(Writes) /\ DOMAIN writing' = 1..Len(writing) + 1
      /\ DOMAIN writing = 1..Len(writing) /\ Len(writing) \in Nat
      /\ writing'[Len(writing) + 1] = Close
      /\ \A j \in DOMAIN writing : writing'[j] = writing[j]
      /\ Close.now = None /\ Close.owner = None
  <2>1. Close \in Writes /\ Close.now = None /\ Close.owner = None
    BY DEF Close, Writes
  <2>. QED
    BY <1>1, <2>1, Queued DEF FirstTypes
<1>20. FirstTypes'
  BY <1>1, <1>2 DEF FirstTypes
<1>21. OnlySent'
  BY <1>1, <1>2 DEF OnlySent, FirstTypes
<1>22. InOrder'
  BY <1>1, <1>2 DEF InOrder, FirstTypes
<1>23. Underway'
  BY <1>1, <1>2 DEF Underway, FirstTypes
<1>24. OnePlace'
  BY <1>1, <1>2 DEF OnePlace, FirstTypes, Owned
<1>25. NextIsSettled'
  BY <1>1, <1>2 DEF NextIsSettled, FirstTypes
<1>26. Honest'
  BY <1>1, <1>2 DEF Honest, FirstTypes
<1>. QED
  BY <1>20, <1>21, <1>22, <1>23, <1>24, <1>25, <1>26

LEMMA CloseSessionStep ==
    ASSUME page = 1, FirstPage, NEW i, CloseSession(i)
    PROVE  FirstPage'
<1> USE BatchFacts DEF FirstPage
<1>1. /\ i \in DOMAIN writing /\ writing[i].now = None
      /\ writing' = [writing EXCEPT ![i] = [writing[i] EXCEPT !.outcome = "ok"]]
      /\ UNCHANGED <<lastSeq, timers, applied, wire, replies, confirmed, pending, taken>>
  BY DEF CloseSession, IsFirst, sender, order
<1>3. /\ writing' \in Seq(Writes) /\ DOMAIN writing' = DOMAIN writing
      /\ writing'[i] = [writing[i] EXCEPT !.outcome = "ok"]
      /\ \A j \in DOMAIN writing : j # i => writing'[j] = writing[j]
  <2>1. writing[i] \in Writes
    BY <1>1, ElementOfSeq DEF FirstTypes
  <2>2. [writing[i] EXCEPT !.outcome = "ok"] \in Writes
    BY <1>1, <2>1 DEF Writes
  <2>. QED
    BY <1>1, <2>2, Changed DEF FirstTypes
<1>4. /\ \A j \in DOMAIN writing : writing'[j].now = writing[j].now
      /\ \A j \in DOMAIN writing : writing'[j].owner = writing[j].owner
  <2>1. writing[i] \in Writes
    BY <1>1, ElementOfSeq DEF FirstTypes
  <2>. QED
    BY <1>1, <1>3, <2>1 DEF Writes
<1>20. FirstTypes'
  BY <1>1, <1>3, <1>4 DEF FirstTypes
<1>21. OnlySent'
  BY <1>1, <1>3, <1>4 DEF OnlySent, FirstTypes
<1>22. InOrder'
  BY <1>1, <1>3, <1>4 DEF InOrder, FirstTypes
<1>23. Underway'
  BY <1>1, <1>3, <1>4 DEF Underway, FirstTypes
<1>24. OnePlace'
  BY <1>1, <1>3, <1>4 DEF OnePlace, FirstTypes, Owned
<1>25. NextIsSettled'
  BY <1>1, <1>3, <1>4 DEF NextIsSettled, FirstTypes
<1>26. Honest'
  BY <1>1, <1>3, <1>4 DEF Honest, FirstTypes
<1>. QED
  BY <1>20, <1>21, <1>22, <1>23, <1>24, <1>25, <1>26

LEMMA ClosedStep ==
    ASSUME page = 1, FirstPage, Closed
    PROVE  FirstPage'
<1> USE BatchFacts DEF FirstPage
<1>1. /\ writing # <<>> /\ Head(writing).now = None
      /\ writing' = Tail(writing)
      /\ pending' = {}
      /\ replies' = replies \cup {[batch |-> c, verdict |-> "refused"] : c \in pending}
      /\ UNCHANGED <<lastSeq, timers, applied, wire, confirmed, taken>>
  <2>1. Answered(pending, "refused") = {[batch |-> c, verdict |-> "refused"] : c \in pending}
    BY Told DEF FirstTypes
  <2>. QED
    BY <2>1 DEF Closed, FailPending, Tell, sender
<1>2. /\ writing' \in Seq(Writes) /\ DOMAIN writing' = 1..Len(writing) - 1
      /\ DOMAIN writing = 1..Len(writing) /\ Len(writing) \in Nat \ {0}
      /\ Head(writing) = writing[1] /\ Head(writing) \in Writes /\ 1 \in DOMAIN writing
      /\ \A j \in DOMAIN writing' : writing'[j] = writing[j + 1] /\ j + 1 \in DOMAIN writing
  BY <1>1, Served DEF FirstTypes
<1>20. FirstTypes'
  BY <1>1, <1>2 DEF FirstTypes, Verdicts
<1>21. OnlySent'
  BY <1>1, <1>2 DEF OnlySent, FirstTypes
<1>22. InOrder'
  BY <1>1, <1>2 DEF InOrder, FirstTypes
<1>23. Underway'
  BY <1>1, <1>2 DEF Underway, FirstTypes
<1>24. OnePlace'
  BY <1>1, <1>2 DEF OnePlace, FirstTypes, Owned
<1>25. NextIsSettled'
  BY <1>1, <1>2 DEF NextIsSettled, FirstTypes
<1>26. Honest'
  BY <1>1, <1>2 DEF Honest, FirstTypes
<1>. QED
  BY <1>20, <1>21, <1>22, <1>23, <1>24, <1>25, <1>26

LEMMA DisconnectStep ==
    ASSUME page = 1, FirstPage, Disconnect
    PROVE  FirstPage'
<1> USE BatchFacts DEF FirstPage
<1>1. /\ writing' = <<>> /\ pending' = {}
      /\ \E bs \in SUBSET Batches :
           /\ \A b \in bs : b \in pending \/ Owned(b)
           /\ replies' = replies \cup {[batch |-> b, verdict |-> "refused"] : b \in bs}
      /\ UNCHANGED <<lastSeq, timers, applied, wire, confirmed, taken>>
  <2> DEFINE all == pending \cup {writing[i].owner : i \in DOMAIN writing}
  <2>1. all \in SUBSET (Batches \cup {None}) /\ \A b \in all : b \in pending \/ Owned(b)
    <3>1. \A i \in DOMAIN writing : writing[i] \in Writes
      BY ElementOfSeq, LenProperties DEF FirstTypes
    <3>. QED
      BY <3>1 DEF Writes, Owned, FirstTypes
  <2>2. replies' = replies \cup Answered(all, "refused")
    BY DEF Disconnect, Tell
  <2> HIDE DEF all
  <2>3. replies' = replies \cup {[batch |-> b, verdict |-> "refused"] : b \in all \ {None}}
    BY <2>1, <2>2, Told
  <2>4. /\ all \ {None} \in SUBSET Batches
        /\ \A b \in all \ {None} : b \in pending \/ Owned(b)
    BY <2>1
  <2>5. \E bs \in SUBSET Batches :
           /\ \A b \in bs : b \in pending \/ Owned(b)
           /\ replies' = replies \cup {[batch |-> b, verdict |-> "refused"] : b \in bs}
    BY <2>3, <2>4
  <2>. QED
    BY <2>5 DEF Disconnect, sender
<1>2. PICK bs \in SUBSET Batches :
           /\ \A b \in bs : b \in pending \/ Owned(b)
           /\ replies' = replies \cup {[batch |-> b, verdict |-> "refused"] : b \in bs}
  BY <1>1
<1>3. \A b \in bs : b.seq <= lastSeq
  <2> SUFFICES ASSUME NEW b \in bs PROVE b.seq <= lastSeq
    OBVIOUS
  <2>1. CASE b \in pending
    BY <2>1 DEF OnlySent
  <2>2. CASE Owned(b)
    <3>1. PICK i \in DOMAIN writing : writing[i].owner = b
      BY <2>2 DEF Owned
    <3>2. b # None /\ b \in Batches
      BY <1>2
    <3>3. applied + 1 <= lastSeq /\ applied \in Nat /\ lastSeq \in Nat
      BY <3>1, <3>2 DEF OnlySent, Underway, FirstTypes
    <3>4. b = Batch(applied + 1) \/ b.seq <= applied
      BY <3>1, <3>2 DEF Underway
    <3>. QED
      BY <3>2, <3>3, <3>4
  <2>. QED
    BY <1>2, <2>1, <2>2
<1>4. writing' \in Seq(Writes) /\ DOMAIN writing' = {}
  BY <1>1
<1>20. FirstTypes'
  BY <1>1, <1>2, <1>3, <1>4 DEF FirstTypes, Verdicts
<1>21. OnlySent'
  BY <1>1, <1>2, <1>3, <1>4 DEF OnlySent, FirstTypes
<1>22. InOrder'
  BY <1>1, <1>2, <1>3, <1>4 DEF InOrder, FirstTypes
<1>23. Underway'
  BY <1>1, <1>2, <1>3, <1>4 DEF Underway, FirstTypes
<1>24. OnePlace'
  <2>1. \A b : ~(Owned(b))'
    BY <1>4 DEF Owned
  <2>2. /\ \A b \in bs : b \notin wire /\ \A r \in replies : r.batch # b
        /\ \A r \in replies : r.batch \notin wire
        /\ \A r, s \in replies : r.batch = s.batch => r = s
    <3>1. \A b \in bs : b \in pending \/ Owned(b)
      BY <1>2
    <3>. QED
      BY <3>1 DEF OnePlace
  <2>. QED
    BY <1>1, <1>2, <2>1, <2>2 DEF OnePlace
<1>25. NextIsSettled'
  BY <1>1, <1>2, <1>3, <1>4 DEF NextIsSettled, FirstTypes
<1>26. Honest'
  BY <1>1, <1>2, <1>3, <1>4 DEF Honest, FirstTypes
<1>. QED
  BY <1>20, <1>21, <1>22, <1>23, <1>24, <1>25, <1>26

-----------------------------------------------------------------------------
(* The theorems.                                                           *)

LEMMA FirstPageStep ==
    ASSUME page = 1, FirstPage, [InputNext]_vars, page' = 1
    PROVE  FirstPage'
<1>1. CASE Send
  BY <1>1, SendStep
<1>2. CASE Page
  BY <1>2, HearStep, RetryTimerStep DEF Page
<1>3. CASE \E n \in awaited : PageTimeout(n)
  BY <1>3, PageTimeoutStep
<1>4. CASE Reload
  BY <1>4 DEF Reload
<1>5. CASE \E b \in wire : NotRunning(b) \/ Repeated(b) \/ Expected(b) \/ Refused(b) \/ Parked(b)
  BY <1>5, NotRunningStep, RepeatedStep, ExpectedStep, RefusedStep, ParkedStep
<1>6. CASE GapExpires \/ Applied \/ Failed \/ Ignored \/ Closed
  BY <1>6, GapExpiresStep, AppliedStep, FailedStep, IgnoredStep, ClosedStep
<1>7. CASE System
  BY <1>7, TakeStep, CloseSessionStep, RefuseStep DEF System
<1>8. CASE \E i \in DOMAIN writing : GiveUp(i)
  BY <1>8, GiveUpStep
<1>9. CASE AskClose \/ Disconnect
  BY <1>9, AskCloseStep, DisconnectStep
<1>10. CASE UNCHANGED vars
  BY <1>10 DEF vars, FirstPage, FirstTypes, OnlySent, InOrder, Underway, OnePlace, Owned,
               NextIsSettled, Honest
<1>. QED
  BY <1>1, <1>2, <1>3, <1>4, <1>5, <1>6, <1>7, <1>8, <1>9, <1>10 DEF InputNext, Runtime

\* Pages are counted up, and a page that was reloaded does not come back.
LEMMA PageStep ==
    ASSUME page \in Nat \ {0}, [InputNext]_vars
    PROVE  page' \in Nat \ {0} /\ (page' = 1 => page = 1)
<1>1. CASE Reload
  BY <1>1 DEF Reload
<1>2. CASE UNCHANGED page
  BY <1>2
<1>3. Reload \/ UNCHANGED page
  BY DEF InputNext, vars, sender, Send, Page, Hear, RetryTimer, PageTimeout, Runtime, NotRunning, Repeated,
         Expected, Refused, Parked, GapExpires, Applied, Failed, Ignored, Closed, System, Take,
         CloseSession, Refuse, GiveUp, AskClose, Disconnect
<1>. QED
  BY <1>1, <1>2, <1>3

LEMMA Invariance == InputSpec => []IInv
<1>1. InputInit => IInv
  <2> SUFFICES ASSUME InputInit PROVE FirstPage /\ page = 1
    BY DEF IInv
  <2>. QED
    BY DEF InputInit, FirstPage, FirstTypes, OnlySent, InOrder, Underway, OnePlace, Owned,
           NextIsSettled, Honest, Batches
<1>2. IInv /\ [InputNext]_vars => IInv'
  BY FirstPageStep, PageStep DEF IInv
<1>. QED
  BY <1>1, <1>2, PTL DEF InputSpec

\* The shell gets the input of the page that opened it in order, nothing twice and
\* nothing after a hole (TerminalInputOrder).
THEOREM InputInOrder == InputSpec => []InputIsPrefix
<1>1. IInv => InputIsPrefix
  BY DEF IInv, FirstPage, InOrder, InputIsPrefix, Batch
<1>. QED
  BY <1>1, Invariance, PTL

\* Only what the system runtime has taken is confirmed to the page (input-order.ts
\* answers after the write).
THEOREM OnlyTakenConfirmed == InputSpec => []ConfirmedIsTaken
<1>1. ASSUME IInv, page = 1, NEW b \in confirmed
      PROVE  \E i \in DOMAIN taken : taken[i] = b
  <2>1. PICK n \in 1..applied : b = Batch(n)
    BY <1>1 DEF IInv, FirstPage, Honest
  <2>2. n \in DOMAIN taken
    BY <1>1, <2>1, LenProperties DEF IInv, FirstPage, FirstTypes, InOrder
  <2>. QED
    BY <1>1, <2>1, <2>2 DEF IInv, FirstPage, InOrder
<1>2. IInv => ConfirmedIsTaken
  BY <1>1 DEF ConfirmedIsTaken
<1>. QED
  BY <1>2, Invariance, PTL
=============================================================================
