---------------------------- MODULE ConflictLock -----------------------------
(***************************************************************************)
(* What the mutation coordinator and the file executor promise, without      *)
(* their bookkeeping: requests stand in the order they were made; one is     *)
(* granted when nothing earlier, standing or holding, conflicts with it.     *)
(***************************************************************************)
EXTENDS Naturals

CONSTANTS Ops, Footprints, Conflict(_, _)

VARIABLES
  stage,  \* "new", "standing", "holding" or "gone"
  place,  \* the position of a request in the line
  wants,  \* its footprint
  last    \* the last position given out

vars == <<stage, place, wants, last>>

Init ==
  /\ stage = [o \in Ops |-> "new"]
  /\ place = [o \in Ops |-> 0]
  /\ wants = [o \in Ops |-> {}]
  /\ last = 0

Live(o) == stage[o] \in {"standing", "holding"}

\* Nothing that conflicts with footprint f and came before position n is live.
Clear(o, f, n) ==
  \A p \in Ops \ {o} : Live(p) /\ place[p] < n => ~Conflict(wants[p], f)

Stand(o, f, to) ==
  /\ stage[o] = "new"
  /\ last' = last + 1
  /\ place' = [place EXCEPT ![o] = last + 1]
  /\ wants' = [wants EXCEPT ![o] = f]
  /\ stage' = [stage EXCEPT ![o] = to]

Request(o, f) == Stand(o, f, "standing")

RequestGranted(o, f) == Clear(o, f, last + 1) /\ Stand(o, f, "holding")

Grant(o) ==
  /\ stage[o] = "standing"
  /\ Clear(o, wants[o], place[o])
  /\ stage' = [stage EXCEPT ![o] = "holding"]
  /\ UNCHANGED <<place, wants, last>>

\* A holder is finished, or a request is withdrawn.
Depart(o) ==
  /\ stage' = [stage EXCEPT ![o] = "gone"]
  /\ UNCHANGED <<place, wants, last>>

Next ==
  \/ \E o \in Ops, f \in Footprints : Request(o, f) \/ RequestGranted(o, f)
  \/ \E o \in Ops : Grant(o) \/ Depart(o)

Spec == Init /\ [][Next]_vars
=============================================================================
