----------------------------- MODULE SerialSession -----------------------------
(***************************************************************************)
(* What a chat session promises: it works on one run at a time, a run is   *)
(* started once, and a run that has ended stays ended.                     *)
(***************************************************************************)
CONSTANTS Sessions, Runs, None

VARIABLES
    current,  \* the run each session works on, or None
    ended     \* runs that are over

Init ==
    /\ current = [s \in Sessions |-> None]
    /\ ended = {}

Busy == {current[s] : s \in Sessions} \ {None}

\* Some sessions end their run; some idle or ending ones start a new run each.
Next ==
    /\ current' \in [Sessions -> Runs \cup {None}]
    /\ \A s \in Sessions :
          current'[s] \in {None, current[s]} \/ current'[s] \notin ended \cup Busy
    /\ \A s, t \in Sessions :
          current'[s] = current'[t] => s = t \/ current'[s] = None
    /\ ended' = ended \cup (Busy \ {current'[s] : s \in Sessions})

Spec == Init /\ [][Next]_<<current, ended>>
================================================================================
