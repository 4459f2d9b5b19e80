-------------------------- MODULE DangerAccessProofs --------------------------
(***************************************************************************)
(* Proofs about DangerAccess, for any calls, challenges, times to live and *)
(* bounds: types, that a danger sandbox is used only on a lease that was   *)
(* in force, that nothing passes the workspace boundary or reaches the     *)
(* network without a consent of its own, and that the policy still holds   *)
(* when a call goes ahead.                                                 *)
(*                                                                         *)
(* The inductive invariant says of every call what its fields promise in   *)
(* each phase.  It takes the call, the ticks of a lease and the rules as   *)
(* arguments: the last two only grow, so a call nobody touches keeps it.   *)
(***************************************************************************)
EXTENDS DangerAccess, TLAPS

AllKinds == {"write", "delete", "shell", "online", "outside", "bare"}

CallSet ==
    [phase : {"new", "preflight", "networkCard", "mainCard", "waiting", "sent",
              "refused", "ran"},
     kind : AllKinds, preset : Presets, danger : BOOLEAN,
     sandbox : {"read-only", "workspace-write", "escalated", "danger", "unsandboxed"},
     asks : BOOLEAN, hit : BOOLEAN,
     source : {"none", "once", "session-rule", "preset", "danger-lease"},
     expires : Nat, began : Nat, decided : Nat, yes : SUBSET {"main", "network"}]

RuleSet ==
    [sandbox : {"read-only", "workspace-write", "escalated", "unsandboxed"} \cup Files,
     network : BOOLEAN]

AccessTypeOK ==
    /\ now \in Nat /\ lease \in Nat /\ changes \in Nat
    /\ provider \in BOOLEAN
    /\ challenge \in [Challenges -> Nat]
    /\ preset \in Presets
    /\ rules \subseteq RuleSet
    /\ call \in [Calls -> CallSet]
    /\ held \subseteq Nat /\ spent \subseteq Challenges

\* What was read at the start of a call: the lease, and the sandbox it gives.
Prepared(x, h) ==
    /\ x.danger => x.began \in h
    /\ x.sandbox = "danger" => x.danger
    /\ x.sandbox = "escalated" <=> x.kind = "outside" /\ ~x.danger

\* What the policy let pass when the call was decided.
Passed(x, h) == x.decided \in h \/ FreeByPreset(x, x.preset)

AtCard(x, h) ==
    /\ x.phase = "preflight" => x.kind = "outside" /\ ~x.danger
    /\ x.phase = "networkCard" =>
          x.kind = "online" /\ ~x.danger /\ (x.asks \/ x.hit \/ Passed(x, h))

\* How a grant was come by.
Granted(x, h) ==
    x.phase \in {"waiting", "sent"} =>
        /\ x.source \in {"once", "session-rule", "preset", "danger-lease"}
        /\ x.source = "once" => "main" \in x.yes
        /\ x.source = "danger-lease" => x.danger /\ x.expires = x.decided + GrantTtl
        /\ x.source = "preset" => Passed(x, h)
        /\ x.sandbox = "escalated" => "main" \in x.yes \/ x.decided \in h

Online(x, ru) ==
    x.kind = "online" /\ x.phase \in {"mainCard", "waiting", "sent"} =>
        \/ x.danger
        \/ "network" \in x.yes
        \/ x.phase # "mainCard" /\ \E r \in ru : r.network /\ r.sandbox = x.sandbox

CallInv(x, h, ru) ==
    Prepared(x, h) /\ AtCard(x, h) /\ Granted(x, h) /\ Online(x, ru)

IInv ==
    /\ AccessTypeOK
    /\ lease > now => now \in held
    /\ \A r \in rules : r.sandbox # "escalated"
    /\ \A c \in Calls : CallInv(call[c], held, rules)

-----------------------------------------------------------------------------
(* What a call keeps. *)

\* Leases and rules only add to what a call may rely on.
LEMMA CallGrows ==
    ASSUME NEW x, NEW h, NEW ru, NEW h2, NEW ru2,
           CallInv(x, h, ru), h \subseteq h2, ru \subseteq ru2
    PROVE  CallInv(x, h2, ru2)
BY DEF CallInv, Prepared, AtCard, Granted, Online, Passed

\* A call that is over, or not begun, keeps nothing.
LEMMA OverInv ==
    ASSUME NEW h, NEW ru
    PROVE  /\ Fresh \in CallSet /\ Refused \in CallSet /\ Executed \in CallSet
           /\ CallInv(Fresh, h, ru) /\ CallInv(Refused, h, ru) /\ CallInv(Executed, h, ru)
<1>1. Fresh \in CallSet /\ Refused \in CallSet /\ Executed \in CallSet
  BY DEF Fresh, Refused, Executed, CallSet, AllKinds, Presets
<1>2. CallInv(Fresh, h, ru)
  BY DEF Fresh, CallInv, Prepared, AtCard, Granted, Online
<1>3. CallInv(Refused, h, ru)
  BY DEF Fresh, Refused, CallInv, Prepared, AtCard, Granted, Online
<1>4. CallInv(Executed, h, ru)
  BY DEF Fresh, Executed, CallInv, Prepared, AtCard, Granted, Online
<1> QED BY <1>1, <1>2, <1>3, <1>4

\* No preset lets a command pass beyond the workspace.
LEMMA OutsideNeverFree ==
    ASSUME NEW x, x.kind = "outside", ~x.danger, NEW p \in Presets
    PROVE  ~FreeByPreset(x, p)
<1>1. PolicyKind(x) = "outside"
  BY DEF PolicyKind
<1>2. "outside" \notin FreeKinds[p]
  BY DEF FreeKinds, Presets
<1> QED BY <1>1, <1>2 DEF FreeByPreset

\* The grant, or the main card, of a call that needs no network card any more.
LEMMA OnwardInv ==
    ASSUME NEW x \in CallSet, NEW h, NEW ru, NEW t \in Nat,
           Prepared(x, h),
           x.phase \in {"new", "preflight", "networkCard"},
           x.asks \/ x.hit \/ x.danger \/ Passed(x, h),
           x.danger => x.decided = t,
           x.sandbox = "escalated" => x.asks \/ x.decided \in h,
           x.kind = "online" => x.danger \/ "network" \in x.yes
              \/ (~x.asks /\ \E r \in ru : r.network /\ r.sandbox = x.sandbox)
    PROVE  Onward(x, t) \in CallSet /\ CallInv(Onward(x, t), h, ru)
<1>0. GrantTtl \in Nat /\ RuleTtl \in Nat
  BY DangerAssumption
<1>1. CASE x.asks
  <2> DEFINE y == [x EXCEPT !.phase = "mainCard"]
  <2>1. Onward(x, t) = y
    BY <1>1 DEF Onward
  <2>2. y \in CallSet
    BY DEF CallSet
  <2>3. /\ y.phase = "mainCard" /\ y.kind = x.kind /\ y.danger = x.danger /\ y.began = x.began
        /\ y.sandbox = x.sandbox /\ y.yes = x.yes
    BY DEF CallSet
  <2>4. CallInv(y, h, ru)
    BY <1>1, <2>3 DEF CallInv, Prepared, AtCard, Granted, Online
  <2> QED BY <2>1, <2>2, <2>4
<1>2. CASE ~x.asks
  <2> DEFINE src == SourceWithoutCard(x)
             y == Issued(x, src, t)
  <2>1. Onward(x, t) = y
    BY <1>2 DEF Onward
  <2>2. /\ src \in {"session-rule", "preset", "danger-lease"}
        /\ src = "danger-lease" => x.danger
        /\ src = "preset" => ~x.hit /\ ~x.danger
    BY DEF SourceWithoutCard
  <2> HIDE DEF src
  <2>3. y \in CallSet
    <3> DEFINE e == t + IF src = "session-rule" THEN RuleTtl ELSE GrantTtl
    <3>1. e \in Nat
      BY <1>0
    <3>2. y = [x EXCEPT !.phase = "waiting", !.source = src, !.expires = e]
      BY DEF Issued
    <3> HIDE DEF e, y
    <3> QED BY <2>2, <3>1, <3>2 DEF CallSet
  <2>4. /\ y.phase = "waiting" /\ y.kind = x.kind /\ y.danger = x.danger /\ y.began = x.began
        /\ y.sandbox = x.sandbox /\ y.yes = x.yes /\ y.decided = x.decided /\ y.preset = x.preset
        /\ y.source = src
        /\ src # "session-rule" => y.expires = t + GrantTtl
    BY DEF Issued, CallSet
  <2>5. Passed(x, h) => Passed(y, h)
    BY <2>4 DEF Passed, FreeByPreset, PolicyKind
  <2>6. Prepared(y, h) /\ AtCard(y, h)
    BY <2>4 DEF Prepared, AtCard
  <2>7. Granted(y, h)
    <3>1. src = "preset" => Passed(y, h)
      BY <1>2, <2>2, <2>5
    <3>2. src = "danger-lease" => y.danger /\ y.expires = y.decided + GrantTtl
      BY <2>2, <2>4
    <3>3. y.sandbox = "escalated" => y.decided \in h
      BY <1>2, <2>4
    <3> HIDE DEF y
    <3> QED BY <2>2, <2>4, <3>1, <3>2, <3>3 DEF Granted
  <2>8. Online(y, ru)
    BY <1>2, <2>4 DEF Online
  <2> QED BY <2>1, <2>3, <2>6, <2>7, <2>8 DEF CallInv
<1> QED BY <1>1, <1>2

\* A call as it was prepared before its decision at time t, with the state it
\* is decided in.
Decidable(x, h, t) ==
    /\ x \in CallSet /\ x.phase \in {"new", "preflight"} /\ Prepared(x, h)
    /\ x.preset = preset \/ (x.kind = "outside" /\ ~x.danger)
    /\ preset \in Presets
    /\ InForce(t) => t \in h
    /\ rules \subseteq RuleSet /\ \A r \in rules : r.sandbox # "escalated"

LEMMA DecidedInv ==
    ASSUME NEW x, NEW h, NEW t \in Nat, Decidable(x, h, t)
    PROVE  Decided(x, t) \in CallSet /\ CallInv(Decided(x, t), h, rules)
<1> DEFINE hit == Asks(x, t) /\ ~x.danger /\ x.kind # "bare"
                  /\ RuleOf(x, x.kind = "online") \in rules
           asks == Asks(x, t) /\ ~hit
           y == [x EXCEPT !.asks = asks, !.hit = hit, !.decided = t]
<1>1. Decided(x, t) = IF NeedsNetworkCard(y) THEN [y EXCEPT !.phase = "networkCard"]
                      ELSE Onward(y, t)
  BY Zenon DEF Decided
<1>2. x \in CallSet /\ asks \in BOOLEAN /\ hit \in BOOLEAN
  BY DEF Decidable, Asks
<1>3. ~Asks(x, t) => t \in h \/ FreeByPreset(x, preset)
  BY DEF Asks, Decidable
<1>4. asks \/ hit \/ t \in h \/ FreeByPreset(x, x.preset)
  BY <1>3, OutsideNeverFree DEF Decidable
<1>5. x.sandbox = "escalated" => asks \/ t \in h
  <2> SUFFICES ASSUME x.sandbox = "escalated" PROVE asks \/ t \in h
    OBVIOUS
  <2>1. x.kind = "outside" /\ ~x.danger
    BY DEF Decidable, Prepared
  <2>2. RuleOf(x, FALSE).sandbox = "escalated"
    BY <2>1 DEF RuleOf, Files
  <2>3. ~hit
    BY <2>1, <2>2 DEF Decidable
  <2>4. ~FreeByPreset(x, preset)
    BY <2>1, OutsideNeverFree DEF Decidable
  <2> QED BY <1>3, <2>3, <2>4
<1>6. ASSUME x.kind = "online", ~x.danger, RuleOf(x, TRUE) \in rules
      PROVE  ~asks /\ \E r \in rules : r.network /\ r.sandbox = x.sandbox
  <2>1. ~asks
    BY <1>6
  <2>2. x.sandbox # "danger"
    BY <1>6 DEF Decidable, Prepared
  <2>3. RuleOf(x, TRUE).network /\ RuleOf(x, TRUE).sandbox = x.sandbox
    BY <1>6, <2>2 DEF RuleOf, Files
  <2> QED BY <1>6, <2>1, <2>3
<1>7. x.phase \in {"new", "preflight"} /\ Prepared(x, h)
  BY DEF Decidable
<1> HIDE DEF asks, hit
<1>8. y \in CallSet
  BY <1>2 DEF CallSet
<1>9. /\ y.phase = x.phase /\ y.kind = x.kind /\ y.danger = x.danger /\ y.began = x.began
      /\ y.sandbox = x.sandbox /\ y.decided = t /\ y.preset = x.preset
      /\ y.asks = asks /\ y.hit = hit
  BY <1>2 DEF CallSet
<1> HIDE DEF y
<1>10. FreeByPreset(x, x.preset) => FreeByPreset(y, y.preset)
  BY <1>9 DEF FreeByPreset, PolicyKind
<1>11. y.asks \/ y.hit \/ Passed(y, h)
  BY <1>4, <1>9, <1>10 DEF Passed
<1>12. NeedsNetworkCard(y) <=> y.kind = "online" /\ ~y.danger /\ RuleOf(x, TRUE) \notin rules
  <2>1. RuleOf(y, TRUE) = RuleOf(x, TRUE)
    BY <1>9 DEF RuleOf
  <2> QED BY <2>1 DEF NeedsNetworkCard
<1>13. CASE NeedsNetworkCard(y)
  <2> DEFINE z == [y EXCEPT !.phase = "networkCard"]
  <2>1. Decided(x, t) = z
    BY <1>1, <1>13
  <2>2. /\ z \in CallSet /\ z.phase = "networkCard" /\ z.kind = y.kind /\ z.danger = y.danger
        /\ z.began = y.began /\ z.sandbox = y.sandbox /\ z.decided = y.decided
        /\ z.preset = y.preset /\ z.asks = y.asks /\ z.hit = y.hit
    BY <1>8 DEF CallSet
  <2> HIDE DEF z
  <2>3. Passed(y, h) => Passed(z, h)
    BY <2>2 DEF Passed, FreeByPreset, PolicyKind
  <2>4. Prepared(z, h) /\ AtCard(z, h)
    BY <1>7, <1>9, <1>11, <1>12, <1>13, <2>2, <2>3 DEF Prepared, AtCard
  <2>5. Granted(z, h) /\ Online(z, rules)
    BY <2>2 DEF Granted, Online
  <2> QED BY <2>1, <2>2, <2>4, <2>5 DEF CallInv
<1>14. CASE ~NeedsNetworkCard(y)
  <2>1. Decided(x, t) = Onward(y, t)
    BY <1>1, <1>14
  <2>2. Prepared(y, h) /\ y.phase \in {"new", "preflight", "networkCard"}
    BY <1>7, <1>9 DEF Prepared
  <2>3. y.sandbox = "escalated" => y.asks \/ y.decided \in h
    BY <1>5, <1>9
  <2>4. y.kind = "online" => y.danger \/ "network" \in y.yes
            \/ (~y.asks /\ \E r \in rules : r.network /\ r.sandbox = y.sandbox)
    <3> SUFFICES ASSUME y.kind = "online", ~y.danger
                 PROVE  ~y.asks /\ \E r \in rules : r.network /\ r.sandbox = y.sandbox
      BY Zenon
    <3>1. RuleOf(x, TRUE) \in rules
      BY <1>12, <1>14
    <3>2. ~asks /\ \E r \in rules : r.network /\ r.sandbox = x.sandbox
      BY <1>6, <1>9, <3>1
    <3>3. ~y.asks
      BY <1>9, <3>2, Zenon
    <3>4. y.sandbox = x.sandbox
      BY <1>9
    <3> QED BY <3>2, <3>3, <3>4
  <2>5. y.danger => y.decided = t
    BY <1>9
  <2>6. Onward(y, t) \in CallSet /\ CallInv(Onward(y, t), h, rules)
    BY <1>8, <1>11, <2>2, <2>3, <2>4, <2>5, OnwardInv
  <2> QED BY <2>1, <2>6
<1> QED BY <1>13, <1>14

-----------------------------------------------------------------------------
(* The actions. *)

\* One call changes; lease ticks and rules only grow.
LEMMA OneCall ==
    ASSUME IInv, NEW c \in Calls, NEW x \in CallSet, call' = [call EXCEPT ![c] = x],
           CallInv(x, held', rules'), held \subseteq held', rules \subseteq rules'
    PROVE  call' \in [Calls -> CallSet] /\ \A b \in Calls : CallInv(call'[b], held', rules')
<1>1. call \in [Calls -> CallSet]
  BY DEF IInv, AccessTypeOK
<1>2. call' \in [Calls -> CallSet]
  BY <1>1
<1>3. ASSUME NEW b \in Calls PROVE CallInv(call'[b], held', rules')
  <2>1. CASE b = c
    BY <1>1, <2>1
  <2>2. CASE b # c
    BY <1>1, <2>2, CallGrows DEF IInv
  <2> QED BY <2>1, <2>2
<1> QED BY <1>2, <1>3

\* No call changes.
LEMMA NoCall ==
    ASSUME IInv, call' = call, held \subseteq held', rules' = rules
    PROVE  call' \in [Calls -> CallSet] /\ \A b \in Calls : CallInv(call'[b], held', rules')
BY CallGrows DEF IInv, AccessTypeOK

\* What the operations on the lease make of it, its challenges and its history.
LEMMA RevokeFacts ==
    ASSUME Revoke
    PROVE  /\ lease' = 0 /\ challenge' \in [Challenges -> Nat]
           /\ held' = held /\ spent' = spent
BY DEF Revoke

LEMMA ReadLeaseFacts ==
    ASSUME IInv, NEW t \in Nat, t >= now, ReadLease(t)
    PROVE  /\ lease' \in Nat /\ challenge' \in [Challenges -> Nat] /\ held' \subseteq Nat
           /\ spent' = spent /\ held \subseteq held'
           /\ InForce(t) => t \in held'
           /\ lease' > t => t \in held'
<1>1. /\ lease \in Nat /\ now \in Nat /\ challenge \in [Challenges -> Nat] /\ held \subseteq Nat
  BY DEF IInv, AccessTypeOK
<1>2. CASE lease # 0 /\ ~InForce(t)
  <2>1. Revoke
    BY <1>2, Zenon DEF ReadLease
  <2>2. ~InForce(t)
    BY <1>2
  <2>3. lease' = 0 /\ challenge' \in [Challenges -> Nat] /\ held' = held /\ spent' = spent
    BY <2>1, RevokeFacts
  <2>4. ~(lease' > t)
    BY <2>3
  <2> QED BY <1>1, <2>2, <2>3, <2>4
<1>3. CASE ~(lease # 0 /\ ~InForce(t))
  <2>1. /\ held' = IF InForce(t) THEN held \cup {t} ELSE held
        /\ UNCHANGED <<challenge, lease, spent>>
    BY <1>3, Zenon DEF ReadLease
  <2> QED BY <1>1, <2>1 DEF InForce
<1> QED BY <1>2, <1>3

LEMMA InitInv == DangerInit => IInv
<1> SUFFICES ASSUME DangerInit PROVE IInv
  OBVIOUS
<1>1. AccessTypeOK
  BY OverInv DEF DangerInit, AccessTypeOK
<1>2. \A c \in Calls : CallInv(call[c], held, rules)
  BY OverInv DEF DangerInit
<1> QED BY <1>1, <1>2 DEF IInv, DangerInit

\* The actions on the lease alone.
LEMMA LeaseInv ==
    ASSUME IInv,
           \/ \E i \in Challenges : Prepare(i) \/ Enable(i)
           \/ Disable \/ ExpiryTimer \/ Tick
    PROVE  IInv'
<1>0. /\ now \in Nat /\ lease \in Nat /\ challenge \in [Challenges -> Nat] /\ held \subseteq Nat
      /\ ChallengeTtl \in Nat /\ LeaseTtl \in Nat
  BY DangerAssumption DEF IInv, AccessTypeOK
<1>1. call' = call /\ rules' = rules /\ held \subseteq held'
  BY DEF Prepare, Enable, Disable, ExpiryTimer, Tick, Revoke
<1>2. call' \in [Calls -> CallSet] /\ \A b \in Calls : CallInv(call'[b], held', rules')
  BY <1>1, NoCall
<1>3. now' \in Nat /\ lease' \in Nat /\ challenge' \in [Challenges -> Nat] /\ held' \subseteq Nat
  <2>1. CASE \E i \in Challenges : Prepare(i)
    BY <1>0, <2>1 DEF Prepare
  <2>2. CASE \E i \in Challenges : Enable(i)
    <3>1. PICK i \in Challenges : Enable(i)
      BY <2>2
    <3>2. now' = now /\ challenge' = [challenge EXCEPT ![i] = 0]
      BY <3>1 DEF Enable
    <3>3. \/ lease' = lease /\ held' = held
          \/ lease' = now + LeaseTtl /\ held' = held \cup {now}
      BY <3>1 DEF Enable
    <3>4. lease' \in Nat /\ held' \subseteq Nat
      <4>1. now + LeaseTtl \in Nat /\ held \cup {now} \subseteq Nat
        BY <1>0
      <4> QED BY <1>0, <3>3, <4>1
    <3>5. challenge' \in [Challenges -> Nat] /\ now' \in Nat
      BY <1>0, <3>2
    <3> QED BY <3>4, <3>5
  <2>3. CASE Disable \/ ExpiryTimer
    <3>1. Revoke /\ now' = now
      BY <2>3 DEF Disable, ExpiryTimer
    <3>2. lease' = 0 /\ challenge' \in [Challenges -> Nat] /\ held' = held
      BY <3>1, RevokeFacts
    <3> QED BY <1>0, <3>1, <3>2
  <2>4. CASE Tick
    BY <1>0, <2>4 DEF Tick
  <2> QED BY <2>1, <2>2, <2>3, <2>4
<1>4. lease' > now' => now' \in held'
  BY <1>0 DEF Prepare, Enable, Disable, ExpiryTimer, Tick, Revoke, IInv
<1>5. AccessTypeOK'
  BY <1>2, <1>3 DEF IInv, AccessTypeOK, Prepare, Enable, Disable, ExpiryTimer, Tick, Revoke
<1> QED BY <1>1, <1>2, <1>4, <1>5 DEF IInv

LEMMA DegradeInv ==
    ASSUME IInv, Degrade
    PROVE  IInv'
<1>1. held' = held /\ rules' = rules /\ now' = now /\ (lease' = lease \/ lease' = 0)
  BY DEF Degrade, Revoke, access
<1>2. call' \in [Calls -> CallSet]
  BY OverInv DEF Degrade, IInv, AccessTypeOK
<1>3. ASSUME NEW b \in Calls PROVE CallInv(call'[b], held', rules')
  <2>1. call'[b] = Refused \/ call'[b] = call[b]
    BY DEF Degrade
  <2> QED BY <1>1, <2>1, OverInv DEF IInv
<1>4. AccessTypeOK'
  <2>1. lease' \in Nat /\ challenge' \in [Challenges -> Nat]
    BY RevokeFacts DEF Degrade, access, IInv, AccessTypeOK
  <2>2. spent' = spent
    BY RevokeFacts DEF Degrade, access
  <2>3. changes' \in Nat /\ preset' = preset
    BY DEF Degrade, IInv, AccessTypeOK
  <2>4. provider' \in BOOLEAN
    BY Zenon DEF Degrade
  <2> QED BY <1>1, <1>2, <2>1, <2>2, <2>3, <2>4 DEF IInv, AccessTypeOK
<1>5. lease' > now' => now' \in held'
  BY <1>1 DEF IInv, AccessTypeOK
<1> QED BY <1>1, <1>3, <1>4, <1>5 DEF IInv

LEMMA WorldInv ==
    ASSUME IInv, Recover \/ ChangeRole
    PROVE  IInv'
<1>1. UNCHANGED <<call, held, rules, now, lease>>
  BY DEF Recover, ChangeRole, access
<1>2. AccessTypeOK'
  <2>1. changes' \in Nat /\ preset' \in Presets
    BY DEF Recover, ChangeRole, IInv, AccessTypeOK
  <2>3. provider' \in BOOLEAN
    BY Zenon DEF Recover, ChangeRole, IInv, AccessTypeOK
  <2>2. UNCHANGED <<challenge, spent>>
    BY DEF Recover, ChangeRole, access
  <2> QED BY <1>1, <2>1, <2>2, <2>3 DEF IInv, AccessTypeOK
<1>3. \A b \in Calls : CallInv(call'[b], held', rules')
  BY <1>1 DEF IInv
<1> QED BY <1>1, <1>2, <1>3 DEF IInv

LEMMA BeginInv ==
    ASSUME IInv, NEW c \in Calls, NEW k \in Kinds, NEW t \in Clock, Begin(c, k, t)
    PROVE  IInv'
<1> DEFINE danger == InForce(now)
           x == [call[c] EXCEPT !.kind = k, !.preset = preset, !.danger = danger,
                                !.sandbox = SandboxFor(k, danger), !.began = now]
           z == IF k = "outside" /\ ~danger THEN [x EXCEPT !.phase = "preflight"]
                ELSE Decided(x, t)
<1>0. /\ now \in Nat /\ t \in Nat /\ t >= now /\ preset \in Presets /\ k \in AllKinds
      /\ lease \in Nat /\ call[c] \in CallSet
  BY DangerAssumption DEF IInv, AccessTypeOK, Clock, AllKinds
<1>1. /\ call' = [call EXCEPT ![c] = z] /\ now' = t /\ ReadLease(t) /\ call[c].phase = "new"
      /\ UNCHANGED <<provider, preset, rules, changes>>
  BY Zenon DEF Begin
<1>2. /\ lease' \in Nat /\ challenge' \in [Challenges -> Nat] /\ held' \subseteq Nat
      /\ spent' = spent /\ held \subseteq held'
      /\ InForce(t) => t \in held'
      /\ lease' > t => t \in held'
  BY <1>0, <1>1, ReadLeaseFacts
<1>3. danger => now \in held'
  <2>1. lease > now => now \in held
    BY DEF IInv
  <2>2. held \subseteq held'
    BY <1>2
  <2> QED BY <2>1, <2>2 DEF InForce
<1>4. SandboxFor(k, danger) \in {"read-only", "workspace-write", "escalated", "danger", "unsandboxed"}
  BY DEF SandboxFor
<1>5. /\ SandboxFor(k, danger) = "danger" => danger
      /\ SandboxFor(k, danger) = "escalated" <=> k = "outside" /\ ~danger
  BY DEF SandboxFor, Files
<1>6. danger \in BOOLEAN
  BY DEF InForce
<1> HIDE DEF danger
<1>7. /\ x \in CallSet /\ x.phase = "new" /\ x.kind = k /\ x.preset = preset /\ x.danger = danger
      /\ x.began = now /\ x.sandbox = SandboxFor(k, danger)
  BY <1>0, <1>1, <1>4, <1>6 DEF CallSet
<1> HIDE DEF x
<1>8. Prepared(x, held')
  BY <1>3, <1>5, <1>7 DEF Prepared
<1>9. rules \subseteq RuleSet /\ \A r \in rules : r.sandbox # "escalated"
  BY DEF IInv, AccessTypeOK
<1>10. z \in CallSet /\ CallInv(z, held', rules')
  <2>1. CASE k = "outside" /\ ~danger
    <3> DEFINE y == [x EXCEPT !.phase = "preflight"]
    <3>1. /\ y \in CallSet /\ y.phase = "preflight" /\ y.kind = k /\ y.danger = danger
          /\ y.began = x.began /\ y.sandbox = x.sandbox
      BY <1>7 DEF CallSet
    <3>2. z = y
      BY <2>1
    <3> HIDE DEF y
    <3>3. CallInv(y, held', rules')
      BY <1>7, <1>8, <2>1, <3>1 DEF CallInv, Prepared, AtCard, Granted, Online
    <3> QED BY <3>1, <3>2, <3>3
  <2>2. CASE ~(k = "outside" /\ ~danger)
    <3>1. Decidable(x, held', t)
      <4>1. x.preset = preset /\ preset \in Presets /\ x.phase \in {"new", "preflight"}
        BY <1>0, <1>7
      <4>2. InForce(t) => t \in held'
        BY <1>2
      <4> QED BY <1>7, <1>8, <1>9, <4>1, <4>2, Zenon DEF Decidable
    <3>2. z = Decided(x, t)
      BY <2>2
    <3> QED BY <1>0, <1>1, <3>1, <3>2, DecidedInv
  <2> QED BY <2>1, <2>2
<1> HIDE DEF z
<1>11. call' \in [Calls -> CallSet] /\ \A b \in Calls : CallInv(call'[b], held', rules')
  <2>1. rules \subseteq rules'
    BY <1>1
  <2> QED BY <1>1, <1>2, <1>10, <2>1, OneCall, Zenon
<1>12. AccessTypeOK'
  <2>1. provider' \in BOOLEAN
    BY <1>1, Zenon DEF IInv, AccessTypeOK
  <2>2. rules' \subseteq RuleSet /\ changes' \in Nat /\ preset' \in Presets /\ spent' \subseteq Challenges
    BY <1>1, <1>2 DEF IInv, AccessTypeOK
  <2>3. now' \in Nat
    BY <1>0, <1>1
  <2> QED BY <1>2, <1>11, <2>1, <2>2, <2>3, Zenon DEF AccessTypeOK
<1> QED BY <1>1, <1>2, <1>9, <1>11, <1>12 DEF IInv

LEMMA PreflightedInv ==
    ASSUME IInv, NEW c \in Calls, Preflighted(c)
    PROVE  IInv'
<1> DEFINE z == IF provider THEN Decided(call[c], now) ELSE Refused
<1>0. /\ now \in Nat /\ preset \in Presets /\ lease \in Nat /\ call[c] \in CallSet
      /\ held \subseteq Nat /\ challenge \in [Challenges -> Nat]
  BY DEF IInv, AccessTypeOK
<1>1. /\ call' = [call EXCEPT ![c] = z] /\ call[c].phase = "preflight"
      /\ IF provider THEN ReadLease(now) ELSE UNCHANGED access
      /\ UNCHANGED <<now, provider, preset, rules, changes>>
  BY Zenon DEF Preflighted
<1>2. /\ lease' \in Nat /\ challenge' \in [Challenges -> Nat] /\ held' \subseteq Nat
      /\ spent' = spent /\ held \subseteq held'
      /\ provider => (InForce(now) => now \in held')
      /\ lease' > now => now \in held'
  <2>1. CASE provider
    <3>1. ReadLease(now) /\ now >= now
      BY <1>0, <1>1, <2>1
    <3> QED BY <1>0, <3>1, ReadLeaseFacts
  <2>2. CASE ~provider
    <3>1. UNCHANGED <<challenge, lease, held, spent>>
      BY <1>1, <2>2 DEF access
    <3> QED BY <1>0, <2>2, <3>1 DEF IInv
  <2> QED BY <2>1, <2>2
<1>3. CallInv(call[c], held, rules)
  BY DEF IInv
<1>4. call[c].kind = "outside" /\ ~call[c].danger
  BY <1>1, <1>3 DEF CallInv, AtCard
<1>5. Prepared(call[c], held')
  BY <1>2, <1>3 DEF CallInv, Prepared
<1>6. rules \subseteq RuleSet /\ \A r \in rules : r.sandbox # "escalated"
  BY DEF IInv, AccessTypeOK
<1>7. z \in CallSet /\ CallInv(z, held', rules')
  <2>1. CASE provider
    <3>1. call[c].phase \in {"new", "preflight"}
      BY <1>1
    <3>2. InForce(now) => now \in held'
      BY <1>2, <2>1, Zenon
    <3>3. Decidable(call[c], held', now)
      BY <1>0, <1>4, <1>5, <1>6, <3>1, <3>2, Zenon DEF Decidable
    <3>4. z = Decided(call[c], now)
      BY <2>1
    <3>5. rules' = rules
      BY <1>1
    <3> QED BY <1>0, <3>3, <3>4, <3>5, DecidedInv
  <2>2. CASE ~provider
    BY <2>2, OverInv
  <2> QED BY <2>1, <2>2
<1> HIDE DEF z
<1>8. call' \in [Calls -> CallSet] /\ \A b \in Calls : CallInv(call'[b], held', rules')
  <2>1. rules \subseteq rules'
    BY <1>1
  <2> QED BY <1>1, <1>2, <1>7, <2>1, OneCall, Zenon
<1>9. AccessTypeOK'
  <2>1. provider' \in BOOLEAN
    BY <1>1, Zenon DEF IInv, AccessTypeOK
  <2>2. rules' \subseteq RuleSet /\ changes' \in Nat /\ preset' \in Presets /\ spent' \subseteq Challenges
    BY <1>1, <1>2 DEF IInv, AccessTypeOK
  <2>3. now' \in Nat
    BY <1>0, <1>1
  <2> QED BY <1>2, <1>8, <2>1, <2>2, <2>3, Zenon DEF AccessTypeOK
<1> QED BY <1>1, <1>2, <1>6, <1>8, <1>9 DEF IInv

\* Only one call changes, to a call the invariant holds of, and only a rule
\* that is no escalation may be added.
LEMMA OnlyCall ==
    ASSUME IInv, NEW c \in Calls, NEW x \in CallSet, call' = [call EXCEPT ![c] = x],
           CallInv(x, held, rules'),
           rules \subseteq rules', rules' \subseteq RuleSet,
           \A r \in rules' : r.sandbox # "escalated",
           UNCHANGED <<now, provider, preset, changes, access>>
    PROVE  IInv'
<1>1. UNCHANGED <<challenge, lease, held, spent>>
  BY DEF access
<1>2. CallInv(x, held', rules') /\ held \subseteq held'
  BY <1>1
<1>3. call' \in [Calls -> CallSet] /\ \A b \in Calls : CallInv(call'[b], held', rules')
  BY <1>2, OneCall
<1>4. provider' \in BOOLEAN
  BY Zenon DEF IInv, AccessTypeOK
<1>5. AccessTypeOK'
  BY <1>1, <1>3, <1>4 DEF IInv, AccessTypeOK
<1> QED BY <1>1, <1>3, <1>5 DEF IInv

\* An action that ends a call.
LEMMA EndCall ==
    ASSUME IInv, NEW c \in Calls, NEW x \in {Refused, Executed},
           call' = [call EXCEPT ![c] = x],
           UNCHANGED <<now, provider, preset, rules, changes, access>>
    PROVE  IInv'
<1>1. x \in CallSet /\ CallInv(x, held, rules')
  BY OverInv
<1>2. rules' = rules /\ rules \subseteq RuleSet /\ \A r \in rules : r.sandbox # "escalated"
  BY DEF IInv, AccessTypeOK
<1> QED BY <1>1, <1>2, OnlyCall

LEMMA AnswerNetworkInv ==
    ASSUME IInv, NEW c \in Calls, NEW choice, AnswerNetwork(c, choice)
    PROVE  IInv'
<1>1. CASE choice = "deny"
  BY <1>1, EndCall, Zenon DEF AnswerNetwork
<1>2. CASE choice # "deny"
  <2> DEFINE hit == call[c].hit \/ RuleOf(call[c], TRUE) \in rules'
             x == [call[c] EXCEPT !.yes = @ \cup {"network"}, !.hit = hit,
                                  !.asks = @ /\ ~hit]
  <2>1. /\ call' = [call EXCEPT ![c] = Onward(x, now)]
        /\ call[c].phase = "networkCard"
        /\ rules' = IF choice = "session" THEN rules \cup {RuleOf(call[c], TRUE)} ELSE rules
        /\ UNCHANGED <<now, provider, preset, changes, access>>
    BY <1>2, Zenon DEF AnswerNetwork
  <2>2. /\ call[c] \in CallSet /\ now \in Nat /\ rules \subseteq RuleSet
        /\ CallInv(call[c], held, rules)
        /\ \A r \in rules : r.sandbox # "escalated"
    BY DEF IInv, AccessTypeOK
  <2>3. /\ call[c].kind = "online" /\ ~call[c].danger
        /\ call[c].asks \/ call[c].hit \/ Passed(call[c], held)
        /\ call[c].sandbox # "danger" /\ call[c].sandbox # "escalated"
    BY <2>1, <2>2 DEF CallInv, AtCard, Prepared
  <2>4. hit \in BOOLEAN /\ (call[c].asks /\ ~hit) \in BOOLEAN
    OBVIOUS
  <2>5. call[c].hit => hit
    OBVIOUS
  <2> HIDE DEF hit
  <2>6. /\ x \in CallSet /\ x.phase = "networkCard" /\ x.kind = "online"
        /\ x.danger = call[c].danger /\ x.began = call[c].began
        /\ x.sandbox = call[c].sandbox /\ x.decided = call[c].decided
        /\ x.preset = call[c].preset /\ "network" \in x.yes
        /\ x.hit = hit /\ x.asks = (call[c].asks /\ ~hit)
    BY <2>1, <2>2, <2>3, <2>4 DEF CallSet
  <2> HIDE DEF x
  <2>7. Prepared(x, held)
    BY <2>2, <2>3, <2>6 DEF CallInv, Prepared
  <2>8. Passed(call[c], held) => Passed(x, held)
    BY <2>3, <2>6 DEF Passed, FreeByPreset, PolicyKind
  <2>9. x.asks \/ x.hit \/ Passed(x, held)
    BY <2>3, <2>5, <2>6, <2>8, Zenon
  <2>10. ~x.danger /\ x.sandbox # "escalated"
    BY <2>3, <2>6
  <2>11. x.phase \in {"new", "preflight", "networkCard"}
    BY <2>6
  <2>12. Onward(x, now) \in CallSet /\ CallInv(Onward(x, now), held, rules')
    BY <2>2, <2>6, <2>7, <2>9, <2>10, <2>11, OnwardInv
  <2>13. RuleOf(call[c], TRUE) \in RuleSet /\ RuleOf(call[c], TRUE).sandbox # "escalated"
    BY <2>2, <2>3 DEF RuleOf, RuleSet, CallSet, Files
  <2>14. /\ rules \subseteq rules' /\ rules' \subseteq RuleSet
         /\ \A r \in rules' : r.sandbox # "escalated"
    BY <2>1, <2>2, <2>13
  <2> QED BY <2>1, <2>12, <2>14, OnlyCall
<1> QED BY <1>1, <1>2

LEMMA AnswerMainInv ==
    ASSUME IInv, NEW c \in Calls, NEW choice, AnswerMain(c, choice)
    PROVE  IInv'
<1>1. CASE choice = "deny"
  BY <1>1, EndCall, Zenon DEF AnswerMain
<1>2. CASE choice # "deny"
  <2> DEFINE sb == IF choice = "writable" THEN "workspace-write" ELSE call[c].sandbox
             x == [call[c] EXCEPT
                         !.yes = @ \cup {"main"},
                         !.sandbox = IF choice = "writable" THEN "workspace-write"
                                     ELSE @]
             src == IF choice = "session" THEN "session-rule" ELSE "once"
             z == Issued(x, src, now)
  <2>1. /\ call' = [call EXCEPT ![c] = z]
        /\ call[c].phase = "mainCard" /\ choice \in MainChoices(call[c])
        /\ rules' = IF choice = "session" THEN rules \cup {RuleOf(x, FALSE)} ELSE rules
        /\ UNCHANGED <<now, provider, preset, changes, access>>
    BY <1>2, Zenon DEF AnswerMain
  <2>2. /\ call[c] \in CallSet /\ now \in Nat /\ rules \subseteq RuleSet
        /\ CallInv(call[c], held, rules)
        /\ \A r \in rules : r.sandbox # "escalated"
    BY DEF IInv, AccessTypeOK
  <2>3. /\ x \in CallSet /\ x.phase = "mainCard" /\ x.kind = call[c].kind
        /\ x.danger = call[c].danger /\ x.began = call[c].began
        /\ x.sandbox = sb /\ "main" \in x.yes /\ call[c].yes \subseteq x.yes
    BY <2>1, <2>2 DEF CallSet
  <2>4. choice = "writable" => call[c].sandbox = "read-only"
    BY <2>1 DEF MainChoices
  <2>5. choice = "session" => ~(x.kind = "outside" /\ ~x.danger)
    BY <2>1, <2>3 DEF MainChoices
  <2>6. sb = call[c].sandbox \/ (sb = "workspace-write" /\ call[c].sandbox = "read-only")
    BY <2>4
  <2>7. Prepared(x, held)
    BY <2>2, <2>3, <2>6 DEF CallInv, Prepared
  <2>8. x.kind = "online" => x.danger \/ "network" \in x.yes
    BY <2>1, <2>2, <2>3 DEF CallInv, Online
  <2> HIDE DEF x, sb
  <2>9. src \in {"once", "session-rule"}
    OBVIOUS
  <2> HIDE DEF src
  <2>10. /\ z \in CallSet /\ z.phase = "waiting" /\ z.kind = x.kind /\ z.danger = x.danger
         /\ z.began = x.began /\ z.sandbox = x.sandbox /\ z.yes = x.yes /\ z.source = src
    <3> DEFINE e == now + IF src = "session-rule" THEN RuleTtl ELSE GrantTtl
    <3>1. e \in Nat
      BY <2>2, DangerAssumption
    <3>2. z = [x EXCEPT !.phase = "waiting", !.source = src, !.expires = e]
      BY DEF Issued
    <3> HIDE DEF e, z
    <3> QED BY <2>3, <2>9, <3>1, <3>2 DEF CallSet
  <2> HIDE DEF z
  <2>11. CallInv(z, held, rules')
    BY <2>3, <2>7, <2>8, <2>9, <2>10 DEF CallInv, Prepared, AtCard, Granted, Online
  <2>12. choice = "session" =>
            RuleOf(x, FALSE) \in RuleSet /\ RuleOf(x, FALSE).sandbox # "escalated"
    BY <2>3, <2>5, <2>7 DEF RuleOf, RuleSet, CallSet, Files, Prepared
  <2>13. /\ rules \subseteq rules' /\ rules' \subseteq RuleSet
         /\ \A r \in rules' : r.sandbox # "escalated"
    BY <2>1, <2>2, <2>12
  <2> QED BY <2>1, <2>10, <2>11, <2>13, OnlyCall
<1> QED BY <1>1, <1>2

LEMMA OverActionsInv ==
    ASSUME IInv, NEW c \in Calls, Abort(c) \/ Execute(c)
    PROVE  IInv'
<1>1. CASE Abort(c)
  BY <1>1, EndCall, Zenon DEF Abort
<1>2. CASE Execute(c)
  <2>1. call[c] \in CallSet /\ c \in DOMAIN call
    BY DEF IInv, AccessTypeOK
  <2>2. \E x \in {Refused, Executed} : call' = [call EXCEPT ![c] = x]
    BY <1>2, <2>1 DEF Execute
  <2>3. UNCHANGED <<now, provider, preset, rules, changes, access>>
    BY <1>2 DEF Execute
  <2> QED BY <2>2, <2>3, EndCall
<1> QED BY <1>1, <1>2

LEMMA InvokeInv ==
    ASSUME IInv, NEW c \in Calls, Invoke(c)
    PROVE  IInv'
<1> DEFINE x == call[c]
           z == [x EXCEPT !.phase = "sent"]
<1>1. /\ call[c] \in CallSet /\ c \in DOMAIN call /\ CallInv(call[c], held, rules)
      /\ rules \subseteq RuleSet /\ \A r \in rules : r.sandbox # "escalated"
  BY DEF IInv, AccessTypeOK
<1>2. x.phase = "waiting" /\ UNCHANGED <<now, provider, preset, rules, changes, access>>
  BY DEF Invoke
<1>3. call' = [call EXCEPT ![c] = z] \/ call' = [call EXCEPT ![c] = Refused]
  BY <1>1 DEF Invoke
<1>4. /\ z \in CallSet /\ z.phase = "sent" /\ z.kind = x.kind /\ z.danger = x.danger
      /\ z.began = x.began /\ z.sandbox = x.sandbox /\ z.yes = x.yes /\ z.source = x.source
      /\ z.decided = x.decided /\ z.preset = x.preset /\ z.expires = x.expires
  BY <1>1, <1>2 DEF CallSet
<1>5. CASE call' = [call EXCEPT ![c] = z]
  <2> HIDE DEF z
  <2>1. Passed(x, held) => Passed(z, held)
    BY <1>4 DEF Passed, FreeByPreset, PolicyKind
  <2>2. Prepared(z, held) /\ AtCard(z, held) /\ Online(z, rules)
    BY <1>1, <1>2, <1>4 DEF CallInv, Prepared, AtCard, Online
  <2>3. Granted(z, held)
    BY <1>1, <1>2, <1>4, <2>1 DEF CallInv, Granted
  <2>4. CallInv(z, held, rules') /\ rules' = rules
    BY <1>2, <2>2, <2>3 DEF CallInv
  <2> QED BY <1>1, <1>2, <1>4, <1>5, <2>4, OnlyCall
<1>6. CASE call' = [call EXCEPT ![c] = Refused]
  BY <1>2, <1>6, EndCall
<1> QED BY <1>3, <1>5, <1>6

LEMMA StepInv == IInv /\ [Next]_vars => IInv'
<1> SUFFICES ASSUME IInv, [Next]_vars PROVE IInv'
  OBVIOUS
<1>1. CASE Next
  <2>1. CASE \/ \E i \in Challenges : Prepare(i) \/ Enable(i)
             \/ Disable \/ ExpiryTimer \/ Tick
    BY <2>1, LeaseInv
  <2>2. CASE Degrade \/ Recover \/ ChangeRole
    BY <2>2, DegradeInv, WorldInv
  <2>3. CASE \E c \in Calls : \E k \in Kinds, t \in Clock : Begin(c, k, t)
    BY <2>3, BeginInv
  <2>4. CASE \E c \in Calls : Preflighted(c) \/ Abort(c) \/ Invoke(c) \/ Execute(c)
    BY <2>4, PreflightedInv, OverActionsInv, InvokeInv
  <2>5. CASE \E c \in Calls : \E choice \in {"once", "writable", "session", "deny"} :
                AnswerNetwork(c, choice) \/ AnswerMain(c, choice)
    BY <2>5, AnswerNetworkInv, AnswerMainInv
  <2> QED BY <1>1, <2>1, <2>2, <2>3, <2>4, <2>5, Zenon DEF Next
<1>2. CASE UNCHANGED vars
  <2>1. UNCHANGED <<now, provider, challenge, lease, preset, rules, call, changes, held, spent>>
    BY <1>2 DEF vars
  <2>2. AccessTypeOK'
    BY <2>1, Zenon DEF IInv, AccessTypeOK
  <2>3. \A c \in Calls : CallInv(call'[c], held', rules')
    BY <2>1 DEF IInv
  <2> QED BY <2>1, <2>2, <2>3 DEF IInv
<1> QED BY <1>1, <1>2

THEOREM Invariant == DangerSpec => []IInv
BY InitInv, StepInv, PTL DEF DangerSpec

-----------------------------------------------------------------------------
(* The properties. *)

\* The variables keep their types (the objects of the gateway, the danger
\* leases and executeToolCall).
THEOREM TypeCorrect == DangerSpec => []AccessTypeOK
<1>1. IInv => AccessTypeOK
  BY DEF IInv
<1> QED BY <1>1, Invariant, PTL

\* Only Invoke and Execute take a call with a grant further.
LEMMA WhoGoesOn ==
    ASSUME IInv, [Next]_vars, NEW c \in Calls,
           call[c].phase \in {"waiting", "sent"}, call'[c].phase \in {"sent", "ran"},
           call'[c].phase # call[c].phase
    PROVE  Invoke(c) \/ Execute(c)
<1>1. /\ call[c] \in CallSet /\ c \in DOMAIN call /\ call \in [Calls -> CallSet]
  BY DEF IInv, AccessTypeOK
<1>2. Refused.phase = "refused"
  BY DEF Refused, Fresh
<1>3. call' # call /\ call'[c] # call[c] /\ call'[c] # Refused
  BY <1>2
<1>4. ~UNCHANGED vars
  BY <1>3 DEF vars
<1>5. ASSUME NEW b \in Calls, NEW x, call' = [call EXCEPT ![b] = x], b # c
      PROVE  FALSE
  BY <1>1, <1>3, <1>5
<1>6. ASSUME NEW b \in Calls, call' = [call EXCEPT ![b] = Refused]
      PROVE  FALSE
  BY <1>1, <1>3, <1>6
<1>7. Next
  BY <1>4
<1>8. ~(\/ \E i \in Challenges : Prepare(i) \/ Enable(i)
        \/ Disable \/ ExpiryTimer \/ Tick \/ Recover \/ ChangeRole)
  BY <1>3 DEF Prepare, Enable, Disable, ExpiryTimer, Tick, Recover, ChangeRole
<1>9. ~Degrade
  BY <1>3 DEF Degrade
<1>10. ASSUME NEW b \in Calls, NEW k \in Kinds, NEW t \in Clock, Begin(b, k, t)
       PROVE  FALSE
  <2>1. call[b].phase = "new"
    BY <1>10, Zenon DEF Begin
  <2>2. b # c
    BY <2>1
  <2> QED BY <1>5, <1>10, <2>2, Zenon DEF Begin
<1>11. ASSUME NEW b \in Calls, Preflighted(b)
       PROVE  FALSE
  <2>1. call[b].phase = "preflight"
    BY <1>11, Zenon DEF Preflighted
  <2>2. b # c
    BY <2>1
  <2> QED BY <1>5, <1>11, <2>2, Zenon DEF Preflighted
<1>12. ASSUME NEW b \in Calls, Abort(b)
       PROVE  FALSE
  BY <1>6, <1>12, Zenon DEF Abort
<1>13. ASSUME NEW b \in Calls, NEW choice, AnswerNetwork(b, choice) \/ AnswerMain(b, choice)
       PROVE  FALSE
  <2>1. call[b].phase \in {"networkCard", "mainCard"}
    <3>1. call[b].phase = "networkCard" \/ call[b].phase = "mainCard"
      BY <1>13, Zenon DEF AnswerNetwork, AnswerMain
    <3> QED BY <3>1
  <2>2. b # c
    BY <2>1
  <2> QED BY <1>5, <1>13, <2>2, Zenon DEF AnswerNetwork, AnswerMain
<1>14. PICK b \in Calls : Invoke(b) \/ Execute(b)
  BY <1>7, <1>8, <1>9, <1>10, <1>11, <1>12, <1>13, Zenon DEF Next
<1>15. b = c
  BY <1>5, <1>14, Zenon DEF Invoke, Execute
<1> QED BY <1>14, <1>15

\* What an execution finds of its call: it was sent, and its grant is valid.
LEMMA RunFacts ==
    ASSUME IInv, [Next]_vars, NEW c \in Calls, Runs(c)
    PROVE  call[c].phase = "sent" /\ GrantValid(call[c]) /\ CallInv(call[c], held, rules)
<1>1. c \in DOMAIN call /\ CallInv(call[c], held, rules)
  BY DEF IInv, AccessTypeOK
<1>2. call[c].phase = "sent" /\ call'[c].phase = "ran"
  BY DEF Runs
<1>3. call[c].phase # "waiting" /\ call'[c].phase # "refused"
  BY <1>2
<1>4. Execute(c)
  BY <1>2, <1>3, WhoGoesOn DEF Invoke
<1>5. GrantValid(call[c])
  BY <1>1, <1>3, <1>4 DEF Execute, Refused, Fresh
<1> QED BY <1>1, <1>2, <1>5

\* A command runs in the danger sandbox only if a lease was in force when its
\* call began, and within one grant's life of its decision (requireDangerLease
\* at admission, require_grant in the system runtime).
THEOREM DangerOnlyOnLease == DangerSpec => DangerOnlyUnderLease
<1>1. ASSUME IInv, [Next]_vars
      PROVE  \A c \in Calls : Runs(c) /\ call[c].sandbox = "danger" =>
                /\ call[c].began \in held
                /\ now < call[c].decided + GrantTtl
  <2> TAKE c \in Calls
  <2> HAVE Runs(c) /\ call[c].sandbox = "danger"
  <2>1. /\ call[c].phase = "sent" /\ GrantValid(call[c])
        /\ CallInv(call[c], held, rules) /\ call[c].sandbox = "danger"
    BY <1>1, RunFacts
  <2>2. call[c].source = "danger-lease" /\ call[c].expires > now
    BY <2>1 DEF GrantValid
  <2>3. call[c].began \in held
    BY <2>1 DEF CallInv, Prepared
  <2>4. call[c].expires = call[c].decided + GrantTtl
    BY <2>1, <2>2 DEF CallInv, Granted
  <2> QED BY <2>2, <2>3, <2>4
<1> QED BY <1>1, Invariant, PTL DEF DangerSpec, DangerOnlyUnderLease

\* What leaves the workspace or reaches the network has its own consent: the
\* cards and session rules of the gateway, or a lease at admission.
THEOREM NothingBeyondUnasked == DangerSpec => BeyondWorkspaceConsented
<1>1. ASSUME IInv, [Next]_vars
      PROVE  \A c \in Calls : Runs(c) =>
                LET x == call[c] IN
                /\ x.sandbox = "unsandboxed" => "main" \in x.yes
                /\ x.sandbox = "escalated" => "main" \in x.yes \/ x.decided \in held
                /\ x.kind = "online" =>
                      \/ "network" \in x.yes
                      \/ \E r \in rules : r.network /\ r.sandbox = x.sandbox
                      \/ x.danger /\ x.began \in held
  <2> TAKE c \in Calls
  <2> HAVE Runs(c)
  <2> DEFINE x == call[c]
  <2>1. x.phase = "sent" /\ GrantValid(x) /\ CallInv(x, held, rules)
    BY <1>1, RunFacts
  <2> HIDE DEF x
  <2>2. x.sandbox = "unsandboxed" => "main" \in x.yes
    BY <2>1 DEF GrantValid, CallInv, Granted
  <2>3. x.sandbox = "escalated" => "main" \in x.yes \/ x.decided \in held
    BY <2>1 DEF CallInv, Granted
  <2>4. x.kind = "online" =>
            \/ "network" \in x.yes
            \/ \E r \in rules : r.network /\ r.sandbox = x.sandbox
            \/ x.danger /\ x.began \in held
    BY <2>1 DEF CallInv, Online, Prepared
  <2> QED BY <2>2, <2>3, <2>4 DEF x
<1> QED BY <1>1, Invariant, PTL DEF DangerSpec, BeyondWorkspaceConsented

\* A call that the policy alone let through is one the policy lets through when
\* it goes ahead: its role is compared again after the wait for the lock.
THEOREM StillAllowed == DangerSpec => PolicyStillHolds
<1>1. ASSUME IInv, [Next]_vars
      PROVE  \A c \in Calls :
                LET x == call[c] IN
                x.phase = "waiting" /\ call'[c].phase = "sent" =>
                    \/ "main" \in x.yes
                    \/ x.source = "session-rule"
                    \/ {x.began, x.decided} \cap held # {}
                    \/ FreeByPreset(x, preset)
  <2> SUFFICES ASSUME NEW c \in Calls, call[c].phase = "waiting", call'[c].phase = "sent"
               PROVE  \/ "main" \in call[c].yes
                      \/ call[c].source = "session-rule"
                      \/ {call[c].began, call[c].decided} \cap held # {}
                      \/ FreeByPreset(call[c], preset)
    BY Zenon
  <2> DEFINE x == call[c]
  <2>1. x.phase = "waiting" /\ c \in DOMAIN call /\ CallInv(x, held, rules)
    BY <1>1 DEF IInv, AccessTypeOK
  <2>2. Invoke(c)
    BY <1>1, WhoGoesOn DEF Execute
  <2>3. preset = x.preset
    BY <2>1, <2>2 DEF Invoke, Refused, Fresh
  <2> HIDE DEF x
  <2>4. /\ x.source \in {"once", "session-rule", "preset", "danger-lease"}
        /\ x.source = "once" => "main" \in x.yes
        /\ x.source = "danger-lease" => x.began \in held
        /\ x.source = "preset" => Passed(x, held)
    BY <2>1 DEF CallInv, Granted, Prepared
  <2>5. Passed(x, held) => x.decided \in held \/ FreeByPreset(x, preset)
    BY <2>3 DEF Passed
  <2>6. x.began \in held \/ x.decided \in held => {x.began, x.decided} \cap held # {}
    OBVIOUS
  <2>7. \/ "main" \in x.yes
        \/ x.source = "session-rule"
        \/ {x.began, x.decided} \cap held # {}
        \/ FreeByPreset(x, preset)
    BY <2>4, <2>5, <2>6
  <2> QED BY <2>7 DEF x
<1> QED BY <1>1, Invariant, PTL DEF DangerSpec, PolicyStillHolds

=============================================================================
