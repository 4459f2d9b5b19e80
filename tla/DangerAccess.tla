---------------------------- MODULE DangerAccess ----------------------------
(****************************************************************************)
(* How one session's tool calls are admitted and executed: the danger lease *)
(* with its two-step confirmation, the preset policy of the role, the       *)
(* user's cards and session rules, the grant issued for a call, the wait    *)
(* for the mutation lock, and the check of the grant in the system runtime  *)
(* (agent/permissions, agent/run/tool-executor.ts, tool-invocation.ts,      *)
(* system-runtime grant.rs).  Time counts in ticks; a command line, its     *)
(* prefix and directory are the same for all calls.                         *)
(****************************************************************************)
EXTENDS Naturals, FiniteSets

CONSTANTS
    Calls,          \* tool calls of the session's runs
    Kinds,          \* which of the kinds below are called
    Challenges,     \* identifiers of prepared confirmations
    ChallengeTtl,   \* CHALLENGE_TTL_MS
    LeaseTtl,       \* DANGER_LEASE_TTL_MS
    GrantTtl,       \* ONCE_TTL_MS
    RuleTtl,        \* SESSION_TTL_MS
    AskEverything,  \* the session's approval override
    MaxTime,        \* bound on the clock
    MaxChanges      \* bound on changes of the role and of the provider

ASSUME DangerAssumption ==
    /\ Kinds \subseteq {"write", "delete", "shell", "online", "outside", "bare"}
    /\ {ChallengeTtl, LeaseTtl, GrantTtl, RuleTtl, MaxTime, MaxChanges} \subseteq Nat
    /\ GrantTtl <= LeaseTtl
    /\ AskEverything \in BOOLEAN

VARIABLES
    now,        \* Date.now(), shared by both processes
    provider,   \* the system runtime is ready and has a sandbox
    challenge,  \* challenge[i]: when it expires, 0 if there is none
    lease,      \* when the session's lease expires, 0 if it has none
    preset,     \* what the live role permissions give
    rules,      \* session rules of the approval gateway
    call,       \* per call, what executeToolCall knows and its grant
    changes,    \* changes of role and provider so far
    held,       \* history: ticks at which a lease was in force
    spent       \* history: challenges ever prepared

vars == <<now, provider, challenge, lease, preset, rules, call, changes, held,
          spent>>

access == <<challenge, lease, held, spent>>

Presets == {"read", "write", "full"}
Files == {"write", "delete"}

Fresh ==
    [phase |-> "new", kind |-> "shell", preset |-> "read", danger |-> FALSE,
     sandbox |-> "read-only", asks |-> FALSE, hit |-> FALSE,
     source |-> "none", expires |-> 0,
     began |-> 0, decided |-> 0, yes |-> {}]

\* A call that is over keeps nothing.
Refused == [Fresh EXCEPT !.phase = "refused"]
Executed == [Fresh EXCEPT !.phase = "ran"]

DangerInit ==
    /\ now = 1
    /\ provider = TRUE
    /\ challenge = [i \in Challenges |-> 0]
    /\ lease = 0
    /\ preset \in Presets
    /\ rules = {}
    /\ call = [c \in Calls |-> Fresh]
    /\ changes = 0
    /\ held = {}
    /\ spent = {}

-----------------------------------------------------------------------------
(* The lease. *)

InForce(t) == lease > t

\* revoke: the session's challenges go with its lease.
Revoke ==
    /\ lease' = 0
    /\ challenge' = [i \in Challenges |-> 0]
    /\ UNCHANGED <<held, spent>>

\* isActive at time t: a lease found expired is revoked on the spot.
ReadLease(t) ==
    IF lease # 0 /\ ~InForce(t) THEN Revoke
    ELSE /\ held' = IF InForce(t) THEN held \cup {t} ELSE held
         /\ UNCHANGED <<challenge, lease, spent>>

\* danger.prepare, which refuses while there is no sandbox to enforce it.
Prepare(i) ==
    /\ provider /\ i \notin spent
    /\ challenge' = [j \in Challenges |->
                        IF j = i THEN now + ChallengeTtl
                        ELSE IF challenge[j] <= now THEN 0
                        ELSE challenge[j]]
    /\ spent' = spent \cup {i}
    /\ UNCHANGED <<now, provider, lease, preset, rules, call, changes, held>>

\* danger.enable: the challenge is consumed whatever comes of it.
Enable(i) ==
    /\ challenge[i] # 0
    /\ challenge' = [challenge EXCEPT ![i] = 0]
    /\ IF challenge[i] > now
       THEN /\ lease' = now + LeaseTtl
            /\ held' = held \cup {now}
       ELSE UNCHANGED <<lease, held>>
    /\ UNCHANGED <<now, provider, preset, rules, call, changes, spent>>

\* danger.disable by the user, who may also withdraw a challenge alone.
Disable ==
    /\ Revoke
    /\ UNCHANGED <<now, provider, preset, rules, call, changes>>

\* The timer of the lease.
ExpiryTimer ==
    /\ lease # 0 /\ ~InForce(now)
    /\ Revoke
    /\ UNCHANGED <<now, provider, preset, rules, call, changes>>

Tick ==
    /\ now < MaxTime
    /\ now' = now + 1
    /\ held' = IF lease > now' THEN held \cup {now'} ELSE held
    /\ UNCHANGED <<provider, challenge, lease, preset, rules, call, changes, spent>>

\* The system runtime goes: the lease is revoked, what it was sent is lost.
Degrade ==
    /\ provider /\ changes < MaxChanges
    /\ provider' = FALSE
    /\ changes' = changes + 1
    /\ IF lease # 0 THEN Revoke ELSE UNCHANGED access
    /\ call' = [c \in Calls |->
                   IF call[c].phase = "sent" THEN Refused
                   ELSE call[c]]
    /\ UNCHANGED <<now, preset, rules>>

Recover ==
    /\ ~provider
    /\ provider' = TRUE
    /\ UNCHANGED <<now, preset, rules, call, changes, access>>

\* Somebody edits the role's template: the gate reads the preset live.
ChangeRole ==
    /\ changes < MaxChanges
    /\ changes' = changes + 1
    /\ preset' \in Presets \ {preset}
    /\ UNCHANGED <<now, provider, rules, call, access>>

-----------------------------------------------------------------------------
(* Admission of a call. *)

\* The sandbox a call asks for, from the preset and lease read at its start.
SandboxFor(k, danger) ==
    IF k \in Files THEN "workspace-write"
    ELSE IF k = "bare" THEN "unsandboxed"
    ELSE IF danger THEN "danger"
    ELSE IF k = "outside" THEN "escalated"
    ELSE IF preset = "read" THEN "read-only"
    ELSE "workspace-write"

\* What a preset lets pass without a card: the policy matrix.
FreeKinds ==
    [read |-> {}, write |-> {"write"}, full |-> {"write", "delete", "shell", "online"}]

\* A lease absorbs the escalation flag when the call is prepared.
PolicyKind(x) == IF x.kind = "outside" /\ x.danger THEN "shell" ELSE x.kind

FreeByPreset(x, p) == PolicyKind(x) \in FreeKinds[p] /\ ~AskEverything

\* decisionFor at time t.
Asks(x, t) == x.kind = "bare" \/ (~InForce(t) /\ ~FreeByPreset(x, preset))

\* The rule a call would need, and may leave behind: a file operation on its
\* path, or the prefix with its sandbox and network.
RuleOf(x, network) ==
    IF x.kind \in Files THEN [sandbox |-> x.kind, network |-> FALSE]
    ELSE [sandbox |-> IF x.sandbox = "danger" THEN "workspace-write" ELSE x.sandbox,
          network |-> network]

\* Mutant: a rule without network also answers the network card.
NeedsNetworkCardOnce(x) ==
    x.kind = "online" /\ ~x.danger /\ \A n \in BOOLEAN : RuleOf(x, n) \notin rules

NeedsNetworkCard(x) ==
    x.kind = "online" /\ ~x.danger /\ RuleOf(x, TRUE) \notin rules

\* buildGrantV2.
Issued(x, source, t) ==
    [x EXCEPT !.phase = "waiting", !.source = source,
              !.expires = t + IF source = "session-rule" THEN RuleTtl ELSE GrantTtl]

SourceWithoutCard(x) ==
    IF x.hit THEN "session-rule" ELSE IF x.danger THEN "danger-lease" ELSE "preset"

\* To the main card if one is needed, else straight to the grant.
Onward(x, t) ==
    IF x.asks THEN [x EXCEPT !.phase = "mainCard"]
    ELSE Issued(x, SourceWithoutCard(x), t)

\* From the decision to the first wait.
Decided(x, t) ==
    LET hit == Asks(x, t) /\ ~x.danger /\ x.kind # "bare"
               /\ RuleOf(x, x.kind = "online") \in rules
        y == [x EXCEPT !.asks = Asks(x, t) /\ ~hit, !.hit = hit, !.decided = t]
    IN IF NeedsNetworkCard(y) THEN [y EXCEPT !.phase = "networkCard"]
       ELSE Onward(y, t)

\* executeToolCall up to its first wait.  Only an escalation waits before the
\* decision; for the others the clock alone may pass a tick in between.
Begin(c, k, t) ==
    /\ call[c].phase = "new"
    /\ LET danger == InForce(now)
           x == [call[c] EXCEPT !.kind = k, !.preset = preset, !.danger = danger,
                                !.sandbox = SandboxFor(k, danger), !.began = now]
       IN call' = [call EXCEPT ![c] =
                      IF k = "outside" /\ ~danger
                      THEN [x EXCEPT !.phase = "preflight"] ELSE Decided(x, t)]
    /\ now' = t
    /\ ReadLease(t)
    /\ UNCHANGED <<provider, preset, rules, changes>>

\* shell.prepare_escalation answered; the decision reads the lease again.
Preflighted(c) ==
    /\ call[c].phase = "preflight"
    /\ call' = [call EXCEPT ![c] =
                   IF provider THEN Decided(call[c], now)
                   ELSE Refused]
    /\ IF provider THEN ReadLease(now) ELSE UNCHANGED access
    /\ UNCHANGED <<now, provider, preset, rules, changes>>

\* The network card: once, for the prefix in this session, or denied.  Its
\* rule, or one another call left meanwhile, also covers the main card.
AnswerNetwork(c, choice) ==
    /\ call[c].phase = "networkCard"
    /\ choice \in {"once", "session", "deny"}
    /\ IF choice = "deny" THEN call' = [call EXCEPT ![c] = Refused] /\ UNCHANGED rules
       ELSE /\ rules' = IF choice = "session" THEN rules \cup {RuleOf(call[c], TRUE)}
                        ELSE rules
            /\ LET hit == call[c].hit \/ RuleOf(call[c], TRUE) \in rules'
                   x == [call[c] EXCEPT !.yes = @ \cup {"network"}, !.hit = hit,
                                        !.asks = @ /\ ~hit]
               IN call' = [call EXCEPT ![c] = Onward(x, now)]
    /\ UNCHANGED <<now, provider, preset, changes, access>>

\* The choices of the main card.
MainChoices(x) ==
    {"once", "deny"}
    \cup (IF x.sandbox = "read-only" THEN {"writable"} ELSE {})
    \cup (IF x.kind = "write" \/ x.kind = "shell" \/ (x.kind = "outside" /\ x.danger)
          THEN {"session"} ELSE {})

AnswerMain(c, choice) ==
    /\ call[c].phase = "mainCard"
    /\ choice \in MainChoices(call[c])
    /\ IF choice = "deny" THEN call' = [call EXCEPT ![c] = Refused] /\ UNCHANGED rules
       ELSE LET x == [call[c] EXCEPT
                         !.yes = @ \cup {"main"},
                         !.sandbox = IF choice = "writable" THEN "workspace-write"
                                     ELSE @]
            IN /\ rules' = IF choice = "session" THEN rules \cup {RuleOf(x, FALSE)}
                           ELSE rules
               /\ call' = [call EXCEPT ![c] =
                              Issued(x, IF choice = "session" THEN "session-rule"
                                        ELSE "once", now)]
    /\ UNCHANGED <<now, provider, preset, changes, access>>

\* The run is stopped while the call waits.
Abort(c) ==
    /\ call[c].phase \in {"preflight", "networkCard", "mainCard", "waiting"}
    /\ call' = [call EXCEPT ![c] = Refused]
    /\ UNCHANGED <<now, provider, preset, rules, changes, access>>

-----------------------------------------------------------------------------
(* Execution. *)

\* Mutant: the role is not looked at again after the wait for the lock.
InvokeUnchecked(c) ==
    /\ call[c].phase = "waiting"
    /\ call' = [call EXCEPT ![c] =
                   IF provider THEN [@ EXCEPT !.phase = "sent"] ELSE Refused]
    /\ UNCHANGED <<now, provider, preset, rules, changes, access>>

\* The mutation lock is taken: a role that changed meanwhile ends the call.
Invoke(c) ==
    /\ call[c].phase = "waiting"
    /\ call' = [call EXCEPT ![c] =
                   IF preset = @.preset /\ provider THEN [@ EXCEPT !.phase = "sent"]
                   ELSE Refused]
    /\ UNCHANGED <<now, provider, preset, rules, changes, access>>

\* Mutant: the system runtime trusts the sandbox a grant names.
GrantValidAnyDanger(x) ==
    /\ x.expires > now
    /\ x.sandbox = "unsandboxed" => x.source = "once"

\* require_grant in the system runtime.
GrantValid(x) ==
    /\ x.expires > now
    /\ x.sandbox = "danger" => x.source = "danger-lease"
    /\ x.sandbox = "unsandboxed" => x.source = "once"

Execute(c) ==
    /\ call[c].phase = "sent"
    /\ call' = [call EXCEPT ![c] =
                   IF GrantValid(@) THEN Executed ELSE Refused]
    /\ UNCHANGED <<now, provider, preset, rules, changes, access>>

Clock == now..(IF now < MaxTime THEN now + 1 ELSE now)

Next ==
    \/ \E i \in Challenges : Prepare(i) \/ Enable(i)
    \/ Disable \/ ExpiryTimer \/ Tick
    \/ Degrade \/ Recover \/ ChangeRole
    \/ \E c \in Calls :
          \/ \E k \in Kinds, t \in Clock : Begin(c, k, t)
          \/ Preflighted(c) \/ Abort(c) \/ Invoke(c) \/ Execute(c)
          \/ \E choice \in {"once", "writable", "session", "deny"} :
                AnswerNetwork(c, choice) \/ AnswerMain(c, choice)

DangerSpec == DangerInit /\ [][Next]_vars

-----------------------------------------------------------------------------
(* Properties. *)

\* Call c is executed in this step.
Runs(c) == call[c].phase = "sent" /\ call'[c].phase = "ran"

\* A command runs without the workspace boundary of the danger sandbox only if
\* a lease was in force when its call began and its grant was issued without
\* anything being waited for: it is over within one grant's life of that
\* moment, whatever cards, locks and revocations came in between.
DangerOnlyUnderLease ==
    [][\A c \in Calls : Runs(c) /\ call[c].sandbox = "danger" =>
          /\ call[c].began \in held
          /\ now < call[c].decided + GrantTtl]_vars

\* Nothing leaves the workspace or reaches the network without its own
\* consent: a card for this call, a session rule for exactly its prefix,
\* sandbox and network, or a lease in force when the call was admitted.
BeyondWorkspaceConsented ==
    [][\A c \in Calls : Runs(c) =>
          LET x == call[c] IN
          /\ x.sandbox = "unsandboxed" => "main" \in x.yes
          /\ x.sandbox = "escalated" => "main" \in x.yes \/ x.decided \in held
          /\ x.kind = "online" =>
                \/ "network" \in x.yes
                \/ \E r \in rules : r.network /\ r.sandbox = x.sandbox
                \/ x.danger /\ x.began \in held]_vars

\* A call that goes ahead on the policy alone is one the policy lets pass at
\* the moment it goes ahead, however the role was edited while it waited for
\* cards and for the mutation lock.
PolicyStillHolds ==
    [][\A c \in Calls :
          LET x == call[c] IN
          x.phase = "waiting" /\ call'[c].phase = "sent" =>
              \/ "main" \in x.yes
              \/ x.source = "session-rule"
              \/ {x.began, x.decided} \cap held # {}
              \/ FreeByPreset(x, preset)]_vars
=============================================================================
