---------------------------- MODULE SingleFilePolicy ----------------------------
(***************************************************************************)
(* The policy engine of the single-file control plane                      *)
(* (src/src/cyberkimi/policy.py) on top of its registry.                   *)
(*                                                                         *)
(* authorize decides and writes everything in one transaction, from an     *)
(* engagement, an asset and a time its caller read earlier.  A denial      *)
(* rolls that transaction back and is audited in a second one.             *)
(* consume_grant checks signature and expiry before its transaction.       *)
(***************************************************************************)
EXTENDS AuthorizationRegistry, Integers

CONSTANTS
    Agents,          \* processes that authorize and consume
    Roots,           \* root task ids, the keys of budgets
    Requests,        \* what agents ask for
    ToolManifest,    \* [tools -> accepted asset types, profiles, the base profile first]
    Zone,            \* "utc", or the "offset" every time is given in; the tables compare
                     \* times as text, so one installation uses one
    GrantTTL,        \* grant_ttl_seconds
    ApprovalTTL,     \* an automatic approval lives 15 minutes
    Hour,            \* the length of an R4 window
    R4LimitPerHour,
    MaxTime,         \* bound: the last instant of the clock
    MaxEvents        \* bound: a denial is audited only below this many events

R3 == 3
R4 == 4

ASSUME ZoneKnown == Zone \in {"utc", "offset"}

ControlRequestAssumption ==
    \A r \in Requests : r.engagement \in EngagementIds /\ r.root \in Roots /\ r.timeout \in Nat \ {0}

ControlManifestAssumption ==
    \A m \in Manifests :
        /\ m.created \in Nat /\ m.expires \in Nat /\ m.created < m.expires
        /\ m.maxCalls \in Nat \ {0} /\ m.maxRuntime \in Nat

ASSUME ControlInputs == ControlRequestAssumption /\ ControlManifestAssumption
ASSUME LifetimesAreTimes == GrantTTL \in Nat \ {0} /\ ApprovalTTL \in Nat \ {0}
ASSUME NoneIsNoTime == None \notin Nat
ASSUME WindowIsNumbers == Hour \in Nat /\ R4LimitPerHour \in Int

VARIABLES
    clock,      \* datetime.now
    approvals,  \* table approvals
    usage,      \* table budget_usage, keyed by root task
    grants,     \* table execution_grants, in insertion order
    windows,    \* table r4_execution_windows; "row" is the row's identity
    audit,      \* table audit_events; "prior" is the event whose hash an event carries
    calls       \* the authorize or consume_grant call of each agent

controlTables == <<approvals, usage, grants, windows, audit>>
controlVars == <<registryVars, clock, controlTables, calls>>

Least(x, y) == IF x <= y THEN x ELSE y

--------------------------------------------------------------------------------
\* What an agent holds while it asks, and while it consumes.
Asking(step, r, m, row, now) ==
    [step |-> step, request |-> r, engagement |-> m, asset |-> row, now |-> now]
Consuming(i, now) == [step |-> "consuming", grant |-> i, now |-> now]

At(a, step) == calls[a] # None /\ calls[a].step = step
Goto(a, c) == calls' = [calls EXCEPT ![a] = c]
Return(a) == Goto(a, None)

\* EngagementRevision.active
Active(m, now) == m.created <= now /\ now < m.expires

\* _validate_static: what can fail for an engagement and an asset read by its name.
StaticallyDenied(c) ==
    \/ ~Active(c.engagement, c.now)
    \/ c.asset.type \notin ToolManifest[c.request.tool].accepts
    \/ c.request.effects \cap c.engagement.prohibited # {}

\* _resolve_profile: the profiles that satisfy the action, by their position.
AuthorizedProfiles(c) ==
    LET profiles == ToolManifest[c.request.tool].profiles
    IN {i \in DOMAIN profiles :
           LET p == profiles[i] IN
           /\ p.flag \in c.engagement.flags \cup {None}
           /\ p.risk <= c.engagement.maximumRisk
           /\ c.request.effects \subseteq p.effects
           /\ p.effects \subseteq c.asset.effects
           /\ c.request.timeout <= p.timeout}

\* The preferred profile, or the least by risk, timeout and position.
Chosen(c) ==
    LET profiles == ToolManifest[c.request.tool].profiles
        Before(i, j) ==
            \/ profiles[i].risk < profiles[j].risk
            \/ profiles[i].risk = profiles[j].risk /\ profiles[i].timeout < profiles[j].timeout
            \/ /\ profiles[i].risk = profiles[j].risk
               /\ profiles[i].timeout = profiles[j].timeout
               /\ i <= j
    IN {profiles[i] : i \in
           {j \in AuthorizedProfiles(c) :
               IF c.request.preferred # None THEN profiles[j].name = c.request.preferred
               ELSE \A k \in AuthorizedProfiles(c) : Before(j, k)}}

\* _resolve_approval: the rows that match.  The automatic approvals, the only ones the
\* code writes, leave arguments free.
Matches(ap, c) ==
    /\ ap.engagement = c.engagement.id
    /\ ap.tool = c.request.tool
    /\ ap.alias = c.asset.alias /\ ap.revision = c.asset.revision
    /\ c.request.effects \subseteq ap.effects
    /\ ap.expires > c.now

Unapproved(c, p) == p.risk >= R3 /\ \A ap \in approvals : ~Matches(ap, c)

Approval(c) ==
    [engagement |-> c.engagement.id, tool |-> c.request.tool, alias |-> c.asset.alias,
     revision |-> c.asset.revision, effects |-> c.request.effects, issued |-> c.now,
     expires |-> Least(c.now + ApprovalTTL, c.engagement.expires)]

\* Broken variant: the limit is reached before it is noticed.
WithinBudgetBefore(c) ==
    /\ usage[c.request.root].calls <= c.engagement.maxCalls
    /\ usage[c.request.root].runtime <= c.engagement.maxRuntime * c.engagement.maxCalls

\* _reserve_budget.  A profile is authorized for at least the timeout that was asked
\* for, so that is the runtime reserved; maxCalls is at least 1.
WithinBudget(c) ==
    /\ usage[c.request.root].calls + 1 <= c.engagement.maxCalls
    /\ usage[c.request.root].runtime + c.request.timeout
          <= c.engagement.maxRuntime * c.engagement.maxCalls

\* Broken variant: the window is one instant short.
ExpiredEarly(w, c) == w.engagement = c.engagement.id /\ w.at + Hour <= c.now

\* _reserve_r4_window: the rows it deletes.
Expired(w, c) == w.engagement = c.engagement.id /\ w.at + Hour < c.now

OpenWindows(c) == {w \in windows : ~Expired(w, c)}

WithinWindow(c) ==
    Cardinality({w \in OpenWindows(c) : w.engagement = c.engagement.id}) < R4LimitPerHour

\* Broken variant: a grant may outlive its engagement.
ExpiryUncapped(c) == c.now + GrantTTL

Expiry(c) == Least(c.now + GrantTTL, c.engagement.expires)

\* Whether consume_grant will accept the signature: it was made over isoformat and
\* sorted effects, and is verified over model_dump, which writes UTC as "Z" and the
\* effects in the order of their frozenset.
GrantVerifies(c) == IF Zone = "utc" THEN {FALSE} ELSE EffectsVerify(c.request.effects)

Grant(c, p, verifies) ==
    [engagement |-> c.engagement, asset |-> c.asset, request |-> c.request, profile |-> p,
     issued |-> c.now, expires |-> Expiry(c), verifies |-> verifies, consumed |-> None]

\* The last event of an engagement, 0 before the first.
LastEvent(log, e) ==
    LET own == {i \in DOMAIN log : log[i].engagement = e}
    IN IF own = {} THEN 0 ELSE CHOOSE i \in own : \A j \in own : j <= i

\* _append_audit
Chained(log, e, event, grant) ==
    Append(log, [engagement |-> e, event |-> event, grant |-> grant,
                 prior |-> LastEvent(log, e)])

\* The exceptions authorize turns into a denial.
Refusal(c) ==
    \/ StaticallyDenied(c)
    \/ Chosen(c) = {}
    \/ \E p \in Chosen(c) : Unapproved(c, p) /\ ~c.engagement.selfAttested
    \/ ~WithinBudget(c)
    \/ \E p \in Chosen(c) : p.risk = R4 /\ ~WithinWindow(c)

\* Broken variant: a denial keeps the approval written on the way to it.
KeptApprovals(c) ==
    IF \E p \in Chosen(c) : Unapproved(c, p) /\ c.engagement.selfAttested
    THEN approvals \cup {Approval(c)} ELSE approvals

\* The approvals after ROLLBACK.
RolledBackApprovals(c) == approvals

--------------------------------------------------------------------------------
ControlInit ==
    /\ RegistryInit
    /\ clock = 0
    /\ approvals = {}
    /\ usage = [t \in Roots |-> [calls |-> 0, runtime |-> 0]]
    /\ grants = <<>>
    /\ windows = {}
    /\ audit = <<>>
    /\ calls = [a \in Agents |-> None]

\* The caller of authorize reads the latest engagement, resolves the asset and takes
\* the time, as review_repository does.
StartAuthorize(a, r) ==
    /\ calls[a] = None
    /\ EngagementRowsOf(r.engagement) # {}
    /\ \E row \in ResolvedAssets(r.alias, r.revision, r.engagement) :
          Goto(a, Asking("asking", r, LatestEngagement(r.engagement), row, clock))
    /\ UNCHANGED <<registryVars, clock, controlTables>>

\* authorize, the transaction: approval if needed, budget, window, grant and audit.
Permit(a) ==
    /\ At(a, "asking")
    /\ ~Refusal(calls[a])
    /\ LET c == calls[a]
           e == c.engagement.id
           i == Len(grants) + 1
       IN \E p \in Chosen(c), verifies \in GrantVerifies(c) :
             /\ approvals' = IF Unapproved(c, p) THEN approvals \cup {Approval(c)} ELSE approvals
             /\ usage' = [usage EXCEPT ![c.request.root] =
                             [calls |-> @.calls + 1, runtime |-> @.runtime + c.request.timeout]]
             /\ windows' = IF p.risk = R4
                           THEN OpenWindows(c) \cup {[engagement |-> e, at |-> c.now, row |-> i]}
                           ELSE windows
             /\ grants' = Append(grants, Grant(c, p, verifies))
             /\ audit' = Chained(IF Unapproved(c, p)
                                 THEN Chained(audit, e, "approval.auto_granted", i) ELSE audit,
                                 e, "authorization.permitted", i)
    /\ Return(a)
    /\ UNCHANGED <<registryVars, clock>>

\* authorize, the transaction: a denial rolls it back.
Deny(a) ==
    /\ At(a, "asking")
    /\ Refusal(calls[a])
    /\ approvals' = RolledBackApprovals(calls[a])
    /\ LET c == calls[a]
       IN Goto(a, Asking("denied", c.request, c.engagement, c.asset, c.now))
    /\ UNCHANGED <<registryVars, clock, usage, grants, windows, audit>>

\* _record_denial, the second transaction.
RecordDenial(a) ==
    /\ At(a, "denied")
    /\ Len(audit) < MaxEvents
    /\ audit' = Chained(audit, calls[a].engagement.id, "authorization.denied", 0)
    /\ Return(a)
    /\ UNCHANGED <<registryVars, clock, approvals, usage, grants, windows>>

\* consume_grant, before the transaction.
StartConsume(a, i) ==
    /\ calls[a] = None
    /\ grants[i].verifies
    /\ clock < grants[i].expires
    /\ Goto(a, Consuming(i, clock))
    /\ UNCHANGED <<registryVars, clock, controlTables>>

\* Broken variant: any grant will do.
UnspentNever(i) == TRUE

\* consumed_at IS NULL
Unspent(i) == grants[i].consumed = None

\* consume_grant, the transaction.
Consume(a) ==
    /\ At(a, "consuming")
    /\ LET i == calls[a].grant
       IN /\ Unspent(i)
          /\ grants' = [grants EXCEPT ![i].consumed = calls[a].now]
          /\ audit' = Chained(audit, grants[i].engagement.id, "execution_grant.consumed", i)
    /\ Return(a)
    /\ UNCHANGED <<registryVars, clock, approvals, usage, windows>>

\* The call raises - REPLAYED_GRANT, or its transaction fails - or the agent dies.
Abandon(a) ==
    /\ calls[a] # None
    /\ Return(a)
    /\ UNCHANGED <<registryVars, clock, controlTables>>

Tick ==
    /\ clock < MaxTime
    /\ clock' = clock + 1
    /\ UNCHANGED <<registryVars, controlTables, calls>>

ControlNext ==
    \/ RegistryNext /\ UNCHANGED <<clock, controlTables, calls>>
    \/ \E a \in Agents :
          \/ \E r \in Requests : StartAuthorize(a, r)
          \/ Permit(a)
          \/ Deny(a)
          \/ RecordDenial(a)
          \/ \E i \in DOMAIN grants : StartConsume(a, i)
          \/ Consume(a)
          \/ Abandon(a)
    \/ Tick

ControlSpec == ControlInit /\ [][ControlNext]_controlVars

--------------------------------------------------------------------------------
\* "explicit before/after records, never ... mutations of signed revisions"
\* (policy.py:46): a grant is for revisions that are registered and belong together,
\* asks for nothing the asset does not allow or the engagement prohibits, was issued
\* while the engagement was active and ends with it, although all of these were read
\* before the transaction.
GrantWithinRevisions ==
    \A i \in DOMAIN grants :
        LET g == grants[i] IN
        /\ g.engagement \in engagementRows
        /\ g.asset \in assetRows
        /\ g.asset.engagement = g.engagement.id
        /\ g.request.effects \subseteq g.asset.effects \cap g.profile.effects
        /\ g.request.effects \cap g.engagement.prohibited = {}
        /\ g.profile.risk <= g.engagement.maximumRisk
        /\ Active(g.engagement, g.issued)
        /\ g.expires <= g.engagement.expires

\* "Every successful authorization is one atomic SQLite transaction containing ...
\* approval handling, budget reservation, grant creation" (policy.py:43): an approval
\* that was written belongs to a grant that needed it, under a self-attesting revision,
\* and every grant that needs an approval has one that was alive when it was issued.
ApprovalsExplained ==
    /\ \A ap \in approvals :
          \E i \in DOMAIN grants :
              /\ grants[i].profile.risk >= R3
              /\ grants[i].engagement.id = ap.engagement
              /\ grants[i].engagement.selfAttested
              /\ grants[i].asset.alias = ap.alias /\ grants[i].asset.revision = ap.revision
              /\ grants[i].issued = ap.issued
              /\ ap.expires <= grants[i].engagement.expires
    /\ \A i \in DOMAIN grants :
          LET g == grants[i] IN
          g.profile.risk >= R3 =>
              \E ap \in approvals :
                  /\ ap.engagement = g.engagement.id
                  /\ ap.alias = g.asset.alias /\ ap.revision = g.asset.revision
                  /\ g.request.effects \subseteq ap.effects
                  /\ g.issued < ap.expires

\* The budget row of a root task counts its grants, and no interleaving takes it past
\* what a registered revision of one of its engagements allows.
RootBudgetAccounts ==
    \A t \in Roots :
        LET charged == {i \in DOMAIN grants : grants[i].request.root = t}
        IN /\ usage[t].calls = Cardinality(charged)
           /\ charged # {} =>
                 \E i \in charged :
                     /\ usage[t].calls <= grants[i].engagement.maxCalls
                     /\ usage[t].runtime
                           <= grants[i].engagement.maxRuntime * grants[i].engagement.maxCalls

\* "engagement R4 rate limit reached" (policy.py:361): the hour before an R4 grant
\* holds no more R4 grants of its engagement than the limit.  Said of the grants whose
\* time is not earlier than that of one written before: an agent that sleeps on its
\* time is judged by rows that later agents have pruned.
R4Before(i) ==
    {j \in 1..i :
        /\ grants[j].profile.risk = R4
        /\ grants[j].engagement.id = grants[i].engagement.id}

R4RateLimited ==
    \A i \in DOMAIN grants :
        (/\ grants[i].profile.risk = R4
         /\ \A j \in R4Before(i) : grants[j].issued <= grants[i].issued) =>
            Cardinality({j \in R4Before(i) : grants[j].issued + Hour >= grants[i].issued})
                <= R4LimitPerHour

\* "append-only audit persistence" (policy.py:45): the events of an engagement are one
\* chain without forks, and tell the story of the grants - each permitted once, consumed
\* when and only when its row says so, after that and before it expired.
AuditTellsGrants ==
    /\ \A i, j \in DOMAIN audit :
          audit[i].engagement = audit[j].engagement /\ audit[i].prior = audit[j].prior => i = j
    /\ \A g \in DOMAIN grants :
          LET Of(event) == {i \in DOMAIN audit : audit[i].event = event /\ audit[i].grant = g}
              spent     == Of("execution_grant.consumed")
          IN \E permitted \in Of("authorization.permitted") :
                /\ Of("authorization.permitted") = {permitted}
                /\ Cardinality(spent) = IF grants[g].consumed = None THEN 0 ELSE 1
                /\ \A i \in spent : i > permitted /\ grants[g].consumed < grants[g].expires

\* "engine.consume_grant(decision.grant, now=now)" (tests/test_policy.py:111): the
\* signature of a grant that was just issued is accepted when it is consumed.
GrantsVerify == \A i \in DOMAIN grants : grants[i].verifies
================================================================================
