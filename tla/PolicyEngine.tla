------------------------------ MODULE PolicyEngine ------------------------------
(***************************************************************************)
(* The authorization coordinator (src/src/cyberkimi/policy/engine.py) on   *)
(* top of the engagement service it reads from.                            *)
(*                                                                         *)
(* A call of authorize_adaptive is several steps of one agent: the scope   *)
(* token is verified, then the asset is resolved and the profile examined, *)
(* each in read sessions of their own, and only then does one transaction  *)
(* write - either a refusal (_non_grant) or everything a permit writes.    *)
(* Other agents, registrations, asset progressions and the clock move in   *)
(* between, and an agent may die between any two steps.                    *)
(***************************************************************************)
EXTENDS EngagementService, Sequences, FiniteSets

CONSTANTS
    Agents,       \* processes that call the engine
    Actions,      \* action ids
    Tasks,        \* task ids
    TaskSpec,     \* [Tasks -> engagement, assets, risk, allowed and prohibited effects]
    Tools,        \* tool names
    ToolManifest, \* [Tools -> accepted asset types, arguments, base and other profiles]
    Requests,     \* the authorization requests agents make
    BudgetNames,  \* "default", "extended", "comprehensive"
    R4Limit,      \* [BudgetNames -> Nat]: R4 grants per engagement
    GrantTTL,     \* a grant lives 5 minutes
    ApprovalTTL   \* an automatic approval lives 15 minutes

Resources == {"tool_calls", "runtime_seconds", "artifact_bytes", "model_turns", "retries"}

\* The resources _ensure_budget compares with a limit; the others are only summed.
Limited == {"tool_calls", "runtime_seconds", "artifact_bytes"}

Cost == [Resources -> Nat]

R3 == 3
R4 == 4

\* The policy fields of a manifest, on top of those the engagement service reads.
\* "auto" is authorization_allows_auto_approval(); risks are ranks, R0 to R4.
PolicyManifestAssumption ==
    \A m \in Manifests :
        /\ m.budget \in BudgetNames
        /\ m.limits \in [Limited -> Nat]
        /\ m.maxEngagementToolCalls \in Nat
        /\ m.maximumRisk \in Nat
        /\ m.auto \in BOOLEAN

RequestAssumption ==
    \A r \in Requests :
        /\ r.action \in Actions
        /\ r.task \in Tasks
        /\ r.tool \in Tools
        /\ r.cost \in Cost
        /\ r.arguments.bounded \in Nat

Profile ==
    UNION {{ToolManifest[t].base} \cup ToolManifest[t].profiles : t \in Tools}

ProfileAssumption == \A p \in Profile : p.risk \in Nat

TaskAssumption == \A t \in Tasks : TaskSpec[t].risk \in Nat

\* ToolManifest refuses a base profile that requires an engagement flag.
ToolAssumption == \A t \in Tools : ToolManifest[t].base.flag = None

\* authorize_adaptive retries with requested_profile None.
Adjusted(r) ==
    [action |-> r.action, task |-> r.task, tool |-> r.tool, profile |-> None,
     target |-> r.target, cost |-> r.cost, arguments |-> r.arguments,
     kill_switch_armed |-> r.kill_switch_armed]

ASSUME PolicyManifestsWellFormed == PolicyManifestAssumption
ASSUME RequestsWellFormed == RequestAssumption
ASSUME ProfilesWellFormed == ProfileAssumption
ASSUME TasksWellFormed == TaskAssumption
ASSUME ToolsWellFormed == ToolAssumption
ASSUME R4LimitIsNat == R4Limit \in [BudgetNames -> Nat]
ASSUME NoneIsNoKind == None \notin {"deny", "adjust_configuration"}
ASSUME TTLsPositive == GrantTTL \in Nat \ {0} /\ ApprovalTTL \in Nat \ {0}

VARIABLES
    auth,         \* the authorize_adaptive call each agent is inside of
    proposed,     \* table proposed_actions: its primary keys
    grants,       \* table execution_grants, in insertion order
    approvals,    \* table approvals
    usage,        \* table budget_usage, keyed by task and budget name
    decisions,    \* table policy_decisions; rows that differ only in id are one
    policyAudit   \* table audit_events: the rows the engine writes

policyTables == <<proposed, grants, approvals, usage, decisions, policyAudit>>
policyVars == <<vars, auth, policyTables>>

--------------------------------------------------------------------------------
\* verify_scope_token: a stored token that has not expired, of an engagement that
\* has not expired.  The claims' expiry is the manifest's.  Nothing revokes a token.
TokenVerifies(t) == t \in tokens /\ t.manifest.expires > clock

\* resolve_asset: by alias the current revision, by "alias@n" that revision of the
\* same engagement; both must verify.  A target is [alias, revision], revision 0
\* standing for the bare alias.
Targeted(c) ==
    LET e == c.token.manifest.id
        g == c.request.target
    IN {r \in revisions :
           /\ r.alias = g.alias
           /\ r.verifies
           /\ \/ g.revision = 0 /\ Resolves(e, g.alias) /\ r.revision = aliases[g.alias].current
              \/ g.revision # 0 /\ r.engagement = e /\ r.revision = g.revision}

\* _validate_request_binding
Bound(c) ==
    /\ TaskSpec[c.request.task].engagement = c.token.manifest.id
    /\ c.request.target \in TaskSpec[c.request.task].assets

\* Broken variant: any revision of an alias in the token will do.
InTokenAnyRevision(c, row) == c.token.assets[row.alias] # 0

InToken(c, row) == c.token.assets[row.alias] = row.revision

\* ToolManifest.profile: the base profile, or a named one whose engagement flag is
\* set; empty when it raises ValidationFailure.
Selected(c) ==
    LET tool == ToolManifest[c.request.tool]
    IN IF c.request.profile \in {None, tool.base.name}
       THEN {tool.base}
       ELSE {p \in tool.profiles :
                p.name = c.request.profile /\ p.flag \in c.token.manifest.flags \cup {None}}

\* _validate_profile: any of its refusals.
ProfileDenied(c, row, profile) ==
    LET m    == c.token.manifest
        task == TaskSpec[c.request.task]
    IN \/ profile.risk > m.maximumRisk
       \/ profile.risk > task.risk
       \/ ~(profile.effects \subseteq row.content.effects)
       \/ ~(profile.effects \subseteq task.allowed)
       \/ profile.effects \cap task.prohibited # {}
       \/ profile.network /\ ~row.content.network
       \/ profile.risk = R4 /\ m.flags \cap {"extended_operations", "comprehensive_assessment"} = {}
       \/ profile.risk = R4 /\ ~c.request.kill_switch_armed

NeedsApproval(profile) == profile.approval \/ profile.risk >= R3

\* Broken variant of Covers: an approval of another revision of the asset will do.
CoversAnyRevision(ap, c) ==
    /\ ap.engagement = TaskSpec[c.request.task].engagement
    /\ ap.tool = c.request.tool
    /\ ap.alias = c.row.alias
    /\ ap.expires > clock
    /\ c.profile.effects \subseteq ap.effects
    /\ c.request.arguments.fixed = ap.arguments.fixed
    /\ c.request.arguments.bounded <= ap.arguments.bounded

\* _find_approval.  The parameter schema of an automatic approval fixes every
\* argument but the bounded integers, which may be anything from 0 up to the value
\* approved; arguments are [fixed, bounded].
Covers(ap, c) ==
    /\ ap.engagement = TaskSpec[c.request.task].engagement
    /\ ap.tool = c.request.tool
    /\ ap.alias = c.row.alias
    /\ ap.revision = c.row.revision
    /\ ap.expires > clock
    /\ c.profile.effects \subseteq ap.effects
    /\ c.request.arguments.fixed = ap.arguments.fixed
    /\ c.request.arguments.bounded <= ap.arguments.bounded

\* _auto_approve
AutoApproval(c) ==
    [engagement |-> TaskSpec[c.request.task].engagement, tool |-> c.request.tool,
     alias |-> c.row.alias, revision |-> c.row.revision, effects |-> c.profile.effects,
     arguments |-> c.request.arguments, expires |-> clock + ApprovalTTL]

R4Granted(e) == {x \in policyAudit : x.event = "policy.r4_granted" /\ x.engagement = e}

WithinR4Limit(c) ==
    c.profile.risk = R4 =>
        Cardinality(R4Granted(c.token.manifest.id)) < R4Limit[c.token.manifest.budget]

\* Broken variant of WithinBudget: what was used is compared, not what will be.
WithinBudgetBefore(c) ==
    /\ \A x \in Limited : usage[c.request.task][c.token.manifest.budget][x]
                            <= c.token.manifest.limits[x]
    /\ WithinR4Limit(c)

\* _ensure_budget
WithinBudget(c) ==
    LET m == c.token.manifest
    IN /\ \A x \in Limited :
             usage[c.request.task][m.budget][x] + c.request.cost[x] <= m.limits[x]
       /\ WithinR4Limit(c)

\* The claims of a grant.  "cost" is in the action fingerprint of its row;
\* "manifest" is the manifest revision that was enforced.
Grant(c) ==
    [action |-> c.request.action, task |-> c.request.task, manifest |-> c.token.manifest,
     alias |-> c.row.alias, revision |-> c.row.revision, tool |-> c.request.tool,
     profile |-> c.profile, arguments |-> c.request.arguments, cost |-> c.request.cost,
     issued |-> clock, expires |-> clock + GrantTTL, consumed |-> FALSE]

Decision(c, kind) == [action |-> c.request.action, pass |-> c.pass, kind |-> kind]

\* Broken variants: the event of another grant, and no event of its own for R4.
GrantEventPrevious(c) ==
    [event |-> IF c.profile.risk = R4 THEN "policy.r4_granted" ELSE "policy.grant_created",
     engagement |-> c.token.manifest.id, action |-> c.request.action,
     grant |-> Len(grants), pass |-> c.pass]
GrantEventUnmarked(c) ==
    [event |-> "policy.grant_created",
     engagement |-> c.token.manifest.id, action |-> c.request.action,
     grant |-> Len(grants) + 1, pass |-> c.pass]

GrantEvent(c) ==
    [event |-> IF c.profile.risk = R4 THEN "policy.r4_granted" ELSE "policy.grant_created",
     engagement |-> c.token.manifest.id, action |-> c.request.action,
     grant |-> Len(grants) + 1, pass |-> c.pass]

\* Broken variant: the pass that follows is recorded.
NonGrantEventNextPass(c) ==
    [event |-> "policy.non_grant_decision",
     engagement |-> TaskSpec[c.request.task].engagement, action |-> c.request.action,
     kind |-> c.kind, pass |-> c.pass + 1]

NonGrantEvent(c) ==
    [event |-> "policy.non_grant_decision",
     engagement |-> TaskSpec[c.request.task].engagement, action |-> c.request.action,
     kind |-> c.kind, pass |-> c.pass]

ConsumedEvent(i) ==
    [event |-> "policy.grant_consumed", engagement |-> grants[i].manifest.id,
     action |-> grants[i].action, grant |-> i]

--------------------------------------------------------------------------------
PolicyInit ==
    /\ Init
    /\ auth = [a \in Agents |-> None]
    /\ proposed = {}
    /\ grants = <<>>
    /\ approvals = {}
    /\ usage = [t \in Tasks |-> [b \in BudgetNames |-> [x \in Resources |-> 0]]]
    /\ decisions = {}
    /\ policyAudit = {}

\* What an agent holds between two steps of a call.
Holding(step, request, pass, token, row, profile, kind) ==
    [step |-> step, request |-> request, pass |-> pass, token |-> token,
     row |-> row, profile |-> profile, kind |-> kind]

\* The agent's call returns, raises, or goes on holding c.
Goto(a, c) == auth' = [auth EXCEPT ![a] = c]
Return(a) == Goto(a, None)

At(a, step) == auth[a] # None /\ auth[a].step = step

Verified(r, pass, t) == Holding("verified", r, pass, t, None, None, None)
Refused(c, row, kind) == Holding("refused", c.request, c.pass, c.token, row, None, kind)
SelectedProfile(c, row, profile) ==
    Holding("selected", c.request, c.pass, c.token, row, profile, None)

\* Broken variant: the second pass asks the same and is not counted.
RetryingUnadjusted(c) == Holding("retry", c.request, c.pass, c.token, None, None, None)

Retrying(c) == Holding("retry", Adjusted(c.request), 2, c.token, None, None, None)

\* authorize_adaptive, first pass: the token verifies and its manifest is loaded.
\* (When it does not, the call raises and nothing has happened.)
StartCall(a, r, t) ==
    /\ auth[a] = None
    /\ TokenVerifies(t)
    /\ Goto(a, Verified(r, 1, t))
    /\ UNCHANGED <<vars, policyTables>>

\* authorize_adaptive, second pass: the token is verified again.
StartSecondPass(a) ==
    /\ At(a, "retry")
    /\ \/ /\ TokenVerifies(auth[a].token)
          /\ Goto(a, Verified(auth[a].request, auth[a].pass, auth[a].token))
       \/ /\ ~TokenVerifies(auth[a].token)
          /\ Return(a)
    /\ UNCHANGED <<vars, policyTables>>

\* authorize, the lines between the token and the transaction: the request must bind
\* to the token's engagement, the asset resolve and be the revision in the token,
\* the arguments fit the schema, the asset type be accepted, a profile be
\* selectable and survive _validate_profile.
Raises(c) == ~Bound(c) \/ Targeted(c) = {}

Evaluate(a) ==
    LET c    == auth[a]
        tool == ToolManifest[c.request.tool]
    IN /\ At(a, "verified")
       /\ \/ Raises(c) /\ Return(a)
          \/ /\ ~Raises(c)
             /\ \E row \in Targeted(c) :
                   \/ ~InToken(c, row) /\ Goto(a, Refused(c, row, "deny"))
                   \/ /\ InToken(c, row)
                      /\ c.request.arguments \notin tool.arguments
                      /\ Return(a)
                   \/ /\ InToken(c, row)
                      /\ c.request.arguments \in tool.arguments
                      /\ row.content.type \notin tool.accepts
                      /\ Goto(a, Refused(c, row, "deny"))
                   \/ /\ InToken(c, row)
                      /\ c.request.arguments \in tool.arguments
                      /\ row.content.type \in tool.accepts
                      /\ \/ /\ Selected(c) = {}
                            /\ Goto(a, Refused(c, row, "adjust_configuration"))
                         \/ \E profile \in Selected(c) :
                               \/ /\ ProfileDenied(c, row, profile)
                                  /\ Goto(a, Refused(c, row, "deny"))
                               \/ /\ ~ProfileDenied(c, row, profile)
                                  /\ Goto(a, SelectedProfile(c, row, profile))
       /\ UNCHANGED <<vars, policyTables>>

\* _non_grant: the decision and its audit event in one transaction.  An adjustment
\* on the first pass starts a second one with the base profile.
Falls(c) == c.kind = "adjust_configuration" /\ c.pass = 1

RecordRefusal(a) ==
    LET c == auth[a]
    IN /\ At(a, "refused")
       /\ decisions' = decisions \cup {Decision(c, c.kind)}
       /\ policyAudit' = policyAudit \cup {NonGrantEvent(c)}
       /\ Goto(a, IF Falls(c) THEN Retrying(c) ELSE None)
       /\ UNCHANGED <<vars, proposed, grants, approvals, usage>>

Found(c) == {ap \in approvals : Covers(ap, c)}
MustAsk(c) == NeedsApproval(c.profile) /\ Found(c) = {} /\ ~c.token.manifest.auto

\* The transaction of authorize: the action needs an approval that nobody gave.  A
\* decision is stored, without an audit event.
RequireApproval(a) ==
    LET c == auth[a]
    IN /\ At(a, "selected")
       /\ WithinBudget(c)
       /\ MustAsk(c)
       /\ decisions' = decisions \cup {Decision(c, "require_approval")}
       /\ Return(a)
       /\ UNCHANGED <<vars, proposed, grants, approvals, usage, policyAudit>>

\* The transaction of authorize: approval if needed, grant, budget, decision and
\* audit event together.  The primary key of proposed_actions refuses a second
\* grant for an action id.
Permit(a) ==
    LET c == auth[a]
    IN /\ At(a, "selected")
       /\ WithinBudget(c)
       /\ ~MustAsk(c)
       /\ c.request.action \notin proposed
       /\ approvals' = IF NeedsApproval(c.profile) /\ Found(c) = {}
                       THEN approvals \cup {AutoApproval(c)} ELSE approvals
       /\ proposed' = proposed \cup {c.request.action}
       /\ grants' = Append(grants, Grant(c))
       /\ usage' = [usage EXCEPT ![c.request.task][c.token.manifest.budget] =
                       [x \in Resources |-> @[x] + c.request.cost[x]]]
       /\ decisions' = decisions \cup {Decision(c, "permit")}
       /\ policyAudit' = policyAudit \cup {GrantEvent(c)}
       /\ Return(a)
       /\ UNCHANGED vars

\* The transaction of authorize: BudgetExceeded or an IntegrityError rolls it back.
Reject(a) ==
    LET c == auth[a]
    IN /\ At(a, "selected")
       /\ \/ ~WithinBudget(c)
          \/ ~MustAsk(c) /\ c.request.action \in proposed
       /\ Return(a)
       /\ UNCHANGED <<vars, policyTables>>

\* The agent dies inside a call, or its transaction fails and is rolled back.
Abandon(a) ==
    /\ auth[a] # None
    /\ Return(a)
    /\ UNCHANGED <<vars, policyTables>>

\* Broken variants: the row's expiry is not looked at, nor that it was consumed.
ConsumableLate(i) == ~grants[i].consumed
ConsumableAgain(i) == grants[i].expires > clock

Consumable(i) == ~grants[i].consumed /\ grants[i].expires > clock

\* consume_grant.  The token is checked against its row, the expected action id and
\* arguments; every other check is repeated inside the transaction.
ConsumeGrant(i, r) ==
    /\ grants[i].action = r.action
    /\ grants[i].arguments = r.arguments
    /\ Consumable(i)
    /\ grants' = [grants EXCEPT ![i].consumed = TRUE]
    /\ policyAudit' = policyAudit \cup {ConsumedEvent(i)}
    /\ UNCHANGED <<vars, auth, proposed, approvals, usage, decisions>>

AgentStep(a) ==
    StartSecondPass(a) \/ Evaluate(a) \/ RecordRefusal(a) \/ RequireApproval(a)
        \/ Permit(a) \/ Reject(a)

PolicyNext ==
    \/ Next /\ UNCHANGED <<auth, policyTables>>
    \/ \E a \in Agents :
          \/ \E r \in Requests, t \in tokens : StartCall(a, r, t)
          \/ AgentStep(a)
          \/ Abandon(a)
    \/ \E i \in DOMAIN grants, r \in Requests : ConsumeGrant(i, r)

PolicySpec == PolicyInit /\ [][PolicyNext]_policyVars

\* A call that was started is not suspended for ever: every step of it is enabled
\* until it is taken (BEGIN IMMEDIATE waits for a lock that is always released).
\* Nothing is assumed of callers, of the clock or of the engagement service.
FairPolicySpec == PolicySpec /\ \A a \in Agents : WF_policyVars(AgentStep(a))

--------------------------------------------------------------------------------
CallRow ==
    [step : {"verified", "selected", "refused", "retry"},
     request : Requests \cup {Adjusted(r) : r \in Requests}, pass : {1, 2},
     token : Token, row : RevisionRow \cup {None}, profile : Profile \cup {None},
     kind : {None, "deny", "adjust_configuration"}]

GrantRow ==
    [action : Actions, task : Tasks, manifest : Manifests, alias : Aliases,
     revision : Nat, tool : Tools, profile : Profile,
     arguments : {r.arguments : r \in Requests}, cost : Cost,
     issued : Nat, expires : Nat, consumed : BOOLEAN]

ApprovalRow ==
    [engagement : {TaskSpec[t].engagement : t \in Tasks}, tool : Tools, alias : Aliases,
     revision : Nat, effects : {p.effects : p \in Profile},
     arguments : {r.arguments : r \in Requests}, expires : Nat]

\* Every table holds rows of its schema, and an agent is idle or in one call.
PolicyTypeOK ==
    /\ TypeOK
    /\ auth \in [Agents -> CallRow \cup {None}]
    /\ proposed \subseteq Actions
    /\ grants \in Seq(GrantRow)
    /\ approvals \subseteq ApprovalRow
    /\ usage \in [Tasks -> [BudgetNames -> Cost]]
    /\ decisions \subseteq
          [action : Actions, pass : {1, 2},
           kind : {"deny", "adjust_configuration", "require_approval", "permit"}]

GrantEventsOf(i) ==
    {x \in policyAudit : x.event \in {"policy.grant_created", "policy.r4_granted"} /\ x.grant = i}

\* "Atomic policy, approval, budget, grant, and audit transactions": whatever calls
\* race, retry or die, the tables of a permit agree.  Each grant has the one
\* proposed action it was issued for, one audit event of its kind and risk and a
\* permit decision of the same pass, and is consumed when its consumption is in the
\* audit trail and only then; nothing is proposed, permitted or audited
\* without a grant.
GrantRecordsAgree ==
    /\ \A i \in DOMAIN grants :
          \E x \in GrantEventsOf(i) :
              /\ GrantEventsOf(i) = {x}
              /\ grants[i].consumed = (ConsumedEvent(i) \in policyAudit)
              /\ x.action = grants[i].action
              /\ x.engagement = grants[i].manifest.id
              /\ (x.event = "policy.r4_granted") = (grants[i].profile.risk = R4)
              /\ [action |-> x.action, pass |-> x.pass, kind |-> "permit"] \in decisions
    /\ \A d \in decisions :
          d.kind = "permit" => \E i \in DOMAIN grants : grants[i].action = d.action
    /\ proposed = {grants[i].action : i \in DOMAIN grants}
    /\ \A x \in policyAudit : x.event # "policy.non_grant_decision" => x.grant \in DOMAIN grants

\* The sum of a sequence of numbers, and what the grants of S cost in resource x.
Total(numbers) ==
    LET upTo[n \in 0..Len(numbers)] == IF n = 0 THEN 0 ELSE upTo[n - 1] + numbers[n]
    IN  upTo[Len(numbers)]

CostOf(S, x) == [i \in DOMAIN grants |-> IF i \in S THEN grants[i].cost[x] ELSE 0]

Charged(t, b) == {i \in DOMAIN grants : grants[i].task = t /\ grants[i].manifest.budget = b}

\* The budget row of a task is the sum of what its grants cost, under every
\* interleaving and rollback, and never passes the limit of a registered manifest
\* that selects that budget.
BudgetAccounts ==
    \A t \in Tasks, b \in BudgetNames :
        /\ \A x \in Resources : usage[t][b][x] = Total(CostOf(Charged(t, b), x))
        /\ Charged(t, b) # {} =>
              \A x \in Limited :
                  \E r \in engagements :
                      /\ r.manifest.id = TaskSpec[t].engagement
                      /\ r.manifest.budget = b
                      /\ usage[t][b][x] <= r.manifest.limits[x]

\* Although the asset and the manifest are read before the transaction and both may
\* be superseded by the time it commits, a grant never names an asset revision
\* outside a scope token of the manifest it was issued under, nor effects, network
\* or risk that this revision, that manifest and the task do not all allow.
WithinScope(g) ==
    /\ \E t \in tokens : t.manifest = g.manifest /\ t.assets[g.alias] = g.revision
    /\ \E r \in revisions :
          /\ r.alias = g.alias
          /\ r.revision = g.revision
          /\ r.engagement = g.manifest.id
          /\ g.profile.effects \subseteq r.content.effects \cap TaskSpec[g.task].allowed
          /\ g.profile.network => r.content.network
    /\ TaskSpec[g.task].engagement = g.manifest.id
    /\ g.profile.risk <= g.manifest.maximumRisk
    /\ g.profile.risk <= TaskSpec[g.task].risk

GrantWithinScope == \A i \in DOMAIN grants : WithinScope(grants[i])

\* "Parameter-range approvals": a grant that needs an approval has one that was alive
\* when it was issued, of the same engagement, tool and asset revision, for at least
\* its effects and with its arguments inside the approved ranges.
Approved(g) ==
    \E ap \in approvals :
        /\ ap.engagement = g.manifest.id
        /\ ap.tool = g.tool
        /\ ap.alias = g.alias /\ ap.revision = g.revision
        /\ g.profile.effects \subseteq ap.effects
        /\ g.arguments.fixed = ap.arguments.fixed
        /\ g.arguments.bounded <= ap.arguments.bounded
        /\ g.issued < ap.expires

ApprovalCovers ==
    \A i \in DOMAIN grants : NeedsApproval(grants[i].profile) => Approved(grants[i])

\* "R4 flag, rate-limit, and kill-switch gates": racing calls never take an
\* engagement past the R4 limit of a manifest it registered, and every R4 grant was
\* issued under a manifest with an extended-operations flag.
R4Gated ==
    \A i \in DOMAIN grants :
        grants[i].profile.risk = R4 =>
            /\ grants[i].manifest.flags \cap
                   {"extended_operations", "comprehensive_assessment"} # {}
            /\ \E r \in engagements :
                  /\ r.manifest.id = grants[i].manifest.id
                  /\ Cardinality({j \in DOMAIN grants :
                                     /\ grants[j].profile.risk = R4
                                     /\ grants[j].manifest.id = r.manifest.id})
                        <= R4Limit[r.manifest.budget]

\* "Audited adaptive fallback to an authorized profile": a grant of the second pass
\* is for the base profile and comes after a stored and audited adjustment of the
\* same action; no grant has a profile whose engagement flag its manifest lacks.
FallbackAudited ==
    \A i \in DOMAIN grants :
        LET g == grants[i] IN
        /\ g.profile.flag \in g.manifest.flags \cup {None}
        /\ \A x \in GrantEventsOf(i) :
              x.pass = 2 =>
                  /\ g.profile = ToolManifest[g.tool].base
                  /\ [action |-> g.action, pass |-> 1, kind |-> "adjust_configuration"]
                        \in decisions
                  /\ \E y \in policyAudit :
                        /\ y.event = "policy.non_grant_decision"
                        /\ y.action = g.action
                        /\ y.kind = "adjust_configuration"
                        /\ y.pass = 1

\* "Signed, short-lived, single-use execution grants": the grant table implements a
\* ledger that issues one live grant per action and spends each at most once, before
\* it expires.
Entry(g) == [action |-> g.action, expires |-> g.expires, spent |-> g.consumed]

Ledger ==
    INSTANCE GrantLedger WITH
        now    <- clock,
        ledger <- [i \in DOMAIN grants |-> Entry(grants[i])]

ImplementsGrantLedger == Ledger!Spec

\* A fallback is tried once: a call that was started returns, whatever each of its
\* passes is answered and whatever is registered meanwhile.
AuthorizeReturns == \A a \in Agents : auth[a] # None ~> auth[a] = None

\* "decompose within the root hard ceiling" (engine.py:302): above the task there is a
\* ceiling that splitting the work into tasks does not lift.  The one a manifest
\* declares, max_engagement_tool_calls, is compared with nothing.
EngagementCeiling ==
    \A e \in Engagements :
        LET charged == {i \in DOMAIN grants : grants[i].manifest.id = e}
        IN charged # {} =>
              \E r \in engagements :
                  /\ r.manifest.id = e
                  /\ Total(CostOf(charged, "tool_calls")) <= r.manifest.maxEngagementToolCalls
================================================================================
