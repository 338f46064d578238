--------------------------- MODULE PolicyEngineProofs ---------------------------
(***************************************************************************)
(* Type correctness of the policy engine, that every grant stays within    *)
(* the scope it was issued under and is covered by an approval, and that   *)
(* the grant table implements the single-use ledger: for any number of     *)
(* agents, callers of the engagement service, manifests and requests.      *)
(***************************************************************************)
EXTENDS PolicyEngine, EngagementServiceProofs, FiniteSetTheorems

\* A step of the whole system is a step of the engagement service or leaves its
\* tables alone.
LEMMA ServiceStep == [PolicyNext]_policyVars => [Next]_vars
BY DEF PolicyNext, policyVars, AgentStep, StartCall, StartSecondPass, Evaluate,
       RecordRefusal, RequireApproval, Permit, Reject, Abandon, ConsumeGrant

\* So everything proved of the service alone holds while the engine runs on top.
LEMMA ServiceInvariants == PolicySpec => [](TypeOK /\ VersionChain)
<1>1. PolicyInit => Init
  BY DEF PolicyInit
<1>2. Init => TypeOK /\ VersionChain
  BY MaxTimeIsNat DEF Init, TypeOK, VersionChain
<1>3. TypeOK /\ VersionChain /\ [Next]_vars => (TypeOK /\ VersionChain)'
  BY TypeStep, ChainStep
<1>4. QED
  BY <1>1, <1>2, <1>3, ServiceStep, PTL DEF PolicySpec

\* Stored tokens are never removed: nothing revokes one.
LEMMA TokensGrow == ASSUME [Next]_vars PROVE tokens \subseteq tokens'
BY DEF Next, vars, tables, BeginRegister, CommitRegister, BeginProgress, CommitProgress,
       BeginIssue, CommitIssue, Rollback, Tick

--------------------------------------------------------------------------------
\* What a call has established when it reaches its transaction.
Established(c) ==
    /\ c.row \in revisions
    /\ c.profile \in Profile
    /\ Bound(c)
    /\ InToken(c, c.row)
    /\ c.row.engagement = c.token.manifest.id
    /\ ~ProfileDenied(c, c.row, c.profile)

\* What an agent holds is still in the tables: tokens and revisions are only added.
CallInv ==
    \A a \in Agents :
        auth[a] # None =>
            /\ auth[a].token \in tokens
            /\ auth[a].step = "refused" => auth[a].kind # None
            /\ auth[a].step = "selected" => Established(auth[a])

\* A profile that can be selected is one of the tool's.
LEMMA SelectedIsProfile ==
    ASSUME NEW c, c.request.tool \in Tools, NEW p \in Selected(c)
    PROVE  p \in Profile
BY DEF Selected, Profile

\* A row that a target resolves to belongs to the engagement of the token.
LEMMA TargetedRow ==
    ASSUME TypeOK, VersionChain, NEW c, NEW row \in Targeted(c)
    PROVE  /\ row \in revisions
           /\ row \in RevisionRow
           /\ row.engagement = c.token.manifest.id
<1>1. row \in revisions /\ row \in RevisionRow
  BY DEF Targeted, TypeOK
<1>2. row.engagement = c.token.manifest.id
  BY <1>1 DEF Targeted, Resolves, VersionChain
<1>3. QED
  BY <1>1, <1>2

\* A second pass asks for what the first asked, with the base profile.
LEMMA AdjustedRequest ==
    ASSUME NEW r \in Requests \cup {Adjusted(q) : q \in Requests}
    PROVE  /\ Adjusted(r) \in Requests \cup {Adjusted(q) : q \in Requests}
           /\ r.action \in Actions /\ r.task \in Tasks /\ r.tool \in Tools
           /\ r.cost \in Cost /\ r.arguments \in {q.arguments : q \in Requests}
           /\ r.arguments.bounded \in Nat
<1>1. CASE r \in Requests
  BY <1>1, RequestsWellFormed DEF RequestAssumption
<1>2. CASE r \in {Adjusted(q) : q \in Requests}
  <2>1. PICK q \in Requests : r = Adjusted(q)
    BY <1>2
  <2>2. Adjusted(r) = Adjusted(q)
    BY <2>1 DEF Adjusted
  <2>3. /\ r.action = q.action /\ r.task = q.task /\ r.tool = q.tool
        /\ r.cost = q.cost /\ r.arguments = q.arguments
    BY <2>1 DEF Adjusted
  <2>4. QED
    BY <2>2, <2>3, RequestsWellFormed DEF RequestAssumption
<1>3. QED
  BY <1>1, <1>2

\* The row written for a permit fits the schema.
LEMMA GrantType ==
    ASSUME PolicyTypeOK, NEW a \in Agents, At(a, "selected"), CallInv
    PROVE  Grant(auth[a]) \in GrantRow
<1> DEFINE c == auth[a]
<1>1. c \in CallRow /\ Established(c)
  BY DEF PolicyTypeOK, At, CallInv
<1>2. /\ c.request.action \in Actions /\ c.request.task \in Tasks /\ c.request.tool \in Tools
      /\ c.request.cost \in Cost /\ c.request.arguments \in {q.arguments : q \in Requests}
  BY <1>1, AdjustedRequest DEF CallRow
<1>3. c.token.manifest \in Manifests
  BY <1>1 DEF CallRow, Token
<1>4. c.row.alias \in Aliases /\ c.row.revision \in Nat
  BY <1>1 DEF Established, PolicyTypeOK, TypeOK, RevisionRow
<1>5. c.profile \in Profile
  BY <1>1 DEF Established
<1>6. clock \in Nat /\ clock + GrantTTL \in Nat
  BY MaxTimeIsNat, TTLsPositive DEF PolicyTypeOK, TypeOK
<1>7. QED
  BY <1>2, <1>3, <1>4, <1>5, <1>6 DEF Grant, GrantRow

\* Marking a grant consumed changes that field only.
LEMMA ConsumedGrant ==
    ASSUME NEW g \in GrantRow
    PROVE  LET h == [g EXCEPT !.consumed = TRUE]
           IN  /\ h \in GrantRow
               /\ h.action = g.action /\ h.task = g.task /\ h.manifest = g.manifest
               /\ h.alias = g.alias /\ h.revision = g.revision /\ h.tool = g.tool
               /\ h.profile = g.profile /\ h.arguments = g.arguments /\ h.cost = g.cost
               /\ h.issued = g.issued /\ h.expires = g.expires
BY DEF GrantRow

\* What a step does to the grants: appends one for a call that reached its
\* transaction, marks one consumed, or nothing.
LEMMA GrantsStep ==
    ASSUME [PolicyNext]_policyVars
    PROVE  \/ grants' = grants
           \/ \E a \in Agents : Permit(a)
           \/ \E i \in DOMAIN grants, r \in Requests : ConsumeGrant(i, r)
<1>1. CASE Next /\ UNCHANGED <<auth, policyTables>>
  BY <1>1 DEF policyTables
<1>2. ASSUME NEW a \in Agents, NEW r \in Requests, NEW t \in tokens, StartCall(a, r, t)
      PROVE  grants' = grants
  BY <1>2 DEF StartCall, policyTables
<1>3. ASSUME NEW a \in Agents, AgentStep(a), ~Permit(a) PROVE grants' = grants
  BY <1>3 DEF AgentStep, StartSecondPass, Evaluate, RecordRefusal, RequireApproval, Reject,
              policyTables
<1>4. ASSUME NEW a \in Agents, Abandon(a) PROVE grants' = grants
  BY <1>4 DEF Abandon, policyTables
<1>5. CASE UNCHANGED policyVars
  BY <1>5 DEF policyVars, policyTables
<1>6. QED
  BY <1>1, <1>2, <1>3, <1>4, <1>5 DEF PolicyNext

\* The grants stay a sequence of rows of their schema.
LEMMA GrantsType ==
    ASSUME PolicyTypeOK, CallInv, [PolicyNext]_policyVars
    PROVE  grants' \in Seq(GrantRow)
<1>1. grants \in Seq(GrantRow)
  BY DEF PolicyTypeOK
<1>2. ASSUME NEW a \in Agents, Permit(a) PROVE grants' \in Seq(GrantRow)
  <2>1. At(a, "selected") /\ grants' = Append(grants, Grant(auth[a]))
    BY <1>2 DEF Permit
  <2>2. Grant(auth[a]) \in GrantRow
    BY <2>1, GrantType
  <2>3. QED
    BY <1>1, <2>1, <2>2
<1>3. ASSUME NEW i \in DOMAIN grants, NEW r \in Requests, ConsumeGrant(i, r)
      PROVE  grants' \in Seq(GrantRow)
  <2>1. grants' = [grants EXCEPT ![i] = [grants[i] EXCEPT !.consumed = TRUE]]
    BY <1>3 DEF ConsumeGrant
  <2>2. [grants[i] EXCEPT !.consumed = TRUE] \in GrantRow
    BY <1>1, ConsumedGrant
  <2>3. QED
    BY <1>1, <2>1, <2>2
<1>4. QED
  BY <1>1, <1>2, <1>3, GrantsStep

\* Charging a grant keeps the budget rows non-negative numbers.
LEMMA UsageType ==
    ASSUME PolicyTypeOK, CallInv, [PolicyNext]_policyVars
    PROVE  usage' \in [Tasks -> [BudgetNames -> Cost]]
<1>1. ASSUME NEW a \in Agents, Permit(a) PROVE usage' \in [Tasks -> [BudgetNames -> Cost]]
  <2> DEFINE c == auth[a]
             t == c.request.task
             b == c.token.manifest.budget
  <2>1. c \in CallRow
    BY <1>1 DEF PolicyTypeOK, Permit, At
  <2>2. t \in Tasks /\ c.request.cost \in Cost
    BY <2>1, AdjustedRequest DEF CallRow
  <2>3. b \in BudgetNames
    BY <2>1, PolicyManifestsWellFormed DEF CallRow, Token, PolicyManifestAssumption
  <2>4. usage[t][b] \in Cost
    BY <2>2, <2>3 DEF PolicyTypeOK
  <2>5. [x \in Resources |-> usage[t][b][x] + c.request.cost[x]] \in Cost
    BY <2>2, <2>4 DEF Cost
  <2>6. usage' = [usage EXCEPT ![t] = [usage[t] EXCEPT ![b] =
                     [x \in Resources |-> usage[t][b][x] + c.request.cost[x]]]]
    BY <1>1 DEF Permit
  <2>7. QED
    BY <2>2, <2>3, <2>5, <2>6 DEF PolicyTypeOK
<1>2. CASE usage' = usage
  BY <1>2 DEF PolicyTypeOK
<1>3. usage' = usage \/ \E a \in Agents : Permit(a)
  BY DEF PolicyNext, policyVars, policyTables, AgentStep, StartCall, StartSecondPass, Evaluate,
         RecordRefusal, RequireApproval, Reject, Abandon, ConsumeGrant
<1>4. QED
  BY <1>1, <1>2, <1>3

\* What an agent holds is always a call of its schema.
LEMMA AuthType ==
    ASSUME PolicyTypeOK, VersionChain, CallInv, [PolicyNext]_policyVars
    PROVE  auth' \in [Agents -> CallRow \cup {None}]
<1>1. ASSUME NEW a \in Agents, NEW c \in CallRow \cup {None}, Goto(a, c)
      PROVE  auth' \in [Agents -> CallRow \cup {None}]
  BY <1>1 DEF Goto, PolicyTypeOK
<1>2. ASSUME NEW a \in Agents, NEW r \in Requests, NEW t \in tokens, StartCall(a, r, t)
      PROVE  auth' \in [Agents -> CallRow \cup {None}]
  <2>1. Verified(r, 1, t) \in CallRow
    BY DEF Verified, Holding, CallRow, PolicyTypeOK, TypeOK
  <2>2. QED
    BY <1>1, <1>2, <2>1 DEF StartCall
<1>3. ASSUME NEW a \in Agents, StartSecondPass(a)
      PROVE  auth' \in [Agents -> CallRow \cup {None}]
  <2>1. Verified(auth[a].request, auth[a].pass, auth[a].token) \in CallRow
    BY <1>3 DEF StartSecondPass, At, Verified, Holding, CallRow, PolicyTypeOK
  <2>2. QED
    BY <1>1, <1>3, <2>1 DEF StartSecondPass, Return
<1>4. ASSUME NEW a \in Agents, Evaluate(a)
      PROVE  auth' \in [Agents -> CallRow \cup {None}]
  <2> DEFINE c == auth[a]
  <2>1. c \in CallRow
    BY <1>4 DEF Evaluate, At, PolicyTypeOK
  <2>2. \A row \in Targeted(c) : row \in RevisionRow
    BY TargetedRow DEF PolicyTypeOK
  <2>3. c.request.tool \in Tools
    BY <2>1, AdjustedRequest DEF CallRow
  <2>4. \A row \in RevisionRow :
           /\ Refused(c, row, "deny") \in CallRow
           /\ Refused(c, row, "adjust_configuration") \in CallRow
           /\ \A p \in Profile : SelectedProfile(c, row, p) \in CallRow
    BY <2>1 DEF Refused, SelectedProfile, Holding, CallRow
  <2>5. \E d \in CallRow \cup {None} : Goto(a, d)
    <3>1. CASE Return(a)
      BY <3>1 DEF Return
    <3>2. CASE \E row \in Targeted(c) :
                 \/ Goto(a, Refused(c, row, "deny"))
                 \/ Goto(a, Refused(c, row, "adjust_configuration"))
      BY <2>2, <2>4, <3>2
    <3>3. CASE \E row \in Targeted(c) : \E p \in Selected(c) : Goto(a, SelectedProfile(c, row, p))
      BY <2>2, <2>3, <2>4, <3>3, SelectedIsProfile
    <3>4. QED
      BY <1>4, <3>1, <3>2, <3>3 DEF Evaluate
  <2>6. QED
    BY <1>1, <2>5
<1>5. ASSUME NEW a \in Agents, RecordRefusal(a)
      PROVE  auth' \in [Agents -> CallRow \cup {None}]
  <2>1. auth[a] \in CallRow
    BY <1>5 DEF RecordRefusal, At, PolicyTypeOK
  <2>2. Retrying(auth[a]) \in CallRow
    BY <2>1, AdjustedRequest DEF Retrying, Holding, CallRow
  <2>3. QED
    BY <1>1, <1>5, <2>2 DEF RecordRefusal
<1>6. ASSUME NEW a \in Agents, RequireApproval(a) \/ Permit(a) \/ Reject(a) \/ Abandon(a)
      PROVE  auth' \in [Agents -> CallRow \cup {None}]
  BY <1>1, <1>6 DEF RequireApproval, Permit, Reject, Abandon, Return
<1>7. CASE auth' = auth
  BY <1>7 DEF PolicyTypeOK
<1>8. QED
  BY <1>2, <1>3, <1>4, <1>5, <1>6, <1>7 DEF PolicyNext, policyVars, AgentStep, ConsumeGrant

\* What a call has established stays so: it is about rows that are never removed.
LEMMA EstablishedStays ==
    ASSUME NEW c, Established(c), revisions \subseteq revisions'
    PROVE  Established(c)'
BY DEF Established, Bound, InToken, ProfileDenied

\* What Evaluate leaves an agent that goes on to the transaction has been established.
LEMMA EvaluateEstablishes ==
    ASSUME PolicyTypeOK, VersionChain, NEW a \in Agents, At(a, "verified"),
           ~Raises(auth[a]), NEW row \in Targeted(auth[a]), InToken(auth[a], row),
           NEW p \in Selected(auth[a]), ~ProfileDenied(auth[a], row, p)
    PROVE  Established(SelectedProfile(auth[a], row, p))
<1> DEFINE c == auth[a]
           d == SelectedProfile(c, row, p)
<1>1. c \in CallRow
  BY DEF At, PolicyTypeOK
<1>2. /\ d.request = c.request /\ d.token = c.token
      /\ d.row = row /\ d.profile = p
  BY DEF SelectedProfile, Holding
<1>3. row \in revisions /\ row.engagement = c.token.manifest.id
  BY TargetedRow DEF PolicyTypeOK
<1>4. p \in Profile
  BY <1>1, SelectedIsProfile, AdjustedRequest DEF CallRow
<1>5. Bound(d) /\ InToken(d, row) /\ ~ProfileDenied(d, row, p)
  BY <1>2 DEF Raises, Bound, InToken, ProfileDenied
<1>6. QED
  BY <1>2, <1>3, <1>4, <1>5 DEF Established

\* Every step keeps what the calls hold in the tables.
LEMMA CallStep ==
    ASSUME PolicyTypeOK, VersionChain, CallInv, [PolicyNext]_policyVars
    PROVE  CallInv'
<1> DEFINE Held(c) == /\ c.token \in tokens
                      /\ c.step = "refused" => c.kind # None
                      /\ c.step = "selected" => Established(c)
<1>1. tokens \subseteq tokens' /\ revisions \subseteq revisions'
  BY ServiceStep, TokensGrow, RevisionsGrow DEF PolicyTypeOK
<1>2. ASSUME NEW c, Held(c) PROVE Held(c)'
  BY <1>1, <1>2, EstablishedStays
<1>3. \A b \in Agents : auth[b] # None => Held(auth[b])
  BY DEF CallInv
<1>4. ASSUME NEW a \in Agents, NEW c, Goto(a, c), c = None \/ Held(c) PROVE CallInv'
  <2>1. ASSUME NEW b \in Agents, NEW d, d = auth'[b], d # None PROVE Held(d)'
    <3>1. CASE b = a
      <4>1. d = c
        BY <1>4, <2>1, <3>1 DEF Goto, PolicyTypeOK
      <4>2. QED
        BY <1>2, <1>4, <2>1, <4>1
    <3>2. CASE b # a
      <4>1. d = auth[b]
        BY <1>4, <2>1, <3>2 DEF Goto, PolicyTypeOK
      <4>2. Held(d)
        BY <1>3, <2>1, <4>1
      <4>3. QED
        BY <1>2, <4>2
    <3>3. QED
      BY <3>1, <3>2
  <2>2. QED
    BY <2>1 DEF CallInv
<1>5. ASSUME NEW a \in Agents, NEW r \in Requests, NEW t \in tokens, StartCall(a, r, t)
      PROVE  CallInv'
  <2>1. Held(Verified(r, 1, t))
    BY DEF Verified, Holding
  <2>2. QED
    BY <1>4, <1>5, <2>1 DEF StartCall
<1>6. ASSUME NEW a \in Agents, StartSecondPass(a) PROVE CallInv'
  <2>1. Held(Verified(auth[a].request, auth[a].pass, auth[a].token))
    BY <1>3, <1>6 DEF StartSecondPass, At, Verified, Holding
  <2>2. QED
    BY <1>4, <1>6, <2>1 DEF StartSecondPass, Return
<1>7. ASSUME NEW a \in Agents, Evaluate(a) PROVE CallInv'
  <2> DEFINE c == auth[a]
  <2>1. c.token \in tokens
    BY <1>3, <1>7 DEF Evaluate, At
  <2>2. ASSUME NEW row PROVE Held(Refused(c, row, "deny")) /\ Held(Refused(c, row, "adjust_configuration"))
    BY <2>1, NoneIsNoKind DEF Refused, Holding
  <2>3. ASSUME NEW row \in Targeted(c), InToken(c, row), ~Raises(c), NEW p \in Selected(c),
               ~ProfileDenied(c, row, p)
        PROVE  Held(SelectedProfile(c, row, p))
    <3>1. Established(SelectedProfile(c, row, p))
      BY <1>7, <2>3, EvaluateEstablishes DEF Evaluate
    <3>2. QED
      BY <2>1, <3>1 DEF SelectedProfile, Holding
  <2>4. CASE Return(a)
    BY <1>4, <2>4 DEF Return
  <2>5. CASE \E row : Goto(a, Refused(c, row, "deny")) \/ Goto(a, Refused(c, row, "adjust_configuration"))
    BY <1>4, <2>2, <2>5
  <2>6. CASE \E row \in Targeted(c), p \in Selected(c) :
               /\ InToken(c, row) /\ ~Raises(c) /\ ~ProfileDenied(c, row, p)
               /\ Goto(a, SelectedProfile(c, row, p))
    BY <1>4, <2>3, <2>6
  <2>7. QED
    BY <1>7, <2>4, <2>5, <2>6 DEF Evaluate
<1>8. ASSUME NEW a \in Agents, RecordRefusal(a) PROVE CallInv'
  <2>1. Held(Retrying(auth[a]))
    BY <1>3, <1>8 DEF RecordRefusal, At, Retrying, Holding
  <2>2. QED
    BY <1>4, <1>8, <2>1 DEF RecordRefusal
<1>9. ASSUME NEW a \in Agents, RequireApproval(a) \/ Permit(a) \/ Reject(a) \/ Abandon(a)
      PROVE  CallInv'
  BY <1>4, <1>9 DEF RequireApproval, Permit, Reject, Abandon, Return
<1>10. CASE auth' = auth
  BY <1>2, <1>3, <1>10 DEF CallInv
<1>11. QED
  BY <1>5, <1>6, <1>7, <1>8, <1>9, <1>10 DEF PolicyNext, policyVars, AgentStep, ConsumeGrant

\* Decisions and proposed actions stay within their schema.
LEMMA RecordsType ==
    ASSUME PolicyTypeOK, CallInv, [PolicyNext]_policyVars
    PROVE  /\ proposed' \subseteq Actions
           /\ decisions' \subseteq
                [action : Actions, pass : {1, 2},
                 kind : {"deny", "adjust_configuration", "require_approval", "permit"}]
<1> DEFINE DecisionRow ==
             [action : Actions, pass : {1, 2},
              kind : {"deny", "adjust_configuration", "require_approval", "permit"}]
<1>1. ASSUME NEW a \in Agents, auth[a] # None,
             NEW k \in {"deny", "adjust_configuration", "require_approval", "permit"}
      PROVE  auth[a].request.action \in Actions /\ Decision(auth[a], k) \in DecisionRow
  <2>1. auth[a] \in CallRow
    BY <1>1 DEF PolicyTypeOK
  <2>2. auth[a].request.action \in Actions /\ auth[a].pass \in {1, 2}
    BY <2>1, AdjustedRequest DEF CallRow
  <2>3. QED
    BY <2>2 DEF Decision
<1>2. ASSUME NEW a \in Agents, RecordRefusal(a)
      PROVE  proposed' \subseteq Actions /\ decisions' \subseteq DecisionRow
  <2>1. auth[a].kind \in {"deny", "adjust_configuration"}
    BY <1>2 DEF RecordRefusal, At, CallInv, PolicyTypeOK, CallRow
  <2>2. decisions' = decisions \cup {Decision(auth[a], auth[a].kind)} /\ proposed' = proposed
    BY <1>2 DEF RecordRefusal
  <2>3. Decision(auth[a], auth[a].kind) \in DecisionRow
    BY <1>1, <1>2, <2>1 DEF RecordRefusal, At
  <2>4. QED
    BY <2>2, <2>3 DEF PolicyTypeOK
<1>3. ASSUME NEW a \in Agents, RequireApproval(a)
      PROVE  proposed' \subseteq Actions /\ decisions' \subseteq DecisionRow
  BY <1>1, <1>3 DEF RequireApproval, At, PolicyTypeOK
<1>4. ASSUME NEW a \in Agents, Permit(a)
      PROVE  proposed' \subseteq Actions /\ decisions' \subseteq DecisionRow
  <2>1. auth[a] # None
    BY <1>4 DEF Permit, At
  <2>2. auth[a].request.action \in Actions /\ Decision(auth[a], "permit") \in DecisionRow
    BY <1>1, <2>1
  <2>3. /\ proposed' = proposed \cup {auth[a].request.action}
        /\ decisions' = decisions \cup {Decision(auth[a], "permit")}
    BY <1>4 DEF Permit
  <2>4. QED
    BY <2>2, <2>3 DEF PolicyTypeOK
<1>5. CASE UNCHANGED <<proposed, decisions>>
  BY <1>5 DEF PolicyTypeOK
<1>6. QED
  BY <1>2, <1>3, <1>4, <1>5 DEF PolicyNext, policyVars, policyTables, AgentStep, StartCall,
       StartSecondPass, Evaluate, Reject, Abandon, ConsumeGrant

\* An automatic approval fits its schema.
LEMMA ApprovalsType ==
    ASSUME PolicyTypeOK, CallInv, [PolicyNext]_policyVars
    PROVE  approvals' \subseteq ApprovalRow
<1>1. ASSUME NEW a \in Agents, Permit(a) PROVE approvals' \subseteq ApprovalRow
  <2> DEFINE c == auth[a]
  <2>1. c \in CallRow /\ Established(c)
    BY <1>1 DEF Permit, At, PolicyTypeOK, CallInv
  <2>2. /\ c.request.task \in Tasks /\ c.request.tool \in Tools
        /\ c.request.arguments \in {r.arguments : r \in Requests}
    BY <2>1, AdjustedRequest DEF CallRow
  <2>3. c.row.alias \in Aliases /\ c.row.revision \in Nat /\ c.profile \in Profile
    BY <2>1 DEF Established, PolicyTypeOK, TypeOK, RevisionRow
  <2>4. clock + ApprovalTTL \in Nat
    BY MaxTimeIsNat, TTLsPositive DEF PolicyTypeOK, TypeOK
  <2>5. AutoApproval(c) \in ApprovalRow
    BY <2>2, <2>3, <2>4 DEF AutoApproval, ApprovalRow
  <2>6. approvals' \subseteq approvals \cup {AutoApproval(c)}
    BY <1>1 DEF Permit
  <2>7. QED
    BY <2>5, <2>6 DEF PolicyTypeOK
<1>2. CASE approvals' = approvals
  BY <1>2 DEF PolicyTypeOK
<1>3. QED
  BY <1>1, <1>2 DEF PolicyNext, policyVars, policyTables, AgentStep, StartCall,
       StartSecondPass, Evaluate, RecordRefusal, RequireApproval, Reject, Abandon, ConsumeGrant

\* The inductive invariant of the engine: types, what the service guarantees, and
\* what agents hold.
EngineInv == PolicyTypeOK /\ VersionChain /\ CallInv

\* Every step of the system keeps it.
LEMMA EngineStep == EngineInv /\ [PolicyNext]_policyVars => EngineInv'
<1> SUFFICES ASSUME EngineInv, [PolicyNext]_policyVars PROVE EngineInv'
  OBVIOUS
<1>1. PolicyTypeOK /\ VersionChain /\ CallInv /\ TypeOK /\ [Next]_vars
  BY ServiceStep DEF EngineInv, PolicyTypeOK
<1>2. TypeOK' /\ VersionChain'
  BY <1>1, TypeStep, ChainStep
<1>3. PolicyTypeOK'
  BY <1>1, <1>2, AuthType, GrantsType, UsageType, RecordsType, ApprovalsType DEF PolicyTypeOK
<1>4. CallInv'
  BY <1>1, CallStep
<1>5. QED
  BY <1>2, <1>3, <1>4 DEF EngineInv

\* It holds initially and hence always.
LEMMA EngineInvariant == PolicySpec => []EngineInv
<1>1. PolicyInit => EngineInv
  <2> SUFFICES ASSUME PolicyInit PROVE EngineInv
    OBVIOUS
  <2>1. TypeOK /\ VersionChain
    BY MaxTimeIsNat DEF PolicyInit, Init, TypeOK, VersionChain
  <2>2. CallInv
    BY DEF PolicyInit, CallInv
  <2>3. grants \in Seq(GrantRow)
    BY DEF PolicyInit
  <2>4. usage \in [Tasks -> [BudgetNames -> Cost]]
    BY DEF PolicyInit, Cost
  <2>5. QED
    BY <2>1, <2>2, <2>3, <2>4 DEF EngineInv, PolicyTypeOK, PolicyInit
<1>2. QED
  BY <1>1, EngineStep, PTL DEF PolicySpec

\* Type correctness: the tables the engine writes always hold rows of their schema
\* (persistence/models.py) and an agent is idle or in one well-formed call.
THEOREM PolicyTypeCorrect == PolicySpec => []PolicyTypeOK
BY EngineInvariant, PTL DEF EngineInv

--------------------------------------------------------------------------------
\* A grant the engine issues is within scope at that moment.
LEMMA IssuedWithinScope ==
    ASSUME EngineInv, NEW a \in Agents, Permit(a)
    PROVE  WithinScope(Grant(auth[a]))
<1> DEFINE c == auth[a]
           g == Grant(c)
<1>1. /\ c \in CallRow /\ c.token \in tokens /\ Established(c)
  BY DEF EngineInv, PolicyTypeOK, CallInv, Permit, At
<1>2. /\ g.alias = c.row.alias /\ g.revision = c.row.revision
      /\ g.manifest = c.token.manifest /\ g.task = c.request.task /\ g.profile = c.profile
  BY DEF Grant
<1>3. c.token.manifest \in Manifests /\ c.request.task \in Tasks
  BY <1>1, AdjustedRequest DEF CallRow, Token
<1>4. /\ c.profile.risk \in Nat
      /\ c.token.manifest.maximumRisk \in Nat
      /\ TaskSpec[c.request.task].risk \in Nat
  BY <1>1, <1>3, ProfilesWellFormed, PolicyManifestsWellFormed, TasksWellFormed
  DEF Established, ProfileAssumption, PolicyManifestAssumption, TaskAssumption
<1>5. c.token.assets[c.row.alias] = c.row.revision
  BY <1>1 DEF Established, InToken
<1>6. /\ c.row \in revisions
      /\ c.row.engagement = c.token.manifest.id
      /\ TaskSpec[c.request.task].engagement = c.token.manifest.id
  BY <1>1 DEF Established, Bound
<1>7. /\ c.profile.effects \subseteq c.row.content.effects
      /\ c.profile.effects \subseteq TaskSpec[c.request.task].allowed
      /\ c.profile.network => c.row.content.network
      /\ ~(c.profile.risk > c.token.manifest.maximumRisk)
      /\ ~(c.profile.risk > TaskSpec[c.request.task].risk)
  BY <1>1 DEF Established, ProfileDenied
<1>8. \E t \in tokens : t.manifest = g.manifest /\ t.assets[g.alias] = g.revision
  BY <1>1, <1>2, <1>5
<1>9. QED
  BY <1>2, <1>4, <1>6, <1>7, <1>8 DEF WithinScope

\* A grant that is within scope stays so: it rests on rows that are never removed.
LEMMA ScopeStays ==
    ASSUME NEW g, WithinScope(g), tokens \subseteq tokens', revisions \subseteq revisions'
    PROVE  WithinScope(g)'
BY DEF WithinScope

\* Whether a grant was consumed does not change its scope.
LEMMA ConsumedWithinScope ==
    ASSUME NEW g \in GrantRow, WithinScope(g)
    PROVE  WithinScope([g EXCEPT !.consumed = TRUE])
BY ConsumedGrant DEF WithinScope

\* What a step does to one grant: it was there, or was there unconsumed, or is new.
LEMMA GrantOrigin ==
    ASSUME EngineInv, [PolicyNext]_policyVars, NEW i \in DOMAIN grants', NEW g, g = grants'[i]
    PROVE  \/ i \in DOMAIN grants /\ g = grants[i]
           \/ i \in DOMAIN grants /\ g = [grants[i] EXCEPT !.consumed = TRUE]
           \/ \E a \in Agents : Permit(a) /\ g = Grant(auth[a])
<1>0. grants \in Seq(GrantRow)
  BY DEF EngineInv, PolicyTypeOK
<1>1. CASE grants' = grants
  BY <1>1
<1>2. ASSUME NEW a \in Agents, Permit(a)
      PROVE  (i \in DOMAIN grants /\ g = grants[i]) \/ g = Grant(auth[a])
  <2>1. grants' = Append(grants, Grant(auth[a]))
    BY <1>2 DEF Permit
  <2>2. QED
    BY <1>0, <2>1
<1>3. ASSUME NEW j \in DOMAIN grants, NEW r \in Requests, ConsumeGrant(j, r)
      PROVE  /\ i \in DOMAIN grants
             /\ g = grants[i] \/ g = [grants[i] EXCEPT !.consumed = TRUE]
  <2>1. grants' = [grants EXCEPT ![j] = [grants[j] EXCEPT !.consumed = TRUE]]
    BY <1>3 DEF ConsumeGrant
  <2>2. QED
    BY <1>0, <2>1
<1>4. QED
  BY <1>1, <1>2, <1>3, GrantsStep

\* A grant is never outside the scope it was issued under: a token of its manifest
\* binds its asset revision, that revision exists and allows its effects, and its
\* risk is within manifest and task - for every interleaving of authorizations with
\* registrations, progressions and expiry.
THEOREM GrantsStayWithinScope == PolicySpec => []GrantWithinScope
<1>1. PolicyInit => GrantWithinScope
  BY DEF PolicyInit, GrantWithinScope
<1>2. EngineInv /\ GrantWithinScope /\ [PolicyNext]_policyVars => GrantWithinScope'
  <2> SUFFICES ASSUME EngineInv, GrantWithinScope, [PolicyNext]_policyVars,
                      NEW i \in DOMAIN grants', NEW g, g = grants'[i]
               PROVE  WithinScope(g)'
    BY DEF GrantWithinScope, WithinScope
  <2>1. tokens \subseteq tokens' /\ revisions \subseteq revisions'
    BY ServiceStep, TokensGrow, RevisionsGrow DEF EngineInv, PolicyTypeOK
  <2>2. \A j \in DOMAIN grants : WithinScope(grants[j]) /\ grants[j] \in GrantRow
    BY DEF GrantWithinScope, EngineInv, PolicyTypeOK
  <2>3. WithinScope(g)
    BY <2>2, GrantOrigin, ConsumedWithinScope, IssuedWithinScope
  <2>4. QED
    BY <2>1, <2>3, ScopeStays
<1>3. QED
  BY <1>1, <1>2, EngineInvariant, PTL DEF PolicySpec

--------------------------------------------------------------------------------
\* The approvals a permit leaves cover the grant it issues.
LEMMA IssuedApproved ==
    ASSUME EngineInv, NEW a \in Agents, Permit(a), NeedsApproval(auth[a].profile),
           NEW g, g = Grant(auth[a])
    PROVE  Approved(g)'
<1> DEFINE c == auth[a]
<1>1. c \in CallRow /\ Established(c)
  BY DEF EngineInv, PolicyTypeOK, CallInv, Permit, At
<1>2. /\ g.manifest.id = TaskSpec[c.request.task].engagement
      /\ g.tool = c.request.tool /\ g.alias = c.row.alias /\ g.revision = c.row.revision
      /\ g.profile = c.profile /\ g.arguments = c.request.arguments /\ g.issued = clock
  BY <1>1 DEF Grant, Established, Bound
<1>3. clock \in Nat /\ c.request.arguments.bounded \in Nat
  BY <1>1, AdjustedRequest, MaxTimeIsNat DEF EngineInv, PolicyTypeOK, TypeOK, CallRow
<1>4. CASE Found(c) # {}
  <2>1. PICK ap \in approvals : Covers(ap, c)
    BY <1>4 DEF Found
  <2>2. ap \in approvals' /\ ap.expires \in Nat
    BY <2>1 DEF Permit, EngineInv, PolicyTypeOK, ApprovalRow
  <2>3. g.issued < ap.expires
    BY <1>2, <1>3, <2>1, <2>2 DEF Covers
  <2>4. QED
    BY <1>2, <2>1, <2>2, <2>3 DEF Covers, Approved
<1>5. CASE Found(c) = {}
  <2> DEFINE ap == AutoApproval(c)
  <2>1. ap \in approvals'
    BY <1>5 DEF Permit
  <2>2. /\ ap.engagement = TaskSpec[c.request.task].engagement
        /\ ap.tool = c.request.tool /\ ap.alias = c.row.alias /\ ap.revision = c.row.revision
        /\ ap.effects = c.profile.effects /\ ap.arguments = c.request.arguments
        /\ ap.expires = clock + ApprovalTTL
    BY DEF AutoApproval
  <2>3. g.issued < ap.expires /\ g.arguments.bounded <= ap.arguments.bounded
    BY <1>2, <1>3, <2>2, TTLsPositive
  <2>4. QED
    BY <1>2, <2>1, <2>2, <2>3 DEF Approved
<1>6. QED
  BY <1>4, <1>5

\* Approvals are never removed, so a grant stays approved; consuming it does not matter.
LEMMA ApprovalStays ==
    ASSUME EngineInv, [PolicyNext]_policyVars, NEW g, Approved(g)
    PROVE  Approved(g)'
<1>1. approvals \subseteq approvals'
  BY DEF PolicyNext, policyVars, policyTables, AgentStep, StartCall, StartSecondPass, Evaluate,
         RecordRefusal, RequireApproval, Permit, Reject, Abandon, ConsumeGrant
<1>2. QED
  BY <1>1 DEF Approved

\* A grant that needs an approval is covered by one that was alive when it was
\* issued, whatever approvals, calls and expiries race.
THEOREM ApprovalAlwaysCovers == PolicySpec => []ApprovalCovers
<1>1. PolicyInit => ApprovalCovers
  BY DEF PolicyInit, ApprovalCovers
<1>2. EngineInv /\ ApprovalCovers /\ [PolicyNext]_policyVars => ApprovalCovers'
  <2> SUFFICES ASSUME EngineInv, ApprovalCovers, [PolicyNext]_policyVars,
                      NEW i \in DOMAIN grants', NEW g, g = grants'[i], NeedsApproval(g.profile)
               PROVE  Approved(g)'
    BY DEF ApprovalCovers, Approved
  <2>1. \A j \in DOMAIN grants : grants[j] \in GrantRow
    BY DEF EngineInv, PolicyTypeOK
  <2>2. CASE i \in DOMAIN grants /\ g = grants[i]
    BY <2>2, ApprovalStays DEF ApprovalCovers
  <2>3. CASE i \in DOMAIN grants /\ g = [grants[i] EXCEPT !.consumed = TRUE]
    <3>1. Approved(grants[i])
      BY <2>1, <2>3, ConsumedGrant DEF ApprovalCovers
    <3>2. Approved(g)
      BY <2>1, <2>3, <3>1, ConsumedGrant DEF Approved
    <3>3. QED
      BY <3>2, ApprovalStays
  <2>4. ASSUME NEW a \in Agents, Permit(a), g = Grant(auth[a]) PROVE Approved(g)'
    <3>1. g.profile = auth[a].profile
      BY <2>4 DEF Grant
    <3>2. QED
      BY <2>4, <3>1, IssuedApproved
  <2>5. QED
    BY <2>2, <2>3, <2>4, GrantOrigin
<1>3. QED
  BY <1>1, <1>2, EngineInvariant, PTL DEF PolicySpec

--------------------------------------------------------------------------------
\* The key of proposed_actions is what refuses a second grant for an action.
GrantsProposed == \A i \in DOMAIN grants : grants[i].action \in proposed

\* Every grant's action stays proposed.
LEMMA ProposedStep ==
    EngineInv /\ GrantsProposed /\ [PolicyNext]_policyVars => GrantsProposed'
<1> SUFFICES ASSUME EngineInv, GrantsProposed, [PolicyNext]_policyVars,
                    NEW i \in DOMAIN grants', NEW g, g = grants'[i]
             PROVE  g.action \in proposed'
  BY DEF GrantsProposed
<1>1. proposed \subseteq proposed'
  BY DEF PolicyNext, policyVars, policyTables, AgentStep, StartCall, StartSecondPass, Evaluate,
         RecordRefusal, RequireApproval, Permit, Reject, Abandon, ConsumeGrant
<1>2. \A j \in DOMAIN grants : grants[j] \in GrantRow
  BY DEF EngineInv, PolicyTypeOK
<1>3. ASSUME NEW a \in Agents, Permit(a), g = Grant(auth[a]) PROVE g.action \in proposed'
  <2>1. g.action = auth[a].request.action
    BY <1>3 DEF Grant
  <2>2. proposed' = proposed \cup {auth[a].request.action}
    BY <1>3 DEF Permit
  <2>3. QED
    BY <2>1, <2>2
<1>4. CASE i \in DOMAIN grants /\ g.action = grants[i].action
  BY <1>1, <1>4 DEF GrantsProposed
<1>5. i \in DOMAIN grants /\ g = [grants[i] EXCEPT !.consumed = TRUE]
         => g.action = grants[i].action
  BY <1>2, ConsumedGrant
<1>6. QED
  BY <1>3, <1>4, <1>5, GrantOrigin

\* The ledger entries of the grants.
Entries == [i \in DOMAIN grants |-> Entry(grants[i])]

\* Issuing a grant appends its entry.
LEMMA EntriesAppend ==
    ASSUME grants \in Seq(GrantRow), NEW g \in GrantRow, grants' = Append(grants, g)
    PROVE  Entries' = Append(Entries, Entry(g))
<1>1. DOMAIN grants = 1..Len(grants) /\ Len(grants) \in Nat
  OBVIOUS
<1>2. DOMAIN grants' = 1..(Len(grants) + 1)
  OBVIOUS
<1>3. \A i \in DOMAIN grants' : grants'[i] = IF i = Len(grants) + 1 THEN g ELSE grants[i]
  OBVIOUS
<1>4. Entries \in Seq({Entry(h) : h \in GrantRow}) /\ Len(Entries) = Len(grants)
  BY <1>1 DEF Entries
<1>5. QED
  BY <1>1, <1>2, <1>3, <1>4 DEF Entries

\* A step of the engine is a step of the ledger or leaves it unchanged.
LEMMA LedgerStep ==
    EngineInv /\ GrantsProposed /\ [PolicyNext]_policyVars
        => [Ledger!Next]_<<clock, Entries>>
<1> SUFFICES ASSUME EngineInv, GrantsProposed, [PolicyNext]_policyVars
             PROVE  [Ledger!Next]_<<clock, Entries>>
  OBVIOUS
<1>0. grants \in Seq(GrantRow)
  BY DEF EngineInv, PolicyTypeOK
<1>1. ASSUME NEW a \in Agents, Permit(a) PROVE Ledger!Next
  <2> DEFINE g == Grant(auth[a])
  <2>1. /\ grants' = Append(grants, g) /\ clock' = clock
        /\ auth[a].request.action \notin proposed
        /\ At(a, "selected")
    BY <1>1 DEF Permit, vars
  <2>2. g \in GrantRow
    BY <2>1, GrantType DEF EngineInv
  <2>3. Entry(g) = [action |-> g.action, expires |-> clock + GrantTTL, spent |-> FALSE]
    BY DEF Entry, Grant
  <2>4. Entries' = Append(Entries, [action |-> g.action, expires |-> clock + GrantTTL, spent |-> FALSE])
    BY <1>0, <2>1, <2>2, <2>3, EntriesAppend
  <2>5. \A i \in DOMAIN Entries : Entries[i].action # g.action
    BY <2>1 DEF Entries, Entry, Grant, GrantsProposed
  <2>6. g.action \in Actions
    BY <2>2 DEF GrantRow
  <2>7. Ledger!Issue(g.action, GrantTTL)
    BY <2>1, <2>4, <2>5 DEF Ledger!Issue, Entries
  <2>8. QED
    BY <2>6, <2>7 DEF Ledger!Next
<1>2. ASSUME NEW i \in DOMAIN grants, NEW r \in Requests, ConsumeGrant(i, r) PROVE Ledger!Next
  <2> DEFINE g == grants[i]
             h == [g EXCEPT !.consumed = TRUE]
  <2>1. /\ grants' = [grants EXCEPT ![i] = h] /\ clock' = clock
        /\ ~g.consumed /\ g.expires > clock
    BY <1>2 DEF ConsumeGrant, Consumable, vars
  <2>2. g \in GrantRow /\ g.expires \in Nat /\ clock \in Nat
    <3>1. g \in GrantRow
      BY <1>0
    <3>2. g.expires \in Nat
      BY <3>1 DEF GrantRow
    <3>3. clock \in Nat
      BY MaxTimeIsNat DEF EngineInv, PolicyTypeOK, TypeOK
    <3>4. QED
      BY <3>1, <3>2, <3>3
  <2>3. Entry(h) = [action |-> g.action, expires |-> g.expires, spent |-> TRUE]
    BY <2>2 DEF Entry, GrantRow
  <2>4. /\ Entries[i].action = g.action /\ Entries[i].expires = g.expires
        /\ ~Entries[i].spent /\ i \in DOMAIN Entries
    BY <2>1 DEF Entries, Entry
  <2>5. Entries' = [Entries EXCEPT ![i] = [action |-> Entries[i].action,
                                           expires |-> Entries[i].expires, spent |-> TRUE]]
    BY <2>1, <2>3, <2>4 DEF Entries
  <2>6. Ledger!Spend(i)
    BY <2>1, <2>2, <2>4, <2>5 DEF Ledger!Spend, Entries
  <2>7. QED
    BY <2>4, <2>6 DEF Ledger!Next, Entries
<1>3. CASE grants' = grants
  <2>1. Entries' = Entries
    BY <1>3 DEF Entries
  <2>2. clock' = clock \/ clock' = clock + 1
    BY ServiceStep DEF Next, vars, tables, BeginRegister, CommitRegister, BeginProgress,
       CommitProgress, BeginIssue, CommitIssue, Rollback, Tick
  <2>3. QED
    BY <2>1, <2>2 DEF Ledger!Next, Ledger!Advance, Entries
<1>4. QED
  BY <1>1, <1>2, <1>3, GrantsStep

\* "Signed, short-lived, single-use execution grants": the grant table implements the
\* ledger that grants an action once and spends a grant once, before it expires.
THEOREM GrantsImplementLedger == PolicySpec => ImplementsGrantLedger
<1>1. PolicyInit => Ledger!Init
  BY DEF PolicyInit, Init, Ledger!Init
<1>2. PolicyInit => GrantsProposed
  BY DEF PolicyInit, GrantsProposed
<1>3. EngineInv /\ GrantsProposed /\ [PolicyNext]_policyVars
         => [Ledger!Next]_<<clock, [i \in DOMAIN grants |-> Entry(grants[i])]>>
  BY LedgerStep DEF Entries
<1>4. QED
  BY <1>1, <1>2, <1>3, ProposedStep, EngineInvariant, PTL
  DEF PolicySpec, ImplementsGrantLedger, Ledger!Spec

--------------------------------------------------------------------------------
\* What a step does to the records of a permit: nothing but a decision that asks for an
\* approval, a refusal, a permit, or a consumption.
LEMMA RecordsStep ==
    ASSUME [PolicyNext]_policyVars
    PROVE  \/ UNCHANGED <<grants, proposed, decisions, policyAudit>>
           \/ \E a \in Agents : RequireApproval(a)
           \/ \E a \in Agents : RecordRefusal(a)
           \/ \E a \in Agents : Permit(a)
           \/ \E i \in DOMAIN grants, r \in Requests : ConsumeGrant(i, r)
BY DEF PolicyNext, policyVars, policyTables, AgentStep, StartCall, StartSecondPass, Evaluate,
       Reject, Abandon

\* The events that name a grant are those of grants that exist.
EventsNameGrants ==
    \A x \in policyAudit : x.event # "policy.non_grant_decision" => x.grant \in DOMAIN grants

\* Each grant agrees with its event, its decision and its consumption.
GrantAgrees(i) ==
    \E x \in GrantEventsOf(i) :
        /\ GrantEventsOf(i) = {x}
        /\ grants[i].consumed = (ConsumedEvent(i) \in policyAudit)
        /\ x.action = grants[i].action
        /\ x.engagement = grants[i].manifest.id
        /\ (x.event = "policy.r4_granted") = (grants[i].profile.risk = R4)
        /\ [action |-> x.action, pass |-> x.pass, kind |-> "permit"] \in decisions

\* A step that leaves a grant, the events that name it and its decision leaves them in
\* agreement.
LEMMA AgreementStays ==
    ASSUME NEW i, GrantAgrees(i), grants'[i] = grants[i], decisions \subseteq decisions',
           GrantEventsOf(i)' = GrantEventsOf(i),
           (ConsumedEvent(i) \in policyAudit)' = (ConsumedEvent(i) \in policyAudit)
    PROVE  GrantAgrees(i)'
<1>1. PICK x \in GrantEventsOf(i) :
        /\ GrantEventsOf(i) = {x}
        /\ grants[i].consumed = (ConsumedEvent(i) \in policyAudit)
        /\ x.action = grants[i].action
        /\ x.engagement = grants[i].manifest.id
        /\ (x.event = "policy.r4_granted") = (grants[i].profile.risk = R4)
        /\ [action |-> x.action, pass |-> x.pass, kind |-> "permit"] \in decisions
  BY DEF GrantAgrees
<1>2. /\ x \in GrantEventsOf(i)' /\ GrantEventsOf(i)' = {x}
      /\ [action |-> x.action, pass |-> x.pass, kind |-> "permit"] \in decisions'
  BY <1>1
<1>3. grants'[i].consumed = (ConsumedEvent(i) \in policyAudit)'
  BY <1>1
<1>4. QED
  BY <1>1, <1>2, <1>3 DEF GrantAgrees

\* A permit leaves the earlier grants in agreement and adds one that agrees.
LEMMA PermitAgrees ==
    ASSUME EngineInv, EventsNameGrants, \A i \in DOMAIN grants : GrantAgrees(i),
           NEW a \in Agents, Permit(a)
    PROVE  EventsNameGrants' /\ \A i \in DOMAIN grants' : GrantAgrees(i)'
<1> PICK c : c = auth[a]
  OBVIOUS
<1> PICK e : e = GrantEvent(c)
  OBVIOUS
<1> PICK n : n = Len(grants) + 1
  OBVIOUS
<1>0. grants \in Seq(GrantRow)
  BY DEF EngineInv, PolicyTypeOK
<1>1. /\ grants' = Append(grants, Grant(c))
      /\ policyAudit' = policyAudit \cup {e}
      /\ decisions' = decisions \cup {Decision(c, "permit")}
  BY DEF Permit
<1>2. /\ DOMAIN grants' = DOMAIN grants \cup {n} /\ n \notin DOMAIN grants
      /\ grants'[n] = Grant(c)
      /\ \A i \in DOMAIN grants : grants'[i] = grants[i]
  BY <1>0, <1>1
<1>3. /\ e.event \in {"policy.r4_granted", "policy.grant_created"}
      /\ e.grant = n /\ e.pass = c.pass /\ e.action = c.request.action
      /\ e.engagement = c.token.manifest.id
      /\ (e.event = "policy.r4_granted") = (c.profile.risk = R4)
  BY DEF GrantEvent
<1>4. EventsNameGrants'
  BY <1>1, <1>2, <1>3 DEF EventsNameGrants
<1>5. ASSUME NEW i \in DOMAIN grants PROVE GrantAgrees(i)'
  <2>1. GrantEventsOf(i)' = GrantEventsOf(i)
    BY <1>1, <1>2, <1>3 DEF GrantEventsOf
  <2>2. ConsumedEvent(i)' = ConsumedEvent(i) /\ ConsumedEvent(i) # e
    BY <1>2, <1>3 DEF ConsumedEvent
  <2>3. (ConsumedEvent(i) \in policyAudit)' = (ConsumedEvent(i) \in policyAudit)
    BY <1>1, <2>2
  <2>4. QED
    BY <1>1, <1>2, <2>1, <2>3, AgreementStays
<1>6. GrantAgrees(n)'
  <2>1. ASSUME NEW x PROVE x \in GrantEventsOf(n)' <=> x = e
    BY <1>1, <1>2, <1>3 DEF GrantEventsOf, EventsNameGrants
  <2>2. ConsumedEvent(n)' \notin policyAudit'
    BY <1>1, <1>2, <1>3 DEF ConsumedEvent, EventsNameGrants
  <2>3. /\ Grant(c).consumed = FALSE /\ Grant(c).action = c.request.action
        /\ Grant(c).manifest = c.token.manifest /\ Grant(c).profile = c.profile
    BY DEF Grant
  <2>4. [action |-> e.action, pass |-> e.pass, kind |-> "permit"] \in decisions'
    BY <1>1, <1>3 DEF Decision
  <2>5. e \in GrantEventsOf(n)' /\ GrantEventsOf(n)' = {e}
    BY <2>1
  <2>6. grants'[n].consumed = (ConsumedEvent(n) \in policyAudit)'
    <3>1. grants'[n].consumed = FALSE
      BY <1>2, <2>3
    <3>2. (ConsumedEvent(n) \in policyAudit)' = FALSE
      BY <2>2
    <3>3. QED
      BY <3>1, <3>2
  <2>7. (e.event = "policy.r4_granted") = (grants'[n].profile.risk = R4)
    BY <1>2, <1>3, <2>3
  <2>8. e.action = grants'[n].action /\ e.engagement = grants'[n].manifest.id
    BY <1>2, <1>3, <2>3
  <2>9. QED
    BY <2>4, <2>5, <2>6, <2>7, <2>8 DEF GrantAgrees
<1>7. QED
  BY <1>2, <1>4, <1>5, <1>6

\* A consumption leaves the other grants in agreement, and its own: the mark and the event
\* are written together.
LEMMA ConsumeAgrees ==
    ASSUME EngineInv, EventsNameGrants, \A i \in DOMAIN grants : GrantAgrees(i),
           NEW j \in DOMAIN grants, NEW r \in Requests, ConsumeGrant(j, r)
    PROVE  EventsNameGrants' /\ \A i \in DOMAIN grants' : GrantAgrees(i)'
<1> DEFINE e == ConsumedEvent(j)
<1>0. grants \in Seq(GrantRow) /\ grants[j] \in GrantRow
  BY DEF EngineInv, PolicyTypeOK
<1>1. /\ grants' = [grants EXCEPT ![j] = [grants[j] EXCEPT !.consumed = TRUE]]
      /\ policyAudit' = policyAudit \cup {e} /\ decisions' = decisions
  BY DEF ConsumeGrant
<1>2. /\ DOMAIN grants' = DOMAIN grants
      /\ \A i \in DOMAIN grants \ {j} : grants'[i] = grants[i]
      /\ grants'[j] = [grants[j] EXCEPT !.consumed = TRUE]
  BY <1>0, <1>1
<1>3. /\ grants'[j].consumed = TRUE /\ grants'[j].action = grants[j].action
      /\ grants'[j].manifest = grants[j].manifest /\ grants'[j].profile = grants[j].profile
  BY <1>0, <1>2, ConsumedGrant DEF GrantRow
<1>4. e.event = "policy.grant_consumed" /\ e.grant = j
  BY DEF ConsumedEvent
<1>5. EventsNameGrants'
  BY <1>1, <1>2, <1>4 DEF EventsNameGrants
<1>6. \A i : GrantEventsOf(i)' = GrantEventsOf(i)
  BY <1>1, <1>4 DEF GrantEventsOf
<1>7. ASSUME NEW i \in DOMAIN grants \ {j} PROVE GrantAgrees(i)'
  <2>1. ConsumedEvent(i)' = ConsumedEvent(i) /\ ConsumedEvent(i) # e
    BY <1>2, <1>4 DEF ConsumedEvent
  <2>2. (ConsumedEvent(i) \in policyAudit)' = (ConsumedEvent(i) \in policyAudit)
    BY <1>1, <2>1
  <2>3. QED
    BY <1>1, <1>2, <1>6, <2>2, AgreementStays
<1>8. GrantAgrees(j)'
  <2>1. PICK x \in GrantEventsOf(j) :
          /\ GrantEventsOf(j) = {x}
          /\ x.action = grants[j].action
          /\ x.engagement = grants[j].manifest.id
          /\ (x.event = "policy.r4_granted") = (grants[j].profile.risk = R4)
          /\ [action |-> x.action, pass |-> x.pass, kind |-> "permit"] \in decisions
    BY DEF GrantAgrees
  <2>2. ConsumedEvent(j)' = e
    BY <1>3 DEF ConsumedEvent
  <2>3. ConsumedEvent(j)' \in policyAudit'
    BY <1>1, <2>2
  <2>4. x \in GrantEventsOf(j)' /\ GrantEventsOf(j)' = {x}
    BY <1>6, <2>1
  <2>5. QED
    BY <1>1, <1>3, <2>1, <2>3, <2>4 DEF GrantAgrees
<1>9. QED
  BY <1>2, <1>5, <1>7, <1>8

\* A refusal writes a decision and an event of its own.
LEMMA RefusalAgrees ==
    ASSUME EngineInv, EventsNameGrants, \A i \in DOMAIN grants : GrantAgrees(i),
           NEW a \in Agents, RecordRefusal(a)
    PROVE  EventsNameGrants' /\ \A i \in DOMAIN grants' : GrantAgrees(i)'
<1> DEFINE e == NonGrantEvent(auth[a])
<1>1. /\ grants' = grants /\ policyAudit' = policyAudit \cup {e}
      /\ decisions \subseteq decisions'
  BY DEF RecordRefusal
<1>2. e.event = "policy.non_grant_decision"
  BY DEF NonGrantEvent
<1>3. EventsNameGrants'
  BY <1>1, <1>2 DEF EventsNameGrants
<1>4. ASSUME NEW i \in DOMAIN grants PROVE GrantAgrees(i)'
  <2>1. GrantEventsOf(i)' = GrantEventsOf(i)
    BY <1>1, <1>2 DEF GrantEventsOf
  <2>2. ConsumedEvent(i)' = ConsumedEvent(i) /\ ConsumedEvent(i) # e
    BY <1>1, <1>2 DEF ConsumedEvent
  <2>3. (ConsumedEvent(i) \in policyAudit)' = (ConsumedEvent(i) \in policyAudit)
    BY <1>1, <2>2
  <2>4. QED
    BY <1>1, <2>1, <2>3, AgreementStays
<1>5. QED
  BY <1>1, <1>3, <1>4

\* Permit decisions and proposed actions are those of grants.
PermitsHaveGrants ==
    /\ \A d \in decisions :
          d.kind = "permit" => \E i \in DOMAIN grants : grants[i].action = d.action
    /\ proposed = {grants[i].action : i \in DOMAIN grants}

LEMMA PermitsStep ==
    ASSUME EngineInv, PermitsHaveGrants, [PolicyNext]_policyVars
    PROVE  PermitsHaveGrants'
<1>0. grants \in Seq(GrantRow)
  BY DEF EngineInv, PolicyTypeOK
<1>1. ASSUME NEW a \in Agents, Permit(a) PROVE PermitsHaveGrants'
  <2> DEFINE c == auth[a]
  <2> PICK n : n = Len(grants) + 1
    OBVIOUS
  <2>1. /\ grants' = Append(grants, Grant(c))
        /\ proposed' = proposed \cup {c.request.action}
        /\ decisions' = decisions \cup {Decision(c, "permit")}
    BY <1>1 DEF Permit
  <2>2. /\ DOMAIN grants' = DOMAIN grants \cup {n}
        /\ grants'[n] = Grant(c)
        /\ \A i \in DOMAIN grants : grants'[i] = grants[i]
    BY <1>0, <2>1
  <2>3. Grant(c).action = c.request.action /\ Decision(c, "permit").action = c.request.action
    BY DEF Grant, Decision
  <2>4. QED
    BY <2>1, <2>2, <2>3 DEF PermitsHaveGrants
<1>2. ASSUME NEW j \in DOMAIN grants, NEW r \in Requests, ConsumeGrant(j, r)
      PROVE  PermitsHaveGrants'
  <2>1. /\ grants' = [grants EXCEPT ![j] = [grants[j] EXCEPT !.consumed = TRUE]]
        /\ proposed' = proposed /\ decisions' = decisions
    BY <1>2 DEF ConsumeGrant
  <2>2. DOMAIN grants' = DOMAIN grants
    BY <1>0, <2>1
  <2>3. \A i \in DOMAIN grants : grants'[i].action = grants[i].action
    BY <1>0, <2>1, ConsumedGrant
  <2>4. QED
    BY <2>1, <2>2, <2>3 DEF PermitsHaveGrants
<1>3. ASSUME NEW a \in Agents, RecordRefusal(a) PROVE PermitsHaveGrants'
  <2>1. auth[a].kind \in {"deny", "adjust_configuration"}
    BY <1>3 DEF RecordRefusal, At, CallInv, EngineInv, PolicyTypeOK, CallRow
  <2>2. Decision(auth[a], auth[a].kind).kind # "permit"
    BY <2>1 DEF Decision
  <2>3. QED
    BY <1>3, <2>2 DEF RecordRefusal, PermitsHaveGrants
<1>4. ASSUME NEW a \in Agents, RequireApproval(a) PROVE PermitsHaveGrants'
  BY <1>4 DEF RequireApproval, PermitsHaveGrants, Decision
<1>5. CASE UNCHANGED <<grants, proposed, decisions, policyAudit>>
  BY <1>5 DEF PermitsHaveGrants
<1>6. QED
  BY <1>1, <1>2, <1>3, <1>4, <1>5, RecordsStep

\* Every step leaves the records of every permit in agreement.
LEMMA RecordsAgreeStep ==
    ASSUME EngineInv, GrantRecordsAgree, [PolicyNext]_policyVars
    PROVE  GrantRecordsAgree'
<1>1. EventsNameGrants /\ PermitsHaveGrants /\ \A i \in DOMAIN grants : GrantAgrees(i)
  BY DEF GrantRecordsAgree, EventsNameGrants, PermitsHaveGrants, GrantAgrees
<1>2. PermitsHaveGrants'
  BY <1>1, PermitsStep
<1>3. EventsNameGrants' /\ \A i \in DOMAIN grants' : GrantAgrees(i)'
  <2>1. ASSUME NEW a \in Agents, RequireApproval(a)
        PROVE  EventsNameGrants' /\ \A i \in DOMAIN grants' : GrantAgrees(i)'
    <3>1. UNCHANGED <<grants, policyAudit>> /\ decisions \subseteq decisions'
      BY <2>1 DEF RequireApproval
    <3>2. EventsNameGrants'
      BY <1>1, <3>1 DEF EventsNameGrants
    <3>3. ASSUME NEW i \in DOMAIN grants PROVE GrantAgrees(i)'
      <4>1. /\ GrantEventsOf(i)' = GrantEventsOf(i)
            /\ (ConsumedEvent(i) \in policyAudit)' = (ConsumedEvent(i) \in policyAudit)
        BY <3>1 DEF GrantEventsOf, ConsumedEvent
      <4>2. QED
        BY <1>1, <3>1, <4>1, AgreementStays
    <3>4. QED
      BY <3>1, <3>2, <3>3
  <2>2. CASE UNCHANGED <<grants, proposed, decisions, policyAudit>>
    BY <1>1, <2>2 DEF EventsNameGrants, GrantAgrees, GrantEventsOf, ConsumedEvent
  <2>3. QED
    BY <1>1, <2>1, <2>2, RecordsStep, PermitAgrees, ConsumeAgrees, RefusalAgrees
<1>4. QED
  BY <1>2, <1>3 DEF GrantRecordsAgree, EventsNameGrants, PermitsHaveGrants, GrantAgrees

\* "Atomic policy, approval, budget, grant, and audit transactions": whatever calls race,
\* retry or die, each grant has its one event, its permit decision and its proposed action,
\* is consumed exactly when its consumption is audited, and nothing names a grant that
\* does not exist.
THEOREM GrantRecordsAlwaysAgree == PolicySpec => []GrantRecordsAgree
<1>1. PolicyInit => GrantRecordsAgree
  BY DEF PolicyInit, GrantRecordsAgree
<1>2. EngineInv /\ GrantRecordsAgree /\ [PolicyNext]_policyVars => GrantRecordsAgree'
  BY RecordsAgreeStep
<1>3. QED
  BY <1>1, <1>2, EngineInvariant, PTL DEF PolicySpec

--------------------------------------------------------------------------------
\* What a step does to the grants that are there and to the events that name them: nothing
\* but a consumption; a new grant is one of a permit and has that permit's event.
LEMMA EventsStep ==
    ASSUME EngineInv, EventsNameGrants, [PolicyNext]_policyVars
    PROVE  /\ decisions \subseteq decisions' /\ policyAudit \subseteq policyAudit'
           /\ \A i \in DOMAIN grants :
                 /\ i \in DOMAIN grants'
                 /\ GrantEventsOf(i)' = GrantEventsOf(i)
                 /\ grants'[i] = grants[i] \/ grants'[i] = [grants[i] EXCEPT !.consumed = TRUE]
           /\ \A i \in DOMAIN grants' \ DOMAIN grants :
                 \E a \in Agents : /\ Permit(a) /\ grants'[i] = Grant(auth[a])
                                   /\ GrantEventsOf(i)' = {GrantEvent(auth[a])}
<1> DEFINE Kept(i) == /\ i \in DOMAIN grants'
                      /\ GrantEventsOf(i)' = GrantEventsOf(i)
                      /\ grants'[i] = grants[i] \/ grants'[i] = [grants[i] EXCEPT !.consumed = TRUE]
           New(i) == \E a \in Agents : /\ Permit(a) /\ grants'[i] = Grant(auth[a])
                                       /\ GrantEventsOf(i)' = {GrantEvent(auth[a])}
<1>0. grants \in Seq(GrantRow)
  BY DEF EngineInv, PolicyTypeOK
<1>1. decisions \subseteq decisions' /\ policyAudit \subseteq policyAudit'
  BY RecordsStep DEF RequireApproval, RecordRefusal, Permit, ConsumeGrant
<1>2. ASSUME NEW a \in Agents, Permit(a)
      PROVE  /\ \A i \in DOMAIN grants : Kept(i)
             /\ \A i \in DOMAIN grants' \ DOMAIN grants : New(i)
  <2> PICK n : n = Len(grants) + 1
    OBVIOUS
  <2> PICK e : e = GrantEvent(auth[a])
    OBVIOUS
  <2>1. /\ grants' = Append(grants, Grant(auth[a]))
        /\ policyAudit' = policyAudit \cup {e}
    BY <1>2 DEF Permit
  <2>2. /\ DOMAIN grants' = DOMAIN grants \cup {n} /\ n \notin DOMAIN grants
        /\ grants'[n] = Grant(auth[a])
        /\ \A i \in DOMAIN grants : grants'[i] = grants[i]
    BY <1>0, <2>1
  <2>3. e.event \in {"policy.r4_granted", "policy.grant_created"} /\ e.grant = n
    BY DEF GrantEvent
  <2>4. \A i \in DOMAIN grants : GrantEventsOf(i)' = GrantEventsOf(i)
    BY <2>1, <2>2, <2>3 DEF GrantEventsOf
  <2>5. ASSUME NEW x PROVE x \in GrantEventsOf(n)' <=> x = e
    BY <2>1, <2>2, <2>3 DEF GrantEventsOf, EventsNameGrants
  <2>6. GrantEventsOf(n)' = {e}
    BY <2>5
  <2>7. QED
    BY <1>2, <2>2, <2>4, <2>6
<1>3. ASSUME NEW a \in Agents, RecordRefusal(a)
      PROVE  grants' = grants /\ \A i : GrantEventsOf(i)' = GrantEventsOf(i)
  <2>1. grants' = grants /\ policyAudit' = policyAudit \cup {NonGrantEvent(auth[a])}
    BY <1>3 DEF RecordRefusal
  <2>2. NonGrantEvent(auth[a]).event = "policy.non_grant_decision"
    BY DEF NonGrantEvent
  <2>3. QED
    BY <2>1, <2>2 DEF GrantEventsOf
<1>4. ASSUME NEW j \in DOMAIN grants, NEW r \in Requests, ConsumeGrant(j, r)
      PROVE  /\ DOMAIN grants' = DOMAIN grants
             /\ \A i \in DOMAIN grants : Kept(i)
  <2>1. /\ grants' = [grants EXCEPT ![j] = [grants[j] EXCEPT !.consumed = TRUE]]
        /\ policyAudit' = policyAudit \cup {ConsumedEvent(j)}
    BY <1>4 DEF ConsumeGrant
  <2>2. ConsumedEvent(j).event = "policy.grant_consumed"
    BY DEF ConsumedEvent
  <2>3. \A i : GrantEventsOf(i)' = GrantEventsOf(i)
    BY <2>1, <2>2 DEF GrantEventsOf
  <2>4. QED
    BY <1>0, <2>1, <2>3
<1>5. CASE UNCHANGED <<grants, policyAudit>>
  BY <1>1, <1>5 DEF GrantEventsOf
<1>6. (\A i \in DOMAIN grants : Kept(i)) /\ \A i \in DOMAIN grants' \ DOMAIN grants : New(i)
  BY <1>2, <1>3, <1>4, <1>5, RecordsStep DEF RequireApproval
<1>7. QED
  BY <1>1, <1>6

\* The first pass of an action asked for an adjustment, and that is stored and audited.
AdjustmentRecorded(action) ==
    /\ [action |-> action, pass |-> 1, kind |-> "adjust_configuration"] \in decisions
    /\ \E y \in policyAudit :
          /\ y.event = "policy.non_grant_decision"
          /\ y.action = action
          /\ y.kind = "adjust_configuration"
          /\ y.pass = 1

\* What a call owes to the pass it is in: the second one asks for the base profile, after
\* an adjustment that was recorded; no profile needs a flag the manifest lacks.
Follows(c) ==
    /\ c.pass = 2 => c.request.profile = None /\ AdjustmentRecorded(c.request.action)
    /\ c.step = "selected" =>
          /\ c.profile.flag \in c.token.manifest.flags \cup {None}
          /\ c.pass = 2 => c.profile = ToolManifest[c.request.tool].base

FallbackInv == \A a \in Agents : auth[a] # None => Follows(auth[a])

\* A profile can be selected only under its flag; no profile asked for is the base one.
LEMMA SelectedFlag ==
    ASSUME NEW c, c.request.tool \in Tools, NEW p \in Selected(c)
    PROVE  /\ p.flag \in c.token.manifest.flags \cup {None}
           /\ c.request.profile = None => p = ToolManifest[c.request.tool].base
BY ToolsWellFormed DEF Selected, ToolAssumption

\* Decisions and events stay, so what a call owes to its pass stays paid.
LEMMA FollowsStays ==
    ASSUME NEW c, Follows(c), decisions \subseteq decisions', policyAudit \subseteq policyAudit'
    PROVE  Follows(c)'
BY DEF Follows, AdjustmentRecorded

\* Every step keeps what calls owe to their pass.
LEMMA FallbackStep ==
    ASSUME EngineInv, FallbackInv, [PolicyNext]_policyVars
    PROVE  FallbackInv'
<1>1. decisions \subseteq decisions' /\ policyAudit \subseteq policyAudit'
  BY RecordsStep DEF RequireApproval, RecordRefusal, Permit, ConsumeGrant
<1>2. ASSUME NEW b \in Agents, NEW c, c = auth[b], c # None PROVE Follows(c)'
  BY <1>1, <1>2, FollowsStays DEF FallbackInv
<1>3. ASSUME NEW a \in Agents, NEW c, Goto(a, c), c = None \/ Follows(c)' PROVE FallbackInv'
  <2>1. ASSUME NEW b \in Agents, NEW d, d = auth'[b], d # None PROVE Follows(d)'
    <3>1. CASE b = a
      <4>1. d = c
        BY <1>3, <2>1, <3>1 DEF Goto, EngineInv, PolicyTypeOK
      <4>2. QED
        BY <1>3, <2>1, <4>1
    <3>2. CASE b # a
      <4>1. d = auth[b]
        BY <1>3, <2>1, <3>2 DEF Goto, EngineInv, PolicyTypeOK
      <4>2. Follows(d)
        BY <2>1, <4>1 DEF FallbackInv
      <4>3. QED
        BY <1>1, <4>2, FollowsStays
    <3>3. QED
      BY <3>1, <3>2
  <2>2. QED
    BY <2>1 DEF FallbackInv
<1>4. ASSUME NEW a \in Agents, NEW r \in Requests, NEW t \in tokens, StartCall(a, r, t)
      PROVE  FallbackInv'
  <2> PICK d : d = Verified(r, 1, t)
    OBVIOUS
  <2>1. Follows(d)
    BY DEF Follows, Verified, Holding
  <2>2. QED
    BY <1>1, <1>3, <1>4, <2>1, FollowsStays DEF StartCall
<1>5. ASSUME NEW a \in Agents, StartSecondPass(a) PROVE FallbackInv'
  <2> PICK c : c = auth[a]
    OBVIOUS
  <2> PICK d : d = Verified(c.request, c.pass, c.token)
    OBVIOUS
  <2>1. Follows(c)
    BY <1>5 DEF StartSecondPass, At, FallbackInv
  <2>2. d.request = c.request /\ d.pass = c.pass /\ d.step = "verified"
    BY DEF Verified, Holding
  <2>3. Follows(d)
    BY <2>1, <2>2 DEF Follows
  <2>4. QED
    BY <1>1, <1>3, <1>5, <2>3, FollowsStays DEF StartSecondPass, Return
<1>6. ASSUME NEW a \in Agents, Evaluate(a) PROVE FallbackInv'
  <2> PICK c : c = auth[a]
    OBVIOUS
  <2>1. Follows(c) /\ c \in CallRow
    BY <1>6 DEF Evaluate, At, FallbackInv, EngineInv, PolicyTypeOK
  <2>2. c.request.tool \in Tools
    BY <2>1, AdjustedRequest DEF CallRow
  <2>3. ASSUME NEW row, NEW k PROVE Follows(Refused(c, row, k))
    <3> DEFINE d == Refused(c, row, k)
    <3>1. d.request = c.request /\ d.pass = c.pass /\ d.step = "refused"
      BY DEF Refused, Holding
    <3>2. QED
      BY <2>1, <3>1 DEF Follows
  <2>4. ASSUME NEW row, NEW p \in Selected(c) PROVE Follows(SelectedProfile(c, row, p))
    <3> DEFINE d == SelectedProfile(c, row, p)
    <3>1. d.request = c.request /\ d.pass = c.pass /\ d.token = c.token /\ d.profile = p
      BY DEF SelectedProfile, Holding
    <3>2. /\ p.flag \in c.token.manifest.flags \cup {None}
          /\ c.request.profile = None => p = ToolManifest[c.request.tool].base
      BY <2>2, SelectedFlag
    <3>3. QED
      BY <2>1, <3>1, <3>2 DEF Follows
  <2>5. CASE Return(a)
    BY <1>3, <2>5 DEF Return
  <2>6. CASE \E row : \E k \in {"deny", "adjust_configuration"} : Goto(a, Refused(c, row, k))
    <3>1. PICK row, k : Goto(a, Refused(c, row, k))
      BY <2>6
    <3> PICK d : d = Refused(c, row, k)
      OBVIOUS
    <3>2. Follows(d)'
      BY <1>1, <2>3, FollowsStays
    <3>3. QED
      BY <1>3, <3>1, <3>2
  <2>7. CASE \E row : \E p \in Selected(c) : Goto(a, SelectedProfile(c, row, p))
    <3>1. PICK row : \E p \in Selected(c) : Goto(a, SelectedProfile(c, row, p))
      BY <2>7
    <3>2. PICK p \in Selected(c) : Goto(a, SelectedProfile(c, row, p))
      BY <3>1
    <3> PICK d : d = SelectedProfile(c, row, p)
      OBVIOUS
    <3>3. Follows(d)'
      BY <1>1, <2>4, FollowsStays
    <3>4. QED
      BY <1>3, <3>2, <3>3
  <2>8. QED
    BY <1>6, <2>5, <2>6, <2>7 DEF Evaluate
<1>7. ASSUME NEW a \in Agents, RecordRefusal(a) PROVE FallbackInv'
  <2> PICK c : c = auth[a]
    OBVIOUS
  <2> PICK d : d = Retrying(c)
    OBVIOUS
  <2> PICK y : y = NonGrantEvent(c)
    OBVIOUS
  <2>1. CASE ~Falls(c)
    BY <1>3, <1>7, <2>1 DEF RecordRefusal
  <2>2. CASE Falls(c)
    <3>1. c.kind = "adjust_configuration" /\ c.pass = 1
      BY <2>2 DEF Falls
    <3>2. /\ d.request.profile = None /\ d.request.action = c.request.action /\ d.step = "retry"
      BY DEF Retrying, Holding, Adjusted
    <3>3. /\ [action |-> c.request.action, pass |-> 1, kind |-> "adjust_configuration"] \in decisions'
          /\ y \in policyAudit'
      BY <1>7, <3>1 DEF RecordRefusal, Decision
    <3>4. /\ y.event = "policy.non_grant_decision" /\ y.action = c.request.action
          /\ y.kind = "adjust_configuration" /\ y.pass = 1
      BY <3>1 DEF NonGrantEvent
    <3>5. Follows(d)'
      BY <3>2, <3>3, <3>4 DEF Follows, AdjustmentRecorded
    <3>6. QED
      BY <1>3, <1>7, <2>2, <3>5 DEF RecordRefusal
  <2>3. QED
    BY <2>1, <2>2
<1>8. ASSUME NEW a \in Agents, RequireApproval(a) \/ Permit(a) \/ Reject(a) \/ Abandon(a)
      PROVE  FallbackInv'
  BY <1>3, <1>8 DEF RequireApproval, Permit, Reject, Abandon, Return
<1>9. CASE auth' = auth
  <2>1. ASSUME NEW b \in Agents, NEW d, d = auth'[b], d # None PROVE Follows(d)'
    BY <1>2, <1>9, <2>1
  <2>2. QED
    BY <2>1 DEF FallbackInv
<1>10. QED
  BY <1>4, <1>5, <1>6, <1>7, <1>8, <1>9 DEF PolicyNext, policyVars, AgentStep, ConsumeGrant

\* What FallbackAudited says of one grant.
FallbackOf(i) ==
    /\ grants[i].profile.flag \in grants[i].manifest.flags \cup {None}
    /\ \A x \in GrantEventsOf(i) :
          x.pass = 2 => /\ grants[i].profile = ToolManifest[grants[i].tool].base
                        /\ AdjustmentRecorded(grants[i].action)

LEMMA FallbackAuditedStep ==
    ASSUME EngineInv, EventsNameGrants, FallbackInv, \A i \in DOMAIN grants : FallbackOf(i),
           [PolicyNext]_policyVars
    PROVE  \A i \in DOMAIN grants' : FallbackOf(i)'
<1> SUFFICES ASSUME NEW i \in DOMAIN grants' PROVE FallbackOf(i)'
  OBVIOUS
<1>1. \A action : AdjustmentRecorded(action) => AdjustmentRecorded(action)'
  BY EventsStep DEF AdjustmentRecorded
<1>2. CASE i \in DOMAIN grants
  <2>1. grants[i] \in GrantRow
    BY <1>2 DEF EngineInv, PolicyTypeOK
  <2>2. /\ GrantEventsOf(i)' = GrantEventsOf(i)
        /\ grants'[i] = grants[i] \/ grants'[i] = [grants[i] EXCEPT !.consumed = TRUE]
    BY <1>2, EventsStep
  <2>3. /\ grants'[i].profile = grants[i].profile /\ grants'[i].manifest = grants[i].manifest
        /\ grants'[i].tool = grants[i].tool /\ grants'[i].action = grants[i].action
    BY <2>1, <2>2, ConsumedGrant
  <2>4. FallbackOf(i)
    BY <1>2
  <2>5. QED
    BY <1>1, <2>2, <2>3, <2>4 DEF FallbackOf
<1>3. CASE i \notin DOMAIN grants
  <2>1. PICK a \in Agents : /\ Permit(a) /\ grants'[i] = Grant(auth[a])
                            /\ GrantEventsOf(i)' = {GrantEvent(auth[a])}
    BY <1>3, EventsStep
  <2> PICK c : c = auth[a]
    OBVIOUS
  <2> PICK g : g = Grant(c)
    OBVIOUS
  <2>2. Follows(c) /\ c.step = "selected"
    BY <2>1 DEF Permit, At, FallbackInv
  <2>3. /\ g.profile = c.profile /\ g.manifest = c.token.manifest
        /\ g.tool = c.request.tool /\ g.action = c.request.action
    BY DEF Grant
  <2>4. GrantEvent(c).pass = c.pass
    BY DEF GrantEvent
  <2>5. c.pass = 2 => AdjustmentRecorded(c.request.action)'
    BY <1>1, <2>2 DEF Follows
  <2>6. \A x \in GrantEventsOf(i)' : x.pass = c.pass
    BY <2>1, <2>4
  <2>7. grants'[i] = g
    BY <2>1
  <2>8. QED
    BY <2>2, <2>3, <2>5, <2>6, <2>7 DEF FallbackOf, Follows
<1>4. QED
  BY <1>2, <1>3

\* "Audited adaptive fallback to an authorized profile": a grant of the second pass is for
\* the base profile and comes after a stored and audited adjustment, and no grant has a
\* profile whose flag its manifest lacks.
THEOREM FallbackAlwaysAudited == PolicySpec => []FallbackAudited
<1>1. PolicyInit => FallbackInv /\ FallbackAudited
  BY DEF PolicyInit, FallbackInv, FallbackAudited
<1>2. EngineInv /\ FallbackInv /\ [PolicyNext]_policyVars => FallbackInv'
  BY FallbackStep
<1>3. EngineInv /\ GrantRecordsAgree /\ FallbackInv /\ FallbackAudited /\ [PolicyNext]_policyVars
         => FallbackAudited'
  <2> SUFFICES ASSUME EngineInv, GrantRecordsAgree, FallbackInv, FallbackAudited,
                      [PolicyNext]_policyVars
               PROVE  FallbackAudited'
    OBVIOUS
  <2>1. EventsNameGrants /\ \A i \in DOMAIN grants : FallbackOf(i)
    BY DEF GrantRecordsAgree, EventsNameGrants, FallbackAudited, FallbackOf, AdjustmentRecorded
  <2>2. \A i \in DOMAIN grants' : FallbackOf(i)'
    BY <2>1, FallbackAuditedStep
  <2>3. QED
    BY <2>2 DEF FallbackAudited, FallbackOf, AdjustmentRecorded
<1>4. QED
  BY <1>1, <1>2, <1>3, EngineInvariant, GrantRecordsAlwaysAgree, PTL DEF PolicySpec

--------------------------------------------------------------------------------
\* Every set of natural numbers that has an element has a least one: the library's theorems
\* on induction take an operator, this is the form without one.  It is that of the finite
\* intervals 0..n with n in the set one has no other inside it.
LEMMA LeastElement ==
    ASSUME NEW S \in SUBSET Nat, S # {}
    PROVE  \E m \in S : \A n \in S : m <= n
<1> DEFINE T == {0..n : n \in S}
<1>1. IsWellFoundedOn(StrictSubsetOrdering(Nat), FiniteSubsetsOf(Nat))
  BY FS_StrictSubsetOrderingWellFounded
<1>2. T \subseteq FiniteSubsetsOf(Nat)
  <2> SUFFICES ASSUME NEW n \in S PROVE 0..n \in FiniteSubsetsOf(Nat)
    OBVIOUS
  <2>1. IsFiniteSet(0..n)
    BY FS_Interval
  <2>2. QED
    BY <2>1 DEF FiniteSubsetsOf
<1>3. T # {}
  OBVIOUS
<1>4. PICK x \in T : \A y \in T : <<y, x>> \notin StrictSubsetOrdering(Nat)
  BY <1>1, <1>2, <1>3, WFMin
<1>5. PICK m \in S : x = 0..m
  OBVIOUS
<1>6. ASSUME NEW n \in S, n < m PROVE FALSE
  <2>1. 0..n \subseteq 0..m /\ m \in 0..m /\ m \notin 0..n
    BY <1>6
  <2>2. 0..n \subseteq Nat /\ 0..m \subseteq Nat
    OBVIOUS
  <2>3. 0..n # 0..m
    BY <2>1
  <2>4. <<0..n, 0..m>> \in StrictSubsetOrdering(Nat)
    BY <2>1, <2>2, <2>3 DEF StrictSubsetOrdering
  <2>5. QED
    BY <1>4, <1>5, <2>4
<1>7. QED
  BY <1>6

\* u holds the running sums of s.
Running(u, s) ==
    u = [n \in 0..Len(s) |-> IF n = 0 THEN 0 ELSE u[n - 1] + s[n]]

\* Running sums are unique.
LEMMA RunningUnique ==
    ASSUME NEW s \in Seq(Nat), NEW u, NEW v, Running(u, s), Running(v, s)
    PROVE  u = v
<1>0. Len(s) \in Nat
  OBVIOUS
<1> DEFINE S == {n \in 0..Len(s) : u[n] # v[n]}
<1>1. S \in SUBSET Nat
  OBVIOUS
<1>2. /\ \A n \in 0..Len(s) : u[n] = IF n = 0 THEN 0 ELSE u[n - 1] + s[n]
      /\ \A n \in 0..Len(s) : v[n] = IF n = 0 THEN 0 ELSE v[n - 1] + s[n]
  BY DEF Running
<1>3. CASE S # {}
  <2>1. PICK m \in S : \A n \in S : m <= n
    BY <1>1, <1>3, LeastElement
  <2>2. m # 0
    BY <1>2, <2>1
  <2>3. m - 1 \in 0..Len(s) /\ m - 1 \notin S
    BY <1>0, <2>1, <2>2
  <2>4. QED
    BY <1>2, <2>1, <2>2, <2>3
<1>4. CASE S = {}
  <2>1. \A n \in 0..Len(s) : u[n] = v[n]
    BY <1>4
  <2>2. u = [n \in 0..Len(s) |-> u[n]] /\ v = [n \in 0..Len(s) |-> v[n]]
    BY <1>2 DEF Running
  <2>3. QED
    BY <2>1, <2>2
<1>5. QED
  BY <1>3, <1>4

\* Running sums of a sequence give those of a longer one.
LEMMA RunningAppend ==
    ASSUME NEW s \in Seq(Nat), NEW x \in Nat, NEW u, Running(u, s)
    PROVE  LET v == [n \in 0..(Len(s) + 1) |-> IF n = Len(s) + 1 THEN u[Len(s)] + x ELSE u[n]]
           IN  Running(v, Append(s, x))
<1> DEFINE v == [n \in 0..(Len(s) + 1) |-> IF n = Len(s) + 1 THEN u[Len(s)] + x ELSE u[n]]
           t == Append(s, x)
<1>1. /\ Len(s) \in Nat /\ Len(t) = Len(s) + 1 /\ t[Len(s) + 1] = x
      /\ \A n \in 1..Len(s) : t[n] = s[n]
  OBVIOUS
<1>2. \A n \in 0..Len(s) : u[n] = IF n = 0 THEN 0 ELSE u[n - 1] + s[n]
  BY DEF Running
<1>3. ASSUME NEW n \in 0..Len(t) PROVE v[n] = IF n = 0 THEN 0 ELSE v[n - 1] + t[n]
  <2>1. CASE n = Len(s) + 1
    BY <1>1, <2>1
  <2>2. CASE n # Len(s) + 1
    BY <1>1, <1>2, <2>2
  <2>3. QED
    BY <2>1, <2>2
<1>4. v = [n \in 0..Len(t) |-> v[n]]
  BY <1>1
<1>5. Running(v, t)
  BY <1>3, <1>4 DEF Running
<1>6. QED
  BY <1>5

\* Every sequence has running sums: a shortest one without would have them from its front.
LEMMA RunningExists ==
    ASSUME NEW s \in Seq(Nat) PROVE \E u : Running(u, s)
<1> DEFINE S == {n \in Nat : \E t \in Seq(Nat) : Len(t) = n /\ \A u : ~Running(u, t)}
<1>1. CASE S # {}
  <2>1. PICK m \in S : \A n \in S : m <= n
    BY <1>1, LeastElement
  <2>2. PICK t \in Seq(Nat) : Len(t) = m /\ \A u : ~Running(u, t)
    BY <2>1
  <2>3. CASE m = 0
    <3>1. Running([n \in 0..0 |-> 0], t)
      BY <2>2, <2>3 DEF Running
    <3>2. QED
      BY <2>2, <3>1
  <2>4. CASE m # 0
    <3> DEFINE f == SubSeq(t, 1, m - 1)
               x == t[m]
    <3>1. f \in Seq(Nat) /\ Len(f) = m - 1 /\ x \in Nat /\ m - 1 \in Nat
      BY <2>2, <2>4
    <3>2. t = Append(f, x)
      BY <2>2, <2>4, <3>1
    <3>3. m - 1 \notin S
      BY <2>1, <3>1
    <3>4. PICK u : Running(u, f)
      BY <3>1, <3>3
    <3>5. \E v : Running(v, Append(f, x))
      BY <3>1, <3>4, RunningAppend
    <3>6. QED
      BY <2>2, <3>2, <3>5
  <2>5. QED
    BY <2>3, <2>4
<1>2. CASE S = {}
  BY <1>2
<1>3. QED
  BY <1>1, <1>2

\* The sum of a sequence is the last of its running sums.
LEMMA TotalRunning ==
    ASSUME NEW s \in Seq(Nat), NEW u, Running(u, s)
    PROVE  Total(s) = u[Len(s)]
<1> DEFINE w == CHOOSE v : v = [n \in 0..Len(s) |-> IF n = 0 THEN 0 ELSE v[n - 1] + s[n]]
<1>1. Running(w, s)
  BY RunningExists DEF Running
<1>2. w = u
  BY <1>1, RunningUnique
<1>3. Total(s) = w[Len(s)]
  BY DEF Total
<1>4. QED
  BY <1>2, <1>3

\* The sum of no numbers, and of one number more.
LEMMA TotalEmpty == Total(<<>>) = 0
<1>1. Running([n \in 0..0 |-> 0], <<>>)
  BY DEF Running
<1>2. <<>> \in Seq(Nat) /\ Len(<<>>) = 0
  OBVIOUS
<1>3. QED
  BY <1>1, <1>2, TotalRunning

LEMMA TotalAppend ==
    ASSUME NEW s \in Seq(Nat), NEW x \in Nat
    PROVE  Total(Append(s, x)) = Total(s) + x
<1>1. PICK u : Running(u, s)
  BY RunningExists
<1> DEFINE v == [n \in 0..(Len(s) + 1) |-> IF n = Len(s) + 1 THEN u[Len(s)] + x ELSE u[n]]
<1>2. Running(v, Append(s, x))
  BY <1>1, RunningAppend
<1>3. Append(s, x) \in Seq(Nat) /\ Len(Append(s, x)) = Len(s) + 1 /\ Len(s) \in Nat
  OBVIOUS
<1>4. Total(Append(s, x)) = v[Len(s) + 1]
  BY <1>2, <1>3, TotalRunning
<1>5. Total(s) = u[Len(s)]
  BY <1>1, TotalRunning
<1>6. QED
  BY <1>3, <1>4, <1>5

\* Sums of natural numbers are natural numbers: a first running sum that is not would have
\* a predecessor that is.
LEMMA TotalNat == ASSUME NEW s \in Seq(Nat) PROVE Total(s) \in Nat
<1>1. PICK u : Running(u, s)
  BY RunningExists
<1>0. Len(s) \in Nat
  OBVIOUS
<1>2. \A n \in 0..Len(s) : u[n] = IF n = 0 THEN 0 ELSE u[n - 1] + s[n]
  BY <1>1 DEF Running
<1> DEFINE S == {n \in 0..Len(s) : u[n] \notin Nat}
<1>3. CASE S # {}
  <2>0. S \in SUBSET Nat
    OBVIOUS
  <2>1. PICK m \in S : \A n \in S : m <= n
    BY <1>3, <2>0, LeastElement
  <2>2. m # 0
    BY <1>2, <2>1
  <2>3. m - 1 \in 0..Len(s) /\ m - 1 \notin S /\ s[m] \in Nat
    BY <1>0, <2>1, <2>2
  <2>4. QED
    BY <1>2, <2>1, <2>2, <2>3
<1>4. CASE S = {}
  BY <1>0, <1>1, <1>4, TotalRunning
<1>5. QED
  BY <1>3, <1>4

--------------------------------------------------------------------------------
\* What the grants of a task and budget cost is a sequence of numbers, one to a grant.
Costs(t, b, x) == CostOf(Charged(t, b), x)

LEMMA CostsType ==
    ASSUME PolicyTypeOK, NEW t, NEW b, NEW x \in Resources
    PROVE  /\ Costs(t, b, x) \in Seq(Nat)
           /\ Len(Costs(t, b, x)) = Len(grants)
           /\ DOMAIN Costs(t, b, x) = DOMAIN grants
<1>1. grants \in Seq(GrantRow) /\ DOMAIN grants = 1..Len(grants) /\ Len(grants) \in Nat
  BY DEF PolicyTypeOK
<1>2. \A i \in DOMAIN grants : grants[i].cost[x] \in Nat
  <2> SUFFICES ASSUME NEW i \in DOMAIN grants PROVE grants[i].cost[x] \in Nat
    OBVIOUS
  <2>1. grants[i] \in GrantRow
    BY <1>1
  <2>2. grants[i].cost \in Cost
    BY <2>1 DEF GrantRow
  <2>3. QED
    BY <2>2 DEF Cost
<1>3. Costs(t, b, x) = [i \in 1..Len(grants) |-> IF i \in Charged(t, b) THEN grants[i].cost[x] ELSE 0]
  BY <1>1 DEF Costs, CostOf
<1>4. \A i \in 1..Len(grants) : (IF i \in Charged(t, b) THEN grants[i].cost[x] ELSE 0) \in Nat
  BY <1>1, <1>2
<1>5. QED
  BY <1>1, <1>3, <1>4

\* A permit adds its cost to what its task and budget cost, and nothing to the others.
LEMMA PermitCosts ==
    ASSUME EngineInv, NEW a \in Agents, Permit(a), NEW c, c = auth[a],
           NEW t, NEW b, NEW x \in Resources
    PROVE  Total(Costs(t, b, x))' =
             IF t = c.request.task /\ b = c.token.manifest.budget
             THEN Total(Costs(t, b, x)) + c.request.cost[x] ELSE Total(Costs(t, b, x))
<1> DEFINE g == Grant(c)
<1> PICK n : n = Len(grants) + 1
  OBVIOUS
<1> PICK y : y = IF t = c.request.task /\ b = c.token.manifest.budget THEN c.request.cost[x] ELSE 0
  OBVIOUS
<1> PICK s : s = Costs(t, b, x)
  OBVIOUS
<1>1. PolicyTypeOK /\ grants \in Seq(GrantRow) /\ c \in CallRow
  BY DEF EngineInv, PolicyTypeOK, Permit, At
<1>2. c.request.cost[x] \in Nat
  <2>1. c.request.cost \in Cost
    BY <1>1, AdjustedRequest DEF CallRow
  <2>2. QED
    BY <2>1 DEF Cost
<1>3. grants' = Append(grants, g)
  BY DEF Permit
<1>4. /\ DOMAIN grants' = 1..n /\ DOMAIN grants = 1..Len(grants) /\ Len(grants) \in Nat
      /\ grants'[n] = g /\ \A i \in 1..Len(grants) : grants'[i] = grants[i]
  BY <1>1, <1>3
<1>5. g.task = c.request.task /\ g.manifest = c.token.manifest /\ g.cost = c.request.cost
  BY DEF Grant
<1>6. n \in Charged(t, b)' <=> (t = c.request.task /\ b = c.token.manifest.budget)
  BY <1>4, <1>5 DEF Charged
<1>7. \A i \in 1..Len(grants) : i \in Charged(t, b)' <=> i \in Charged(t, b)
  BY <1>4 DEF Charged
<1>8. s \in Seq(Nat) /\ Len(s) = Len(grants) /\ DOMAIN s = DOMAIN grants /\ y \in Nat
  BY <1>1, <1>2, CostsType
<1>9. Costs(t, b, x)' = [i \in 1..n |-> IF i \in Charged(t, b)' THEN grants'[i].cost[x] ELSE 0]
  BY <1>4 DEF Costs, CostOf
<1>10. \A i \in 1..Len(grants) : s[i] = IF i \in Charged(t, b) THEN grants[i].cost[x] ELSE 0
  BY <1>4 DEF Costs, CostOf
<1>11. Costs(t, b, x)' = Append(s, y)
  <2>1. Append(s, y) = [i \in 1..n |-> IF i = n THEN y ELSE s[i]]
    BY <1>4, <1>8
  <2>2. ASSUME NEW i \in 1..n
        PROVE  (IF i \in Charged(t, b)' THEN grants'[i].cost[x] ELSE 0) = (IF i = n THEN y ELSE s[i])
    <3>1. CASE i = n
      BY <1>4, <1>5, <1>6, <3>1
    <3>2. CASE i # n
      <4>1. i \in 1..Len(grants)
        BY <1>4, <3>2
      <4>2. QED
        BY <1>4, <1>7, <1>10, <3>2, <4>1
    <3>3. QED
      BY <3>1, <3>2
  <2>3. QED
    BY <1>9, <2>1, <2>2
<1>12. Total(Costs(t, b, x)') = Total(s) + y
  BY <1>8, <1>11, TotalAppend
<1>13. Total(s) \in Nat
  BY <1>8, TotalNat
<1>14. Total(Costs(t, b, x)') = Total(Costs(t, b, x))'
  BY DEF Total
<1>15. QED
  BY <1>12, <1>13, <1>14

\* Any other step leaves what a task and budget cost: a consumption only marks a grant.
LEMMA OtherCosts ==
    ASSUME EngineInv, [PolicyNext]_policyVars, ~\E a \in Agents : Permit(a), NEW t, NEW b
    PROVE  /\ Charged(t, b)' = Charged(t, b)
           /\ \A x : Costs(t, b, x)' = Costs(t, b, x)
<1>0. grants \in Seq(GrantRow)
  BY DEF EngineInv, PolicyTypeOK
<1>1. CASE grants' = grants
  BY <1>1 DEF Costs, CostOf, Charged
<1>2. ASSUME NEW j \in DOMAIN grants, NEW r \in Requests, ConsumeGrant(j, r)
      PROVE  /\ Charged(t, b)' = Charged(t, b)
             /\ \A x : Costs(t, b, x)' = Costs(t, b, x)
  <2>1. grants' = [grants EXCEPT ![j] = [grants[j] EXCEPT !.consumed = TRUE]]
    BY <1>2 DEF ConsumeGrant
  <2>2. DOMAIN grants' = DOMAIN grants
    BY <1>0, <2>1
  <2>3. \A i \in DOMAIN grants : /\ grants'[i].task = grants[i].task
                                /\ grants'[i].manifest = grants[i].manifest
                                /\ grants'[i].cost = grants[i].cost
    BY <1>0, <2>1, ConsumedGrant
  <2>4. Charged(t, b)' = Charged(t, b)
    BY <2>2, <2>3 DEF Charged
  <2>5. QED
    BY <2>2, <2>3, <2>4 DEF Costs, CostOf
<1>3. QED
  BY <1>1, <1>2, GrantsStep

\* Every token is of a registered manifest, and a manifest that is registered stays so.
LEMMA TokensRegistered == PolicySpec => []TokenInv
<1>1. PolicyInit => TokenInv
  BY DEF PolicyInit, Init, TokenInv, Registered
<1>2. TypeOK /\ VersionChain /\ TokenInv /\ [PolicyNext]_policyVars => TokenInv'
  BY TokenStep, ServiceStep
<1>3. QED
  BY <1>1, <1>2, ServiceInvariants, PTL DEF PolicySpec

\* What BudgetAccounts says of one task and budget.
ChargesAccounted(t, b) ==
    /\ \A x \in Resources : usage[t][b][x] = Total(Costs(t, b, x))
    /\ Charged(t, b) # {} =>
          \A x \in Limited :
              \E m \in Registered : /\ m.id = TaskSpec[t].engagement /\ m.budget = b
                                     /\ usage[t][b][x] <= m.limits[x]

\* A permit keeps the accounts: what it charges is in the row, and within the limit of the
\* manifest of its token.
LEMMA PermitAccounts ==
    ASSUME EngineInv, TokenInv, NEW a \in Agents, Permit(a), NEW t \in Tasks,
           NEW b \in BudgetNames, ChargesAccounted(t, b)
    PROVE  ChargesAccounted(t, b)'
<1> PICK c : c = auth[a]
  OBVIOUS
<1>1. PolicyTypeOK /\ c \in CallRow /\ c.token \in tokens /\ Established(c)
  BY DEF EngineInv, PolicyTypeOK, Permit, At, CallInv
<1>2. c.request.task \in Tasks /\ c.request.cost \in Cost
  BY <1>1, AdjustedRequest DEF CallRow
<1>3. c.token.manifest \in Manifests /\ c.token.manifest.budget \in BudgetNames
  BY <1>1, PolicyManifestsWellFormed DEF CallRow, Token, PolicyManifestAssumption
<1>4. usage[t][b] \in Cost /\ usage[c.request.task][c.token.manifest.budget] \in Cost
  BY <1>1, <1>2, <1>3 DEF PolicyTypeOK
<1>5. engagements' = engagements /\ Registered' = Registered
  BY DEF Permit, vars, Registered
<1>6. usage' = [usage EXCEPT ![c.request.task][c.token.manifest.budget] =
                    [x \in Resources |-> usage[c.request.task][c.token.manifest.budget][x]
                                           + c.request.cost[x]]]
  BY DEF Permit
<1>7. CASE t = c.request.task /\ b = c.token.manifest.budget
  <2>1. \A x \in Resources : usage'[t][b][x] = usage[t][b][x] + c.request.cost[x]
    BY <1>1, <1>2, <1>3, <1>6, <1>7 DEF PolicyTypeOK
  <2>2. \A x \in Resources : usage'[t][b][x] = Total(Costs(t, b, x))'
    BY <1>7, <2>1, PermitCosts DEF ChargesAccounted
  <2>3. \A x \in Limited : usage[t][b][x] + c.request.cost[x] <= c.token.manifest.limits[x]
    BY <1>7 DEF Permit, WithinBudget
  <2>4. c.token.manifest \in Registered'
    BY <1>1, <1>5 DEF TokenInv
  <2>5. c.token.manifest.id = TaskSpec[t].engagement
    BY <1>1, <1>7 DEF Established, Bound
  <2>6. Limited \subseteq Resources
    BY DEF Limited, Resources
  <2>7. \A x \in Limited : usage'[t][b][x] <= c.token.manifest.limits[x]
    BY <2>1, <2>3, <2>6
  <2>8. QED
    BY <1>7, <2>2, <2>4, <2>5, <2>7 DEF ChargesAccounted
<1>8. CASE t # c.request.task \/ b # c.token.manifest.budget
  <2>1. usage'[t][b] = usage[t][b]
    BY <1>1, <1>2, <1>3, <1>6, <1>8 DEF PolicyTypeOK
  <2>2. \A x \in Resources : Total(Costs(t, b, x))' = Total(Costs(t, b, x))
    BY <1>8, PermitCosts
  <2>3. Charged(t, b)' = Charged(t, b)
    <3>1. PICK n : n = Len(grants) + 1
      OBVIOUS
    <3>2. grants \in Seq(GrantRow) /\ grants' = Append(grants, Grant(c))
      BY <1>1 DEF PolicyTypeOK, Permit
    <3>3. /\ DOMAIN grants' = DOMAIN grants \cup {n} /\ n \notin DOMAIN grants
          /\ grants'[n] = Grant(c)
          /\ \A i \in DOMAIN grants : grants'[i] = grants[i]
      BY <3>1, <3>2
    <3>4. Grant(c).task = c.request.task /\ Grant(c).manifest = c.token.manifest
      BY DEF Grant
    <3>5. QED
      BY <1>8, <3>3, <3>4 DEF Charged
  <2>4. QED
    BY <1>5, <2>1, <2>2, <2>3 DEF ChargesAccounted
<1>9. QED
  BY <1>7, <1>8

\* Any other step leaves the rows and what grants cost, and forgets no manifest.
LEMMA OtherAccounts ==
    ASSUME EngineInv, [PolicyNext]_policyVars, ~\E a \in Agents : Permit(a), NEW t \in Tasks,
           NEW b \in BudgetNames, ChargesAccounted(t, b)
    PROVE  ChargesAccounted(t, b)'
<1>1. usage' = usage
  BY DEF PolicyNext, policyVars, policyTables, AgentStep, StartCall, StartSecondPass, Evaluate,
         RecordRefusal, RequireApproval, Reject, Abandon, ConsumeGrant
<1>2. Registered \subseteq Registered'
  BY ServiceStep, RegisteredGrow DEF EngineInv, PolicyTypeOK
<1>3. Charged(t, b)' = Charged(t, b) /\ \A x : Costs(t, b, x)' = Costs(t, b, x)
  BY OtherCosts
<1>4. \A x : Total(Costs(t, b, x))' = Total(Costs(t, b, x))
  <2>1. \A x : Total(Costs(t, b, x))' = Total(Costs(t, b, x)')
    BY DEF Total
  <2>2. QED
    BY <1>3, <2>1
<1>5. QED
  BY <1>1, <1>2, <1>3, <1>4 DEF ChargesAccounted

LEMMA BudgetIsAccounted ==
    BudgetAccounts <=> \A t \in Tasks, b \in BudgetNames : ChargesAccounted(t, b)
BY DEF BudgetAccounts, ChargesAccounted, Costs, Registered

\* A task's budget row is the sum of what its grants cost and within the limit of a
\* registered manifest that selects that budget, whatever calls race or roll back.
THEOREM BudgetAlwaysAccounts == PolicySpec => []BudgetAccounts
<1>1. PolicyInit => BudgetAccounts
  <2> SUFFICES ASSUME PolicyInit, NEW t \in Tasks, NEW b \in BudgetNames PROVE ChargesAccounted(t, b)
    BY BudgetIsAccounted
  <2>1. grants = <<>> /\ DOMAIN grants = {} /\ Charged(t, b) = {}
    BY DEF PolicyInit, Charged
  <2>2. \A x : Costs(t, b, x) = <<>>
    BY <2>1 DEF Costs, CostOf
  <2>3. \A x \in Resources : usage[t][b][x] = 0
    BY DEF PolicyInit
  <2>4. QED
    BY <2>1, <2>2, <2>3, TotalEmpty DEF ChargesAccounted
<1>2. EngineInv /\ TokenInv /\ BudgetAccounts /\ [PolicyNext]_policyVars => BudgetAccounts'
  <2> SUFFICES ASSUME EngineInv, TokenInv, BudgetAccounts, [PolicyNext]_policyVars
               PROVE  BudgetAccounts'
    OBVIOUS
  <2>1. \A t \in Tasks, b \in BudgetNames : ChargesAccounted(t, b)'
    BY BudgetIsAccounted, PermitAccounts, OtherAccounts
  <2>2. QED
    BY <2>1 DEF BudgetAccounts, ChargesAccounted, Costs, Registered
<1>3. QED
  BY <1>1, <1>2, EngineInvariant, TokensRegistered, PTL DEF PolicySpec

--------------------------------------------------------------------------------
\* The R4 grants of an engagement.
R4Grants(e) ==
    {j \in DOMAIN grants : grants[j].profile.risk = R4 /\ grants[j].manifest.id = e}

\* There are no more R4 grants than audit events of them: each has an event of its own.
LEMMA R4Counted ==
    ASSUME EngineInv, GrantRecordsAgree, IsFiniteSet(policyAudit), NEW e
    PROVE  /\ IsFiniteSet(R4Grants(e)) /\ Cardinality(R4Grants(e)) \in Nat
           /\ Cardinality(R4Granted(e)) \in Nat
           /\ Cardinality(R4Grants(e)) <= Cardinality(R4Granted(e))
<1>1. IsFiniteSet(R4Granted(e))
  BY FS_Subset DEF R4Granted
<1>2. \A j \in R4Grants(e) : \E x \in R4Granted(e) : x.grant = j
  <2> SUFFICES ASSUME NEW j \in R4Grants(e) PROVE \E x \in R4Granted(e) : x.grant = j
    OBVIOUS
  <2>1. j \in DOMAIN grants /\ grants[j].profile.risk = R4 /\ grants[j].manifest.id = e
    BY DEF R4Grants
  <2>2. PICK x \in GrantEventsOf(j) :
          /\ x.engagement = grants[j].manifest.id
          /\ (x.event = "policy.r4_granted") = (grants[j].profile.risk = R4)
    BY <2>1 DEF GrantRecordsAgree
  <2>3. x \in policyAudit /\ x.grant = j
    BY DEF GrantEventsOf
  <2>4. QED
    BY <2>1, <2>2, <2>3 DEF R4Granted
<1> DEFINE f == [j \in R4Grants(e) |-> CHOOSE x \in R4Granted(e) : x.grant = j]
<1>3. \A j \in R4Grants(e) : f[j] \in R4Granted(e) /\ f[j].grant = j
  BY <1>2
<1>4. f \in Injection(R4Grants(e), R4Granted(e))
  BY <1>3 DEF Injection, IsInjective
<1>5. /\ IsFiniteSet(R4Grants(e))
      /\ Cardinality(R4Grants(e)) <= Cardinality(R4Granted(e))
  BY <1>1, <1>4, FS_Injection
<1>6. QED
  BY <1>1, <1>5, FS_CardinalityType

\* The audit trail is finite.
LEMMA AuditFinite == PolicySpec => []IsFiniteSet(policyAudit)
<1>1. PolicyInit => IsFiniteSet(policyAudit)
  BY FS_EmptySet DEF PolicyInit
<1>2. IsFiniteSet(policyAudit) /\ [PolicyNext]_policyVars => IsFiniteSet(policyAudit)'
  <2> SUFFICES ASSUME IsFiniteSet(policyAudit), [PolicyNext]_policyVars
               PROVE  IsFiniteSet(policyAudit')
    OBVIOUS
  <2>1. policyAudit' = policyAudit \/ \E x : policyAudit' = policyAudit \cup {x}
    BY RecordsStep DEF RequireApproval, RecordRefusal, Permit, ConsumeGrant
  <2>2. QED
    BY <2>1, FS_AddElement
<1>3. QED
  BY <1>1, <1>2, PTL DEF PolicySpec

\* What R4Gated says of an engagement with R4 grants, and of each of them.
R4Limited(e) ==
    R4Grants(e) # {} =>
        \E m \in Registered : m.id = e /\ Cardinality(R4Grants(e)) <= R4Limit[m.budget]

R4Flagged(g) ==
    g.profile.risk = R4 =>
        g.manifest.flags \cap {"extended_operations", "comprehensive_assessment"} # {}

\* A permit of R4 found one more allowed, under a manifest that is registered.
LEMMA PermitLimited ==
    ASSUME EngineInv, TokenInv, GrantRecordsAgree, IsFiniteSet(policyAudit),
           NEW a \in Agents, Permit(a), NEW e, R4Limited(e)
    PROVE  R4Limited(e)'
<1> PICK c : c = auth[a]
  OBVIOUS
<1> PICK n : n = Len(grants) + 1
  OBVIOUS
<1>1. c \in CallRow /\ c.token \in tokens /\ grants \in Seq(GrantRow)
  BY DEF EngineInv, PolicyTypeOK, Permit, At, CallInv
<1>2. Registered' = Registered /\ c.token.manifest \in Registered
  BY <1>1 DEF Permit, vars, Registered, TokenInv
<1>3. grants' = Append(grants, Grant(c))
  BY DEF Permit
<1>4. /\ DOMAIN grants' = DOMAIN grants \cup {n} /\ n \notin DOMAIN grants
      /\ grants'[n] = Grant(c)
      /\ \A i \in DOMAIN grants : grants'[i] = grants[i]
  BY <1>1, <1>3
<1>5. Grant(c).profile = c.profile /\ Grant(c).manifest = c.token.manifest
  BY DEF Grant
<1>6. CASE c.profile.risk = R4 /\ c.token.manifest.id = e
  <2>1. R4Grants(e)' = R4Grants(e) \cup {n}
    BY <1>4, <1>5, <1>6 DEF R4Grants
  <2>2. /\ IsFiniteSet(R4Grants(e)) /\ Cardinality(R4Grants(e)) \in Nat
        /\ Cardinality(R4Granted(e)) \in Nat
        /\ Cardinality(R4Grants(e)) <= Cardinality(R4Granted(e))
    BY R4Counted
  <2>3. Cardinality(R4Grants(e) \cup {n}) <= Cardinality(R4Grants(e)) + 1
    <3>1. Cardinality(R4Grants(e) \cup {n})
             = IF n \in R4Grants(e) THEN Cardinality(R4Grants(e)) ELSE Cardinality(R4Grants(e)) + 1
      BY <2>2, FS_AddElement
    <3>2. QED
      BY <2>2, <3>1
  <2>4. Cardinality(R4Granted(e)) < R4Limit[c.token.manifest.budget]
    BY <1>6 DEF Permit, WithinBudget, WithinR4Limit
  <2>5. R4Limit[c.token.manifest.budget] \in Nat
    BY <1>1, R4LimitIsNat, PolicyManifestsWellFormed DEF CallRow, Token, PolicyManifestAssumption
  <2>6. IsFiniteSet(R4Grants(e) \cup {n}) /\ Cardinality(R4Grants(e) \cup {n}) \in Nat
    BY <2>2, FS_AddElement, FS_CardinalityType
  <2>7. Cardinality(R4Grants(e) \cup {n}) <= R4Limit[c.token.manifest.budget]
    BY <2>2, <2>3, <2>4, <2>5, <2>6
  <2>8. Cardinality(R4Grants(e)') <= R4Limit[c.token.manifest.budget]
    BY <2>1, <2>7
  <2>9. QED
    BY <1>2, <1>6, <2>8 DEF R4Limited
<1>7. CASE ~(c.profile.risk = R4 /\ c.token.manifest.id = e)
  <2>1. R4Grants(e)' = R4Grants(e)
    BY <1>4, <1>5, <1>7 DEF R4Grants
  <2>2. QED
    BY <1>2, <2>1 DEF R4Limited
<1>8. QED
  BY <1>6, <1>7

\* Any other step leaves the R4 grants and forgets no manifest.
LEMMA OtherLimited ==
    ASSUME EngineInv, [PolicyNext]_policyVars, ~\E a \in Agents : Permit(a), NEW e, R4Limited(e)
    PROVE  R4Limited(e)'
<1>0. grants \in Seq(GrantRow)
  BY DEF EngineInv, PolicyTypeOK
<1>1. Registered \subseteq Registered'
  BY ServiceStep, RegisteredGrow DEF EngineInv, PolicyTypeOK
<1>2. ASSUME NEW j \in DOMAIN grants, NEW r \in Requests, ConsumeGrant(j, r)
      PROVE  R4Grants(e)' = R4Grants(e)
  <2>1. grants' = [grants EXCEPT ![j] = [grants[j] EXCEPT !.consumed = TRUE]]
    BY <1>2 DEF ConsumeGrant
  <2>2. DOMAIN grants' = DOMAIN grants
    BY <1>0, <2>1
  <2>3. \A i \in DOMAIN grants : /\ grants'[i].profile = grants[i].profile
                                /\ grants'[i].manifest = grants[i].manifest
    BY <1>0, <2>1, ConsumedGrant
  <2>4. QED
    BY <2>2, <2>3 DEF R4Grants
<1>3. R4Grants(e)' = R4Grants(e)
  BY <1>2, GrantsStep DEF R4Grants
<1>4. QED
  BY <1>1, <1>3 DEF R4Limited

\* Every R4 grant was issued under a manifest with an extended-operations flag.
LEMMA FlaggedStep ==
    ASSUME EngineInv, \A i \in DOMAIN grants : R4Flagged(grants[i]), [PolicyNext]_policyVars,
           NEW i \in DOMAIN grants', NEW g, g = grants'[i]
    PROVE  R4Flagged(g)
<1>1. \A j \in DOMAIN grants : grants[j] \in GrantRow
  BY DEF EngineInv, PolicyTypeOK
<1>2. CASE i \in DOMAIN grants /\ g = grants[i]
  BY <1>2
<1>3. CASE i \in DOMAIN grants /\ g = [grants[i] EXCEPT !.consumed = TRUE]
  <2>1. g.profile = grants[i].profile /\ g.manifest = grants[i].manifest
    BY <1>1, <1>3, ConsumedGrant
  <2>2. QED
    BY <1>3, <2>1 DEF R4Flagged
<1>4. ASSUME NEW a \in Agents, Permit(a), g = Grant(auth[a]) PROVE R4Flagged(g)
  <2>1. Established(auth[a])
    BY <1>4 DEF EngineInv, Permit, At, CallInv
  <2>2. g.profile = auth[a].profile /\ g.manifest = auth[a].token.manifest
    BY <1>4 DEF Grant
  <2>3. QED
    BY <2>1, <2>2 DEF Established, ProfileDenied, R4Flagged
<1>5. QED
  BY <1>2, <1>3, <1>4, GrantOrigin

LEMMA GatedIsLimited ==
    R4Gated <=> /\ \A i \in DOMAIN grants : R4Flagged(grants[i])
                /\ \A e : R4Limited(e)
<1>1. \A i \in DOMAIN grants : grants[i].profile.risk = R4 => i \in R4Grants(grants[i].manifest.id)
  BY DEF R4Grants
<1>2. \A e : \A i \in R4Grants(e) : /\ i \in DOMAIN grants /\ grants[i].profile.risk = R4
                                 /\ grants[i].manifest.id = e
  BY DEF R4Grants
<1>3. R4Gated <=> \A i \in DOMAIN grants :
                     grants[i].profile.risk = R4 =>
                        /\ R4Flagged(grants[i])
                        /\ \E r \in engagements :
                              /\ r.manifest.id = grants[i].manifest.id
                              /\ Cardinality(R4Grants(r.manifest.id)) <= R4Limit[r.manifest.budget]
  BY DEF R4Gated, R4Flagged, R4Grants
<1>4. \A e : R4Limited(e) <=>
               (R4Grants(e) # {} =>
                  \E r \in engagements :
                     r.manifest.id = e /\ Cardinality(R4Grants(e)) <= R4Limit[r.manifest.budget])
  BY DEF R4Limited, Registered
<1>5. QED
  BY <1>1, <1>2, <1>3, <1>4 DEF R4Flagged

\* "R4 flag, rate-limit, and kill-switch gates": racing calls never take an engagement past
\* the R4 limit of a manifest it registered, although each counted the grants in the audit
\* trail, and every R4 grant was issued under an extended-operations flag.
THEOREM R4AlwaysGated == PolicySpec => []R4Gated
<1>1. PolicyInit => R4Gated
  BY DEF PolicyInit, R4Gated
<1>2. EngineInv /\ TokenInv /\ GrantRecordsAgree /\ IsFiniteSet(policyAudit) /\ R4Gated
         /\ [PolicyNext]_policyVars => R4Gated'
  <2> SUFFICES ASSUME EngineInv, TokenInv, GrantRecordsAgree, IsFiniteSet(policyAudit), R4Gated,
                      [PolicyNext]_policyVars
               PROVE  R4Gated'
    OBVIOUS
  <2>1. \A i \in DOMAIN grants : R4Flagged(grants[i])
    BY GatedIsLimited
  <2>2. \A e : R4Limited(e)'
    BY GatedIsLimited, PermitLimited, OtherLimited
  <2>3. ASSUME NEW i \in DOMAIN grants', grants'[i].profile.risk = R4
        PROVE  grants'[i].manifest.flags \cap
                  {"extended_operations", "comprehensive_assessment"} # {}
    BY <2>1, <2>3, FlaggedStep DEF R4Flagged
  <2>4. ASSUME NEW i \in DOMAIN grants', grants'[i].profile.risk = R4
        PROVE  \E r \in engagements' :
                  /\ r.manifest.id = grants'[i].manifest.id
                  /\ Cardinality(R4Grants(r.manifest.id)') <= R4Limit[r.manifest.budget]
    <3>1. PICK e : e = grants'[i].manifest.id
      OBVIOUS
    <3>2. R4Grants(e)' # {}
      BY <2>4, <3>1 DEF R4Grants
    <3>3. PICK m \in Registered' : m.id = e /\ Cardinality(R4Grants(e)') <= R4Limit[m.budget]
      BY <2>2, <3>2 DEF R4Limited
    <3>4. PICK r \in engagements' : r.manifest = m
      BY <3>3 DEF Registered
    <3>5. R4Grants(r.manifest.id)' = R4Grants(e)'
      BY <3>3, <3>4 DEF R4Grants
    <3>6. QED
      BY <3>1, <3>3, <3>4, <3>5
  <2>5. QED
    BY <2>3, <2>4 DEF R4Gated, R4Grants
<1>3. QED
  BY <1>1, <1>2, EngineInvariant, TokensRegistered, GrantRecordsAlwaysAgree, AuditFinite, PTL
  DEF PolicySpec

--------------------------------------------------------------------------------
\* The engine implements the engagement service's specification: it reads the tables of the
\* service and writes none of them.
THEOREM EngineImplementsService == PolicySpec => Spec
<1>1. PolicyInit => Init
  BY DEF PolicyInit
<1>2. QED
  BY <1>1, ServiceStep, PTL DEF PolicySpec, Spec


================================================================================
