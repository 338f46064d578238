--------------------------- MODULE ToolOperatorProofs ---------------------------
(***************************************************************************)
(* The tool operator only drives the policy engine by steps the engine     *)
(* allows, so everything proved of the engine holds with it on top; every  *)
(* grant it spent is accounted for, every run it recorded stays within its *)
(* grant, and what it recorded can be followed through its tables - for    *)
(* any number of agents, operators, manifests and outputs.                 *)
(***************************************************************************)
EXTENDS ToolOperator, PolicyEngineProofs

ownTables == <<executing, runTables, storeTables, lost>>

\* What each step of the operator leaves of the engine's tables.
LEMMA OperatorKeepsPolicy ==
    ASSUME NEW o \in Operators, OperatorStep(o) \/ Fail(o) \/ Lose(o)
    PROVE  UNCHANGED policyVars
BY DEF OperatorStep, StartRun, RunFails, PersistArtifact, StoreSecret, RecordEvidence,
       RecordCompleted, RecordFailed, Fail, Lose

\* Every step of the operator is a step of the policy engine, or leaves its tables alone.
LEMMA ToolStep == [ToolNext]_toolVars => [PolicyNext]_policyVars
<1> SUFFICES ASSUME [ToolNext]_toolVars PROVE [PolicyNext]_policyVars
  OBVIOUS
<1>1. CASE AuthorizeNext
  BY <1>1 DEF AuthorizeNext, PolicyNext
<1>2. ASSUME NEW o \in Operators, NEW i \in DOMAIN grants, NEW r \in Requests, Begin(o, i, r)
      PROVE  PolicyNext
  BY <1>2 DEF Begin, PolicyNext
<1>3. ASSUME NEW o \in Operators, OperatorStep(o) \/ Fail(o) \/ Lose(o)
      PROVE  UNCHANGED policyVars
  BY <1>3, OperatorKeepsPolicy
<1>4. CASE UNCHANGED toolVars
  BY <1>4 DEF toolVars
<1>5. QED
  BY <1>1, <1>2, <1>3, <1>4 DEF ToolNext

\* The operator implements the engine's specification: it consumes grants only as
\* consume_grant does and changes nothing else of the engine.
THEOREM OperatorImplementsPolicy == ToolSpec => PolicySpec
<1>1. ToolInit => PolicyInit
  BY DEF ToolInit
<1>2. QED
  BY <1>1, ToolStep, PTL DEF ToolSpec, PolicySpec

\* What is executed therefore rests on grants within their scope.
THEOREM ExecutedGrantsWithinScope == ToolSpec => []GrantWithinScope
BY OperatorImplementsPolicy, GrantsStayWithinScope, PTL

\* What the engine promises of its own tables, it promises with executions that spend its
\* grants, raise and die: approvals cover what was granted, the records of a permit agree,
\* budgets add up, R4 stays gated, the fallback audited, and a grant is spent once and in time.
THEOREM ExecutionKeepsEngine ==
    ToolSpec => /\ []ApprovalCovers
                /\ []GrantRecordsAgree
                /\ []FallbackAudited
                /\ []BudgetAccounts
                /\ []R4Gated
                /\ ImplementsGrantLedger
BY OperatorImplementsPolicy, ApprovalAlwaysCovers, GrantRecordsAlwaysAgree, FallbackAlwaysAudited,
   BudgetAlwaysAccounts, R4AlwaysGated, GrantsImplementLedger, PTL

\* And what the engagement service promises, whatever is authorized and executed beside it.
THEOREM ExecutionKeepsEngagements ==
    ToolSpec => /\ []VersionChain
                /\ []OneActiveManifest
                /\ []TokensBindExistingRevisions
                /\ []UnverifiedRevisionsFrozen
                /\ ProgressionAuthorized
                /\ ImplementsVersionedAssets
BY OperatorImplementsPolicy, EngineImplementsService, VersionChainAlways, OneActiveAlways,
   TokensAlwaysBind, UnverifiedRevisionsAlwaysFrozen, ProgressionAlwaysAuthorized,
   ServiceImplementsVersionedAssets, PTL

--------------------------------------------------------------------------------
\* No step takes a grant away or changes what it says; consumed stays consumed.
LEMMA GrantsKept ==
    ASSUME EngineInv, [PolicyNext]_policyVars, NEW i \in DOMAIN grants
    PROVE  /\ i \in DOMAIN grants'
           /\ grants'[i].action = grants[i].action
           /\ grants'[i].tool = grants[i].tool
           /\ grants'[i].alias = grants[i].alias
           /\ grants'[i].revision = grants[i].revision
           /\ grants'[i].manifest = grants[i].manifest
           /\ grants'[i].profile = grants[i].profile
           /\ grants[i].consumed => grants'[i].consumed
<1>0. grants \in Seq(GrantRow)
  BY DEF EngineInv, PolicyTypeOK
<1>1. CASE grants' = grants
  BY <1>1
<1>2. ASSUME NEW a \in Agents, Permit(a)
      PROVE  i \in DOMAIN grants' /\ grants'[i] = grants[i]
  <2>1. grants' = Append(grants, Grant(auth[a]))
    BY <1>2 DEF Permit
  <2>2. QED
    BY <1>0, <2>1
<1>3. ASSUME NEW j \in DOMAIN grants, NEW r \in Requests, ConsumeGrant(j, r)
      PROVE  /\ i \in DOMAIN grants'
             /\ grants'[i] = grants[i] \/ grants'[i] = [grants[i] EXCEPT !.consumed = TRUE]
  <2>1. grants' = [grants EXCEPT ![j] = [grants[j] EXCEPT !.consumed = TRUE]]
    BY <1>3 DEF ConsumeGrant
  <2>2. QED
    BY <1>0, <2>1
<1>4. grants[i] \in GrantRow
  BY <1>0
<1>5. LET h == [grants[i] EXCEPT !.consumed = TRUE]
      IN  /\ h.action = grants[i].action /\ h.manifest = grants[i].manifest
          /\ h.profile = grants[i].profile /\ h.tool = grants[i].tool
          /\ h.alias = grants[i].alias /\ h.revision = grants[i].revision
          /\ h.consumed
  BY <1>4 DEF GrantRow
<1>6. QED
  BY <1>1, <1>2, <1>3, <1>5, GrantsStep

\* A consumption marks its grant, which was not marked.
LEMMA ConsumeMarks ==
    ASSUME EngineInv, NEW i \in DOMAIN grants, NEW r \in Requests, ConsumeGrant(i, r)
    PROVE  /\ ~grants[i].consumed /\ grants'[i].consumed
           /\ grants[i].action = r.action
           /\ DOMAIN grants' = DOMAIN grants
           /\ \A j \in DOMAIN grants : j # i => grants'[j] = grants[j]
<1>1. grants \in Seq(GrantRow) /\ grants[i] \in GrantRow
  BY DEF EngineInv, PolicyTypeOK
<1>2. grants' = [grants EXCEPT ![i] = [grants[i] EXCEPT !.consumed = TRUE]]
  BY DEF ConsumeGrant
<1>3. [grants[i] EXCEPT !.consumed = TRUE].consumed
  BY <1>1 DEF GrantRow
<1>4. QED
  BY <1>1, <1>2, <1>3 DEF ConsumeGrant, Consumable
--------------------------------------------------------------------------------
\* What an agent that reaches its transaction has selected, on top of what Established
\* says: the row verified, and the profile is one of the tool's that the flags of the
\* token's manifest open.
Chosen(c) ==
    LET tool == ToolManifest[c.request.tool]
    IN /\ c.row.verifies
       /\ c.profile \in {tool.base} \cup tool.profiles
       /\ c.profile = tool.base \/ c.profile.flag \in c.token.manifest.flags \cup {None}

CallsChosen == \A a \in Agents : At(a, "selected") => Chosen(auth[a])

\* Only Evaluate brings a call to its transaction, with what it has selected.
LEMMA ChosenStep ==
    ASSUME PolicyTypeOK, CallsChosen, [PolicyNext]_policyVars
    PROVE  CallsChosen'
<1>1. ASSUME NEW a \in Agents, NEW c, Goto(a, c), c # None /\ c.step = "selected" => Chosen(c)
      PROVE  CallsChosen'
  BY <1>1 DEF Goto, CallsChosen, At, PolicyTypeOK, Chosen
<1>2. ASSUME NEW a \in Agents, Return(a) PROVE CallsChosen'
  BY <1>1, <1>2 DEF Return
<1>3. ASSUME NEW a \in Agents, NEW r \in Requests, NEW t \in tokens, StartCall(a, r, t)
      PROVE  CallsChosen'
  BY <1>1, <1>3 DEF StartCall, Verified, Holding
<1>4. ASSUME NEW a \in Agents, StartSecondPass(a) PROVE CallsChosen'
  BY <1>1, <1>2, <1>4 DEF StartSecondPass, Verified, Holding
<1>5. ASSUME NEW a \in Agents, Evaluate(a) PROVE CallsChosen'
  <2> DEFINE c == auth[a]
  <2>1. ASSUME NEW row, NEW kind, Goto(a, Refused(c, row, kind)) PROVE CallsChosen'
    BY <1>1, <2>1 DEF Refused, Holding
  <2>2. ASSUME NEW row \in Targeted(c), NEW p \in Selected(c), Goto(a, SelectedProfile(c, row, p))
        PROVE  CallsChosen'
    <3>1. row.verifies
      BY DEF Targeted
    <3>2. Chosen(SelectedProfile(c, row, p))
      BY <3>1 DEF Chosen, SelectedProfile, Holding, Selected
    <3>3. QED
      BY <1>1, <2>2, <3>2
  <2>3. \/ Return(a)
        \/ \E row, kind : Goto(a, Refused(c, row, kind))
        \/ \E row \in Targeted(c), p \in Selected(c) : Goto(a, SelectedProfile(c, row, p))
    BY <1>5 DEF Evaluate
  <2>4. QED
    BY <1>2, <2>1, <2>2, <2>3
<1>6. ASSUME NEW a \in Agents, RecordRefusal(a) PROVE CallsChosen'
  <2>1. Retrying(auth[a]).step = "retry"
    BY DEF Retrying, Holding
  <2>2. QED
    BY <1>1, <1>6, <2>1 DEF RecordRefusal
<1>7. ASSUME NEW a \in Agents, RequireApproval(a) \/ Permit(a) \/ Reject(a) \/ Abandon(a)
      PROVE  CallsChosen'
  BY <1>2, <1>7 DEF RequireApproval, Permit, Reject, Abandon
<1>8. CASE auth' = auth
  BY <1>8 DEF CallsChosen, At
<1>9. QED
  BY <1>3, <1>4, <1>5, <1>6, <1>7, <1>8 DEF PolicyNext, policyVars, AgentStep, ConsumeGrant

\* So a grant can be looked up again: its asset revision verifies, its profile is one of
\* its tool's, and the flags it was issued under open it.
GrantHolds(g) ==
    LET tool == ToolManifest[g.tool]
    IN /\ \E r \in revisions :
             /\ r.alias = g.alias /\ r.revision = g.revision
             /\ r.engagement = g.manifest.id /\ r.verifies
       /\ g.profile \in {tool.base} \cup tool.profiles
       /\ g.profile = tool.base \/ g.profile.flag \in g.manifest.flags \cup {None}
       /\ g.manifest \in Registered

GrantsHold == \A i \in DOMAIN grants : GrantHolds(grants[i])

\* A grant holds when it is issued.
LEMMA IssuedHolds ==
    ASSUME EngineInv, TokenInv, CallsChosen, NEW a \in Agents, Permit(a)
    PROVE  GrantHolds(Grant(auth[a]))
<1> DEFINE c == auth[a]
           g == Grant(c)
<1>1. c.token \in tokens /\ Established(c) /\ Chosen(c)
  BY DEF EngineInv, CallInv, CallsChosen, Permit, At
<1>2. /\ g.alias = c.row.alias /\ g.revision = c.row.revision /\ g.manifest = c.token.manifest
      /\ g.profile = c.profile /\ g.tool = c.request.tool
  BY DEF Grant
<1>3. g.manifest \in Registered
  BY <1>1, <1>2 DEF TokenInv
<1>4. \E r \in revisions : /\ r.alias = g.alias /\ r.revision = g.revision
                           /\ r.engagement = g.manifest.id /\ r.verifies
  BY <1>1, <1>2 DEF Established, Chosen
<1>5. QED
  BY <1>1, <1>2, <1>3, <1>4 DEF GrantHolds, Chosen

\* Rows and registered manifests stay, and a consumption changes nothing of this.
LEMMA HoldStep ==
    ASSUME EngineInv, TokenInv, CallsChosen, GrantsHold, [PolicyNext]_policyVars
    PROVE  GrantsHold'
<1> SUFFICES ASSUME NEW i \in DOMAIN grants', NEW g, g = grants'[i] PROVE GrantHolds(g)'
  BY DEF GrantsHold, GrantHolds
<1>1. revisions \subseteq revisions' /\ Registered \subseteq Registered'
  BY ServiceStep, RevisionsGrow, RegisteredGrow DEF EngineInv, PolicyTypeOK
<1>2. ASSUME NEW j \in DOMAIN grants
      PROVE  GrantHolds(grants[j]) /\ GrantHolds([grants[j] EXCEPT !.consumed = TRUE])
  <2>1. GrantHolds(grants[j]) /\ grants[j] \in GrantRow
    BY DEF GrantsHold, EngineInv, PolicyTypeOK
  <2>2. QED
    BY <2>1, ConsumedGrant DEF GrantHolds
<1>3. GrantHolds(g)
  BY <1>2, GrantOrigin, IssuedHolds
<1>4. QED
  BY <1>1, <1>3 DEF GrantHolds

\* What the engine guarantees while the operator runs on top.
BaseInv == EngineInv /\ TokenInv /\ OneActiveManifest /\ CallsChosen /\ GrantsHold

LEMMA BaseStep == BaseInv /\ [PolicyNext]_policyVars => BaseInv'
<1> SUFFICES ASSUME BaseInv, [PolicyNext]_policyVars PROVE BaseInv'
  OBVIOUS
<1>1. TypeOK /\ VersionChain /\ [Next]_vars /\ PolicyTypeOK
  BY ServiceStep DEF BaseInv, EngineInv, PolicyTypeOK
<1>2. EngineInv'
  BY EngineStep DEF BaseInv
<1>3. TokenInv' /\ OneActiveManifest'
  BY <1>1, TokenStep, OneActiveStep DEF BaseInv
<1>4. CallsChosen' /\ GrantsHold'
  BY <1>1, ChosenStep, HoldStep DEF BaseInv
<1>5. QED
  BY <1>2, <1>3, <1>4 DEF BaseInv

LEMMA BaseInvariant == PolicySpec => []BaseInv
<1>1. PolicyInit => TokenInv /\ OneActiveManifest
  BY DEF PolicyInit, Init, TokenInv, Registered, OneActiveManifest
<1>2. PolicyInit => CallsChosen /\ GrantsHold
  BY DEF PolicyInit, CallsChosen, At, GrantsHold
<1>3. EngineInv /\ PolicyInit => BaseInv
  BY <1>1, <1>2 DEF BaseInv
<1>4. QED
  BY <1>3, BaseStep, EngineInvariant, PTL DEF PolicySpec
--------------------------------------------------------------------------------
\* What is true of the call an operator is inside of, of a recorded run, of the calls
\* and runs together, and of the grants that were spent.
HeldCall(c) ==
    /\ c.grant \in DOMAIN grants
    /\ grants[c.grant].consumed
    /\ grants[c.grant].action = c.request.action
    /\ c.grant \notin lost
    /\ c.step # "consumed" => Covered(c.grant, c.request.tool, c.profile, c.under)

HeldRun(run) ==
    /\ run.grant \in DOMAIN grants
    /\ grants[run.grant].consumed
    /\ grants[run.grant].action = run.action
    /\ run.grant \notin lost
    /\ Covered(run.grant, run.tool, run.profile, run.under)

CallsHeld == \A o \in Operators : executing[o] # None => HeldCall(executing[o])
RunsHeld == \A n \in DOMAIN toolRuns : HeldRun(toolRuns[n])

GrantsUsedOnce ==
    /\ \A o, p \in Operators :
          executing[o] # None /\ executing[p] # None /\ executing[o].grant = executing[p].grant
              => o = p
    /\ \A m, n \in DOMAIN toolRuns : toolRuns[m].grant = toolRuns[n].grant => m = n
    /\ \A o \in Operators, n \in DOMAIN toolRuns :
          executing[o] # None => toolRuns[n].grant # executing[o].grant

LostConsumed == \A i \in lost : i \in DOMAIN grants /\ grants[i].consumed

InUse(i) ==
    \/ \E o \in Operators : executing[o] # None /\ executing[o].grant = i
    \/ \E n \in DOMAIN toolRuns : toolRuns[n].grant = i
    \/ i \in lost
    \/ Withdrawn(grants[i])

SpentUsed == \A i \in DOMAIN grants : grants[i].consumed => InUse(i)

\* The inductive invariant of the operator.
ToolInv ==
    ToolTypeOK /\ CallsHeld /\ RunsHeld /\ GrantsUsedOnce /\ LostConsumed /\ SpentUsed

\* It implies both properties.
LEMMA ToolInvImplies ==
    ASSUME ToolInv
    PROVE  /\ SpentGrantsAccounted
           /\ GrantWithinScope => RunsWithinGrants
<1>1. ASSUME NEW i \in DOMAIN grants PROVE Accounted(i)
  <2>1. \A o, p \in CallsOn(i) : o = p
    BY DEF ToolInv, GrantsUsedOnce, CallsOn
  <2>2. \A m, n \in RunsOf(i) : m = n
    BY DEF ToolInv, GrantsUsedOnce, RunsOf
  <2>3. CallsOn(i) = {} \/ RunsOf(i) = {}
    BY DEF ToolInv, GrantsUsedOnce, CallsOn, RunsOf
  <2>4. i \in lost => CallsOn(i) = {} /\ RunsOf(i) = {}
    BY DEF ToolInv, CallsHeld, RunsHeld, HeldCall, HeldRun, CallsOn, RunsOf
  <2>5. CASE grants[i].consumed
    <3>1. InUse(i)
      BY <2>5 DEF ToolInv, SpentUsed
    <3>2. CallsOn(i) # {} \/ RunsOf(i) # {} \/ i \in lost \/ Withdrawn(grants[i])
      BY <3>1 DEF InUse, CallsOn, RunsOf
    <3>3. QED
      BY <2>1, <2>2, <2>3, <2>4, <2>5, <3>2 DEF Accounted
  <2>6. CASE ~grants[i].consumed
    <3>1. i \notin lost
      BY <2>6 DEF ToolInv, LostConsumed
    <3>2. CallsOn(i) = {}
      BY <2>6 DEF ToolInv, CallsHeld, HeldCall, CallsOn
    <3>3. RunsOf(i) = {}
      BY <2>6 DEF ToolInv, RunsHeld, HeldRun, RunsOf
    <3>4. QED
      BY <2>1, <2>2, <2>3, <2>4, <2>6, <3>1, <3>2, <3>3 DEF Accounted
  <2>7. QED
    BY <2>5, <2>6
<1>2. GrantWithinScope => RunsWithinGrants
  BY DEF ToolInv, RunsHeld, HeldRun, RunsWithinGrants, GrantWithinScope
<1>3. QED
  BY <1>1, <1>2 DEF SpentGrantsAccounted

\* The grant of a call or a run keeps what the call or the run needs of it.
LEMMA CoveredStays ==
    ASSUME BaseInv, [PolicyNext]_policyVars, NEW i \in DOMAIN grants, NEW tool, NEW profile,
           NEW under, Covered(i, tool, profile, under)
    PROVE  Covered(i, tool, profile, under)'
<1>1. grants'[i].profile = grants[i].profile /\ grants'[i].manifest = grants[i].manifest
  BY GrantsKept DEF BaseInv
<1>2. Registered \subseteq Registered'
  BY ServiceStep, RegisteredGrow DEF BaseInv, EngineInv, PolicyTypeOK
<1>3. under \in Registered /\ under.id = grants[i].manifest.id
  BY DEF Covered, Registered
<1>4. PICK y \in engagements' : y.manifest = under
  BY <1>2, <1>3 DEF Registered
<1>5. QED
  BY <1>1, <1>3, <1>4 DEF Covered

\* A profile that was withdrawn from a grant stays so.
LEMMA WithdrawnStays ==
    ASSUME BaseInv, [PolicyNext]_policyVars, NEW i \in DOMAIN grants, Withdrawn(grants[i]),
           NEW h, h = grants'[i]
    PROVE  Withdrawn(h)'
<1>1. /\ h.profile = grants[i].profile /\ h.manifest = grants[i].manifest
      /\ h.action = grants[i].action /\ h.tool = grants[i].tool
  BY GrantsKept DEF BaseInv
<1>2. Registered \subseteq Registered'
  BY ServiceStep, RegisteredGrow DEF BaseInv, EngineInv, PolicyTypeOK
<1>3. CASE \E x \in engagements : /\ x.manifest.id = grants[i].manifest.id
                                  /\ grants[i].profile.flag \notin x.manifest.flags \cup {None}
  <2>1. PICK x \in engagements : /\ x.manifest.id = grants[i].manifest.id
                                 /\ grants[i].profile.flag \notin x.manifest.flags \cup {None}
    BY <1>3
  <2>2. PICK y \in engagements' : y.manifest = x.manifest
    BY <1>2, <2>1 DEF Registered
  <2>3. QED
    BY <1>1, <2>1, <2>2 DEF Withdrawn
<1>4. QED
  BY <1>1, <1>3 DEF Withdrawn

\* A grant whose profile cannot be looked up is one whose profile was withdrawn.
LEMMA NotStartable ==
    ASSUME BaseInv, NEW c, c.grant \in DOMAIN grants, c.request \in Requests,
           grants[c.grant].action = c.request.action,
           GrantedAsset(c) = {} \/ Startable(c) = {}
    PROVE  Withdrawn(grants[c.grant])
<1> DEFINE g == grants[c.grant]
           tool == ToolManifest[g.tool]
<1>1. GrantHolds(g)
  BY DEF BaseInv, GrantsHold
<1>2. GrantedAsset(c) # {}
  BY <1>1 DEF GrantHolds, GrantedAsset
<1>3. PICK m \in ActiveManifests : m.id = g.manifest.id
  <2>1. PICK r \in engagements : r.manifest = g.manifest
    BY <1>1 DEF GrantHolds, Registered
  <2>2. PICK s \in engagements : s.manifest.id = g.manifest.id /\ s.active
    BY <2>1 DEF BaseInv, OneActiveManifest
  <2>3. s.manifest \in ActiveManifests
    BY <2>2 DEF ActiveManifests
  <2>4. QED
    BY <2>2, <2>3
<1>4. \E x \in engagements : x.manifest = m
  BY DEF ActiveManifests
<1>5. SUFFICES ASSUME ~Withdrawn(g) PROVE FALSE
  OBVIOUS
<1>6. c.request.tool = g.tool /\ g.tool \in Handled
  BY <1>5 DEF Withdrawn
<1>7. g.profile.flag \in m.flags \cup {None}
  BY <1>3, <1>4, <1>5 DEF Withdrawn
<1>8. g.profile \in {tool.base} \cup tool.profiles
  BY <1>1 DEF GrantHolds
<1>9. <<g.profile, m>> \in Startable(c)
  BY <1>3, <1>6, <1>7, <1>8 DEF Startable
<1>10. QED
  BY <1>2, <1>9
--------------------------------------------------------------------------------
\* What is held of a call or a run survives every step that does not lose its grant.
LEMMA HeldStays ==
    ASSUME BaseInv, [PolicyNext]_policyVars, NEW c, c.grant \notin lost'
    PROVE  /\ HeldCall(c) => HeldCall(c)'
           /\ HeldRun(c) => HeldRun(c)'
<1>1. ASSUME HeldCall(c) PROVE HeldCall(c)'
  BY <1>1, GrantsKept, CoveredStays DEF HeldCall, BaseInv
<1>2. ASSUME HeldRun(c) PROVE HeldRun(c)'
  BY <1>2, GrantsKept, CoveredStays DEF HeldRun, BaseInv
<1>3. QED
  BY <1>1, <1>2

\* The engine and the service issue grants but consume none.
LEMMA AuthorizeConsumesNone ==
    ASSUME EngineInv, AuthorizeNext, NEW i \in DOMAIN grants', grants'[i].consumed
    PROVE  i \in DOMAIN grants /\ grants[i].consumed
<1>0. grants \in Seq(GrantRow)
  BY DEF EngineInv, PolicyTypeOK
<1>1. grants' = grants \/ \E a \in Agents : Permit(a)
  BY DEF AuthorizeNext, policyTables, StartCall, Abandon, AgentStep, StartSecondPass, Evaluate,
         RecordRefusal, RequireApproval, Reject
<1>2. ASSUME NEW a \in Agents, Permit(a) PROVE i \in DOMAIN grants /\ grants[i].consumed
  <2>1. grants' = Append(grants, Grant(auth[a])) /\ ~Grant(auth[a]).consumed
    BY <1>2 DEF Permit, Grant
  <2>2. QED
    BY <1>0, <2>1
<1>3. QED
  BY <1>1, <1>2

\* A step of the engine or the service, the operators standing still.
LEMMA StandStill ==
    ASSUME BaseInv, ToolInv, [PolicyNext]_policyVars,
           AuthorizeNext \/ UNCHANGED policyVars,
           UNCHANGED <<executing, runTables, lost>>
    PROVE  ToolInv'
<1>1. ToolTypeOK'
  BY DEF ToolInv, ToolTypeOK, runTables
<1>2. CallsHeld'
  BY HeldStays DEF ToolInv, CallsHeld, HeldCall
<1>3. RunsHeld'
  BY HeldStays DEF ToolInv, RunsHeld, HeldRun, runTables
<1>4. GrantsUsedOnce'
  BY DEF ToolInv, GrantsUsedOnce, runTables
<1>5. LostConsumed'
  BY GrantsKept DEF ToolInv, LostConsumed, BaseInv
<1>6. SpentUsed'
  <2>1. SUFFICES ASSUME NEW i \in DOMAIN grants', grants'[i].consumed PROVE InUse(i)'
    BY DEF SpentUsed
  <2>2. i \in DOMAIN grants /\ grants[i].consumed
    BY <2>1, AuthorizeConsumesNone DEF BaseInv, policyVars, policyTables
  <2>3. InUse(i)
    BY <2>2 DEF ToolInv, SpentUsed
  <2>4. Withdrawn(grants[i]) => Withdrawn(grants[i])'
    BY <2>2, WithdrawnStays
  <2>5. QED
    BY <2>3, <2>4 DEF InUse, runTables
<1>7. QED
  BY <1>1, <1>2, <1>3, <1>4, <1>5, <1>6 DEF ToolInv

\* A consumption puts its grant in the hands of an operator that was idle.
LEMMA BeginKeeps ==
    ASSUME BaseInv, ToolInv, [PolicyNext]_policyVars, NEW o \in Operators,
           NEW i \in DOMAIN grants, NEW r \in Requests, Begin(o, i, r)
    PROVE  ToolInv'
<1> DEFINE d == Consumed(i, r)
<1>0. /\ ConsumeGrant(i, r)
      /\ executing' = [executing EXCEPT ![o] = d]
      /\ executing[o] = None
      /\ UNCHANGED <<runIds, toolRuns, lost>>
  BY DEF Begin, Hold, runTables
<1>1. /\ ~grants[i].consumed /\ grants'[i].consumed /\ grants[i].action = r.action
      /\ DOMAIN grants' = DOMAIN grants
      /\ \A j \in DOMAIN grants : j # i => grants'[j] = grants[j]
  BY <1>0, ConsumeMarks DEF BaseInv
<1>2. i \in Nat
  BY DEF BaseInv, EngineInv, PolicyTypeOK
<1>3. d \in ExecutionRow /\ d.step = "consumed" /\ d.grant = i /\ d.request = r /\ d # None
  BY <1>2, NoneIsNoExecution DEF Consumed, Executing, ExecutionRow
<1>4. executing \in [Operators -> ExecutionRow \cup {None}]
  BY DEF ToolInv, ToolTypeOK
<1>5. executing'[o] = d /\ \A p \in Operators : p # o => executing'[p] = executing[p]
  BY <1>0, <1>4
<1>6. i \notin lost
  BY <1>1 DEF ToolInv, LostConsumed
<1>7. \A p \in Operators : executing[p] # None => executing[p].grant # i
  BY <1>1 DEF ToolInv, CallsHeld, HeldCall
<1>8. \A n \in DOMAIN toolRuns : toolRuns[n].grant # i
  BY <1>1 DEF ToolInv, RunsHeld, HeldRun
<1>9. ToolTypeOK'
  BY <1>0, <1>3, <1>4, <1>5 DEF ToolInv, ToolTypeOK
<1>10. CallsHeld'
  <2>1. HeldCall(d)'
    BY <1>0, <1>1, <1>3, <1>6, GrantsKept DEF HeldCall, BaseInv
  <2>2. ASSUME NEW p \in Operators, p # o, executing[p] # None PROVE HeldCall(executing[p])'
    BY <1>0, <2>2, HeldStays DEF ToolInv, CallsHeld, HeldCall
  <2>3. ASSUME NEW p \in Operators, NEW c, c = executing'[p], c # None PROVE HeldCall(c)'
    BY <1>5, <2>1, <2>2, <2>3
  <2>4. QED
    BY <2>3 DEF CallsHeld
<1>11. RunsHeld'
  BY <1>0, HeldStays DEF ToolInv, RunsHeld, HeldRun
<1>12. GrantsUsedOnce'
  BY <1>0, <1>3, <1>5, <1>7, <1>8 DEF ToolInv, GrantsUsedOnce
<1>13. LostConsumed'
  BY <1>0, GrantsKept DEF ToolInv, LostConsumed, BaseInv
<1>14. SpentUsed'
  <2>1. SUFFICES ASSUME NEW j \in DOMAIN grants', grants'[j].consumed PROVE InUse(j)'
    BY DEF SpentUsed
  <2>2. CASE j = i
    BY <1>3, <1>5, <2>2 DEF InUse
  <2>3. CASE j # i
    <3>1. j \in DOMAIN grants /\ grants[j].consumed
      BY <1>1, <2>1, <2>3
    <3>2. InUse(j)
      BY <3>1 DEF ToolInv, SpentUsed
    <3>3. Withdrawn(grants[j]) => Withdrawn(grants[j])'
      BY <3>1, WithdrawnStays
    <3>4. ASSUME NEW p \in Operators, executing[p] # None, executing[p].grant = j
          PROVE  executing'[p] # None /\ executing'[p].grant = j
      BY <1>0, <1>5, <3>4
    <3>5. QED
      BY <1>0, <3>2, <3>3, <3>4 DEF InUse
  <2>4. QED
    BY <2>2, <2>3
<1>15. QED
  BY <1>9, <1>10, <1>11, <1>12, <1>13, <1>14 DEF ToolInv
\* A call goes on with the same grant, the tables of runs as they are.
LEMMA GoesOn ==
    ASSUME BaseInv, ToolInv, NEW o \in Operators, executing[o] # None,
           NEW d \in ExecutionRow, Hold(o, d),
           d.grant = executing[o].grant, d.request = executing[o].request,
           d.step # "consumed" => d.profile # None /\ d.under # None,
           d.step \in {"persisted", "evidenced"} => d.output # None,
           d.step # "consumed" => Covered(d.grant, d.request.tool, d.profile, d.under),
           runIds' \in Nat, UNCHANGED <<policyVars, toolRuns, lost>>
    PROVE  ToolInv'
<1>1. executing \in [Operators -> ExecutionRow \cup {None}]
  BY DEF ToolInv, ToolTypeOK
<1>2. executing'[o] = d /\ \A p \in Operators : p # o => executing'[p] = executing[p]
  BY <1>1 DEF Hold
<1>3. executing' \in [Operators -> ExecutionRow \cup {None}]
  BY <1>1 DEF Hold
<1>4. UNCHANGED <<grants, engagements>>
  BY DEF policyVars, policyTables, vars, tables
<1>5. d # None
  BY NoneIsNoExecution
<1>6. ToolTypeOK'
  BY <1>2, <1>3 DEF ToolInv, ToolTypeOK
<1>7. CallsHeld'
  <2>1. ASSUME NEW c, HeldCall(c) PROVE HeldCall(c)'
    BY <1>4, <2>1 DEF HeldCall, Covered
  <2>2. HeldCall(d)
    BY DEF ToolInv, CallsHeld, HeldCall
  <2>3. ASSUME NEW p \in Operators, NEW c, c = executing'[p], c # None PROVE HeldCall(c)
    BY <1>2, <2>2, <2>3 DEF ToolInv, CallsHeld
  <2>4. QED
    BY <2>1, <2>3 DEF CallsHeld
<1>8. RunsHeld'
  BY <1>4 DEF ToolInv, RunsHeld, HeldRun, Covered
<1>9. GrantsUsedOnce'
  BY <1>2 DEF ToolInv, GrantsUsedOnce
<1>10. LostConsumed'
  BY <1>4 DEF ToolInv, LostConsumed
<1>11. SpentUsed'
  <2>1. SUFFICES ASSUME NEW j \in DOMAIN grants, grants[j].consumed PROVE InUse(j)'
    BY <1>4 DEF SpentUsed
  <2>2. InUse(j)
    BY <2>1 DEF ToolInv, SpentUsed
  <2>3. Withdrawn(grants[j]) => Withdrawn(grants[j])'
    BY <1>4 DEF Withdrawn
  <2>4. ASSUME NEW p \in Operators, executing[p] # None, executing[p].grant = j
        PROVE  executing'[p] # None /\ executing'[p].grant = j
    BY <1>2, <1>5, <2>4
  <2>5. QED
    BY <2>2, <2>3, <2>4 DEF InUse
<1>12. QED
  BY <1>6, <1>7, <1>8, <1>9, <1>10, <1>11 DEF ToolInv

\* The step of a call that goes on is a well-formed one of the same grant.
LEMMA SteppedRow ==
    ASSUME NEW c \in ExecutionRow, NEW step \in {"persisted", "evidenced", "failing"},
           NEW output \in Outputs \cup {None},
           NEW refs \in SUBSET UNION {x.secrets : x \in Outputs},
           NEW d, d = Stepped(c, step, output, refs)
    PROVE  /\ d \in ExecutionRow
           /\ d.step = step /\ d.grant = c.grant /\ d.request = c.request
           /\ d.profile = c.profile /\ d.under = c.under /\ d.output = output
BY DEF Stepped, Executing, ExecutionRow

\* None of the steps of a running call changes what it holds of its grant.
LEMMA RunningKeeps ==
    ASSUME BaseInv, ToolInv, NEW o \in Operators,
           RunFails(o) \/ PersistArtifact(o) \/ StoreSecret(o) \/ RecordEvidence(o) \/ Fail(o)
    PROVE  ToolInv'
<1> DEFINE c == executing[o]
<1>1. c # None /\ c.step # "consumed"
  BY DEF RunFails, PersistArtifact, StoreSecret, RecordEvidence, Fail, Doing
<1>2. /\ c \in ExecutionRow
      /\ c.profile # None /\ c.under # None
      /\ Covered(c.grant, c.request.tool, c.profile, c.under)
  BY <1>1 DEF ToolInv, ToolTypeOK, CallsHeld, HeldCall
<1>3. c.refs \in SUBSET UNION {x.secrets : x \in Outputs} /\ c.output \in Outputs \cup {None}
  BY <1>2 DEF ExecutionRow
<1>4. UNCHANGED <<policyVars, runIds, toolRuns, lost>>
  BY DEF RunFails, PersistArtifact, StoreSecret, RecordEvidence, Fail, runTables
<1>5. \E step \in {"persisted", "evidenced", "failing"}, output \in Outputs \cup {None},
         refs \in SUBSET UNION {x.secrets : x \in Outputs} :
           /\ Hold(o, Stepped(c, step, output, refs))
           /\ step \in {"persisted", "evidenced"} => output # None
  <2>1. CASE RunFails(o) \/ Fail(o)
    BY <2>1 DEF RunFails, Fail
  <2>2. CASE PersistArtifact(o)
    <3>1. PICK x \in Outputs : Hold(o, Stepped(c, "persisted", x, {}))
      BY <2>2 DEF PersistArtifact
    <3>2. x # None
      BY RowsNotNone
    <3>3. QED
      BY <3>1, <3>2
  <2>3. CASE StoreSecret(o)
    <3>1. c.output # None /\ c.output \in Outputs
      BY <1>1, <1>3, <2>3 DEF StoreSecret, Doing, ToolInv, ToolTypeOK
    <3>2. PICK s \in Unstored(c) : Hold(o, Stepped(c, "persisted", c.output, c.refs \cup {s}))
      BY <2>3 DEF StoreSecret
    <3>3. c.refs \cup {s} \in SUBSET UNION {x.secrets : x \in Outputs}
      BY <1>3, <3>1, <3>2 DEF Unstored
    <3>4. QED
      BY <3>1, <3>2, <3>3
  <2>4. CASE RecordEvidence(o)
    <3>1. c.output # None
      BY <1>1, <2>4 DEF RecordEvidence, Doing, ToolInv, ToolTypeOK
    <3>2. Hold(o, Stepped(c, "evidenced", c.output, c.refs))
      BY <2>4 DEF RecordEvidence
    <3>3. QED
      BY <1>3, <3>1, <3>2
  <2>5. QED
    BY <2>1, <2>2, <2>3, <2>4
<1>6. PICK step \in {"persisted", "evidenced", "failing"}, output \in Outputs \cup {None},
           refs \in SUBSET UNION {x.secrets : x \in Outputs} :
             /\ Hold(o, Stepped(c, step, output, refs))
             /\ step \in {"persisted", "evidenced"} => output # None
  BY <1>5
<1> DEFINE d == Stepped(c, step, output, refs)
<1>7. /\ d \in ExecutionRow
      /\ d.step = step /\ d.grant = c.grant /\ d.request = c.request
      /\ d.profile = c.profile /\ d.under = c.under /\ d.output = output
  BY <1>2, SteppedRow
<1>8. runIds' \in Nat
  BY <1>4 DEF ToolInv, ToolTypeOK
<1>9. QED
  BY <1>1, <1>2, <1>4, <1>6, <1>7, <1>8, GoesOn
\* A call ends without a run: its grant is lost or its profile was withdrawn.
LEMMA Leaves ==
    ASSUME BaseInv, ToolInv, NEW o \in Operators, executing[o] # None, Leave(o),
           lost' = lost \/ lost' = lost \cup {executing[o].grant},
           executing[o].grant \in lost' \/ Withdrawn(grants[executing[o].grant]),
           UNCHANGED <<policyVars, runIds, toolRuns>>
    PROVE  ToolInv'
<1> DEFINE g == executing[o].grant
<1>1. executing \in [Operators -> ExecutionRow \cup {None}]
  BY DEF ToolInv, ToolTypeOK
<1>2. executing'[o] = None /\ \A p \in Operators : p # o => executing'[p] = executing[p]
  BY <1>1 DEF Leave, Hold
<1>3. executing' \in [Operators -> ExecutionRow \cup {None}]
  BY <1>1 DEF Leave, Hold
<1>4. UNCHANGED <<grants, engagements>>
  BY DEF policyVars, policyTables, vars, tables
<1>5. g \in DOMAIN grants /\ grants[g].consumed
  BY DEF ToolInv, CallsHeld, HeldCall
<1>6. /\ \A p \in Operators : p # o /\ executing[p] # None => executing[p].grant # g
      /\ \A n \in DOMAIN toolRuns : toolRuns[n].grant # g
  BY DEF ToolInv, GrantsUsedOnce
<1>7. ToolTypeOK'
  BY <1>2, <1>3 DEF ToolInv, ToolTypeOK
<1>8. CallsHeld'
  <2>1. ASSUME NEW c, HeldCall(c), c.grant # g PROVE HeldCall(c)'
    BY <1>4, <2>1 DEF HeldCall, Covered
  <2>2. ASSUME NEW p \in Operators, NEW c, c = executing'[p], c # None
        PROVE  HeldCall(c) /\ c.grant # g
    BY <1>2, <1>6, <2>2 DEF ToolInv, CallsHeld
  <2>3. QED
    BY <2>1, <2>2 DEF CallsHeld
<1>9. RunsHeld'
  BY <1>4, <1>6 DEF ToolInv, RunsHeld, HeldRun, Covered
<1>10. GrantsUsedOnce'
  BY <1>2 DEF ToolInv, GrantsUsedOnce
<1>11. LostConsumed'
  BY <1>4, <1>5 DEF ToolInv, LostConsumed
<1>12. SpentUsed'
  <2>1. SUFFICES ASSUME NEW j \in DOMAIN grants, grants[j].consumed PROVE InUse(j)'
    BY <1>4 DEF SpentUsed
  <2>2. InUse(j)
    BY <2>1 DEF ToolInv, SpentUsed
  <2>3. Withdrawn(grants[j]) => Withdrawn(grants[j])'
    BY <1>4 DEF Withdrawn
  <2>4. CASE j = g
    BY <2>3, <2>4 DEF InUse
  <2>5. ASSUME j # g, NEW p \in Operators, executing[p] # None, executing[p].grant = j
        PROVE  executing'[p] # None /\ executing'[p].grant = j
    BY <1>2, <2>5
  <2>6. QED
    BY <2>2, <2>3, <2>4, <2>5 DEF InUse
<1>13. QED
  BY <1>7, <1>8, <1>9, <1>10, <1>11, <1>12 DEF ToolInv

\* A call ends with a run of its grant.
LEMMA Records ==
    ASSUME BaseInv, ToolInv, NEW o \in Operators, RecordCompleted(o) \/ RecordFailed(o)
    PROVE  ToolInv'
<1> DEFINE c == executing[o]
           g == c.grant
<1>0. /\ c # None /\ c.step \in {"evidenced", "failing"}
      /\ Leave(o)
      /\ UNCHANGED <<policyVars, runIds, lost>>
  BY DEF RecordCompleted, RecordFailed, Doing
<1>1. executing \in [Operators -> ExecutionRow \cup {None}]
  BY DEF ToolInv, ToolTypeOK
<1>2. executing'[o] = None /\ \A p \in Operators : p # o => executing'[p] = executing[p]
  BY <1>0, <1>1 DEF Leave, Hold
<1>3. executing' \in [Operators -> ExecutionRow \cup {None}]
  BY <1>0, <1>1 DEF Leave, Hold
<1>4. UNCHANGED <<grants, engagements>>
  BY <1>0 DEF policyVars, policyTables, vars, tables
<1>5. /\ c \in ExecutionRow /\ c.profile # None /\ c.under # None
      /\ c.step = "evidenced" => c.output # None
  BY <1>0 DEF ToolInv, ToolTypeOK
<1>6. PICK status \in {"completed", "failed"} :
          /\ toolRuns' = Append(toolRuns, RunRow(c, status))
          /\ status = "completed" => c.step = "evidenced"
  BY DEF RecordCompleted, RecordFailed, RecordRun, Doing
<1> DEFINE row == RunRow(c, status)
<1>7. /\ row \in ToolRunRow
      /\ row.grant = g /\ row.action = c.request.action /\ row.tool = c.request.tool
      /\ row.profile = c.profile /\ row.under = c.under
  <2>1. c.request.action \in Actions /\ c.request.tool \in Tools
    BY <1>5, RequestsWellFormed DEF ExecutionRow, RequestAssumption
  <2>2. c.run \in Nat /\ c.grant \in Nat /\ c.profile \in Profile /\ c.under \in Manifests
    BY <1>5 DEF ExecutionRow
  <2>3. status = "completed" => c.output \in Outputs
    BY <1>5, <1>6 DEF ExecutionRow
  <2>4. (IF status = "completed" THEN c.output.artifact ELSE None)
           \in {x.artifact : x \in Outputs} \cup {None}
    BY <2>3
  <2>5. QED
    BY <2>1, <2>2, <2>4 DEF RunRow, ToolRunRow
<1>8. toolRuns \in Seq(ToolRunRow) /\ toolRuns' = Append(toolRuns, row)
  BY <1>6 DEF ToolInv, ToolTypeOK
<1>9. /\ toolRuns' \in Seq(ToolRunRow)
      /\ DOMAIN toolRuns' = DOMAIN toolRuns \cup {Len(toolRuns) + 1}
      /\ \A n \in DOMAIN toolRuns : toolRuns'[n] = toolRuns[n]
      /\ toolRuns'[Len(toolRuns) + 1] = row
  BY <1>7, <1>8
<1>10. HeldCall(c)
  BY <1>0 DEF ToolInv, CallsHeld
<1>11. HeldRun(row)
  BY <1>0, <1>7, <1>10 DEF HeldCall, HeldRun
<1>12. /\ \A p \in Operators : p # o /\ executing[p] # None => executing[p].grant # g
       /\ \A n \in DOMAIN toolRuns : toolRuns[n].grant # g
  BY <1>0 DEF ToolInv, GrantsUsedOnce
<1>13. ToolTypeOK'
  BY <1>0, <1>2, <1>3, <1>9 DEF ToolInv, ToolTypeOK
<1>14. CallsHeld'
  <2>1. ASSUME NEW d, HeldCall(d) PROVE HeldCall(d)'
    BY <1>0, <1>4, <2>1 DEF HeldCall, Covered
  <2>2. ASSUME NEW p \in Operators, NEW d, d = executing'[p], d # None PROVE HeldCall(d)
    BY <1>2, <2>2 DEF ToolInv, CallsHeld
  <2>3. QED
    BY <2>1, <2>2 DEF CallsHeld
<1>15. RunsHeld'
  <2>1. ASSUME NEW d, HeldRun(d) PROVE HeldRun(d)'
    BY <1>0, <1>4, <2>1 DEF HeldRun, Covered
  <2>2. ASSUME NEW n \in DOMAIN toolRuns', NEW d, d = toolRuns'[n] PROVE HeldRun(d)
    BY <1>9, <1>11, <2>2 DEF ToolInv, RunsHeld
  <2>3. QED
    BY <2>1, <2>2 DEF RunsHeld
<1>16. GrantsUsedOnce'
  <2>1. \A m, n \in DOMAIN toolRuns' : toolRuns'[m].grant = toolRuns'[n].grant => m = n
    BY <1>7, <1>9, <1>12 DEF ToolInv, GrantsUsedOnce
  <2>2. \A p \in Operators, n \in DOMAIN toolRuns' :
            executing'[p] # None => toolRuns'[n].grant # executing'[p].grant
    BY <1>2, <1>7, <1>9, <1>12 DEF ToolInv, GrantsUsedOnce
  <2>3. \A p, q \in Operators :
            executing'[p] # None /\ executing'[q] # None /\ executing'[p].grant = executing'[q].grant
                => p = q
    BY <1>2 DEF ToolInv, GrantsUsedOnce
  <2>4. QED
    BY <2>1, <2>2, <2>3 DEF GrantsUsedOnce
<1>17. LostConsumed'
  BY <1>0, <1>4 DEF ToolInv, LostConsumed
<1>18. SpentUsed'
  <2>1. SUFFICES ASSUME NEW j \in DOMAIN grants, grants[j].consumed PROVE InUse(j)'
    BY <1>4 DEF SpentUsed
  <2>2. InUse(j)
    BY <2>1 DEF ToolInv, SpentUsed
  <2>3. Withdrawn(grants[j]) => Withdrawn(grants[j])'
    BY <1>4 DEF Withdrawn
  <2>4. CASE j = g
    <3>1. Len(toolRuns) + 1 \in DOMAIN toolRuns' /\ toolRuns'[Len(toolRuns) + 1].grant = j
      BY <1>7, <1>9, <2>4
    <3>2. QED
      BY <3>1 DEF InUse
  <2>5. ASSUME j # g, NEW p \in Operators, executing[p] # None, executing[p].grant = j
        PROVE  executing'[p] # None /\ executing'[p].grant = j
    BY <1>2, <2>5
  <2>6. ASSUME NEW n \in DOMAIN toolRuns, toolRuns[n].grant = j
        PROVE  n \in DOMAIN toolRuns' /\ toolRuns'[n].grant = j
    BY <1>9, <2>6
  <2>7. QED
    BY <1>0, <2>2, <2>3, <2>4, <2>5, <2>6 DEF InUse
<1>19. QED
  BY <1>13, <1>14, <1>15, <1>16, <1>17, <1>18 DEF ToolInv

\* A call that starts a run is well-formed, and its profile is covered.
LEMMA StartedRow ==
    ASSUME BaseInv, ToolInv, NEW o \in Operators, NEW c, c = executing[o], c # None,
           NEW x \in Startable(c), NEW d, d = Started(c, x[1], x[2])
    PROVE  /\ d \in ExecutionRow
           /\ d.step = "running" /\ d.grant = c.grant /\ d.request = c.request
           /\ d.run = runIds + 1
           /\ d.profile # None /\ d.under # None
           /\ Covered(c.grant, c.request.tool, d.profile, d.under)
<1> DEFINE i == c.grant
           tool == ToolManifest[c.request.tool]
<1>1. c \in ExecutionRow /\ c.request \in Requests
  BY DEF ToolInv, ToolTypeOK, ExecutionRow
<1>2. /\ x \in ({tool.base} \cup tool.profiles) \X {m \in ActiveManifests : m.id = grants[i].manifest.id}
      /\ x[1] = tool.base \/ x[1].flag \in x[2].flags \cup {None}
      /\ x[1].effects = grants[i].profile.effects
  BY DEF Startable
<1>3. c.request.tool \in Tools
  BY <1>1, RequestsWellFormed DEF RequestAssumption
<1>4. x[1] \in Profile
  BY <1>2, <1>3 DEF Profile
<1>5. x[2] \in ActiveManifests /\ x[2].id = grants[i].manifest.id
  BY <1>2
<1>6. PICK e \in engagements : e.manifest = x[2]
  BY <1>5 DEF ActiveManifests
<1>7. x[2] \in Manifests
  BY <1>6 DEF BaseInv, EngineInv, PolicyTypeOK, TypeOK, EngagementRow
<1>8. x[1] # None /\ x[2] # None
  BY <1>4, <1>7, RowsNotNone
<1>9. /\ d.step = "running" /\ d.grant = i /\ d.request = c.request
      /\ d.profile = x[1] /\ d.under = x[2] /\ d.run = runIds + 1
  BY DEF Started, Executing
<1>10. d \in ExecutionRow
  <2>1. runIds + 1 \in Nat /\ {} \in SUBSET UNION {y.secrets : y \in Outputs} /\ i \in Nat
    BY <1>1 DEF ToolInv, ToolTypeOK, ExecutionRow
  <2>2. QED
    BY <1>1, <1>4, <1>7, <2>1 DEF Started, Executing, ExecutionRow
<1>11. Covered(i, c.request.tool, x[1], x[2])
  BY <1>2, <1>5, <1>6 DEF Covered
<1>12. QED
  BY <1>8, <1>9, <1>10, <1>11

\* A call looks its profile up and runs, or finds it withdrawn and raises.
LEMMA StartKeeps ==
    ASSUME BaseInv, ToolInv, NEW o \in Operators, StartRun(o)
    PROVE  ToolInv'
<1> DEFINE c == executing[o]
           i == c.grant
<1>1. c # None /\ c.step = "consumed"
  BY DEF StartRun, Doing
<1>2. c \in ExecutionRow /\ c.request \in Requests
  BY <1>1 DEF ToolInv, ToolTypeOK, ExecutionRow
<1>3. HeldCall(c)
  BY <1>1 DEF ToolInv, CallsHeld
<1>4. UNCHANGED <<policyVars, toolRuns, lost>>
  BY DEF StartRun
<1>5. ASSUME NEW x \in Startable(c), Hold(o, Started(c, x[1], x[2])), runIds' = runIds + 1
      PROVE  ToolInv'
  <2> DEFINE d == Started(c, x[1], x[2])
  <2>1. /\ d \in ExecutionRow
        /\ d.step = "running" /\ d.grant = i /\ d.request = c.request
        /\ d.profile # None /\ d.under # None
        /\ Covered(i, c.request.tool, d.profile, d.under)
    BY <1>1, <1>5, StartedRow
  <2>2. runIds' \in Nat
    BY <1>5 DEF ToolInv, ToolTypeOK
  <2>3. QED
    BY <1>1, <1>4, <1>5, <2>1, <2>2, GoesOn
<1>6. ASSUME GrantedAsset(c) = {} \/ Startable(c) = {}, Leave(o), runIds' = runIds
      PROVE  ToolInv'
  <2>1. i \in DOMAIN grants /\ grants[i].action = c.request.action
    BY <1>3 DEF HeldCall
  <2>2. Withdrawn(grants[i])
    BY <1>2, <1>6, <2>1, NotStartable
  <2>3. QED
    BY <1>1, <1>4, <1>6, <2>2, Leaves DEF Leave
<1>7. QED
  BY <1>5, <1>6 DEF StartRun
\* Every step keeps the invariant.
LEMMA ToolInvStep == BaseInv /\ ToolInv /\ [ToolNext]_toolVars => ToolInv'
<1> SUFFICES ASSUME BaseInv, ToolInv, [ToolNext]_toolVars PROVE ToolInv'
  OBVIOUS
<1>0. [PolicyNext]_policyVars
  BY ToolStep
<1>1. CASE AuthorizeNext /\ UNCHANGED <<executing, runTables, storeTables, lost>>
  BY <1>0, <1>1, StandStill
<1>2. ASSUME NEW o \in Operators, NEW i \in DOMAIN grants, NEW r \in Requests, Begin(o, i, r)
      PROVE  ToolInv'
  BY <1>0, <1>2, BeginKeeps
<1>3. ASSUME NEW o \in Operators, OperatorStep(o) PROVE ToolInv'
  BY <1>3, StartKeeps, RunningKeeps, Records DEF OperatorStep
<1>4. ASSUME NEW o \in Operators, Fail(o) PROVE ToolInv'
  BY <1>4, RunningKeeps
<1>5. ASSUME NEW o \in Operators, Lose(o) PROVE ToolInv'
  <2>1. /\ executing[o] # None /\ Leave(o) /\ lost' = lost \cup {executing[o].grant}
        /\ UNCHANGED <<policyVars, runIds, toolRuns>>
    BY <1>5 DEF Lose, runTables
  <2>2. QED
    BY <2>1, Leaves
<1>6. CASE UNCHANGED toolVars
  BY <1>0, <1>6, StandStill DEF toolVars
<1>7. QED
  BY <1>1, <1>2, <1>3, <1>4, <1>5, <1>6 DEF ToolNext

LEMMA ToolInvariant == ToolSpec => [](BaseInv /\ ToolInv)
<1>1. ToolInit => ToolInv
  BY DEF ToolInit, PolicyInit, ToolInv, ToolTypeOK, CallsHeld, RunsHeld, GrantsUsedOnce,
         LostConsumed, SpentUsed
<1>2. ToolSpec => []BaseInv
  BY OperatorImplementsPolicy, BaseInvariant, PTL
<1>3. QED
  BY <1>1, <1>2, ToolInvStep, PTL DEF ToolSpec

\* Type correctness of what the operator keeps.
THEOREM ToolTypeCorrect == ToolSpec => []ToolTypeOK
BY ToolInvariant, PTL DEF ToolInv

\* A grant that was consumed is in the hands of one call or has one run, unless its
\* call was lost or its profile withdrawn - whatever operators, authorizations and
\* registrations race, and wherever a store raises or a process dies.
THEOREM SpentGrantsAlwaysAccounted == ToolSpec => []SpentGrantsAccounted
<1>1. ToolInv => SpentGrantsAccounted
  BY ToolInvImplies
<1>2. QED
  BY <1>1, ToolInvariant, PTL

\* Every recorded run has the effects of its grant and stays inside the asset revision
\* it was granted, under a registered manifest that opens its profile.
THEOREM RunsAlwaysWithinGrants == ToolSpec => []RunsWithinGrants
<1>1. ToolInv /\ GrantWithinScope => RunsWithinGrants
  BY ToolInvImplies
<1>2. QED
  BY <1>1, ToolInvariant, ExecutedGrantsWithinScope, PTL
--------------------------------------------------------------------------------
\* From here on, what is recorded: the calls that have a run id, and what the stores
\* hold of them.  Nothing of this depends on the engine's tables.
RunLives(o) == executing[o] # None /\ executing[o].step # "consumed"

\* A run id belongs to one call or to one run, and was handed out.
RunIdsOnce ==
    /\ \A o \in Operators : RunLives(o) => executing[o].run <= runIds
    /\ \A n \in DOMAIN toolRuns : toolRuns[n].run <= runIds
    /\ \A o, p \in Operators :
          RunLives(o) /\ RunLives(p) /\ executing[o].run = executing[p].run => o = p
    /\ \A m, n \in DOMAIN toolRuns : toolRuns[m].run = toolRuns[n].run => m = n
    /\ \A o \in Operators, n \in DOMAIN toolRuns :
          RunLives(o) => executing[o].run # toolRuns[n].run

OneAudit(run, status) ==
    {x \in toolAudit : x.run = run} = {[run |-> run, event |-> status]}

AuditFollowsRuns ==
    /\ \A n \in DOMAIN toolRuns : OneAudit(toolRuns[n].run, toolRuns[n].status)
    /\ \A x \in toolAudit : \E n \in DOMAIN toolRuns : x.run = toolRuns[n].run

ArtifactStored(a) == \E x \in artifactRows : x.artifact = a
SecretStored(s) == \E v \in vaultItems : v.secret = s

\* The stores hold all that an evidence row names.
EvidenceRests(e) ==
    /\ e.run \in Nat /\ e.run <= runIds
    /\ ArtifactStored(e.artifact)
    /\ \E x \in Outputs : /\ x.artifact = e.artifact
                          /\ e.refs = x.secrets
                          /\ \A s \in x.secrets : SecretStored(s)

EvidenceStored == \A e \in evidence : EvidenceRests(e)

\* Where an evidence row came from: a run, a call that goes on, or one that was lost.
Traced(e) ==
    \/ \E n \in DOMAIN toolRuns : toolRuns[n].grant = e.grant /\ toolRuns[n].run = e.run
    \/ \E o \in Operators :
          RunLives(o) /\ executing[o].grant = e.grant /\ executing[o].run = e.run
    \/ e.grant \in lost

EvidenceTraced == \A e \in evidence : Traced(e)

NoEvidence(run) == \A e \in evidence : e.run # run

OneEvidence(run, grant, artifact) ==
    \E e \in evidence :
        /\ {x \in evidence : x.run = run} = {e}
        /\ e.grant = grant /\ e.artifact = artifact

\* A call has stored what its step says and nothing ahead of it.
StoredCall(c) ==
    /\ c.step \in {"running", "persisted"} => NoEvidence(c.run)
    /\ c.step \in {"persisted", "evidenced"} =>
          /\ ArtifactStored(c.output.artifact)
          /\ c.refs \subseteq c.output.secrets
          /\ \A s \in c.refs : SecretStored(s)
    /\ c.step = "evidenced" => OneEvidence(c.run, c.grant, c.output.artifact)

CallsStored == \A o \in Operators : executing[o] # None => StoredCall(executing[o])

EvidencedRun(run) == run.status = "completed" => OneEvidence(run.run, run.grant, run.artifact)
RunsEvidenced == \A n \in DOMAIN toolRuns : EvidencedRun(toolRuns[n])

\* The inductive invariant of what is recorded.
EvidenceInv ==
    /\ RunIdsOnce /\ AuditFollowsRuns /\ EvidenceStored /\ EvidenceTraced
    /\ CallsStored /\ RunsEvidenced

\* It implies the property.
LEMMA EvidenceInvImplies ==
    ASSUME EvidenceInv PROVE RunsRestOnEvidence
<1>1. ASSUME NEW e \in evidence
      PROVE  /\ \E x \in artifactRows : x.artifact = e.artifact
             /\ \E x \in Outputs :
                   /\ x.artifact = e.artifact
                   /\ e.refs = x.secrets
                   /\ \A s \in x.secrets : \E v \in vaultItems : v.secret = s
  BY DEF EvidenceInv, EvidenceStored, EvidenceRests, ArtifactStored, SecretStored
<1>2. ASSUME NEW e \in evidence
      PROVE  \/ \E n \in RunsOf(e.grant) : toolRuns[n].run = e.run
             \/ \E o \in CallsOn(e.grant) : executing[o].run = e.run
             \/ e.grant \in lost
  <2>1. Traced(e)
    BY DEF EvidenceInv, EvidenceTraced
  <2>2. QED
    BY <2>1 DEF Traced, RunsOf, CallsOn, RunLives
<1>3. ASSUME NEW n \in DOMAIN toolRuns
      PROVE  {x \in toolAudit : x.run = toolRuns[n].run}
                 = {[run |-> toolRuns[n].run, event |-> toolRuns[n].status]}
  BY DEF EvidenceInv, AuditFollowsRuns, OneAudit
<1>4. ASSUME NEW n \in DOMAIN toolRuns, toolRuns[n].status = "completed"
      PROVE  \E e \in evidence :
                 /\ {x \in evidence : x.run = toolRuns[n].run} = {e}
                 /\ e.grant = toolRuns[n].grant /\ e.artifact = toolRuns[n].artifact
  BY <1>4 DEF EvidenceInv, RunsEvidenced, EvidencedRun, OneEvidence
<1>5. QED
  BY <1>1, <1>2, <1>3, <1>4 DEF RunsRestOnEvidence

\* Evidence of other runs and more rows in the stores change nothing of what is there.
LEMMA EvidenceStays ==
    ASSUME evidence \subseteq evidence', NEW run, \A e \in evidence' : e \in evidence \/ e.run # run
    PROVE  /\ NoEvidence(run) => NoEvidence(run)'
           /\ \A grant, artifact :
                 OneEvidence(run, grant, artifact) => OneEvidence(run, grant, artifact)'
<1>1. \A x : x \in {y \in evidence' : y.run = run} <=> x \in {y \in evidence : y.run = run}
  OBVIOUS
<1>2. {y \in evidence' : y.run = run} = {y \in evidence : y.run = run}
  BY <1>1
<1>3. QED
  BY <1>2 DEF NoEvidence, OneEvidence

StoresGrow ==
    /\ artifactRows \subseteq artifactRows'
    /\ vaultItems \subseteq vaultItems'
    /\ evidence \subseteq evidence'

\* A call or a run other than the one that stores evidence keeps what is stored of it.
LEMMA StoredStays ==
    ASSUME StoresGrow, NEW c, \A e \in evidence' : e \in evidence \/ e.run # c.run
    PROVE  /\ StoredCall(c) => StoredCall(c)'
           /\ EvidencedRun(c) => EvidencedRun(c)'
<1>1. /\ \A a : ArtifactStored(a) => ArtifactStored(a)'
      /\ \A s : SecretStored(s) => SecretStored(s)'
  BY DEF StoresGrow, ArtifactStored, SecretStored
<1>2. /\ NoEvidence(c.run) => NoEvidence(c.run)'
      /\ \A grant, artifact :
            OneEvidence(c.run, grant, artifact) => OneEvidence(c.run, grant, artifact)'
  <2> PICK run : run = c.run
    OBVIOUS
  <2>1. QED
    BY EvidenceStays DEF StoresGrow
<1>3. StoredCall(c) => StoredCall(c)'
  BY <1>1, <1>2 DEF StoredCall
<1>4. EvidencedRun(c) => EvidencedRun(c)'
  BY <1>2 DEF EvidencedRun
<1>5. QED
  BY <1>3, <1>4

\* An evidence row that rests on the stores still does when they have grown.
LEMMA RestsStays ==
    ASSUME StoresGrow, runIds \in Nat, runIds' \in Nat, runIds <= runIds',
           NEW e, EvidenceRests(e)
    PROVE  EvidenceRests(e)'
<1>1. /\ \A a : ArtifactStored(a) => ArtifactStored(a)'
      /\ \A s : SecretStored(s) => SecretStored(s)'
  BY DEF StoresGrow, ArtifactStored, SecretStored
<1>2. e.run \in Nat /\ e.run <= runIds'
  BY DEF EvidenceRests
<1>3. QED
  BY <1>1, <1>2 DEF EvidenceRests

\* Steps of the engine and the service leave all of this alone.
LEMMA EvidenceUntouched ==
    ASSUME EvidenceInv, UNCHANGED ownTables
    PROVE  EvidenceInv'
<1>0. /\ UNCHANGED <<executing, runIds, toolRuns, toolAudit, lost>>
      /\ UNCHANGED <<artifactRows, vaultItems, evidence>>
  BY DEF ownTables, runTables, storeTables
<1>1. StoresGrow
  BY <1>0 DEF StoresGrow
<1>2. RunIdsOnce' /\ AuditFollowsRuns'
  BY <1>0 DEF EvidenceInv, RunIdsOnce, AuditFollowsRuns, RunLives, OneAudit
<1>3. EvidenceStored'
  BY <1>0 DEF EvidenceInv, EvidenceStored, EvidenceRests, ArtifactStored, SecretStored
<1>4. EvidenceTraced'
  BY <1>0 DEF EvidenceInv, EvidenceTraced, Traced, RunLives
<1>5. \A c : StoredCall(c) => StoredCall(c)'
  BY <1>0, <1>1, StoredStays
<1>6. CallsStored'
  BY <1>0, <1>5 DEF EvidenceInv, CallsStored
<1>7. RunsEvidenced'
  BY <1>0 DEF EvidenceInv, RunsEvidenced, EvidencedRun, OneEvidence
<1>8. QED
  BY <1>2, <1>3, <1>4, <1>6, <1>7 DEF EvidenceInv

\* A call begins, raises before it has a run id, or is lost.
LEMMA CallWithoutRun ==
    ASSUME ToolTypeOK, EvidenceInv, NEW o \in Operators, NEW d, Hold(o, d),
           d = None \/ d.step = "consumed",
           lost \subseteq lost', RunLives(o) => executing[o].grant \in lost',
           UNCHANGED <<runTables, storeTables>>
    PROVE  EvidenceInv'
<1>0. /\ UNCHANGED <<runIds, toolRuns, toolAudit>>
      /\ UNCHANGED <<artifactRows, vaultItems, evidence>>
  BY DEF runTables, storeTables
<1>1. executing'[o] = d /\ \A p \in Operators : p # o => executing'[p] = executing[p]
  BY DEF Hold, ToolTypeOK
<1>2. ~RunLives(o)' /\ \A p \in Operators : p # o => (RunLives(p)' <=> RunLives(p))
  BY <1>1 DEF RunLives
<1>3. RunIdsOnce'
  BY <1>0, <1>1, <1>2 DEF EvidenceInv, RunIdsOnce
<1>4. AuditFollowsRuns'
  BY <1>0 DEF EvidenceInv, AuditFollowsRuns, OneAudit
<1>5. EvidenceStored'
  BY <1>0 DEF EvidenceInv, EvidenceStored, EvidenceRests, ArtifactStored, SecretStored
<1>6. EvidenceTraced'
  BY <1>0, <1>1, <1>2 DEF EvidenceInv, EvidenceTraced, Traced
<1>7. StoresGrow
  BY <1>0 DEF StoresGrow
<1>8. ASSUME NEW c, StoredCall(c) PROVE StoredCall(c)'
  BY <1>0, <1>7, <1>8, StoredStays
<1>9. CallsStored'
  <2>1. ASSUME NEW p \in Operators, NEW c, c = executing'[p], c # None PROVE StoredCall(c)
    BY <1>1, <2>1 DEF EvidenceInv, CallsStored, StoredCall
  <2>2. QED
    BY <1>8, <2>1 DEF CallsStored
<1>10. RunsEvidenced'
  BY <1>0 DEF EvidenceInv, RunsEvidenced, EvidencedRun, OneEvidence
<1>11. QED
  BY <1>3, <1>4, <1>5, <1>6, <1>9, <1>10 DEF EvidenceInv

\* A call that has a run id goes on with it; what it stores is of its run.
LEMMA CallGoesOn ==
    ASSUME ToolTypeOK, EvidenceInv, NEW o \in Operators, RunLives(o), NEW d, Hold(o, d),
           d # None, d.step # "consumed",
           d.grant = executing[o].grant, d.run = executing[o].run,
           UNCHANGED <<runTables, lost>>, StoresGrow,
           \A e \in evidence' : \/ e \in evidence
                                \/ /\ e.run = d.run /\ e.grant = d.grant
                                   /\ EvidenceRests(e)',
           StoredCall(d)'
    PROVE  EvidenceInv'
<1>0. UNCHANGED <<runIds, toolRuns, toolAudit>> /\ runIds \in Nat
  BY DEF runTables, ToolTypeOK
<1>1. executing'[o] = d /\ \A p \in Operators : p # o => executing'[p] = executing[p]
  BY DEF Hold, ToolTypeOK
<1>2. RunLives(o)' /\ \A p \in Operators : p # o => (RunLives(p)' <=> RunLives(p))
  BY <1>1 DEF RunLives
<1>3. /\ \A p \in Operators : p # o /\ RunLives(p) => executing[p].run # d.run
      /\ \A n \in DOMAIN toolRuns : toolRuns[n].run # d.run
  BY DEF EvidenceInv, RunIdsOnce
<1>4. RunIdsOnce'
  BY <1>0, <1>1, <1>2 DEF EvidenceInv, RunIdsOnce
<1>5. AuditFollowsRuns'
  BY <1>0 DEF EvidenceInv, AuditFollowsRuns, OneAudit
<1>6. EvidenceStored'
  <2>1. ASSUME NEW e \in evidence' PROVE EvidenceRests(e)'
    <3>1. e \in evidence => EvidenceRests(e)
      BY DEF EvidenceInv, EvidenceStored
    <3>2. QED
      BY <1>0, <3>1, RestsStays
  <2>2. QED
    BY <2>1 DEF EvidenceStored
<1>7. EvidenceTraced'
  <2>1. ASSUME NEW e \in evidence' PROVE Traced(e)'
    <3>1. CASE e \in evidence
      BY <1>0, <1>1, <1>2, <3>1 DEF EvidenceInv, EvidenceTraced, Traced
    <3>2. CASE e.run = d.run /\ e.grant = d.grant
      BY <1>1, <1>2, <3>2 DEF Traced
    <3>3. QED
      BY <3>1, <3>2
  <2>2. QED
    BY <2>1 DEF EvidenceTraced
<1>8. CallsStored'
  <2>1. ASSUME NEW p \in Operators, p # o, NEW c, c = executing'[p], c # None
        PROVE  StoredCall(c)'
    <3>1. StoredCall(c) /\ c = executing[p]
      BY <1>1, <2>1 DEF EvidenceInv, CallsStored
    <3>2. CASE RunLives(p)
      <4>1. c.run # d.run
        BY <1>3, <2>1, <3>1, <3>2
      <4>2. \A e \in evidence' : e \in evidence \/ e.run # c.run
        BY <4>1
      <4>3. QED
        BY <3>1, <4>2, StoredStays
    <3>3. CASE ~RunLives(p)
      BY <2>1, <3>1, <3>3 DEF RunLives, StoredCall
    <3>4. QED
      BY <3>2, <3>3
  <2>2. ASSUME NEW p \in Operators, NEW c, c = executing'[p], c # None PROVE StoredCall(c)'
    BY <1>1, <2>1, <2>2
  <2>3. QED
    BY <2>2 DEF CallsStored
<1>9. RunsEvidenced'
  <2>1. ASSUME NEW n \in DOMAIN toolRuns, NEW c, c = toolRuns[n] PROVE EvidencedRun(c)'
    <3>1. EvidencedRun(c)
      BY <2>1 DEF EvidenceInv, RunsEvidenced
    <3>2. \A e \in evidence' : e \in evidence \/ e.run # c.run
      BY <1>3, <2>1
    <3>3. QED
      BY <3>1, <3>2, StoredStays
  <2>2. QED
    BY <1>0, <2>1 DEF RunsEvidenced
<1>10. QED
  BY <1>4, <1>5, <1>6, <1>7, <1>8, <1>9 DEF EvidenceInv


\* The run id a call is given was never used.
LEMMA RunBegins ==
    ASSUME ToolTypeOK, EvidenceInv, NEW o \in Operators, Doing(o, "consumed"),
           NEW d, Hold(o, d), d # None, d.step = "running", d.run = runIds + 1,
           runIds' = runIds + 1, UNCHANGED <<toolRuns, toolAudit, storeTables, lost>>
    PROVE  EvidenceInv'
<1>0. UNCHANGED <<artifactRows, vaultItems, evidence>> /\ runIds \in Nat /\ runIds' \in Nat
  BY DEF storeTables, ToolTypeOK
<1>1. executing'[o] = d /\ \A p \in Operators : p # o => executing'[p] = executing[p]
  BY DEF Hold, ToolTypeOK
<1>2. /\ RunLives(o)' /\ ~RunLives(o)
      /\ \A p \in Operators : p # o => (RunLives(p)' <=> RunLives(p))
  BY <1>1 DEF RunLives, Doing
<1>3. /\ \A p \in Operators : RunLives(p) => executing[p].run \in Nat /\ executing[p].run <= runIds
      /\ \A n \in DOMAIN toolRuns : toolRuns[n].run \in Nat /\ toolRuns[n].run <= runIds
  <2>1. \A p \in Operators : RunLives(p) => executing[p] \in ExecutionRow
    BY DEF ToolTypeOK, RunLives
  <2>2. \A n \in DOMAIN toolRuns : toolRuns[n] \in ToolRunRow
    BY DEF ToolTypeOK
  <2>3. QED
    BY <2>1, <2>2 DEF EvidenceInv, RunIdsOnce, ExecutionRow, ToolRunRow
<1>4. RunIdsOnce'
  <2>1. \A p \in Operators : RunLives(p)' => executing'[p].run <= runIds'
    BY <1>0, <1>1, <1>2, <1>3
  <2>2. \A n \in DOMAIN toolRuns : toolRuns[n].run <= runIds'
    BY <1>0, <1>3
  <2>3. \A p, q \in Operators :
            RunLives(p)' /\ RunLives(q)' /\ executing'[p].run = executing'[q].run => p = q
    <3>1. ASSUME NEW p \in Operators, p # o, RunLives(p)' PROVE executing'[p].run # d.run
      BY <1>0, <1>1, <1>2, <1>3, <3>1
    <3>2. \A p, q \in Operators :
              RunLives(p) /\ RunLives(q) /\ executing[p].run = executing[q].run => p = q
      BY DEF EvidenceInv, RunIdsOnce
    <3>3. QED
      BY <1>1, <1>2, <3>1, <3>2
  <2>4. \A p \in Operators, n \in DOMAIN toolRuns : RunLives(p)' => executing'[p].run # toolRuns[n].run
    <3>1. \A n \in DOMAIN toolRuns : d.run # toolRuns[n].run
      BY <1>0, <1>3
    <3>2. \A p \in Operators, n \in DOMAIN toolRuns :
              RunLives(p) => executing[p].run # toolRuns[n].run
      BY DEF EvidenceInv, RunIdsOnce
    <3>3. QED
      BY <1>1, <1>2, <3>1, <3>2
  <2>5. \A m, n \in DOMAIN toolRuns : toolRuns[m].run = toolRuns[n].run => m = n
    BY DEF EvidenceInv, RunIdsOnce
  <2>6. QED
    BY <2>1, <2>2, <2>3, <2>4, <2>5 DEF RunIdsOnce
<1>5. AuditFollowsRuns'
  BY DEF EvidenceInv, AuditFollowsRuns, OneAudit
<1>6. StoresGrow
  BY <1>0 DEF StoresGrow
<1>7. EvidenceStored'
  <2>1. \A e : EvidenceRests(e) => EvidenceRests(e)'
    BY <1>0, <1>6, RestsStays
  <2>2. QED
    BY <1>0, <2>1 DEF EvidenceInv, EvidenceStored
<1>8. EvidenceTraced'
  BY <1>0, <1>1, <1>2 DEF EvidenceInv, EvidenceTraced, Traced
<1>9. CallsStored'
  <2>1. ASSUME NEW c, StoredCall(c) PROVE StoredCall(c)'
    BY <1>0, <1>6, <2>1, StoredStays
  <2>2. StoredCall(d)
    <3>1. NoEvidence(d.run)
      BY <1>0 DEF EvidenceInv, EvidenceStored, EvidenceRests, NoEvidence
    <3>2. QED
      BY <3>1 DEF StoredCall
  <2>3. ASSUME NEW p \in Operators, NEW c, c = executing'[p], c # None PROVE StoredCall(c)
    BY <1>1, <2>2, <2>3 DEF EvidenceInv, CallsStored
  <2>4. QED
    BY <2>1, <2>3 DEF CallsStored
<1>10. RunsEvidenced'
  BY <1>0 DEF EvidenceInv, RunsEvidenced, EvidencedRun, OneEvidence
<1>11. QED
  BY <1>4, <1>5, <1>7, <1>8, <1>9, <1>10 DEF EvidenceInv

\* A call that has a run id ends as a run, with one audit event, and with its evidence
\* if it completed.
LEMMA CallBecomesRun ==
    ASSUME ToolTypeOK, EvidenceInv, NEW o \in Operators, RunLives(o), Leave(o),
           NEW status, RecordRun(executing[o], status),
           status = "completed" => executing[o].step = "evidenced",
           toolRuns' \in Seq(ToolRunRow), UNCHANGED <<runIds, storeTables, lost>>
    PROVE  EvidenceInv'
<1> DEFINE c == executing[o]
           row == RunRow(c, status)
<1> PICK l : l = Len(toolRuns) + 1
  OBVIOUS
<1>0. UNCHANGED <<artifactRows, vaultItems, evidence>>
  BY DEF storeTables
<1>1. executing'[o] = None /\ \A p \in Operators : p # o => executing'[p] = executing[p]
  BY DEF Leave, Hold, ToolTypeOK
<1>2. ~RunLives(o)' /\ \A p \in Operators : p # o => (RunLives(p)' <=> RunLives(p))
  BY <1>1 DEF RunLives
<1>3. /\ row.run = c.run /\ row.grant = c.grant /\ row.status = status
      /\ status = "completed" => row.artifact = c.output.artifact
  BY DEF RunRow
<1>4. /\ DOMAIN toolRuns' = DOMAIN toolRuns \cup {l}
      /\ \A n \in DOMAIN toolRuns : toolRuns'[n] = toolRuns[n]
      /\ toolRuns'[l] = row
      /\ l \notin DOMAIN toolRuns
  <2>1. toolRuns \in Seq(ToolRunRow) /\ toolRuns' = Append(toolRuns, row)
    BY DEF ToolTypeOK, RecordRun
  <2>2. QED
    BY <2>1
<1>5. /\ c.run <= runIds
      /\ \A p \in Operators : p # o /\ RunLives(p) => executing[p].run # c.run
      /\ \A n \in DOMAIN toolRuns : toolRuns[n].run # c.run
  BY DEF EvidenceInv, RunIdsOnce
<1>6. RunIdsOnce'
  <2>1. \A n \in DOMAIN toolRuns' : toolRuns'[n].run <= runIds'
    BY <1>3, <1>4, <1>5 DEF EvidenceInv, RunIdsOnce
  <2>2. \A m, n \in DOMAIN toolRuns' : toolRuns'[m].run = toolRuns'[n].run => m = n
    <3>1. \A m, n \in DOMAIN toolRuns : toolRuns[m].run = toolRuns[n].run => m = n
      BY DEF EvidenceInv, RunIdsOnce
    <3>2. QED
      BY <1>3, <1>4, <1>5, <3>1
  <2>3. \A p \in Operators, n \in DOMAIN toolRuns' :
            RunLives(p)' => executing'[p].run # toolRuns'[n].run
    <3>1. \A p \in Operators, n \in DOMAIN toolRuns :
              RunLives(p) => executing[p].run # toolRuns[n].run
      BY DEF EvidenceInv, RunIdsOnce
    <3>2. QED
      BY <1>1, <1>2, <1>3, <1>4, <1>5, <3>1
  <2>4. \A p \in Operators : RunLives(p)' => executing'[p].run <= runIds'
    BY <1>1, <1>2 DEF EvidenceInv, RunIdsOnce
  <2>5. \A p, q \in Operators :
            RunLives(p)' /\ RunLives(q)' /\ executing'[p].run = executing'[q].run => p = q
    BY <1>1, <1>2 DEF EvidenceInv, RunIdsOnce
  <2>6. QED
    BY <2>1, <2>2, <2>3, <2>4, <2>5 DEF RunIdsOnce
<1>7. toolAudit' = toolAudit \cup {[run |-> c.run, event |-> status]}
  BY DEF RecordRun
<1>8. AuditFollowsRuns'
  <2>1. \A x \in toolAudit : x.run # c.run
    BY <1>5 DEF EvidenceInv, AuditFollowsRuns
  <2>2. ASSUME NEW n \in DOMAIN toolRuns', NEW d, d = toolRuns'[n]
        PROVE  OneAudit(d.run, d.status)'
    <3>1. CASE n = l
      <4>1. \A x : x \in {y \in toolAudit' : y.run = c.run} <=> x = [run |-> c.run, event |-> status]
        BY <1>7, <2>1
      <4>2. QED
        BY <1>3, <1>4, <2>2, <3>1, <4>1 DEF OneAudit
    <3>2. CASE n \in DOMAIN toolRuns
      <4>1. OneAudit(d.run, d.status) /\ d.run # c.run
        BY <1>4, <1>5, <2>2, <3>2 DEF EvidenceInv, AuditFollowsRuns
      <4>2. \A x : x \in {y \in toolAudit' : y.run = d.run} <=> x \in {y \in toolAudit : y.run = d.run}
        BY <1>7, <4>1
      <4>3. QED
        BY <4>1, <4>2 DEF OneAudit
    <3>3. QED
      BY <1>4, <3>1, <3>2
  <2>3. ASSUME NEW x \in toolAudit' PROVE \E n \in DOMAIN toolRuns' : x.run = toolRuns'[n].run
    <3>1. x \in toolAudit => \E n \in DOMAIN toolRuns : x.run = toolRuns[n].run
      BY DEF EvidenceInv, AuditFollowsRuns
    <3>2. QED
      BY <1>3, <1>4, <1>7, <3>1
  <2>4. QED
    BY <2>2, <2>3 DEF AuditFollowsRuns
<1>9. EvidenceStored'
  BY <1>0 DEF EvidenceInv, EvidenceStored, EvidenceRests, ArtifactStored, SecretStored
<1>10. EvidenceTraced'
  <2>1. ASSUME NEW e \in evidence PROVE Traced(e)'
    <3>1. Traced(e)
      BY DEF EvidenceInv, EvidenceTraced
    <3>2. CASE \E n \in DOMAIN toolRuns : toolRuns[n].grant = e.grant /\ toolRuns[n].run = e.run
      BY <1>4, <3>2 DEF Traced
    <3>3. CASE e.grant = c.grant /\ e.run = c.run
      BY <1>3, <1>4, <3>3 DEF Traced
    <3>4. ASSUME NEW p \in Operators, p # o, RunLives(p), executing[p].grant = e.grant,
                 executing[p].run = e.run
          PROVE  Traced(e)'
      BY <1>1, <1>2, <3>4 DEF Traced
    <3>5. QED
      BY <3>1, <3>2, <3>3, <3>4 DEF Traced
  <2>2. QED
    BY <1>0, <2>1 DEF EvidenceTraced
<1>11. StoresGrow
  BY <1>0 DEF StoresGrow
<1>12. CallsStored'
  <2>1. ASSUME NEW d, StoredCall(d) PROVE StoredCall(d)'
    BY <1>0, <1>11, <2>1, StoredStays
  <2>2. ASSUME NEW p \in Operators, NEW d, d = executing'[p], d # None PROVE StoredCall(d)
    BY <1>1, <2>2 DEF EvidenceInv, CallsStored
  <2>3. QED
    BY <2>1, <2>2 DEF CallsStored
<1>13. RunsEvidenced'
  <2>1. ASSUME NEW d, EvidencedRun(d) PROVE EvidencedRun(d)'
    BY <1>0, <1>11, <2>1, StoredStays
  <2>2. EvidencedRun(row)
    <3>1. StoredCall(c)
      BY DEF EvidenceInv, CallsStored, RunLives
    <3>2. QED
      BY <1>3, <3>1 DEF StoredCall, EvidencedRun
  <2>3. ASSUME NEW n \in DOMAIN toolRuns', NEW d, d = toolRuns'[n] PROVE EvidencedRun(d)
    BY <1>4, <2>2, <2>3 DEF EvidenceInv, RunsEvidenced
  <2>4. QED
    BY <2>1, <2>3 DEF RunsEvidenced
<1>14. QED
  BY <1>6, <1>8, <1>9, <1>10, <1>12, <1>13 DEF EvidenceInv


\* What a call holds after a step that goes on.
LEMMA SteppedCall ==
    ASSUME NEW c, NEW step, NEW output, NEW refs, NEW d, d = Stepped(c, step, output, refs)
    PROVE  /\ d.step = step /\ d.grant = c.grant /\ d.run = c.run
           /\ d.output = output /\ d.refs = refs
BY DEF Stepped, Executing

\* A call that fails keeps what it has stored and will store no more.
LEMMA FailingKeeps ==
    ASSUME BaseInv, ToolInv, EvidenceInv, NEW o \in Operators, RunFails(o) \/ Fail(o)
    PROVE  EvidenceInv'
<1> PICK d : d = Stepped(executing[o], "failing", None, {})
  OBVIOUS
<1>1. /\ RunLives(o) /\ Hold(o, d)
      /\ UNCHANGED <<runTables, lost>> /\ UNCHANGED <<artifactRows, vaultItems, evidence>>
  BY DEF RunFails, Fail, Doing, RunLives, storeTables
<1>2. /\ d.step = "failing" /\ d.grant = executing[o].grant /\ d.run = executing[o].run
  BY SteppedCall
<1>3. d # None
  <2>1. executing[o] \in ExecutionRow
    BY <1>1 DEF RunLives, ToolInv, ToolTypeOK
  <2>2. None \in Outputs \cup {None} /\ {} \in SUBSET UNION {x.secrets : x \in Outputs}
    OBVIOUS
  <2>3. QED
    BY <2>1, <2>2, SteppedRow, NoneIsNoExecution
<1>4. StoresGrow
  BY <1>1 DEF StoresGrow
<1>5. StoredCall(d)'
  BY <1>2 DEF StoredCall
<1>6. ToolTypeOK
  BY DEF ToolInv
<1>7. QED
  BY <1>1, <1>2, <1>3, <1>4, <1>5, <1>6, CallGoesOn

\* An artifact is stored before anything refers to it.
LEMMA ArtifactKeeps ==
    ASSUME BaseInv, ToolInv, EvidenceInv, NEW o \in Operators, PersistArtifact(o)
    PROVE  EvidenceInv'
<1> DEFINE c == executing[o]
<1>1. PICK x \in Outputs :
          /\ artifactRows' = IF \E y \in artifactRows : y.artifact = x.artifact
                             THEN artifactRows
                             ELSE artifactRows \cup {[artifact |-> x.artifact, source |-> c.run]}
          /\ Hold(o, Stepped(c, "persisted", x, {}))
  BY DEF PersistArtifact
<1> PICK d : d = Stepped(c, "persisted", x, {})
  OBVIOUS
<1>2. /\ RunLives(o) /\ c.step = "running" /\ Hold(o, d)
      /\ UNCHANGED <<runTables, lost>> /\ UNCHANGED <<vaultItems, evidence>>
  BY <1>1 DEF PersistArtifact, Doing, RunLives
<1>3. /\ d.step = "persisted" /\ d.grant = c.grant /\ d.run = c.run
      /\ d.output = x /\ d.refs = {}
  BY SteppedCall
<1>4. d # None
  <2>1. c \in ExecutionRow
    BY <1>2 DEF RunLives, ToolInv, ToolTypeOK
  <2>2. {} \in SUBSET UNION {y.secrets : y \in Outputs}
    OBVIOUS
  <2>3. QED
    BY <2>1, <2>2, SteppedRow, NoneIsNoExecution
<1>5. StoresGrow
  BY <1>1, <1>2 DEF StoresGrow
<1>6. ArtifactStored(x.artifact)'
  <2>1. CASE \E y \in artifactRows : y.artifact = x.artifact
    BY <1>1, <2>1 DEF ArtifactStored
  <2>2. ASSUME ~\E y \in artifactRows : y.artifact = x.artifact,
               NEW y, y = [artifact |-> x.artifact, source |-> c.run]
        PROVE  y \in artifactRows' /\ y.artifact = x.artifact
    BY <1>1, <2>2
  <2>3. QED
    BY <2>1, <2>2 DEF ArtifactStored
<1>7. NoEvidence(c.run)
  BY <1>2 DEF EvidenceInv, CallsStored, StoredCall, RunLives
<1>8. StoredCall(d)'
  BY <1>2, <1>3, <1>6, <1>7 DEF StoredCall, NoEvidence
<1>9. ToolTypeOK
  BY DEF ToolInv
<1>10. QED
  BY <1>2, <1>3, <1>4, <1>5, <1>8, <1>9, CallGoesOn

\* A secret is in the vault before the call holds a reference to it.
LEMMA SecretKeeps ==
    ASSUME BaseInv, ToolInv, EvidenceInv, NEW o \in Operators, StoreSecret(o)
    PROVE  EvidenceInv'
<1> DEFINE c == executing[o]
<1>1. PICK s \in Unstored(c) :
          /\ vaultItems' = IF \E x \in vaultItems : x.secret = s
                           THEN vaultItems
                           ELSE vaultItems \cup {[secret |-> s, source |-> c.output.artifact]}
          /\ Hold(o, Stepped(c, "persisted", c.output, c.refs \cup {s}))
  BY DEF StoreSecret
<1> PICK d : d = Stepped(c, "persisted", c.output, c.refs \cup {s})
  OBVIOUS
<1>2. /\ RunLives(o) /\ c.step = "persisted" /\ Hold(o, d)
      /\ UNCHANGED <<runTables, lost>> /\ UNCHANGED <<artifactRows, evidence>>
  BY <1>1 DEF StoreSecret, Doing, RunLives
<1>3. /\ d.step = "persisted" /\ d.grant = c.grant /\ d.run = c.run
      /\ d.output = c.output /\ d.refs = c.refs \cup {s}
  BY SteppedCall
<1>4. StoredCall(c)
  BY <1>2 DEF EvidenceInv, CallsStored, RunLives
<1>5. d # None
  <2>1. c \in ExecutionRow
    BY <1>2 DEF RunLives, ToolInv, ToolTypeOK
  <2>2. c.output # None /\ c.output \in Outputs
    BY <1>2, <2>1 DEF RunLives, ToolInv, ToolTypeOK, ExecutionRow
  <2>3. c.refs \cup {s} \in SUBSET UNION {x.secrets : x \in Outputs}
    BY <1>1, <2>1, <2>2 DEF Unstored, ExecutionRow
  <2>4. QED
    BY <2>1, <2>2, <2>3, SteppedRow, NoneIsNoExecution
<1>6. StoresGrow
  BY <1>1, <1>2 DEF StoresGrow
<1>7. \A x \in d.refs : SecretStored(x)'
  <2>1. SecretStored(s)'
    <3>1. CASE \E x \in vaultItems : x.secret = s
      BY <1>1, <3>1 DEF SecretStored
    <3>2. ASSUME ~\E x \in vaultItems : x.secret = s,
                 NEW x, x = [secret |-> s, source |-> c.output.artifact]
          PROVE  x \in vaultItems' /\ x.secret = s
      BY <1>1, <3>2
    <3>3. QED
      BY <3>1, <3>2 DEF SecretStored
  <2>2. ASSUME NEW x \in c.refs PROVE SecretStored(x)'
    BY <1>2, <1>4, <1>6 DEF StoredCall, SecretStored, StoresGrow
  <2>3. QED
    BY <1>3, <2>1, <2>2
<1>8. d.refs \subseteq d.output.secrets
  BY <1>1, <1>2, <1>3, <1>4 DEF StoredCall, Unstored
<1>9. ArtifactStored(d.output.artifact)' /\ NoEvidence(d.run)'
  <2>1. ArtifactStored(d.output.artifact) /\ NoEvidence(d.run)
    BY <1>2, <1>3, <1>4 DEF StoredCall
  <2>2. QED
    BY <1>2, <2>1 DEF ArtifactStored, NoEvidence
<1>10. StoredCall(d)'
  BY <1>3, <1>7, <1>8, <1>9 DEF StoredCall
<1>11. ToolTypeOK
  BY DEF ToolInv
<1>12. QED
  BY <1>2, <1>3, <1>5, <1>6, <1>10, <1>11, CallGoesOn

\* Evidence is recorded when everything it names is stored, and once.
LEMMA EvidenceKeeps ==
    ASSUME BaseInv, ToolInv, EvidenceInv, NEW o \in Operators, RecordEvidence(o)
    PROVE  EvidenceInv'
<1> DEFINE c == executing[o]
<1> PICK d : d = Stepped(c, "evidenced", c.output, c.refs)
  OBVIOUS
<1> PICK e : e = EvidenceRow(c)
  OBVIOUS
<1>1. /\ RunLives(o) /\ c.step = "persisted" /\ Complete(c)
      /\ evidence' = evidence \cup {e} /\ Hold(o, d)
      /\ UNCHANGED <<runTables, lost>> /\ UNCHANGED <<artifactRows, vaultItems>>
  BY DEF RecordEvidence, Doing, RunLives
<1>2. /\ d.step = "evidenced" /\ d.grant = c.grant /\ d.run = c.run
      /\ d.output = c.output /\ d.refs = c.refs
  BY SteppedCall
<1>3. /\ e.run = c.run /\ e.grant = c.grant /\ e.artifact = c.output.artifact
      /\ e.refs = c.refs
  BY DEF EvidenceRow
<1>4. StoredCall(c)
  BY <1>1 DEF EvidenceInv, CallsStored, RunLives
<1>5. c \in ExecutionRow /\ c.output \in Outputs
  BY <1>1 DEF RunLives, ToolInv, ToolTypeOK, ExecutionRow
<1>6. d # None
  <2>1. c.refs \in SUBSET UNION {x.secrets : x \in Outputs}
    BY <1>5 DEF ExecutionRow
  <2>2. QED
    BY <1>5, <2>1, SteppedRow, NoneIsNoExecution
<1>7. StoresGrow
  BY <1>1 DEF StoresGrow
<1>8. c.refs = c.output.secrets
  BY <1>1, <1>4 DEF Complete, Unstored, StoredCall
<1>9. ArtifactStored(e.artifact) /\ \A s \in e.refs : SecretStored(s)
  BY <1>1, <1>3, <1>4 DEF StoredCall
<1>10. EvidenceRests(e)'
  <2>1. e.run \in Nat /\ e.run <= runIds
    BY <1>1, <1>3, <1>5 DEF ExecutionRow, EvidenceInv, RunIdsOnce
  <2>2. EvidenceRests(e)
    BY <1>3, <1>5, <1>8, <1>9, <2>1 DEF EvidenceRests
  <2>3. QED
    BY <1>1, <1>7, <2>2, RestsStays DEF ToolInv, ToolTypeOK, runTables
<1>11. StoredCall(d)'
  <2>1. NoEvidence(c.run)
    BY <1>1, <1>4 DEF StoredCall
  <2>2. \A x : x \in {y \in evidence' : y.run = d.run} <=> x = e
    BY <1>1, <1>2, <1>3, <2>1 DEF NoEvidence
  <2>3. {y \in evidence' : y.run = d.run} = {e}
    BY <2>2
  <2>4. OneEvidence(d.run, d.grant, d.output.artifact)'
    BY <1>1, <1>2, <1>3, <2>3 DEF OneEvidence
  <2>5. ArtifactStored(d.output.artifact)' /\ \A s \in d.refs : SecretStored(s)'
    BY <1>1, <1>2, <1>3, <1>9 DEF ArtifactStored, SecretStored
  <2>6. d.refs \subseteq d.output.secrets
    BY <1>2, <1>8
  <2>7. QED
    BY <1>2, <2>4, <2>5, <2>6 DEF StoredCall
<1>12. \A x \in evidence' : \/ x \in evidence
                            \/ /\ x.run = d.run /\ x.grant = d.grant
                               /\ EvidenceRests(x)'
  BY <1>1, <1>2, <1>3, <1>10
<1>13. ToolTypeOK
  BY DEF ToolInv
<1>14. QED
  BY <1>1, <1>2, <1>6, <1>7, <1>11, <1>12, <1>13, CallGoesOn

\* A call looks its profile up and gets a run id, or raises without one.
LEMMA StartKeepsEvidence ==
    ASSUME BaseInv, ToolInv, EvidenceInv, NEW o \in Operators, StartRun(o)
    PROVE  EvidenceInv'
<1> DEFINE c == executing[o]
<1>0. ToolTypeOK
  BY DEF ToolInv
<1>1. /\ Doing(o, "consumed")
      /\ UNCHANGED <<toolRuns, toolAudit, storeTables, lost>>
  BY DEF StartRun
<1>2. ASSUME NEW x \in Startable(c), Hold(o, Started(c, x[1], x[2])), runIds' = runIds + 1
      PROVE  EvidenceInv'
  <2> PICK d : d = Started(c, x[1], x[2])
    OBVIOUS
  <2>1. d \in ExecutionRow /\ d.step = "running" /\ d.run = runIds + 1
    BY <1>1, StartedRow DEF Doing
  <2>2. d # None
    BY <2>1, NoneIsNoExecution
  <2>3. QED
    BY <1>0, <1>1, <1>2, <2>1, <2>2, RunBegins
<1>3. ASSUME Leave(o), runIds' = runIds PROVE EvidenceInv'
  <2>1. ~RunLives(o)
    BY <1>1 DEF RunLives, Doing
  <2>2. Hold(o, None) /\ UNCHANGED <<runTables, storeTables>> /\ lost \subseteq lost'
    BY <1>1, <1>3 DEF Leave, runTables
  <2>3. QED
    BY <1>0, <2>1, <2>2, CallWithoutRun
<1>4. QED
  BY <1>2, <1>3 DEF StartRun


\* A call becomes a run; the table of runs stays one of runs.
LEMMA RecordKeepsEvidence ==
    ASSUME BaseInv, ToolInv, EvidenceInv, NEW o \in Operators,
           RecordCompleted(o) \/ RecordFailed(o)
    PROVE  EvidenceInv'
<1>0. ToolTypeOK /\ toolRuns' \in Seq(ToolRunRow)
  BY Records DEF ToolInv, ToolTypeOK
<1>1. RunLives(o) /\ Leave(o) /\ UNCHANGED <<runIds, storeTables, lost>>
  BY DEF RecordCompleted, RecordFailed, Doing, RunLives
<1>2. PICK status : /\ RecordRun(executing[o], status)
                    /\ status = "completed" => executing[o].step = "evidenced"
  BY DEF RecordCompleted, RecordFailed, Doing
<1>3. QED
  BY <1>0, <1>1, <1>2, CallBecomesRun

LEMMA EvidenceStep == BaseInv /\ ToolInv /\ EvidenceInv /\ [ToolNext]_toolVars => EvidenceInv'
<1> SUFFICES ASSUME BaseInv, ToolInv, EvidenceInv, [ToolNext]_toolVars PROVE EvidenceInv'
  OBVIOUS
<1>0. ToolTypeOK
  BY DEF ToolInv
<1>1. CASE AuthorizeNext /\ UNCHANGED <<executing, runTables, storeTables, lost>>
  BY <1>1, EvidenceUntouched DEF ownTables
<1>2. ASSUME NEW o \in Operators, NEW i \in DOMAIN grants, NEW r \in Requests, Begin(o, i, r)
      PROVE  EvidenceInv'
  <2> PICK d : d = Consumed(i, r)
    OBVIOUS
  <2>1. d.step = "consumed"
    BY DEF Consumed, Executing
  <2>2. /\ executing[o] = None /\ Hold(o, d)
        /\ UNCHANGED <<runTables, storeTables>> /\ lost' = lost
    BY <1>2 DEF Begin
  <2>3. ~RunLives(o)
    BY <2>2 DEF RunLives
  <2>4. QED
    BY <1>0, <2>1, <2>2, <2>3, CallWithoutRun
<1>3. ASSUME NEW o \in Operators, Lose(o) PROVE EvidenceInv'
  <2>1. /\ Hold(o, None) /\ lost' = lost \cup {executing[o].grant}
        /\ UNCHANGED <<runTables, storeTables>>
    BY <1>3 DEF Lose, Leave
  <2>2. QED
    BY <1>0, <2>1, CallWithoutRun
<1>4. ASSUME NEW o \in Operators, OperatorStep(o) \/ Fail(o) PROVE EvidenceInv'
  BY <1>4, StartKeepsEvidence, FailingKeeps, ArtifactKeeps, SecretKeeps, EvidenceKeeps,
     RecordKeepsEvidence DEF OperatorStep
<1>5. CASE UNCHANGED toolVars
  BY <1>5, EvidenceUntouched DEF toolVars, ownTables
<1>6. QED
  BY <1>1, <1>2, <1>3, <1>4, <1>5 DEF ToolNext

\* Every evidence row has its artifact and its vault items and can be traced to a run, a
\* call or a lost one; every run has one audit event and every completed run one evidence
\* row, of its own grant and artifact - wherever calls interleave, fail or die between
\* the transactions of _persist_output and _record_run.
THEOREM RunsAlwaysRestOnEvidence == ToolSpec => []RunsRestOnEvidence
<1>1. ToolInit => EvidenceInv
  BY DEF ToolInit, EvidenceInv, RunIdsOnce, RunLives, AuditFollowsRuns, EvidenceStored,
         EvidenceTraced, CallsStored, RunsEvidenced
<1>2. EvidenceInv => RunsRestOnEvidence
  BY EvidenceInvImplies
<1>3. QED
  BY <1>1, <1>2, EvidenceStep, ToolInvariant, PTL DEF ToolSpec

================================================================================
