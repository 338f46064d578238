------------------------------ MODULE ToolOperator ------------------------------
(***************************************************************************)
(* The tool operator (src/src/cyberkimi/tools/operator.py) on top of the   *)
(* policy engine whose grants it spends.                                   *)
(*                                                                         *)
(* execute consumes the grant first and only then looks up the asset, the  *)
(* engagement's active manifest and the profile, runs the handler, and     *)
(* stores what came out in one transaction each: the artifact, every       *)
(* secret in the vault, the evidence, the run.  From the moment it has a   *)
(* run id, an exception is answered with a failed run.  Registrations,     *)
(* authorizations and other executions happen between any two of these.    *)
(***************************************************************************)
EXTENDS PolicyEngine

CONSTANTS
    Operators,  \* processes that execute
    Handled,    \* the tools that have a handler
    Outputs     \* what handlers return: [artifact, secrets, bytes]

OutputAssumption ==
    /\ \A x \in Outputs : x.bytes \in Nat
    /\ \A p \in Profile : p.bytes \in Nat

ASSUME OutputsWellFormed == OutputAssumption
ASSUME RowsNotNone == None \notin Outputs \cup Profile \cup Manifests

VARIABLES
    executing,      \* the execute call each operator is inside of
    runIds,         \* how many run ids were handed out
    toolRuns,       \* table tool_runs, in insertion order
    toolAudit,      \* table audit_events: the rows the operator writes
    artifactRows,   \* table artifacts: [artifact, source], one per content
    vaultItems,     \* table vault_items: [secret, source], one per secret
    evidence,       \* table evidence
    lost            \* history: grants whose call died or could not write its run

storeTables == <<artifactRows, vaultItems, evidence>>
runTables == <<runIds, toolRuns, toolAudit>>
toolVars == <<policyVars, executing, runTables, storeTables, lost>>

\* What a call holds: its arguments, and from "running" on the run id, the profile, the
\* manifest this was looked up in, the handler's output and the vault references.
Executing(step, i, r, run, profile, under, output, refs) ==
    [step |-> step, grant |-> i, request |-> r, run |-> run, profile |-> profile,
     under |-> under, output |-> output, refs |-> refs]

Consumed(i, r) == Executing("consumed", i, r, 0, None, None, None, {})
Started(c, profile, under) ==
    Executing("running", c.grant, c.request, runIds + 1, profile, under, None, {})
Stepped(c, step, output, refs) ==
    Executing(step, c.grant, c.request, c.run, c.profile, c.under, output, refs)

Doing(o, step) == executing[o] # None /\ executing[o].step = step
Hold(o, c) == executing' = [executing EXCEPT ![o] = c]
Leave(o) == Hold(o, None)

--------------------------------------------------------------------------------
\* resolve_asset by the versioned id in the grant.
GrantedAsset(c) ==
    LET g == grants[c.grant]
    IN {r \in revisions :
           /\ r.alias = g.alias
           /\ r.revision = g.revision
           /\ r.engagement = g.manifest.id
           /\ r.verifies}

\* Broken variant: the flags of the manifest the grant was issued under count.
StartableUnderGrant(c) ==
    LET g    == grants[c.grant]
        tool == ToolManifest[c.request.tool]
    IN {x \in ({tool.base} \cup tool.profiles) \X {m \in ActiveManifests : m.id = g.manifest.id} :
           /\ x[1].name = g.profile.name
           /\ x[1] = tool.base \/ x[1].flag \in g.manifest.flags \cup {None}
           /\ x[1].effects = g.profile.effects
           /\ c.request.tool \in Handled}

\* get_manifest, tools.require, profile and handlers.require: the granted profile under
\* the active manifest, empty when one of them raises or the effects are not those
\* of the grant.
Startable(c) ==
    LET g    == grants[c.grant]
        tool == ToolManifest[c.request.tool]
    IN {x \in ({tool.base} \cup tool.profiles) \X {m \in ActiveManifests : m.id = g.manifest.id} :
           /\ x[1].name = g.profile.name
           /\ x[1] = tool.base \/ x[1].flag \in x[2].flags \cup {None}
           /\ x[1].effects = g.profile.effects
           /\ c.request.tool \in Handled}

EvidenceRow(c) ==
    [run |-> c.run, grant |-> c.grant, task |-> c.request.task,
     alias |-> grants[c.grant].alias, revision |-> grants[c.grant].revision,
     profile |-> c.profile.name, artifact |-> c.output.artifact, refs |-> c.refs]

\* The row of tool_runs.  "under" is not in the table: the manifest that was active.
RunRow(c, status) ==
    [run |-> c.run, grant |-> c.grant, action |-> c.request.action, tool |-> c.request.tool,
     profile |-> c.profile, under |-> c.under, status |-> status,
     artifact |-> IF status = "completed" THEN c.output.artifact ELSE None]

\* _record_run
RecordRun(c, status) ==
    /\ toolRuns' = Append(toolRuns, RunRow(c, status))
    /\ toolAudit' = toolAudit \cup {[run |-> c.run, event |-> status]}

--------------------------------------------------------------------------------
ToolInit ==
    /\ PolicyInit
    /\ executing = [o \in Operators |-> None]
    /\ runIds = 0
    /\ toolRuns = <<>>
    /\ toolAudit = {}
    /\ artifactRows = {}
    /\ vaultItems = {}
    /\ evidence = {}
    /\ lost = {}

\* execute: consume_grant.  When it refuses, the call raises and nothing has happened.
Begin(o, i, r) ==
    /\ executing[o] = None
    /\ ConsumeGrant(i, r)
    /\ Hold(o, Consumed(i, r))
    /\ UNCHANGED <<runTables, storeTables, lost>>

\* The asset is resolved, the profile looked up again, and the run id made; or the call
\* raises and the grant is spent without a run.
StartRun(o) ==
    /\ Doing(o, "consumed")
    /\ LET c == executing[o]
       IN \/ /\ GrantedAsset(c) = {} \/ Startable(c) = {}
             /\ Leave(o)
             /\ UNCHANGED runIds
          \/ /\ GrantedAsset(c) # {}
             /\ \E x \in Startable(c) : Hold(o, Started(c, x[1], x[2]))
             /\ runIds' = runIds + 1
    /\ UNCHANGED <<policyVars, toolRuns, toolAudit, storeTables, lost>>

\* The handler raises, returns too much, or its output cannot be persisted.
RunFails(o) ==
    /\ Doing(o, "running")
    /\ Hold(o, Stepped(executing[o], "failing", None, {}))
    /\ UNCHANGED <<policyVars, runTables, storeTables, lost>>

\* The handler returns something that fits the profile, and artifacts.persist stores it:
\* the row of a content names the first run that produced it.
PersistArtifact(o) ==
    /\ Doing(o, "running")
    /\ LET c == executing[o]
       IN \E x \in Outputs :
             /\ x.bytes <= c.profile.bytes
             /\ artifactRows' = IF \E y \in artifactRows : y.artifact = x.artifact
                                THEN artifactRows
                                ELSE artifactRows \cup {[artifact |-> x.artifact, source |-> c.run]}
             /\ Hold(o, Stepped(c, "persisted", x, {}))
    /\ UNCHANGED <<policyVars, runTables, vaultItems, evidence, lost>>

\* Broken variant: the loop over the secrets does not advance.
UnstoredAll(c) == c.output.secrets

Unstored(c) == c.output.secrets \ c.refs

\* vault.store, once for each secret of the output.
StoreSecret(o) ==
    /\ Doing(o, "persisted")
    /\ LET c == executing[o]
       IN \E s \in Unstored(c) :
             /\ vaultItems' = IF \E x \in vaultItems : x.secret = s
                              THEN vaultItems
                              ELSE vaultItems \cup {[secret |-> s, source |-> c.output.artifact]}
             /\ Hold(o, Stepped(c, "persisted", c.output, c.refs \cup {s}))
    /\ UNCHANGED <<policyVars, runTables, artifactRows, evidence, lost>>

\* Broken variant: the evidence does not wait for the vault.
CompleteAtOnce(c) == TRUE

Complete(c) == Unstored(c) = {}

RecordEvidence(o) ==
    /\ Doing(o, "persisted")
    /\ LET c == executing[o]
       IN /\ Complete(c)
          /\ evidence' = evidence \cup {EvidenceRow(c)}
          /\ Hold(o, Stepped(c, "evidenced", c.output, c.refs))
    /\ UNCHANGED <<policyVars, runTables, artifactRows, vaultItems, lost>>

RecordCompleted(o) ==
    /\ Doing(o, "evidenced")
    /\ RecordRun(executing[o], "completed")
    /\ Leave(o)
    /\ UNCHANGED <<policyVars, runIds, storeTables, lost>>

\* A store raises, or the transaction of the run does: what was stored stays.
Fail(o) ==
    /\ executing[o] # None
    /\ executing[o].step \in {"persisted", "evidenced"}
    /\ Hold(o, Stepped(executing[o], "failing", None, {}))
    /\ UNCHANGED <<policyVars, runTables, storeTables, lost>>

\* except Exception
RecordFailed(o) ==
    /\ Doing(o, "failing")
    /\ RecordRun(executing[o], "failed")
    /\ Leave(o)
    /\ UNCHANGED <<policyVars, runIds, storeTables, lost>>

\* The process dies, a lookup before the run id raises, or the failed run cannot be
\* recorded either.
Lose(o) ==
    /\ executing[o] # None
    /\ lost' = lost \cup {executing[o].grant}
    /\ Leave(o)
    /\ UNCHANGED <<policyVars, runTables, storeTables>>

OperatorStep(o) ==
    \/ StartRun(o)
    \/ RunFails(o)
    \/ PersistArtifact(o)
    \/ StoreSecret(o)
    \/ RecordEvidence(o)
    \/ RecordCompleted(o)
    \/ RecordFailed(o)

\* Grants are consumed by execute and nowhere else.
AuthorizeNext ==
    \/ Next /\ UNCHANGED <<auth, policyTables>>
    \/ \E a \in Agents :
          \/ \E r \in Requests, t \in tokens : StartCall(a, r, t)
          \/ AgentStep(a)
          \/ Abandon(a)

ToolNext ==
    \/ AuthorizeNext /\ UNCHANGED <<executing, runTables, storeTables, lost>>
    \/ \E o \in Operators :
          \/ \E i \in DOMAIN grants, r \in Requests : Begin(o, i, r)
          \/ OperatorStep(o)
          \/ Fail(o)
          \/ Lose(o)

ToolSpec == ToolInit /\ [][ToolNext]_toolVars

\* A call that was started, of the engine or of the operator, takes its next step;
\* handlers read files and return.
FairToolSpec ==
    /\ ToolSpec
    /\ \A a \in Agents : WF_toolVars(AgentStep(a) /\ UNCHANGED <<executing, runTables, storeTables, lost>>)
    /\ \A o \in Operators : WF_toolVars(OperatorStep(o))

--------------------------------------------------------------------------------
ExecutionRow ==
    [step : {"consumed", "running", "persisted", "evidenced", "failing"}, grant : Nat,
     request : Requests, run : Nat, profile : Profile \cup {None},
     under : Manifests \cup {None}, output : Outputs \cup {None},
     refs : SUBSET UNION {x.secrets : x \in Outputs}]

ASSUME NoneIsNoExecution == None \notin ExecutionRow

ToolRunRow ==
    [run : Nat, grant : Nat, action : Actions, tool : Tools, profile : Profile,
     under : Manifests, status : {"completed", "failed"},
     artifact : {x.artifact : x \in Outputs} \cup {None}]

\* The tables hold rows of their schema, and an operator is idle or in one call, which
\* has a profile and a manifest once it runs and an output while it stores one.
ToolTypeOK ==
    /\ executing \in [Operators -> ExecutionRow \cup {None}]
    /\ \A o \in Operators :
          executing[o] # None =>
              /\ executing[o].step # "consumed" =>
                    executing[o].profile # None /\ executing[o].under # None
              /\ executing[o].step \in {"persisted", "evidenced"} => executing[o].output # None
    /\ runIds \in Nat
    /\ toolRuns \in Seq(ToolRunRow)

RunsOf(i) == {n \in DOMAIN toolRuns : toolRuns[n].grant = i}
CallsOn(i) == {o \in Operators : executing[o] # None /\ executing[o].grant = i}

\* The profile of a grant cannot be looked up under some manifest that was registered
\* for its engagement, or the action was executed as one for another tool.
Withdrawn(g) ==
    \/ \E x \in engagements :
          /\ x.manifest.id = g.manifest.id
          /\ g.profile.flag \notin x.manifest.flags \cup {None}
    \/ \E r \in Requests : r.action = g.action /\ r.tool # g.tool
    \/ g.tool \notin Handled

\* "run_count == 1" (tests/tools/test_operator.py): a grant that was consumed is in the
\* hands of one call, or has one run, or its call was lost, or it is one whose profile
\* the engagement withdrew; a grant that was not consumed has none of these.
Accounted(i) ==
    /\ \A o, p \in CallsOn(i) : o = p
    /\ \A m, n \in RunsOf(i) : m = n
    /\ CallsOn(i) = {} \/ RunsOf(i) = {}
    /\ i \in lost => CallsOn(i) = {} /\ RunsOf(i) = {}
    /\ IF grants[i].consumed
       THEN CallsOn(i) # {} \/ RunsOf(i) # {} \/ i \in lost \/ Withdrawn(grants[i])
       ELSE CallsOn(i) = {} /\ RunsOf(i) = {} /\ i \notin lost

SpentGrantsAccounted == \A i \in DOMAIN grants : Accounted(i)

\* What is recorded can be followed: every evidence row has its artifact and each of its
\* vault items; it belongs to a completed run, or to one that is not recorded yet,
\* failed or was lost after the evidence was; every completed run has just one, of its
\* own grant, and each run has one audit event.
RunsRestOnEvidence ==
    /\ \A e \in evidence :
          /\ \E x \in artifactRows : x.artifact = e.artifact
          /\ \E x \in Outputs :
                /\ x.artifact = e.artifact
                /\ e.refs = x.secrets
                /\ \A s \in x.secrets : \E v \in vaultItems : v.secret = s
          /\ \/ \E n \in RunsOf(e.grant) : toolRuns[n].run = e.run
             \/ \E o \in CallsOn(e.grant) : executing[o].run = e.run
             \/ e.grant \in lost
    /\ \A n \in DOMAIN toolRuns :
          LET run == toolRuns[n] IN
          /\ {x \in toolAudit : x.run = run.run} = {[run |-> run.run, event |-> run.status]}
          /\ run.status = "completed" =>
                \E e \in evidence :
                    /\ {x \in evidence : x.run = run.run} = {e}
                    /\ e.grant = run.grant /\ e.artifact = run.artifact

\* What a run needs of the grant i it was given, the profile it ran and the manifest
\* that was active when it started.
Covered(i, tool, profile, under) ==
    /\ profile.effects = grants[i].profile.effects
    /\ profile = ToolManifest[tool].base \/ profile.flag \in under.flags \cup {None}
    /\ \E x \in engagements : x.manifest = under /\ x.manifest.id = grants[i].manifest.id

\* The engagement may have changed since the grant was issued and since it was consumed.
\* A run still has a profile of the effects of its grant, whose flag is set in a
\* registered manifest that was active after consumption, and stays inside the asset
\* revision of the grant.
RunsWithinGrants ==
    \A n \in DOMAIN toolRuns :
        LET run == toolRuns[n]
        IN /\ run.grant \in DOMAIN grants
           /\ run.action = grants[run.grant].action
           /\ Covered(run.grant, run.tool, run.profile, run.under)
           /\ WithinScope(grants[run.grant])

\* A consumption is answered: the call ends, with a run unless it was lost or its
\* profile withdrawn, although stores may raise at every step.
ConsumptionsAnswered ==
    \A i \in 1..Cardinality(Actions) :
        (i \in DOMAIN grants /\ grants[i].consumed)
            ~> (RunsOf(i) # {} \/ i \in lost \/ (CallsOn(i) = {} /\ i \in DOMAIN grants /\ Withdrawn(grants[i])))
================================================================================
