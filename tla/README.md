# A formal model of cyberkimi

This directory models the control plane of `src/` in TLA+: the parts of cyberkimi that decide
what an agent may do, for how long and how often, what is recorded of it, and what a recorded
finding is worth. TLC checks the models on small instances, TLAPS proves the central
properties for every instance. `PROJECT.json` maps every definition to the lines it models.

## 1. The system

The repository at this commit holds the program **twice**. All paths below are relative to
`src/src/cyberkimi/`.

* The *package generation* (`engagement/`, `persistence/`, `policy/`, `tasking/`, `tools/`,
  `evidence/`, with `core.py`, `config.py`, `errors.py`), on SQLAlchemy. It is what
  `IMPLEMENTATION_STATUS.md` describes.
* The *single-file generation* (`authorization.py`, `policy.py`, `evidence.py`, `findings.py`,
  `operator.py`, `retry.py`, `review.py`, `orchestrator.py`, `manifest.py`, `tools.py`,
  `kimi.py`, `cli.py`, with `store.py` and `domain.py`), on `sqlite3`.

They do not call each other and have tables of their own. A package shadows the module of the
same name (`policy/__init__.py` is empty, so `from .policy import PolicyEngine` cannot find the
class of `policy.py`), which keeps some single-file modules from being imported as the tree
stands. Each component is modelled as it is written, with the collaborators its own
imports name.

### Inventory

"Hard" is what makes a component difficult to test; "correct" what it has to guarantee.

| Component | State | Operations | Interacts with |
|---|---|---|---|
| **Engagement service** `engagement/service.py`, `scope_token.py` | tables engagements, asset_aliases, asset_revisions, scope_tokens, audit_events | `register`, `progress_asset`, `issue_scope`, `resolve_asset`, `verify_scope_token` | policy engine and tool operator read manifests, revisions and tokens |
| **Policy engine** `policy/engine.py`, `grants.py` | tables proposed_actions, policy_decisions, execution_grants, approvals, budget_usage, audit_events | `authorize`, `authorize_adaptive` (two passes), `consume_grant` | engagement service (reads), tool registry (profiles), tool operator (consumes) |
| **Tool operator** `tools/operator.py`, `handlers.py` | tables tool_runs, audit_events, and through the stores artifacts, credential_vault, evidence | `execute` | consumes a grant, looks up asset, manifest and profile again, runs a handler, records what came out |
| **Artifact store, credential vault** `evidence/store.py`, `vault.py` | files named by digest, tables artifacts, vault_items | `persist`, `read`, `store`, `reveal` | written by evidence stores |
| **Authorization registry** `authorization.py` | tables engagement_revisions, asset_revisions | `register_engagement`, `register_asset`, `latest_engagement`, `resolve_asset` | `CyberKimi.register_manifest`, single-file policy engine |
| **Single-file policy engine** `policy.py` | approvals, budget_usage, execution_grants, r4_execution_windows, audit_events | `authorize`, `consume_grant` | process operator, registry documents |
| **Process operator, kill switch** `operator.py` | table kill_switches, a child process and its group | `execute`, `arm`, `clear`, `is_armed` | consumes a grant, starts and ends a process |
| **Evidence** `evidence.py` | files, artifacts, evidence | `record_text`, policies, oracles | findings, redaction |
| **Finding lifecycle** `findings.py` | findings, finding_evidence | `create_signal`, `attach_evidence`, `transition`, `verify_and_finalize` | evidence rows and policies |
| **Retry manager** `retry.py` | none: the caller counts attempts | `next_outcome` | nothing calls it yet |
| **Control plane, review** `orchestrator.py`, `review.py` | key files, reports | `register_manifest`, `review_repository` | registry, evidence, findings, the repository on disk |
| **Configuration** `config.py` | key files | `Settings.from_env` | whoever starts the package |
| **Manifests, catalogue, redaction, model client, CLI** | none that others read | parsing, constant tables, text processing, HTTP | |

| Component | Hard | Correct when |
|---|---|---|
| Engagement service | manifests are read before the transaction that uses them; registrations of one engagement interleave; aliases are shared by engagements; sets are signed in iteration order | one active manifest per engagement; revisions of an alias without gap, owned by one engagement; tokens bind revisions that exist; nothing is built on a revision that does not verify |
| Policy engine | asset, token and manifest are read outside the transaction; action ids are retried; two callers meet at a limit; approvals are reused; expiry races with consumption | a grant stays inside token, revision, manifest, task and approval; grants, decisions, budget and audit agree; each grant is used once, in time |
| Artifact store, vault | callers share temporary names; crashes between file steps; file I/O under the database lock | what is recorded can be read back whole; every call ends |
| Authorization registry | a manifest is several transactions | revisions without gap; assets never without their engagement |
| Single-file policy engine | stale engagement, asset and time; a denial is a rollback and then a second transaction; the R4 window is pruned by the caller's time | as for the policy engine; an unforked audit chain per engagement |
| Finding lifecycle | the verdict is decided from two earlier reads and written without looking | a verdict rests on attached evidence; a signal is never confirmed; a rejection stands |
| Tool operator | everything after the consumption may raise or die; the engagement changes between grant and run | every consumption has one run or a named way to have lost it; a run rests on its evidence and stays within its grant |
| Process operator | the switch is read long before the start; timeout, signals, exit and cancellation race; helpers hold the pipes | one process for a grant; no call that begins while the switch is armed starts one; every call ends |
| Review | a chain of some forty commits, which dies anywhere, beside an edited repository and other callers of the findings | evidence can be followed; what is reported rests on its own evidence; a review ends |
| Key files | two first starts; a crash between create and write | one key for all, or an error |

`PROJECT.json` lists 40 hazards at the lines where they bite, with the properties that cover
them; those without a property say why.

## 2. Modules

| Module | Models | Checked by |
|---|---|---|
| `VersionedAssets` | the abstract promise "immutable versioned asset identities" | as a property of `EngagementService` |
| `EngagementService` | `engagement/service.py` | `engagement_core` |
| `GrantLedger` | the abstract promise "short-lived, single-use execution grants" | as a property of `PolicyEngine` |
| `PolicyEngine` (extends `EngagementService`) | `policy/engine.py` on top of the service | `policy_drift`, `policy_race`, `policy_engagement_ceiling` |
| `ToolOperator` (extends `PolicyEngine`) | `tools/operator.py` on top of the engine, with the rows the stores write | `tool_operator` |
| `ContentStore` | the abstract promise of a content-addressed store: all or nothing, once and for all | as a property of `EvidenceStorage`; used by `RepositoryReview` |
| `EvidenceStorage` | `ArtifactStore.persist` and `CredentialVault.store` of both generations | `storage` |
| `FindingLifecycle` | `findings.py` and the policies and oracles of `evidence.py` | `finding_verdicts` |
| `RepositoryReview` (extends `FindingLifecycle`, instantiates `ContentStore`) | `CyberKimi.review_repository`, `EvidenceStore.record_text` | `repository_review` |
| `AuthorizationRegistry` | `authorization.py`, `CyberKimi.register_manifest` | `single_file_policy` |
| `SingleFilePolicy` (extends `AuthorizationRegistry`) | `policy.py` on top of the registry | `single_file_policy`, `single_file_unusable_grant` |
| `ProcessOperator` (extends `SingleFilePolicy`) | `operator.py` on top of the engine: kill switch and processes | `process_operator` |
| `KeyFiles` | key creation in `config.py` and `orchestrator.py` | `key_files` |
| `...Proofs` | theorems about the module of that name; `RepositoryReviewProofs` also holds those of `FindingLifecycle`, `SingleFilePolicyProofs` those of `AuthorizationRegistry` | TLAPS |
| `MC...` | instances | |

### How state and actions correspond to the code

**Transactions are steps.** Both generations write in `BEGIN IMMEDIATE` transactions, which
exclude each other, so one transaction is one step. Whatever is read *before* it is a step of
its own: a call holds what it has read in a record (`pending`, `auth`, `verifying`, `calls`),
and everybody else may act in between. This is where the interesting behaviours come from.
A transaction that fails, and a process that dies, rolls back: the call's record is dropped
(`Rollback`, `Abandon`, `GiveUp`, `LeaveRegistration`).

**EngagementService.** `engagements`, `aliases`, `revisions`, `tokens` and `audit` are the tables;
`pending[p]` is what process `p` read before its transaction. `BeginRegister`,
`BeginProgress`, `BeginIssue` are the parts of the three methods before the transaction,
`CommitRegister`, `CommitProgress`, `CommitIssue` the transactions. `SignatureOutcomes` models that
a signature over a set of two or more effects may not verify after it was read back.

**PolicyEngine.** `auth[a]` is the authorization an agent is inside, at one of the steps
*verified* (token, manifest and asset read: `StartCall`, `StartSecondPass`), *refused* or
*selected* (`Evaluate`, everything before the transaction), *retry* (first pass refused with
an adjustment). `RecordRefusal`, `RequireApproval`, `Permit` and `Reject` are the transactions and
`ConsumeGrant` is `consume_grant`, whose transaction repeats every check that could have changed.
Arguments are an exact part and a bounded number, which is all that approvals distinguish.

**FindingLifecycle.** `BeginVerify` reads the finding, `Decide` reads the evidence (in another
connection) and computes the verdict, `WriteVerdict` writes it. The policies and oracles are
functions of the set of attached records, down to types, classes, `matched` and `vault_refs`.

**EvidenceStorage.** Files are inodes named by the call that created them; names are links.
A call of `persist` or `store` opens (creating or truncating), writes, renames and records, and may
raise or die at each step. `Packaged` separates the names that belong to the package's stores
(shared temporary name, vault row inside the transaction) from those of the single file (own
temporary name, removed on an exception, no vault table).

**AuthorizationRegistry, SingleFilePolicy.** The documents are the rows: an engagement revision
is the manifest itself. `registering[p]` is the loop of `register_manifest`, one transaction per
row. `StartAuthorize` is what the caller reads before it calls `authorize`; `Permit` is the committed
transaction, `Deny` the rolled-back one, `RecordDenial` the second transaction that audits it;
`StartConsume` checks signature and expiry, `Consume` is the transaction. An audit event's
`prior` is the event whose hash it carries. The tables compare times as text, so the model
assumes one `Zone` for an installation. `single_file_policy` gives times with an offset, where a
one-effect grant verifies and `consume_grant` can be studied; `single_file_unusable_grant` is the
same instance under UTC.

**ToolOperator.** `executing[o]` is the `execute` call of an operator: *consumed* (the grant is
spent, `Begin`), *running* (asset, active manifest and profile looked up, run id made:
`StartRun`), *persisted* (`PersistArtifact`, then `StoreSecret` once for each secret), *evidenced*
(`RecordEvidence`), and then the run (`RecordCompleted`), or *failing* (`RunFails`, `Fail`) and the failed
run (`RecordFailed`), which is the `except` clause. `Lose` is a process that dies, or a failed
run that cannot be recorded either; `lost` remembers its grant. A run in the model also names
the manifest that was active, which the table does not.

**ProcessOperator.** `operating[a]` is an `execute` call: *checked* (`Execute`: switch, command and
profile), *consumed*, *communicating* (the process runs), *terminating* (after `TimeOut`). The
processes are external: a leader, and whether a helper in its group holds the pipes; `Spawn` and
`Exit` are theirs, they may ignore SIGTERM and never SIGKILL. `armings` counts how often a
switch was armed, and a call and a process remember the count they saw. `process.wait()` is taken to return when
the leader is gone. Helpers that leave the group, and those that do not hold the pipes, are not
modelled: no line of `execute` tells them from none.

**RepositoryReview.** `reviewing[r]` is the review's place: the kinds of record it still has to
write, the signal it is at and the content it read for it. One record is `PersistArtifact`, `IndexArtifact`,
`StoreCandidate` for each secret, `InsertEvidence`; a signal is four records, then `Create`, `Attach`
four times, `Suppose`, `Verify`, `Finalize`. The two stores are an instance of `ContentStore`, which
the `storage` run shows the single-file stores to implement. `Edit` changes the repository,
`OtherCaller` moves and verifies findings. A file has at most one signal; the scan is one step, since files are
independent of each other; the text of the inventory yields no secret; other callers
attach no evidence here (`FindingLifecycle` lets them).

**KeyFiles.** A start gets the signing key and then the vault key; `Load`, `Refuse`, `Miss`, `Open`,
`Collide`, `Write` are the branches of the three `_load_or_create` functions. A restart is one more
element of `Starts`. A key set in the environment leaves the files alone and is left out. The
few bytes of a key arrive in one write.

**Operators named as broken variants** (`NextRevisionStuck`, `UnspentNever`, ...) are not part of any
specification. Each stands before the definition it distorts; substituting it must make TLC
report the property that `PROJECT.json` pairs with it, which shows that the property is able
to fail for a bug of that kind.

## 3. Runs

| Run | Instance | Shows |
|---|---|---|
| `engagement_core` | two processes, two engagements with a common alias, four manifests | one active manifest; gap-free chains; tokens bind existing revisions; a revision that fails its own signature stays the last of its alias; progressions authorized by the manifest they read; refinement of `VersionedAssets` |
| `policy_drift` | one agent, with re-registration, progression and clock between its steps | a grant stays within scope and approval; the fallback is audited; refinement of `GrantLedger` |
| `policy_race` | two agents, a repeated action id, one R4 limit, two budgets | records of a permit agree; budgets add up and are not passed; R4 stays gated |
| `tool_operator` | one agent, two operators, two manifests that differ in flags, outputs that fit and that do not | a spent grant has one run or a reason; runs rest on evidence and stay within grants; `authorize_adaptive` returns; consumptions are answered |
| `storage` | three calls, two contents, two vault items | a truncated file has a call to answer for it; vault rows are readable; calls end; refinement of `ContentStore` by the single-file names |
| `finding_verdicts` | two verifications of one finding, five records | verdicts rest on evidence; a rejection stands; a signal is never confirmed |
| `repository_review` | one review, two files, one other caller, two disturbances | evidence is backed by files and vault; reported findings rest on their four records; reviews end |
| `single_file_policy` | two registrars, two agents, two revisions | revisions without gap; assets follow engagements; grants, approvals, budget, rate limit and audit chain agree |
| `process_operator` | two agents that race for one grant, a switch armed twice, a command of another profile | the switch is honoured by later calls; one process for a grant; calls end |
| `key_files` | two single-file starts, three of the package, one of which may not create | single-file starts agree; settled keys stay |

Type invariants are in no run: for the modules with a proof module they are proved for
every instance, from the same definitions (section 4).

`CHECK_DEADLOCK FALSE` is set where the program may simply stop: nothing obliges a caller to
register, authorize or verify again, and the bounds end every behaviour.

**Bounds.** `MaxRevision` (revisions of an alias), `MaxTime` (instants) and `MaxEvents` (a denial
is audited only below that number) keep counters finite; they appear only as guards.
Two of everything that races is enough for the hazards listed: each is a conflict between one
step of one actor and one read of another. Three revisions of an alias suffice for a
changed, a reverted and a progressed content. Time needs an instant before an expiry, the
expiry, and for the R4 window one beyond the hour. Limits are 1 and 2, so that the boundary
and the step past it are both reached. Five evidence records are the smallest set that
satisfies the `secret_exposure` policy and also holds a record that must not count.
The instances take *one* finding and *one* asset for the policy runs: findings do not read each
other's rows, and an authorization reads one asset.
`MaxArmings` is 2: a switch armed, cleared and armed again is what tells a call that read it in
between from one that read it before. `MaxDisturbances` bounds edits and moves of other callers to
two: one to lose the file or the secret after the scan, one to move the finding.
Symmetry is used for processes, agents and callers only, and only in runs without liveness.

**Fairness.** `FairPolicySpec` assumes weak fairness of an agent's own steps: after `authorize_adaptive`
has started, the code between two transactions does not block, and `BEGIN IMMEDIATE` waits for
a lock that another transaction releases at its end. `FairStorageSpec` assumes it of the next
step of a storage call; a process that dies has none. `FairToolSpec` assumes it of the steps of a
started `execute`: handlers read files and return, stores may raise and thereby end it.
`FairProcessSpec` assumes it of `execute` in its event loop, whose timers fire: nothing is assumed of
the process it waits for. `FairReviewSpec` assumes it of a review. Nothing is assumed about callers,
the clock, exceptions or crashes.

### Where the code and what is said of it differ

Two runs expect a violation; each is a statement of a test or message that the code does not
keep.

* `policy_engagement_ceiling`: budgets are counted per task, and `max_engagement_tool_calls` is
  compared with nothing (`policy/engine.py:301`).
* `single_file_unusable_grant`: `_create_grant` signs `isoformat()` times and sorted effects,
  `consume_grant` verifies pydantic's JSON form of them (`policy.py:388`, `policy.py:139`); for UTC
  times the two always differ.

The models also showed the following, which no run repeats.

* `progress_asset` signs `allowed_effects` in set order (`engagement/service.py:153`) and verification
  re-encodes the set it reads back; with two or more effects the alias may not resolve
  afterwards. `UnverifiedRevisionsFrozen` says what still holds.
* `verify_and_finalize` writes over confirmed and rejected findings (`findings.py:148`), which
  `ALLOWED_TRANSITIONS` gives no successors (`findings.py:29-30`).
* Two `persist` calls of one content share `<digest>.tmp` (`evidence/store.py:26`); the second truncates
  what the first is about to rename and record. `TruncationExplained` says that nothing else does.
* A grant whose profile the engagement has withdrawn is spent without a run
  (`tools/operator.py:50-57`), and a grant whose environment is refused without a process
  (`operator.py:130-142`).
* A process may start while the kill switch is armed, when its call read the switch before
  (`operator.py:117`), and arming does nothing about processes that run.
* A call that is cancelled leaves its process running (`operator.py:156`: only `TimeoutError` is
  handled); `ProcessesAccounted` names this case.
* Two first starts of the package may each keep a key the file does not hold (`config.py:75-86`), and
  a start of it that reads between truncation and write takes the empty key.
* A single-file start that dies between creating and writing a key file leaves one that every
  later start refuses (`orchestrator.py:82`).

* A progression or an authorization that read its manifest before a newer one was registered
  goes through under the older one (`engagement/service.py:136`, `policy/engine.py:70`). The
  properties say what still holds: the scope of the manifest that was read.
* `REQUIRE_APPROVAL` stores a decision and no audit event (`policy/engine.py:129`).
* `transition` reaches `confirmed` from `supported`, `reproduced` and `disputed` without asking the
  evidence policy (`findings.py:84`); no caller does so.
* A `register_manifest` that stops half way cannot be repaired with the same manifest: the
  engagement revision exists, and an alias left behind stays unregistrable, since an asset
  carries the manifest's revision (`manifest.py:83`) and must start at 1
  (`authorization.py:92`). With two or more effects the asset signature is verified in an
  order that may differ from the signed one (`manifest.py:89`, `authorization.py:74`), which is one
  way to stop there.
* An R4 caller that sleeps on its time is judged by a window that later callers have pruned
  (`policy.py:351`); `R4RateLimited` is stated for grants that are in order of time.

## 4. Proofs

All theorems hold for every value of the constants that satisfies the named assumptions of
the modules (`ManifestAssumption`, `PolicyManifestAssumption`, `RequestAssumption`,
`ProfileAssumption`, `TaskAssumption`, `RecordsAreRows`, `ControlManifestAssumption`, ...). These
are the pydantic validators of the code and the disjointness of `None` from the other values.
Three are worth naming: `ToolAssumption` (a base profile requires no flag, `tools/models.py:62`) is what
`FallbackAlwaysAudited` rests on, `WindowIsNumbers` says that the window and the limit of R4 are numbers, and
`TempNamesAreNew` that the uuid in a temporary name of the single file is no digest.

Every invariant and every action property that a run checks is also a theorem, and so are the three
refinements; TLC had checked each of them on an instance before it was proved.

**EngagementServiceProofs.** `TypeCorrect`. `VersionChainAlways`: both writing transactions
*extend* the chains (`RegisterExtends`, `ProgressExtends`: the new rows carry the numbers after
the current ones, and the alias points to them), and an extension keeps the chains
(`ExtensionKeepsChain`). `TokensAlwaysBind` is not inductive alone: a token is issued from a manifest that
was read earlier, so `TokenInv` adds that the manifest a call holds is registered, that a
registered manifest is determined by id and revision, and that the manifest of every token is
registered. Inside the transaction every asset of the manifest resolves to a revision row
(`BindExists`), and neither registered manifests nor rows are ever removed (`RevisionsGrow`).
`OneActiveAlways` needs only the types. `UnverifiedRevisionsAlwaysFrozen` needs
`FrozenInv == ClaimsExist /\ UnverifiedRevisionsFrozen`: an unverifiable revision is the last of its alias
(`UnverifiedUnresolved`), so every later lookup of the alias raises before it can be built on.
`ProgressionAlwaysAuthorized` is an action property: a registration checks the flag of the manifest it
holds inside its transaction, a progression checked it when it read it, and `ProgressAllowed` says that
it still holds that manifest. `ServiceImplementsVersionedAssets` uses that `VersionChain` makes the row
of an alias and a number unique, so that an alias has one content for each number
(`HistoriesComplete`); an extension appends to the histories it extends (`HistoryGrows`) and leaves the
others alone (`HistoryKept`), whatever rows it adds elsewhere.

**PolicyEngineProofs** takes the service's invariants over (a step of the engine is a step of the
service or leaves its tables alone). The invariant is
`EngineInv == PolicyTypeOK /\ VersionChain /\ CallInv`, where `CallInv` says of a call *what it
established when it read*: the token is issued, a call that was refused has a kind, and the
row, profile and limits of a selected call satisfy the checks of `Evaluate`. It is needed because
`Permit` checks none of it again. `GrantsStayWithinScope` and `ApprovalAlwaysCovers` follow: what was
established holds when the grant is written, and tokens, revisions and approvals only grow.
`GrantsImplementLedger` shows that the initial states map to the ledger's and that every step appends
an entry for a new action (with `GrantsProposed`: granted actions are in `proposed`), spends a live
one, advances the clock or stutters.
`GrantRecordsAlwaysAgree` goes grant by grant: a step that leaves a grant, the events that name it and
its decision alone leaves them in agreement (`AgreementStays`), and the other steps are a permit, whose
event is the first to name the new grant (`EventsNameGrants`), a consumption and a refusal.
`FallbackAlwaysAudited` is about two passes that are transactions of their own, so `FallbackInv` says what a
call in its second pass owes to the first: the adjustment is stored and audited, and neither is ever
taken back. `R4AlwaysGated` counts the events the engine counts: each R4 grant has one
(`R4Counted`), and a permit looks at their number in its own transaction.
`BudgetAlwaysAccounts` needs the sum of a sequence, which `Total` takes from the one function of running
sums. That this function exists and is unique is an induction over data; it is had from
`LeastElement` (a set of naturals that is not empty has a least one, proved from the finiteness of
intervals), applied to the set of lengths, or of indices, at which the claim fails.

**ToolOperatorProofs.** `OperatorImplementsPolicy`: every step of the composition is a step of the
engine or leaves its tables alone, so the engine's theorems carry over (`ExecutedGrantsWithinScope`,
`ExecutionKeepsEngine`), and by `EngineImplementsService` those of the service (`ExecutionKeepsEngagements`).
`BaseInv` collects what is needed of the engine (`EngineInv`, `TokenInv`, `OneActiveManifest`, that a call in
progress chose a profile of its tool, that a grant names a registered manifest). On top of it
`ToolInv == ToolTypeOK /\ CallsHeld /\ RunsHeld /\ GrantsUsedOnce /\ LostConsumed /\ SpentUsed` says that the grant of
a call, a run or a loss is consumed, and that no two of them share one; without `GrantsUsedOnce` the
accounting of one call could be broken by another's step. `SpentGrantsAlwaysAccounted` and
`RunsAlwaysWithinGrants` follow. `RunsAlwaysRestOnEvidence` needs `EvidenceInv` beside it: what a call has
stored so far for the step it is at (`CallsStored`: artifact, the secrets taken off its list, then one
evidence row), that a run id belongs to one call or one run (`RunIdsOnce`), without which a second row
or event could name the same run, and that an evidence row can be traced to a run, a call or a loss
of its grant (`EvidenceTraced`) wherever the call ends.

**RepositoryReviewProofs**, first part: the finding lifecycle by itself. The invariant is
`FindingInv == FindingTypeOK /\ CallsStand /\ VerdictsRestOnEvidence /\ RejectionStands`.
`CallsStand` says that a decision a call holds still rests on evidence when it is written: it holds as evidence
links only grow and the policies are monotone in them (`OracleMonotone`, `MissingShrinks`).
`RejectionAlwaysStands` rests on rejected findings having no successors, `SignalsAreNeverConfirmed` on the
table and on the states `verify_and_finalize` accepts.

**RepositoryReviewProofs**, second part: reviews. `StoreInv` (types, what a review between two writes has already stored, and
`EvidenceBacked`) gives `EvidenceAlwaysBacked` for every place a review can die at, and
`CheckedSecretsAlwaysKept`. `ReviewImplementsFindings` shows that a review moves findings only by steps of
`FindingLifecycle`, so `FindingInv` holds with reviews among the callers (`ReviewedVerdictsRestOnEvidence`).
`TellInv` adds what a review holds of its own finding: the evidence rows it has to attach exist and
belong to its task, a link always leads to an evidence row, and a verification call of the review is
about its own finding. `ReportsAlwaysRestOnFindings` follows although others move the finding meanwhile.

**SingleFilePolicyProofs.** For the registry, `RegistryInv` adds to the two properties the types,
that a registration goes through the assets of a registered revision, and that every non-empty table
of revisions *has* a latest row: without `RevisionsHaveLatest` the `CHOOSE` of `Latest` says nothing, and
the induction over revision numbers that would give it is avoided by carrying it along (`NextExtends`).
For the engine, `ControlInv` adds that what an agent holds is registered and belongs together
(`AskingStands`: rows are never removed, `RegistryGrows`) and that an agent about to consume checked the
grant in time (`ConsumingStands`). A grant is written from what was read before its transaction, so
these are what `GrantsStayWithinRevisions` rests on. Only `Permit` and `Consume` touch approvals,
budgets and grants (`Elsewhere`); `PermitAppends` and `ConsumeMarks` say how.
`R4AlwaysRateLimited` is not inductive because the window is pruned by each caller's time:
`WindowsKept` says that a grant whose row is gone is `Outlived`, by a later grant more than an hour
after it. A grant that is not earlier than all before it then finds every row it must count.
`AuditAlwaysTellsGrants` is proved from `AuditInv`: the log is `Linked` (each event carries the greatest
index of its engagement before it, which the `CHOOSE` of the model picks by `GreatestElement`) and tells one
`Story` of each grant - one permit, and one consumption after it if and only if the row is
marked - and of nothing else. That the consumption came in time is `ConsumedInTime`.

**ProcessOperatorProofs.** `ProcessStep` shows each step to be one of the engine or none, which gives
`ProcessOperatorImplementsControl` and with it all theorems of `SingleFilePolicyProofs`
(`ProcessesKeepControl`). `OperatorInv` adds: a
call that has not started its process read the switch while it was clear, and if it is armed now, it
was armed since (`SwitchRead`); an agent consumes only inside its own call (`ConsumeHeld`); a call that has consumed its grant shares
it with no other call and no process (`ConsumedHeld`); a call that waits has a process for its own
grant (`PidsHeld`).

**EvidenceStorageProofs.** The properties are about what a name shows; the invariant is about who may
still write the file behind it. `FilesNamed`: a file exists from the first time it is opened, and every link
it ever has is of the name it was created for. `PartsExplained`: a file that is partial is held by a call
that is writing it, raised or died. `ItemsHeld`: a call of the package's vault has the database lock,
its item has no row, and the temporary file it has written is the one of its item; two calls on one
item would both hold the lock. `OwnFiles`: a file of the single file is opened by its creator only, and
not after it got a final name. `TruncationAlwaysExplained`, `VaultRowsAlwaysReadable` and
`StoresImplementContentStore` follow; for the last one, `Replace` is `Keep`, `RecordArtifact` is `Index`, and
every other step, and all that happens to names of the package, stutters.

**KeyFilesProofs.** `KeyInv == KeyTypeOK /\ OneWriter /\ SingleFileKeysAgree`: exclusive creation leaves a file one
writer, so every single-file start that holds a key holds the one in the file. `SettledKeysAlwaysStay` is an
action property from the same invariant.

**Only model-checked:** liveness (`AuthorizeReturns`, `CallsEnd`, `ConsumptionsAnswered`,
`ExecutionsEnd`, `ReviewsEnd`), which needs ENABLED and is out of the prover's reach. The two expected
violations are counterexamples and have nothing to prove.

## 5. Not modelled

* **Retry manager**: `next_outcome` is a function of an attempt and a failure category, without
  state; nothing in the repository calls it, so there is no loop to model.
* **Tool handlers**: what they return is any value the operator's code distinguishes; the
  handlers themselves are functions of text or of a file tree.
* **Redaction, secret extraction, repository scanners**: functions of text. `RepositoryReview` models that they
  find signals and secrets in a content, any ones; their patterns and the scanner's limit of
  200 results are left out.
* **Manifest parsing, command line**: input and output. Of the configuration the key files are modelled.
* **The model client**: one HTTP conversation that no other component reads.
* **The tool catalogue**: a constant table; the models take any tool manifest.
* **Output of processes**: capture and truncation change no state.
* Signatures and canonical encodings as such: a signature is what its verification accepts.
* The failure of SQLite itself, and reuse of process ids by the operating system.

## 6. Plan

**Done**, in this order: `EngagementService`, `PolicyEngine`, `FindingLifecycle`, `EvidenceStorage`,
`AuthorizationRegistry`, `SingleFilePolicy`, `ToolOperator`, `RepositoryReview`, `KeyFiles`, `ProcessOperator`,
each with its run, and the theorems of section 4.

**Next**, theorems that no run states yet:

1. `RepositoryReview` takes from `ContentStore` that what is recorded is complete and stays so; a theorem of the
   abstract store by itself would say what the refinement buys.
2. A bound on how far a caller that sleeps on its time can take an engagement past the R4 limit;
   `R4RateLimited` is said of grants in order of time.
3. What is left of `KeyFiles` for the package: which starts may hold a key that the file does not.
