--------------------------- MODULE EngagementService ---------------------------
(***************************************************************************)
(* Engagement registration, versioned assets and scope tokens              *)
(* (src/src/cyberkimi/engagement/service.py).                              *)
(*                                                                         *)
(* Every write of the service happens inside one BEGIN IMMEDIATE           *)
(* transaction (persistence/database.py), so it is one step here.  What a  *)
(* method does before it opens its transaction - read the clock, read the  *)
(* active manifest in a session of its own - is a separate, earlier step   *)
(* of the calling process, and other processes may run in between.         *)
(***************************************************************************)
EXTENDS Integers

CONSTANTS
    Procs,         \* processes that call the service
    Engagements,   \* engagement ids
    Aliases,       \* asset aliases: one primary key for all engagements
    Contents,      \* the declared fields of an asset: records with "type" and "effects"
    Manifests,     \* the engagement manifests an operator may register
    MaxRevision,   \* bound: revisions of one alias
    MaxTime,       \* bound: the last instant of the clock
    None           \* no row, no call

ManifestAssumption ==
    \A m \in Manifests :
        /\ m.id \in Engagements
        /\ m.revision \in Nat \ {0}
        /\ m.expires \in Nat
        /\ m.progression \in BOOLEAN
        /\ DOMAIN m.scope \subseteq Aliases
        /\ \A a \in DOMAIN m.scope : m.scope[a] \in Contents

ASSUME ManifestsWellFormed == ManifestAssumption
ASSUME MaxRevisionPositive == MaxRevision \in Nat \ {0}
ASSUME MaxTimeIsNat == MaxTime \in Nat

VARIABLES
    clock,         \* utc_now()
    engagements,   \* table engagements: a manifest revision and its active flag
    revisions,     \* table asset_revisions
    aliases,       \* table asset_aliases: alias -> owner and current revision
    tokens,        \* table scope_tokens, with the claims each token carries
    audit,         \* table audit_events
    pending        \* the call each process is inside of, after its reads

tables == <<engagements, revisions, aliases, tokens, audit>>
vars == <<clock, engagements, revisions, aliases, tokens, audit, pending>>

AliasRow == [engagement : Engagements, current : Nat \ {0}]

\* "parent" is the number of the parent revision of the same alias, 0 for none.
\* "verifies" is whether the stored signature matches the one _resolve_asset
\* recomputes from the row.
RevisionRow ==
    [alias : Aliases, revision : Nat \ {0}, engagement : Engagements,
     content : Contents, parent : Nat, verifies : BOOLEAN]

EngagementRow == [manifest : Manifests, active : BOOLEAN]

\* engagement_id, engagement_revision and expires_at of the claims are those of the
\* manifest; "assets" maps an alias to the revision number it is bound to, 0 when
\* the alias is not in the claims.
Token == [manifest : Manifests, assets : [Aliases -> Nat]]

AuditEvent ==
    [event : {"engagement.registered"}, manifest : Manifests, assets : [Aliases -> Nat]]
        \cup
    [event : {"asset.revision_created"}, engagement : Engagements,
     alias : Aliases, revision : Nat \ {0}]

Call == [op : {"register", "progress", "issue"}, manifest : Manifests]

ASSUME NoneIsNoRow == None \notin AliasRow \cup Call

--------------------------------------------------------------------------------
\* get_manifest(engagement_id): the manifests a read of the active row returns.
ActiveManifests == {r.manifest : r \in {x \in engagements : x.active}}

CurrentRow(a) ==
    CHOOSE r \in revisions : r.alias = a /\ r.revision = aliases[a].current

\* _resolve_asset by alias: the alias row belongs to the engagement, the row it
\* points to exists and its signature verifies.
\* Broken variant: the row is returned without verifying its signature.
ResolvesUnsigned(e, a) ==
    /\ aliases[a] # None
    /\ aliases[a].engagement = e
    /\ \E r \in revisions : r.alias = a /\ r.revision = aliases[a].current

Resolves(e, a) ==
    /\ aliases[a] # None
    /\ aliases[a].engagement = e
    /\ \E r \in revisions : r.alias = a /\ r.revision = aliases[a].current
    /\ CurrentRow(a).verifies

\* progress_asset signs model_dump(mode="json"), where allowed_effects is a list
\* in the iteration order of a frozenset; _resolve_asset signs the sorted list.
\* With two effects or more the order is whatever the hash seed makes it.
SignatureOutcomes(c) ==
    IF \E x, y \in c.effects : x # y THEN BOOLEAN ELSE {TRUE}

\* Broken variant: a revision that is not advanced.
NextRevisionStuck(a) == IF aliases[a] = None THEN 1 ELSE aliases[a].current

NextRevision(a) == IF aliases[a] = None THEN 1 ELSE aliases[a].current + 1

\* The alias row keeps its engagement; a new one is created for the caller's.
Owner(a, e) == IF aliases[a] = None THEN e ELSE aliases[a].engagement

\* _register_initial_or_progressed_asset: an alias that is new or whose
\* declaration differs from its current revision gets a new revision.
Changed(m) ==
    {a \in DOMAIN m.scope :
        aliases[a] = None \/ CurrentRow(a).content # m.scope[a]}

Unregistered(m) ==
    \A r \in engagements : ~(r.manifest.id = m.id /\ r.manifest.revision = m.revision)

Registrable(m, a) ==
    aliases[a] # None => Resolves(m.id, a) /\ (a \in Changed(m) => m.progression)

\* Broken variants: no look at the revisions already registered, none at the flag.
RegisterAcceptedTwice(m) == \A a \in DOMAIN m.scope : Registrable(m, a)
RegisterAcceptedUnflagged(m) ==
    Unregistered(m) /\ \A a \in DOMAIN m.scope : aliases[a] # None => Resolves(m.id, a)

RegisterAccepted(m) == Unregistered(m) /\ \A a \in DOMAIN m.scope : Registrable(m, a)

\* The "assets" claims of a token: the alias' revision after this step, for the
\* aliases the manifest declares.
Bind(m, new) ==
    [a \in Aliases |-> IF a \notin DOMAIN m.scope THEN 0
                       ELSE IF a \in new THEN NextRevision(a) ELSE aliases[a].current]

NewRow(e, a, c, ok) ==
    [alias |-> a, revision |-> NextRevision(a), engagement |-> e, content |-> c,
     parent |-> NextRevision(a) - 1, verifies |-> ok]

\* Broken variant: the earlier revisions are left active.
DeactivateNone(e) == engagements

Deactivate(e) ==
    {IF r.manifest.id = e THEN [r EXCEPT !.active = FALSE] ELSE r : r \in engagements}

--------------------------------------------------------------------------------
Init ==
    /\ clock = 0
    /\ engagements = {}
    /\ revisions = {}
    /\ aliases = [a \in Aliases |-> None]
    /\ tokens = {}
    /\ audit = {}
    /\ pending = [p \in Procs |-> None]

\* register, lines before the transaction: the expiry check.
BeginRegister(p, m) ==
    /\ pending[p] = None
    /\ m.expires > clock
    /\ pending' = [pending EXCEPT ![p] = [op |-> "register", manifest |-> m]]
    /\ UNCHANGED <<clock, tables>>

\* register, the transaction.
CommitRegister(p) ==
    /\ pending[p] # None
    /\ pending[p].op = "register"
    /\ LET m   == pending[p].manifest
           new == Changed(m)
       IN /\ RegisterAccepted(m)
          /\ \A a \in new : NextRevision(a) <= MaxRevision
          /\ engagements' = Deactivate(m.id) \cup {[manifest |-> m, active |-> TRUE]}
          /\ revisions' = revisions \cup {NewRow(m.id, a, m.scope[a], TRUE) : a \in new}
          /\ aliases' = [a \in Aliases |->
                            IF a \notin new THEN aliases[a]
                            ELSE [engagement |-> Owner(a, m.id), current |-> NextRevision(a)]]
          /\ tokens' = tokens \cup {[manifest |-> m, assets |-> Bind(m, new)]}
          /\ audit' = audit \cup {[event |-> "engagement.registered",
                                   manifest |-> m, assets |-> Bind(m, new)]}
    /\ pending' = [pending EXCEPT ![p] = None]
    /\ UNCHANGED clock

\* progress_asset, lines before the transaction: the active manifest is read and
\* must allow progression.
BeginProgress(p) ==
    /\ pending[p] = None
    /\ \E m \in ActiveManifests :
          /\ m.progression
          /\ pending' = [pending EXCEPT ![p] = [op |-> "progress", manifest |-> m]]
    /\ UNCHANGED <<clock, tables>>

\* progress_asset, the transaction: any change but the asset type, on any alias of
\* the engagement, on top of whatever revision is current by now.
CommitProgress(p, a, c) ==
    /\ pending[p] # None
    /\ pending[p].op = "progress"
    /\ Resolves(pending[p].manifest.id, a)
    /\ c.type = CurrentRow(a).content.type
    /\ NextRevision(a) <= MaxRevision
    /\ \E ok \in SignatureOutcomes(c) :
          revisions' = revisions \cup {NewRow(CurrentRow(a).engagement, a, c, ok)}
    /\ aliases' = [aliases EXCEPT ![a].current = NextRevision(a)]
    /\ audit' = audit \cup {[event |-> "asset.revision_created",
                             engagement |-> pending[p].manifest.id,
                             alias |-> a, revision |-> NextRevision(a)]}
    /\ pending' = [pending EXCEPT ![p] = None]
    /\ UNCHANGED <<clock, engagements, tokens>>

\* issue_scope, lines before the transaction: the active manifest is read.
BeginIssue(p) ==
    /\ pending[p] = None
    /\ \E m \in ActiveManifests :
          pending' = [pending EXCEPT ![p] = [op |-> "issue", manifest |-> m]]
    /\ UNCHANGED <<clock, tables>>

\* issue_scope, the transaction: a token for that manifest, bound to the revisions
\* that are current now.  No audit event is written.
CommitIssue(p) ==
    /\ pending[p] # None
    /\ pending[p].op = "issue"
    /\ LET m == pending[p].manifest
       IN /\ \A a \in DOMAIN m.scope : Resolves(m.id, a)
          /\ tokens' = tokens \cup
                {[manifest |-> m, assets |-> Bind(m, {})]}
    /\ pending' = [pending EXCEPT ![p] = None]
    /\ UNCHANGED <<clock, engagements, revisions, aliases, audit>>

\* The transaction raises and is rolled back, or the process dies before it.
Rollback(p) ==
    /\ pending[p] # None
    /\ pending' = [pending EXCEPT ![p] = None]
    /\ UNCHANGED <<clock, tables>>

Tick ==
    /\ clock < MaxTime
    /\ clock' = clock + 1
    /\ UNCHANGED <<tables, pending>>

Next ==
    \/ \E p \in Procs :
          \/ \E m \in Manifests : BeginRegister(p, m)
          \/ CommitRegister(p)
          \/ BeginProgress(p)
          \/ \E a \in Aliases, c \in Contents : CommitProgress(p, a, c)
          \/ BeginIssue(p)
          \/ CommitIssue(p)
          \/ Rollback(p)
    \/ Tick

Spec == Init /\ [][Next]_vars

--------------------------------------------------------------------------------
\* Every table holds rows of its schema and every process is idle or in one call.
TypeOK ==
    /\ clock \in 0..MaxTime
    /\ engagements \subseteq EngagementRow
    /\ revisions \subseteq RevisionRow
    /\ aliases \in [Aliases -> AliasRow \cup {None}]
    /\ tokens \subseteq Token
    /\ audit \subseteq AuditEvent
    /\ pending \in [Procs -> Call \cup {None}]

\* register deactivates the earlier revisions in the transaction that inserts the
\* new one: an engagement never has two active manifests, and never none once it
\* has a row, whatever registrations race.
OneActiveManifest ==
    \A r \in engagements :
        \E s \in engagements :
            /\ s.manifest.id = r.manifest.id
            /\ s.active
            /\ \A t \in engagements :
                  t.manifest.id = r.manifest.id /\ t.active => t = s

\* "Immutable versioned asset identities": the rows of an alias are numbered 1, 2,
\* ..., current with no gap and no duplicate, each names the one before it as its
\* parent, and all belong to the engagement that owns the alias, however
\* registrations and progressions of several processes interleave.
VersionChain ==
    /\ \A r \in revisions :
          /\ aliases[r.alias] # None
          /\ r.revision <= aliases[r.alias].current
          /\ r.engagement = aliases[r.alias].engagement
          /\ r.parent = r.revision - 1
          /\ \A s \in revisions : s.alias = r.alias /\ s.revision = r.revision => s = r
    /\ \A a \in Aliases :
          aliases[a] # None =>
              \A n \in 1..aliases[a].current :
                  \E r \in revisions : r.alias = a /\ r.revision = n

\* A scope token is bound to asset revisions that exist, one for each alias its own
\* manifest revision declares, all owned by the engagement of that manifest - also
\* when it was issued from a manifest read before a newer one superseded it.  The
\* (id, revision) pair in its claims finds that manifest and no other, because a
\* registration refuses a pair that is taken.
TokensBindExistingRevisions ==
    \A t \in tokens :
        /\ \E r \in engagements : r.manifest = t.manifest
        /\ \A r \in engagements :
              r.manifest.id = t.manifest.id /\ r.manifest.revision = t.manifest.revision
                  => r.manifest = t.manifest
        /\ \A a \in DOMAIN t.manifest.scope :
              \E r \in revisions :
                  /\ r.alias = a
                  /\ r.revision = t.assets[a]
                  /\ r.engagement = t.manifest.id

\* progress_asset signs a set in iteration order and every reader verifies it sorted
\* (service.py:153, 386), so a progression may commit a revision that fails its own
\* signature check.  Nothing is ever built on one: it changes two effects or more, it
\* stays the last revision of its alias, and no token binds it.
UnverifiedRevisionsFrozen ==
    \A r \in revisions :
        ~r.verifies =>
            /\ r.revision = aliases[r.alias].current
            /\ r.revision > 1
            /\ \E x, y \in r.content.effects : x # y
            /\ \A t \in tokens : t.assets[r.alias] # r.revision

\* The tables implement the append-only histories of VersionedAssets: no step
\* changes, removes, renumbers or re-owns a version, and all the assets of one
\* registration are versioned together or not at all.
History(a) ==
    IF aliases[a] = None THEN <<>>
    ELSE [n \in 1..aliases[a].current |->
             (CHOOSE r \in revisions : r.alias = a /\ r.revision = n).content]

Abstract ==
    INSTANCE VersionedAssets WITH
        Owners  <- Engagements,
        owner   <- [a \in Aliases |-> IF aliases[a] = None THEN None
                                      ELSE aliases[a].engagement],
        history <- [a \in Aliases |-> History(a)]

ImplementsVersionedAssets == Abstract!Spec

\* An alias moves past its first revision only in a call whose manifest - the one
\* being registered, or the one that was active when progress_asset read it -
\* belongs to the owner and allows harness-managed progression.
ProgressionAuthorized ==
    [][\A a \in Aliases :
          aliases[a] # None /\ aliases'[a] # aliases[a] =>
              \E p \in Procs :
                  /\ pending[p] # None
                  /\ pending[p].manifest.progression
                  /\ pending[p].manifest.id = aliases[a].engagement
                  /\ pending'[p] = None]_vars
================================================================================
