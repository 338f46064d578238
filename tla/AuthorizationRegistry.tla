------------------------- MODULE AuthorizationRegistry -------------------------
(***************************************************************************)
(* Engagement and asset revisions of the single-file control plane         *)
(* (src/src/cyberkimi/authorization.py), and the way the orchestrator      *)
(* registers a manifest with them (CyberKimi.register_manifest).           *)
(*                                                                         *)
(* Each row is inserted in a transaction of its own that first looks up    *)
(* the revision before it: a manifest is one transaction for its           *)
(* engagement and then one for each of its assets, and the call may raise  *)
(* or die after any of them.                                               *)
(***************************************************************************)
EXTENDS Naturals, Sequences, FiniteSets

CONSTANTS
    Registrars,     \* processes that register manifests
    EngagementIds,
    Aliases,        \* asset aliases, numbered for all engagements together
    Manifests,      \* the manifests an owner may register
    None

\* An asset of a manifest is [alias, type, effects]; a manifest numbers its assets
\* with its own revision.
RegistryManifestAssumption ==
    \A m \in Manifests :
        /\ m.id \in EngagementIds
        /\ m.revision \in Nat \ {0}
        /\ m.assets \in Seq({m.assets[i] : i \in DOMAIN m.assets})
        /\ \A i \in DOMAIN m.assets : m.assets[i].alias \in Aliases
        /\ \A i, j \in DOMAIN m.assets : m.assets[i].alias = m.assets[j].alias => i = j

ASSUME RegistryManifestsWellFormed == RegistryManifestAssumption

VARIABLES
    engagementRows,  \* table engagement_revisions: the documents, which are manifests
    assetRows,       \* table asset_revisions
    registering      \* the register_manifest call of each process

registryVars == <<engagementRows, assetRows, registering>>

EngagementRowsOf(e) == {m \in engagementRows : m.id = e}
AssetRowsOf(a) == {r \in assetRows : r.alias = a}

\* ORDER BY revision DESC LIMIT 1
Latest(rows) == CHOOSE r \in rows : \A s \in rows : s.revision <= r.revision

NextRevision(rows) == IF rows = {} THEN 1 ELSE Latest(rows).revision + 1

\* Broken variant: a revision may be skipped.
ProgressesLoosely(revision, rows) == revision >= NextRevision(rows)

--------------------------------------------------------------------------------
\* "revision must progress from ... to ..."
Progresses(revision, rows) == revision = NextRevision(rows)

\* Broken variant: the new revision replaces the engagement's others.
WithEngagementOnly(m) == {r \in engagementRows : r.id # m.id} \cup {m}

WithEngagement(m) == engagementRows \cup {m}

AssetRow(m, asset) ==
    [alias |-> asset.alias, revision |-> m.revision, engagement |-> m.id,
     type |-> asset.type, effects |-> asset.effects]

\* asset_revisions signs the sorted effects, verification encodes the frozenset in the
\* order the hash seed of the process gives it.
EffectsVerify(effects) == IF \E x, y \in effects : x # y THEN BOOLEAN ELSE {TRUE}

\* latest_engagement
LatestEngagement(e) == Latest(EngagementRowsOf(e))

\* resolve_asset: of the engagement's own rows the latest, or the revision asked for
\* (0 stands for none); empty when it raises.
ResolvedAssets(alias, revision, e) ==
    LET own == {r \in AssetRowsOf(alias) : r.engagement = e}
    IN {r \in own : IF revision = 0 THEN r = Latest(own) ELSE r.revision = revision}

Registering(step, m, next) == [step |-> step, manifest |-> m, next |-> next]

InAssets(p) == registering[p] # None /\ registering[p].step = "assets"

--------------------------------------------------------------------------------
RegistryInit ==
    /\ engagementRows = {}
    /\ assetRows = {}
    /\ registering = [p \in Registrars |-> None]

\* register_manifest: register_engagement.
RegisterEngagement(p, m) ==
    /\ ~InAssets(p)
    /\ Progresses(m.revision, EngagementRowsOf(m.id))
    /\ engagementRows' = WithEngagement(m)
    /\ registering' = [registering EXCEPT ![p] =
                          Registering(IF m.assets = <<>> THEN "returned" ELSE "assets", m, 1)]
    /\ UNCHANGED assetRows

\* register_manifest: register_asset for the next asset of the manifest.  A signature
\* that does not verify and a revision that does not progress raise, and the assets
\* that are left stay unregistered.
RegisterAsset(p) ==
    /\ InAssets(p)
    /\ LET m     == registering[p].manifest
           i     == registering[p].next
           asset == m.assets[i]
       IN \E ok \in EffectsVerify(asset.effects) :
             \/ /\ ok
                /\ Progresses(m.revision, AssetRowsOf(asset.alias))
                /\ assetRows' = assetRows \cup {AssetRow(m, asset)}
                /\ registering' = [registering EXCEPT ![p] =
                       Registering(IF i = Len(m.assets) THEN "returned" ELSE "assets", m, i + 1)]
             \/ /\ ok
                /\ ~Progresses(m.revision, AssetRowsOf(asset.alias))
                /\ registering' = [registering EXCEPT ![p] = Registering("conflict", m, i)]
                /\ UNCHANGED assetRows
             \/ /\ ~ok
                /\ registering' = [registering EXCEPT ![p] = Registering("unsigned", m, i)]
                /\ UNCHANGED assetRows
    /\ UNCHANGED engagementRows

\* The process dies, an asset's location is gone, or a transaction fails.
LeaveRegistration(p) ==
    /\ InAssets(p)
    /\ registering' = [registering EXCEPT ![p] = None]
    /\ UNCHANGED <<engagementRows, assetRows>>

RegistryNext ==
    \E p \in Registrars :
        \/ \E m \in Manifests : RegisterEngagement(p, m)
        \/ RegisterAsset(p)
        \/ LeaveRegistration(p)

RegistrySpec == RegistryInit /\ [][RegistryNext]_registryVars

\* "revision must progress from ... to ..." (authorization.py:56 and 95), whatever
\* registrations interleave, fail or die half way: the revisions of an engagement,
\* and those of an alias across all engagements, are 1, 2, ... without gap or
\* duplicate.
GapFree(rows) ==
    /\ \A r, s \in rows : r.revision = s.revision => r = s
    /\ \A r \in rows : \A n \in 1..r.revision : \E s \in rows : s.revision = n

RevisionsGapFree ==
    /\ \A e \in EngagementIds : GapFree(EngagementRowsOf(e))
    /\ \A a \in Aliases : GapFree(AssetRowsOf(a))

\* An asset revision never stands alone: the engagement revision of the same number
\* that declared it, with these effects, is registered, although they are inserted
\* by separate transactions and other manifests may come in between.
AssetsFollowEngagement ==
    \A r \in assetRows :
        \E m \in EngagementRowsOf(r.engagement) :
            \E i \in DOMAIN m.assets : r = AssetRow(m, m.assets[i])
================================================================================
