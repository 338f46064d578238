------------------------- MODULE SingleFilePolicyProofs -------------------------
(***************************************************************************)
(* The registry and the policy engine of the single-file control plane,    *)
(* for any number of registrars, agents, manifests and requests: revisions *)
(* have no gaps and assets never stand without their engagement, a grant   *)
(* stays within the revisions it was decided from, approvals are           *)
(* explained by grants, and budgets count them - although every call goes  *)
(* by what its caller read before.                                         *)
(***************************************************************************)
EXTENDS SingleFilePolicy, TLAPS, FiniteSetTheorems

\* The rows of the tables and the calls in progress.
DeclaredAssets == UNION {{AssetRow(m, m.assets[i]) : i \in DOMAIN m.assets} : m \in Manifests}

RegistrationRow ==
    [step : {"assets", "returned", "conflict", "unsigned"}, manifest : Manifests, next : Nat]

OfferedProfiles ==
    UNION {{ToolManifest[r.tool].profiles[i] : i \in DOMAIN ToolManifest[r.tool].profiles} :
               r \in Requests}

ControlGrantRow ==
    [engagement : Manifests, asset : DeclaredAssets, request : Requests,
     profile : OfferedProfiles, issued : Nat, expires : Nat, verifies : BOOLEAN,
     consumed : Nat \cup {None}]

AskingRow ==
    [step : {"asking", "denied"}, request : Requests, engagement : Manifests,
     asset : DeclaredAssets, now : Nat]

ConsumingRow == [step : {"consuming"}, grant : Nat, now : Nat]

RegistryTypeOK ==
    /\ engagementRows \subseteq Manifests
    /\ assetRows \subseteq DeclaredAssets
    /\ registering \in [Registrars -> RegistrationRow \cup {None}]

ControlTypeOK ==
    /\ RegistryTypeOK
    /\ clock \in Nat
    /\ \A ap \in approvals : ap.expires \in Nat
    /\ usage \in [Roots -> [calls : Nat, runtime : Nat]]
    /\ grants \in Seq(ControlGrantRow)
    /\ calls \in [Agents -> AskingRow \cup ConsumingRow \cup {None}]

\* A registration goes through the assets of a registered revision.
RegistrationsStand ==
    \A p \in Registrars :
        InAssets(p) =>
            /\ registering[p].manifest \in engagementRows
            /\ registering[p].next \in DOMAIN registering[p].manifest.assets

\* What an agent read is registered and belongs together, and stays so.
AskingStands ==
    \A a \in Agents :
        At(a, "asking") =>
            /\ calls[a].engagement \in engagementRows
            /\ calls[a].asset \in assetRows
            /\ calls[a].asset.engagement = calls[a].engagement.id

\* An agent that is about to consume checked the grant in time.
ConsumingStands ==
    \A a \in Agents :
        At(a, "consuming") =>
            /\ calls[a].grant \in DOMAIN grants
            /\ calls[a].now < grants[calls[a].grant].expires

\* Consumption was in time.
ConsumedInTime ==
    \A i \in DOMAIN grants :
        grants[i].consumed # None => grants[i].consumed < grants[i].expires

--------------------------------------------------------------------------------
\* What each kind of step does to the registry.
LEMMA RegistryStep ==
    ASSUME [ControlNext]_controlVars
    PROVE  [RegistryNext]_registryVars
BY DEF ControlNext, controlVars, registryVars, StartAuthorize, Permit, Deny, RecordDenial,
       StartConsume, Consume, Abandon, Tick

LEMMA RegistryTypeStep ==
    ASSUME RegistryTypeOK, RegistrationsStand, [RegistryNext]_registryVars
    PROVE  RegistryTypeOK' /\ RegistrationsStand'
<1>. USE DEF RegistryTypeOK, RegistrationsStand, InAssets
<1>1. CASE UNCHANGED registryVars
  BY <1>1 DEF registryVars
<1>2. ASSUME NEW p \in Registrars, NEW m \in Manifests, RegisterEngagement(p, m)
      PROVE  RegistryTypeOK' /\ RegistrationsStand'
  <2>. DEFINE c == Registering(IF m.assets = <<>> THEN "returned" ELSE "assets", m, 1)
  <2>1. /\ engagementRows' = engagementRows \cup {m}
        /\ registering' = [registering EXCEPT ![p] = c]
        /\ UNCHANGED assetRows
    BY <1>2 DEF RegisterEngagement, WithEngagement
  <2>2. c \in RegistrationRow
    BY DEF Registering, RegistrationRow
  <2>3. c.step = "assets" => 1 \in DOMAIN m.assets
    <3>1. m.assets \in Seq({m.assets[i] : i \in DOMAIN m.assets})
      BY RegistryManifestsWellFormed DEF RegistryManifestAssumption
    <3>2. m.assets # <<>> => Len(m.assets) >= 1 /\ DOMAIN m.assets = 1..Len(m.assets)
      BY <3>1
    <3>. QED  BY <3>2 DEF Registering
  <2>4. c.manifest = m /\ c.next = 1
    BY DEF Registering
  <2>5. RegistryTypeOK'
    BY <2>1, <2>2
  <2>6. RegistrationsStand'
    BY <2>1, <2>2, <2>3, <2>4
  <2>. QED  BY <2>5, <2>6
<1>3. ASSUME NEW p \in Registrars, RegisterAsset(p)
      PROVE  RegistryTypeOK' /\ RegistrationsStand'
  <2>. DEFINE m == registering[p].manifest
              i == registering[p].next
  <2>1. /\ m \in Manifests /\ m \in engagementRows
        /\ i \in DOMAIN m.assets
        /\ registering[p] # None /\ i \in Nat
    BY <1>3 DEF RegisterAsset, RegistrationRow
  <2>2. m.assets \in Seq({m.assets[j] : j \in DOMAIN m.assets})
    BY <2>1, RegistryManifestsWellFormed DEF RegistryManifestAssumption
  <2>3. i # Len(m.assets) => i + 1 \in DOMAIN m.assets
    BY <2>1, <2>2
  <2>4. AssetRow(m, m.assets[i]) \in DeclaredAssets
    BY <2>1 DEF DeclaredAssets
  <2>5. UNCHANGED engagementRows
    BY <1>3 DEF RegisterAsset
  <2>6. PICK c : /\ registering' = [registering EXCEPT ![p] = c]
                 /\ c \in RegistrationRow
                 /\ c.step = "assets" => c.manifest = m /\ c.next \in DOMAIN m.assets
    <3>1. CASE registering' = [registering EXCEPT ![p] =
                   Registering(IF i = Len(m.assets) THEN "returned" ELSE "assets", m, i + 1)]
      <4>. DEFINE c == Registering(IF i = Len(m.assets) THEN "returned" ELSE "assets", m, i + 1)
      <4>1. /\ c \in RegistrationRow
            /\ c.step = "assets" => c.manifest = m /\ c.next \in DOMAIN m.assets
        BY <2>1, <2>3 DEF Registering, RegistrationRow
      <4>2. registering' = [registering EXCEPT ![p] = c]
        BY <3>1
      <4>. HIDE DEF c
      <4>. QED  BY <4>1, <4>2
    <3>2. CASE registering' = [registering EXCEPT ![p] =
                   Registering("conflict", m, i)]
      <4>. DEFINE c == Registering("conflict", m, i)
      <4>1. /\ c \in RegistrationRow
            /\ c.step = "assets" => c.manifest = m /\ c.next \in DOMAIN m.assets
        BY <2>1 DEF Registering, RegistrationRow
      <4>. QED  BY <3>2, <4>1
    <3>3. CASE registering' = [registering EXCEPT ![p] =
                   Registering("unsigned", m, i)]
      <4>. DEFINE c == Registering("unsigned", m, i)
      <4>1. /\ c \in RegistrationRow
            /\ c.step = "assets" => c.manifest = m /\ c.next \in DOMAIN m.assets
        BY <2>1 DEF Registering, RegistrationRow
      <4>. QED  BY <3>3, <4>1
    <3>. QED  BY <1>3, <3>1, <3>2, <3>3 DEF RegisterAsset
  <2>7. assetRows' \subseteq assetRows \cup {AssetRow(m, m.assets[i])}
    BY <1>3 DEF RegisterAsset
  <2>8. RegistryTypeOK'
    BY <2>4, <2>5, <2>6, <2>7
  <2>9. RegistrationsStand'
    BY <2>1, <2>5, <2>6
  <2>. QED  BY <2>8, <2>9
<1>4. ASSUME NEW p \in Registrars, LeaveRegistration(p)
      PROVE  RegistryTypeOK' /\ RegistrationsStand'
  BY <1>4 DEF LeaveRegistration
<1>. QED  BY <1>1, <1>2, <1>3, <1>4 DEF RegistryNext

--------------------------------------------------------------------------------
\* Rows of a table have a latest one; without it CHOOSE says nothing.
HasLatest(rows) == rows # {} => \E r \in rows : \A s \in rows : s.revision <= r.revision

RevisionsHaveLatest ==
    /\ \A e \in EngagementIds : HasLatest(EngagementRowsOf(e))
    /\ \A a \in Aliases : HasLatest(AssetRowsOf(a))

RegistryInv ==
    /\ RegistryTypeOK
    /\ RegistrationsStand
    /\ RevisionsHaveLatest
    /\ RevisionsGapFree
    /\ AssetsFollowEngagement

LEMMA LatestIs ==
    ASSUME NEW rows, rows # {}, HasLatest(rows)
    PROVE  Latest(rows) \in rows /\ \A s \in rows : s.revision <= Latest(rows).revision
BY DEF HasLatest, Latest

\* The next revision keeps a table without gaps.
LEMMA NextExtends ==
    ASSUME NEW rows, \A r \in rows : r.revision \in Nat \ {0},
           HasLatest(rows), GapFree(rows), NEW x, x.revision = NextRevision(rows)
    PROVE  HasLatest(rows \cup {x}) /\ GapFree(rows \cup {x})
<1>1. CASE rows = {}
  <2>1. x.revision = 1
    BY <1>1 DEF NextRevision
  <2>. QED  BY <1>1, <2>1 DEF HasLatest, GapFree
<1>2. CASE rows # {}
  <2>. DEFINE l == Latest(rows)
  <2>1. l \in rows /\ \A s \in rows : s.revision <= l.revision
    BY <1>2, LatestIs
  <2>2. x.revision = l.revision + 1
    BY <1>2 DEF NextRevision
  <2>. HIDE DEF l
  <2>3. \A s \in rows : s.revision < x.revision /\ s.revision \in Nat
    BY <2>1, <2>2
  <2>4. x.revision \in Nat
    BY <2>1, <2>2
  <2>5. HasLatest(rows \cup {x})
    BY <2>3, <2>4 DEF HasLatest
  <2>6. \A r, s \in rows \cup {x} : r.revision = s.revision => r = s
    BY <2>3, <2>4 DEF GapFree
  <2>7. ASSUME NEW n \in 1..x.revision PROVE \E s \in rows \cup {x} : s.revision = n
    BY <2>1, <2>2 DEF GapFree
  <2>8. \A r \in rows \cup {x} : \A n \in 1..r.revision : \E s \in rows \cup {x} : s.revision = n
    BY <2>7 DEF GapFree
  <2>. QED  BY <2>5, <2>6, <2>8 DEF GapFree
<1>. QED  BY <1>1, <1>2

\* Nothing is ever taken out of the registry.
LEMMA RegistryGrows ==
    ASSUME [RegistryNext]_registryVars
    PROVE  engagementRows \subseteq engagementRows' /\ assetRows \subseteq assetRows'
BY DEF RegistryNext, registryVars, RegisterEngagement, WithEngagement, RegisterAsset,
       LeaveRegistration

LEMMA RevisionTyped ==
    ASSUME RegistryTypeOK
    PROVE  /\ \A m \in engagementRows : m.revision \in Nat \ {0} /\ m.id \in EngagementIds
           /\ \A r \in assetRows : r.revision \in Nat \ {0} /\ r.alias \in Aliases
<1>1. \A m \in Manifests : m.revision \in Nat \ {0} /\ m.id \in EngagementIds
  BY RegistryManifestsWellFormed DEF RegistryManifestAssumption
<1>2. ASSUME NEW r \in DeclaredAssets PROVE r.revision \in Nat \ {0} /\ r.alias \in Aliases
  <2>1. PICK m \in Manifests : \E i \in DOMAIN m.assets : r = AssetRow(m, m.assets[i])
    BY DEF DeclaredAssets
  <2>2. PICK i \in DOMAIN m.assets : r = AssetRow(m, m.assets[i])
    BY <2>1
  <2>. QED  BY <2>2, <1>1, RegistryManifestsWellFormed DEF RegistryManifestAssumption, AssetRow
<1>. QED  BY <1>1, <1>2 DEF RegistryTypeOK

\* The revisions of one table after a transaction of the registry: either as they were,
\* or with the next revision of one engagement or alias.
LEMMA RevisionsStep ==
    ASSUME RegistryTypeOK, RevisionsHaveLatest, RevisionsGapFree, RegistrationsStand,
           [RegistryNext]_registryVars
    PROVE  RevisionsHaveLatest' /\ RevisionsGapFree'
<1>1. CASE UNCHANGED <<engagementRows, assetRows>>
  BY <1>1 DEF RevisionsHaveLatest, RevisionsGapFree, EngagementRowsOf, AssetRowsOf
<1>2. ASSUME NEW p \in Registrars, NEW m \in Manifests, RegisterEngagement(p, m)
      PROVE  RevisionsHaveLatest' /\ RevisionsGapFree'
  <2>1. /\ m.revision = NextRevision(EngagementRowsOf(m.id))
        /\ engagementRows' = engagementRows \cup {m}
        /\ UNCHANGED assetRows
    BY <1>2 DEF RegisterEngagement, WithEngagement, Progresses
  <2>2. m.id \in EngagementIds
    BY RegistryManifestsWellFormed DEF RegistryManifestAssumption
  <2>3. HasLatest(EngagementRowsOf(m.id) \cup {m}) /\ GapFree(EngagementRowsOf(m.id) \cup {m})
    <3>1. \A r \in EngagementRowsOf(m.id) : r.revision \in Nat \ {0}
      BY RevisionTyped DEF EngagementRowsOf
    <3>2. HasLatest(EngagementRowsOf(m.id)) /\ GapFree(EngagementRowsOf(m.id))
      BY <2>2 DEF RevisionsHaveLatest, RevisionsGapFree
    <3>. QED  BY <3>1, <3>2, <2>1, NextExtends
  <2>4. \A e \in EngagementIds :
           EngagementRowsOf(e)' = IF e = m.id THEN EngagementRowsOf(e) \cup {m}
                                  ELSE EngagementRowsOf(e)
    BY <2>1 DEF EngagementRowsOf
  <2>5. \A a \in Aliases : AssetRowsOf(a)' = AssetRowsOf(a)
    BY <2>1 DEF AssetRowsOf
  <2>6. ASSUME NEW e \in EngagementIds
        PROVE  HasLatest(EngagementRowsOf(e)') /\ GapFree(EngagementRowsOf(e)')
    BY <2>3, <2>4 DEF RevisionsHaveLatest, RevisionsGapFree
  <2>7. ASSUME NEW a \in Aliases PROVE HasLatest(AssetRowsOf(a)') /\ GapFree(AssetRowsOf(a)')
    BY <2>5 DEF RevisionsHaveLatest, RevisionsGapFree
  <2>. QED  BY <2>6, <2>7 DEF RevisionsHaveLatest, RevisionsGapFree, HasLatest, GapFree
<1>3. ASSUME NEW p \in Registrars, RegisterAsset(p)
      PROVE  RevisionsHaveLatest' /\ RevisionsGapFree'
  <2>. DEFINE m == registering[p].manifest
              b == m.assets[registering[p].next].alias
              x == AssetRow(m, m.assets[registering[p].next])
  <2>1. CASE UNCHANGED assetRows
    BY <1>1, <1>3, <2>1 DEF RegisterAsset
  <2>2. CASE assetRows' # assetRows
    <3>1. /\ m.revision = NextRevision(AssetRowsOf(b))
          /\ assetRows' = assetRows \cup {x}
          /\ UNCHANGED engagementRows
      BY <1>3, <2>2 DEF RegisterAsset, Progresses
    <3>2. x.alias = b /\ x.revision = m.revision
      BY DEF AssetRow
    <3>3. b \in Aliases
      BY <1>3, RegistryManifestsWellFormed
         DEF RegisterAsset, RegistrationsStand, RegistryManifestAssumption, RegistryTypeOK
    <3>. HIDE DEF m, b, x
    <3>4. HasLatest(AssetRowsOf(b) \cup {x}) /\ GapFree(AssetRowsOf(b) \cup {x})
      <4>1. \A r \in AssetRowsOf(b) : r.revision \in Nat \ {0}
        BY RevisionTyped DEF AssetRowsOf
      <4>2. HasLatest(AssetRowsOf(b)) /\ GapFree(AssetRowsOf(b))
        BY <3>3 DEF RevisionsHaveLatest, RevisionsGapFree
      <4>. QED  BY <4>1, <4>2, <3>1, <3>2, NextExtends
    <3>5. \A a \in Aliases :
             AssetRowsOf(a)' = IF a = b THEN AssetRowsOf(a) \cup {x} ELSE AssetRowsOf(a)
      BY <3>1, <3>2 DEF AssetRowsOf
    <3>6. \A e \in EngagementIds : EngagementRowsOf(e)' = EngagementRowsOf(e)
      BY <3>1 DEF EngagementRowsOf
    <3>7. ASSUME NEW a \in Aliases PROVE HasLatest(AssetRowsOf(a)') /\ GapFree(AssetRowsOf(a)')
      BY <3>4, <3>5 DEF RevisionsHaveLatest, RevisionsGapFree
    <3>8. ASSUME NEW e \in EngagementIds
          PROVE  HasLatest(EngagementRowsOf(e)') /\ GapFree(EngagementRowsOf(e)')
      BY <3>6 DEF RevisionsHaveLatest, RevisionsGapFree
    <3>. QED  BY <3>7, <3>8 DEF RevisionsHaveLatest, RevisionsGapFree, HasLatest, GapFree
  <2>. QED  BY <2>1, <2>2
<1>4. ASSUME NEW p \in Registrars, LeaveRegistration(p)
      PROVE  RevisionsHaveLatest' /\ RevisionsGapFree'
  BY <1>1, <1>4 DEF LeaveRegistration
<1>. QED  BY <1>1, <1>2, <1>3, <1>4 DEF RegistryNext, registryVars

\* An asset is declared by the manifest its registration goes through.
LEMMA FollowStep ==
    ASSUME RegistryTypeOK, RegistrationsStand, AssetsFollowEngagement, [RegistryNext]_registryVars
    PROVE  AssetsFollowEngagement'
<1>. SUFFICES ASSUME NEW r \in assetRows'
              PROVE  \E m \in EngagementRowsOf(r.engagement)' :
                        \E i \in DOMAIN m.assets : r = AssetRow(m, m.assets[i])
  BY DEF AssetsFollowEngagement, AssetRow
<1>1. engagementRows \subseteq engagementRows'
  BY RegistryGrows
<1>2. CASE r \in assetRows
  BY <1>1, <1>2 DEF AssetsFollowEngagement, EngagementRowsOf
<1>3. CASE r \notin assetRows
  <2>1. PICK p \in Registrars : RegisterAsset(p)
    BY <1>3 DEF RegistryNext, registryVars, RegisterEngagement, LeaveRegistration
  <2>. DEFINE m == registering[p].manifest
              i == registering[p].next
  <2>2. m \in engagementRows /\ i \in DOMAIN m.assets
    BY <2>1 DEF RegisterAsset, RegistrationsStand
  <2>3. r = AssetRow(m, m.assets[i])
    BY <2>1, <1>3 DEF RegisterAsset
  <2>4. r.engagement = m.id
    BY <2>3 DEF AssetRow
  <2>5. m \in EngagementRowsOf(r.engagement)'
    BY <1>1, <2>2, <2>4 DEF EngagementRowsOf
  <2>. QED  BY <2>2, <2>3, <2>5
<1>. QED  BY <1>2, <1>3

LEMMA RegistryInvStep ==
    ASSUME RegistryInv, [RegistryNext]_registryVars
    PROVE  RegistryInv'
BY RegistryTypeStep, RevisionsStep, FollowStep DEF RegistryInv

LEMMA RegistryInvInit == RegistryInit => RegistryInv
BY DEF RegistryInit, RegistryInv, RegistryTypeOK, RegistrationsStand, InAssets,
       RevisionsHaveLatest, HasLatest, RevisionsGapFree, GapFree, AssetsFollowEngagement,
       EngagementRowsOf, AssetRowsOf

--------------------------------------------------------------------------------
\* What an agent may hold.
LEMMA CallIs ==
    ASSUME ControlTypeOK, NEW a \in Agents
    PROVE  /\ At(a, "asking") \/ At(a, "denied") => calls[a] \in AskingRow
           /\ At(a, "consuming") => calls[a] \in ConsumingRow
BY DEF ControlTypeOK, At, AskingRow, ConsumingRow

LEMMA ManifestTimes ==
    ASSUME NEW m \in Manifests
    PROVE  /\ m.created \in Nat /\ m.expires \in Nat
           /\ m.maxCalls \in Nat \ {0} /\ m.maxRuntime \in Nat
BY ControlInputs DEF ControlManifestAssumption

\* A chosen profile is offered, and satisfies the action.
LEMMA ChosenIs ==
    ASSUME NEW c \in AskingRow, NEW p \in Chosen(c)
    PROVE  /\ p \in OfferedProfiles
           /\ p.risk <= c.engagement.maximumRisk
           /\ c.request.effects \subseteq p.effects
           /\ p.effects \subseteq c.asset.effects
<1>. DEFINE profiles == ToolManifest[c.request.tool].profiles
<1>1. PICK i \in AuthorizedProfiles(c) : p = profiles[i]
  BY DEF Chosen
<1>2. /\ i \in DOMAIN profiles
      /\ profiles[i].risk <= c.engagement.maximumRisk
      /\ c.request.effects \subseteq profiles[i].effects
      /\ profiles[i].effects \subseteq c.asset.effects
  BY <1>1 DEF AuthorizedProfiles
<1>3. c.request \in Requests
  BY DEF AskingRow
<1>4. p \in OfferedProfiles
  BY <1>1, <1>2, <1>3 DEF OfferedProfiles
<1>. QED  BY <1>1, <1>2, <1>4

LEMMA GrantTyped ==
    ASSUME NEW c \in AskingRow, NEW p \in Chosen(c), NEW verifies \in BOOLEAN
    PROVE  Grant(c, p, verifies) \in ControlGrantRow /\ Expiry(c) <= c.engagement.expires
<1>1. /\ c.request \in Requests /\ c.engagement \in Manifests
      /\ c.asset \in DeclaredAssets /\ c.now \in Nat
  BY DEF AskingRow
<1>2. Expiry(c) \in Nat /\ Expiry(c) <= c.engagement.expires
  BY <1>1, ManifestTimes, LifetimesAreTimes DEF Expiry, Least
<1>. QED  BY <1>1, <1>2, ChosenIs DEF Grant, ControlGrantRow

\* A sequence with one more element.
LEMMA Appended ==
    ASSUME NEW S, NEW s \in Seq(S), NEW x \in S
    PROVE  /\ Append(s, x) \in Seq(S)
           /\ DOMAIN Append(s, x) = DOMAIN s \cup {Len(s) + 1}
           /\ \A i \in DOMAIN s : Append(s, x)[i] = s[i]
           /\ Append(s, x)[Len(s) + 1] = x
           /\ Len(s) + 1 \notin DOMAIN s
OBVIOUS

\* The permitted call, and the grant it appends.
LEMMA PermitAppends ==
    ASSUME ControlTypeOK, NEW a \in Agents, Permit(a)
    PROVE  /\ calls[a] \in AskingRow /\ ~Refusal(calls[a])
           /\ \E p \in Chosen(calls[a]), verifies \in BOOLEAN :
                 /\ grants' = Append(grants, Grant(calls[a], p, verifies))
                 /\ Grant(calls[a], p, verifies) \in ControlGrantRow
                 /\ approvals' = IF Unapproved(calls[a], p)
                                 THEN approvals \cup {Approval(calls[a])} ELSE approvals
                 /\ usage' = [usage EXCEPT ![calls[a].request.root] =
                       [calls |-> @.calls + 1, runtime |-> @.runtime + calls[a].request.timeout]]
<1>1. calls[a] \in AskingRow /\ ~Refusal(calls[a])
  BY CallIs DEF Permit
<1>2. GrantVerifies(calls[a]) \subseteq BOOLEAN
  BY DEF GrantVerifies, EffectsVerify
<1>3. PICK p \in Chosen(calls[a]), verifies \in BOOLEAN :
         /\ grants' = Append(grants, Grant(calls[a], p, verifies))
         /\ approvals' = IF Unapproved(calls[a], p)
                         THEN approvals \cup {Approval(calls[a])} ELSE approvals
         /\ usage' = [usage EXCEPT ![calls[a].request.root] =
               [calls |-> @.calls + 1, runtime |-> @.runtime + calls[a].request.timeout]]
  BY <1>2 DEF Permit
<1>. QED  BY <1>1, <1>3, GrantTyped

\* Consumption changes one field of one grant.
LEMMA ConsumeMarks ==
    ASSUME ControlTypeOK, ConsumingStands, NEW a \in Agents, Consume(a)
    PROVE  /\ calls[a] \in ConsumingRow /\ calls[a].grant \in DOMAIN grants
           /\ calls[a].now < grants[calls[a].grant].expires
           /\ grants[calls[a].grant].consumed = None
           /\ grants' \in Seq(ControlGrantRow)
           /\ DOMAIN grants' = DOMAIN grants
           /\ \A i \in DOMAIN grants :
                 /\ grants'[i].engagement = grants[i].engagement
                 /\ grants'[i].asset = grants[i].asset
                 /\ grants'[i].request = grants[i].request
                 /\ grants'[i].profile = grants[i].profile
                 /\ grants'[i].issued = grants[i].issued
                 /\ grants'[i].expires = grants[i].expires
                 /\ grants'[i].consumed = IF i = calls[a].grant THEN calls[a].now
                                          ELSE grants[i].consumed
           /\ UNCHANGED <<approvals, usage>>
<1>. DEFINE k == calls[a].grant
<1>1. /\ calls[a] \in ConsumingRow /\ k \in DOMAIN grants
      /\ calls[a].now < grants[k].expires /\ grants[k].consumed = None
  BY CallIs DEF Consume, Unspent, ConsumingStands
<1>2. /\ grants' = [grants EXCEPT ![k].consumed = calls[a].now]
      /\ UNCHANGED <<approvals, usage>>
  BY DEF Consume
<1>3. grants \in Seq(ControlGrantRow) /\ calls[a].now \in Nat
  BY <1>1 DEF ControlTypeOK, ConsumingRow
<1>4. ASSUME NEW i \in DOMAIN grants
      PROVE  /\ grants'[i] \in ControlGrantRow
             /\ grants'[i].engagement = grants[i].engagement
             /\ grants'[i].asset = grants[i].asset
             /\ grants'[i].request = grants[i].request
             /\ grants'[i].profile = grants[i].profile
             /\ grants'[i].issued = grants[i].issued
             /\ grants'[i].expires = grants[i].expires
             /\ grants'[i].consumed = IF i = k THEN calls[a].now ELSE grants[i].consumed
  <2>1. grants[i] \in ControlGrantRow
    BY <1>3
  <2>2. grants'[i] = IF i = k THEN [grants[i] EXCEPT !.consumed = calls[a].now] ELSE grants[i]
    BY <1>1, <1>2, <1>3
  <2>. QED  BY <1>3, <2>1, <2>2 DEF ControlGrantRow
<1>5. DOMAIN grants' = DOMAIN grants /\ Len(grants') = Len(grants)
  BY <1>2, <1>3
<1>6. grants' \in Seq(ControlGrantRow)
  <2>. DEFINE x == [grants[k] EXCEPT !.consumed = calls[a].now]
  <2>1. grants' = [grants EXCEPT ![k] = x] /\ x = grants'[k]
    BY <1>1, <1>2, <1>3
  <2>2. x \in ControlGrantRow
    BY <1>1, <1>4, <2>1
  <2>. HIDE DEF x
  <2>. QED  BY <1>1, <1>3, <2>1, <2>2
<1>. QED  BY <1>1, <1>2, <1>4, <1>5, <1>6

\* Nothing else touches approvals, budgets and grants.
LEMMA Elsewhere ==
    ASSUME [ControlNext]_controlVars
    PROVE  \/ \E a \in Agents : Permit(a)
           \/ \E a \in Agents : Consume(a)
           \/ UNCHANGED <<approvals, usage, grants>>
BY DEF ControlNext, controlVars, controlTables, RegistryNext, StartAuthorize, Deny,
       RolledBackApprovals, RecordDenial, StartConsume, Abandon, Tick

--------------------------------------------------------------------------------
\* The latest engagement a caller reads, and the asset it resolves, are registered.
LEMMA AskingReads ==
    ASSUME RegistryInv, clock \in Nat, NEW r \in Requests, EngagementRowsOf(r.engagement) # {},
           NEW row \in ResolvedAssets(r.alias, r.revision, r.engagement)
    PROVE  LET c == Asking("asking", r, LatestEngagement(r.engagement), row, clock)
           IN /\ c \in AskingRow
              /\ c.engagement \in engagementRows
              /\ c.asset \in assetRows
              /\ c.asset.engagement = c.engagement.id
<1>. DEFINE m == LatestEngagement(r.engagement)
<1>1. m \in engagementRows /\ m.id = r.engagement
  <2>1. HasLatest(EngagementRowsOf(r.engagement))
    BY ControlInputs DEF ControlRequestAssumption, RegistryInv, RevisionsHaveLatest
  <2>2. m \in EngagementRowsOf(r.engagement)
    BY <2>1, LatestIs DEF LatestEngagement
  <2>. QED  BY <2>2 DEF EngagementRowsOf
<1>2. row \in assetRows /\ row.engagement = r.engagement
  BY DEF ResolvedAssets, AssetRowsOf
<1>3. m \in Manifests /\ row \in DeclaredAssets
  BY <1>1, <1>2 DEF RegistryInv, RegistryTypeOK
<1>. HIDE DEF m
<1>4. Asking("asking", r, m, row, clock) \in AskingRow
  BY <1>3 DEF Asking, AskingRow
<1>5. QED  BY <1>1, <1>2, <1>4 DEF m, Asking

\* What a step leaves an agent with: nothing, what it had, what it has just read, or
\* the denial of what it asked.
LEMMA CallsStep ==
    ASSUME RegistryInv, ControlTypeOK, [ControlNext]_controlVars, NEW a \in Agents
    PROVE  \/ calls'[a] = None
           \/ calls'[a] = calls[a]
           \/ /\ calls'[a] \in AskingRow
              /\ calls'[a].step = "asking"
              /\ calls'[a].engagement \in engagementRows
              /\ calls'[a].asset \in assetRows
              /\ calls'[a].asset.engagement = calls'[a].engagement.id
           \/ (calls'[a] \in AskingRow /\ calls'[a].step = "denied")
           \/ /\ calls'[a] \in ConsumingRow
              /\ calls'[a].grant \in DOMAIN grants
              /\ calls'[a].now < grants[calls'[a].grant].expires
              /\ UNCHANGED grants
<1>1. calls \in [Agents -> AskingRow \cup ConsumingRow \cup {None}] /\ clock \in Nat
  BY DEF ControlTypeOK
<1>2. CASE UNCHANGED calls
  BY <1>2
<1>3. ASSUME NEW b \in Agents, NEW r \in Requests, StartAuthorize(b, r)
      PROVE  \/ calls'[a] = calls[a]
             \/ /\ calls'[a] \in AskingRow
                /\ calls'[a].step = "asking"
                /\ calls'[a].engagement \in engagementRows
                /\ calls'[a].asset \in assetRows
                /\ calls'[a].asset.engagement = calls'[a].engagement.id
  <2>1. PICK row \in ResolvedAssets(r.alias, r.revision, r.engagement) :
           calls' = [calls EXCEPT ![b] =
                        Asking("asking", r, LatestEngagement(r.engagement), row, clock)]
    BY <1>3 DEF StartAuthorize, Goto
  <2>. DEFINE c == Asking("asking", r, LatestEngagement(r.engagement), row, clock)
  <2>2. /\ c \in AskingRow /\ c.engagement \in engagementRows
        /\ c.asset \in assetRows /\ c.asset.engagement = c.engagement.id
    BY <1>1, <1>3, AskingReads DEF StartAuthorize
  <2>3. c.step = "asking"
    BY DEF Asking
  <2>. HIDE DEF c
  <2>4. calls' = [calls EXCEPT ![b] = c]
    BY <2>1 DEF c
  <2>. QED  BY <1>1, <2>2, <2>3, <2>4
<1>4. ASSUME NEW b \in Agents, Deny(b)
      PROVE  \/ calls'[a] = calls[a]
             \/ (calls'[a] \in AskingRow /\ calls'[a].step = "denied")
  <2>. DEFINE c == Asking("denied", calls[b].request, calls[b].engagement, calls[b].asset,
                          calls[b].now)
  <2>1. calls[b] \in AskingRow
    BY <1>4, CallIs DEF Deny
  <2>2. c \in AskingRow /\ c.step = "denied"
    BY <2>1 DEF Asking, AskingRow
  <2>3. calls' = [calls EXCEPT ![b] = c]
    BY <1>4 DEF Deny, Goto
  <2>. HIDE DEF c
  <2>. QED  BY <1>1, <2>2, <2>3
<1>5. ASSUME NEW b \in Agents, NEW i \in DOMAIN grants, StartConsume(b, i)
      PROVE  \/ calls'[a] = calls[a]
             \/ /\ calls'[a] \in ConsumingRow
                /\ calls'[a].grant \in DOMAIN grants
                /\ calls'[a].now < grants[calls'[a].grant].expires
                /\ UNCHANGED grants
  <2>1. i \in Nat
    BY DEF ControlTypeOK
  <2>2. /\ clock < grants[i].expires /\ UNCHANGED grants
        /\ calls' = [calls EXCEPT ![b] = Consuming(i, clock)]
    BY <1>5 DEF StartConsume, Goto, controlTables
  <2>. QED  BY <1>1, <2>1, <2>2 DEF Consuming, ConsumingRow
<1>6. ASSUME NEW b \in Agents, Permit(b) \/ RecordDenial(b) \/ Consume(b) \/ Abandon(b)
      PROVE  calls'[a] = None \/ calls'[a] = calls[a]
  BY <1>1, <1>6 DEF Permit, RecordDenial, Consume, Abandon, Return, Goto
<1>7. CASE \E b \in Agents : \E r \in Requests : StartAuthorize(b, r)
  BY <1>3, <1>7
<1>8. CASE \E b \in Agents : Deny(b)
  BY <1>4, <1>8
<1>9. CASE \E b \in Agents : \E i \in DOMAIN grants : StartConsume(b, i)
  BY <1>5, <1>9
<1>10. CASE \E b \in Agents : Permit(b) \/ RecordDenial(b) \/ Consume(b) \/ Abandon(b)
  BY <1>6, <1>10
<1>. QED  BY <1>2, <1>7, <1>8, <1>9, <1>10 DEF ControlNext, controlVars, Tick

\* The tables keep their types.
LEMMA ControlTypeStep ==
    ASSUME RegistryInv, ControlTypeOK, ConsumingStands, [ControlNext]_controlVars
    PROVE  ControlTypeOK'
<1>1. RegistryTypeOK'
  BY RegistryStep, RegistryInvStep DEF RegistryInv
<1>2. clock' \in Nat
  <2>1. UNCHANGED clock \/ clock' = clock + 1
    BY DEF ControlNext, controlVars, StartAuthorize, Permit, Deny, RecordDenial,
           StartConsume, Consume, Abandon, Tick
  <2>. QED  BY <2>1 DEF ControlTypeOK
<1>3. calls' \in [Agents -> AskingRow \cup ConsumingRow \cup {None}]
  <2>1. calls \in [Agents -> AskingRow \cup ConsumingRow \cup {None}]
    BY DEF ControlTypeOK
  <2>2. \A a \in Agents : calls'[a] \in AskingRow \cup ConsumingRow \cup {None}
    BY <2>1, CallsStep
  <2>3. calls' = [a \in Agents |-> calls'[a]]
    BY <2>1 DEF ControlNext, controlVars, StartAuthorize, Permit, Deny, RecordDenial,
                StartConsume, Consume, Abandon, Tick, Return, Goto
  <2>. QED  BY <2>2, <2>3
<1>4. /\ \A ap \in approvals' : ap.expires \in Nat
      /\ usage' \in [Roots -> [calls : Nat, runtime : Nat]]
      /\ grants' \in Seq(ControlGrantRow)
  <2>1. ASSUME NEW a \in Agents, Permit(a)
        PROVE  /\ \A ap \in approvals' : ap.expires \in Nat
               /\ usage' \in [Roots -> [calls : Nat, runtime : Nat]]
               /\ grants' \in Seq(ControlGrantRow)
    <3>. DEFINE c == calls[a]
    <3>1. /\ c \in AskingRow
          /\ \E p \in Chosen(c), verifies \in BOOLEAN :
                /\ grants' = Append(grants, Grant(c, p, verifies))
                /\ Grant(c, p, verifies) \in ControlGrantRow
                /\ approvals' = IF Unapproved(c, p) THEN approvals \cup {Approval(c)} ELSE approvals
                /\ usage' = [usage EXCEPT ![c.request.root] =
                      [calls |-> @.calls + 1, runtime |-> @.runtime + c.request.timeout]]
      BY <2>1, PermitAppends
    <3>2. c.request \in Requests /\ c.now \in Nat /\ c.engagement \in Manifests
      BY <3>1 DEF AskingRow
    <3>3. c.request.root \in Roots /\ c.request.timeout \in Nat
      BY <3>2, ControlInputs DEF ControlRequestAssumption
    <3>4. Approval(c).expires \in Nat
      BY <3>2, ManifestTimes, LifetimesAreTimes DEF Approval, Least
    <3>. HIDE DEF c
    <3>5. \A ap \in approvals' : ap.expires \in Nat
      BY <3>1, <3>4 DEF ControlTypeOK
    <3>6. usage' \in [Roots -> [calls : Nat, runtime : Nat]]
      BY <3>1, <3>3 DEF ControlTypeOK
    <3>7. grants' \in Seq(ControlGrantRow)
      BY <3>1 DEF ControlTypeOK
    <3>. QED  BY <3>5, <3>6, <3>7
  <2>2. ASSUME NEW a \in Agents, Consume(a)
        PROVE  /\ grants' \in Seq(ControlGrantRow)
               /\ UNCHANGED <<approvals, usage>>
    BY <2>2, ConsumeMarks
  <2>. QED  BY <2>1, <2>2, Elsewhere DEF ControlTypeOK
<1>. QED  BY <1>1, <1>2, <1>3, <1>4 DEF ControlTypeOK

--------------------------------------------------------------------------------
\* What an agent holds stays true: registered rows stay, and so does a grant's expiry.
LEMMA AskingStep ==
    ASSUME RegistryInv, ControlTypeOK, AskingStands, [ControlNext]_controlVars
    PROVE  AskingStands'
<1>1. engagementRows \subseteq engagementRows' /\ assetRows \subseteq assetRows'
  BY RegistryStep, RegistryGrows
<1>2. SUFFICES ASSUME NEW a \in Agents, calls'[a] # None, calls'[a].step = "asking"
               PROVE  /\ calls'[a].engagement \in engagementRows'
                      /\ calls'[a].asset \in assetRows'
                      /\ calls'[a].asset.engagement = calls'[a].engagement.id
  BY DEF AskingStands, At
<1>3. CASE calls'[a] = calls[a]
  BY <1>1, <1>2, <1>3 DEF AskingStands, At
<1>. QED  BY <1>1, <1>2, <1>3, CallsStep DEF ConsumingRow

LEMMA ConsumingStep ==
    ASSUME RegistryInv, ControlTypeOK, ConsumingStands, [ControlNext]_controlVars
    PROVE  ConsumingStands'
<1>1. /\ DOMAIN grants \subseteq DOMAIN grants'
      /\ \A i \in DOMAIN grants : grants'[i].expires = grants[i].expires
  <2>1. ASSUME NEW a \in Agents, Permit(a)
        PROVE  /\ DOMAIN grants \subseteq DOMAIN grants'
               /\ \A i \in DOMAIN grants : grants'[i].expires = grants[i].expires
    <3>1. PICK g \in ControlGrantRow : grants' = Append(grants, g)
      BY <2>1, PermitAppends
    <3>. QED  BY <3>1, Appended DEF ControlTypeOK
  <2>2. ASSUME NEW a \in Agents, Consume(a)
        PROVE  /\ DOMAIN grants \subseteq DOMAIN grants'
               /\ \A i \in DOMAIN grants : grants'[i].expires = grants[i].expires
    BY <2>2, ConsumeMarks
  <2>. QED  BY <2>1, <2>2, Elsewhere
<1>2. SUFFICES ASSUME NEW a \in Agents, calls'[a] # None, calls'[a].step = "consuming"
               PROVE  /\ calls'[a].grant \in DOMAIN grants'
                      /\ calls'[a].now < grants'[calls'[a].grant].expires
  BY DEF ConsumingStands, At
<1>3. CASE calls'[a] = calls[a]
  BY <1>1, <1>2, <1>3 DEF ConsumingStands, At
<1>. QED  BY <1>1, <1>2, <1>3, CallsStep DEF AskingRow

\* A step of the tables: one more grant, within the revisions it was decided from and
\* unspent, or one that is spent in time.
LEMMA GrantStep ==
    ASSUME RegistryInv, ControlTypeOK, AskingStands, ConsumingStands,
           ConsumedInTime, GrantWithinRevisions, [ControlNext]_controlVars
    PROVE  ConsumedInTime' /\ GrantWithinRevisions'
<1>1. engagementRows \subseteq engagementRows' /\ assetRows \subseteq assetRows'
  BY RegistryStep, RegistryGrows
<1>2. ASSUME NEW a \in Agents, Permit(a) PROVE ConsumedInTime' /\ GrantWithinRevisions'
  <2>. DEFINE c == calls[a]
  <2>1. PICK p \in Chosen(c), verifies \in BOOLEAN :
           /\ grants' = Append(grants, Grant(c, p, verifies))
           /\ Grant(c, p, verifies) \in ControlGrantRow
    BY <1>2, PermitAppends
  <2>2. c \in AskingRow /\ ~Refusal(c)
    BY <1>2, PermitAppends
  <2>3. /\ c.engagement \in engagementRows /\ c.asset \in assetRows
        /\ c.asset.engagement = c.engagement.id
    BY <1>2 DEF Permit, AskingStands
  <2>. DEFINE g == Grant(c, p, verifies)
  <2>4. /\ g.engagement = c.engagement /\ g.asset = c.asset /\ g.request = c.request
        /\ g.profile = p /\ g.issued = c.now /\ g.expires = Expiry(c) /\ g.consumed = None
    BY DEF Grant
  <2>5. /\ Active(c.engagement, c.now)
        /\ c.request.effects \cap c.engagement.prohibited = {}
    BY <2>2 DEF Refusal, StaticallyDenied
  <2>6. /\ p.risk <= c.engagement.maximumRisk
        /\ c.request.effects \subseteq p.effects /\ p.effects \subseteq c.asset.effects
    BY <2>1, <2>2, ChosenIs
  <2>7. Expiry(c) <= c.engagement.expires
    BY <2>1, <2>2, GrantTyped
  <2>. HIDE DEF c, g
  <2>8. /\ g.engagement \in engagementRows' /\ g.asset \in assetRows'
        /\ g.asset.engagement = g.engagement.id
        /\ g.request.effects \subseteq g.asset.effects \cap g.profile.effects
        /\ g.request.effects \cap g.engagement.prohibited = {}
        /\ g.profile.risk <= g.engagement.maximumRisk
        /\ Active(g.engagement, g.issued)
        /\ g.expires <= g.engagement.expires
        /\ g.consumed = None
    BY <1>1, <2>3, <2>4, <2>5, <2>6, <2>7
  <2>9. /\ DOMAIN grants' = DOMAIN grants \cup {Len(grants) + 1}
        /\ \A i \in DOMAIN grants : grants'[i] = grants[i]
        /\ grants'[Len(grants) + 1] = g
    BY <2>1, Appended DEF ControlTypeOK, g
  <2>10. ConsumedInTime'
    BY <2>8, <2>9 DEF ConsumedInTime
  <2>11. GrantWithinRevisions'
    BY <1>1, <2>8, <2>9 DEF GrantWithinRevisions, Active
  <2>. QED  BY <2>10, <2>11
<1>3. ASSUME NEW a \in Agents, Consume(a) PROVE ConsumedInTime' /\ GrantWithinRevisions'
  <2>. DEFINE k == calls[a].grant
  <2>1. calls[a].now < grants[k].expires
    BY <1>3, ConsumeMarks
  <2>2. /\ DOMAIN grants' = DOMAIN grants
        /\ \A i \in DOMAIN grants :
              /\ grants'[i].engagement = grants[i].engagement
              /\ grants'[i].asset = grants[i].asset
              /\ grants'[i].request = grants[i].request
              /\ grants'[i].profile = grants[i].profile
              /\ grants'[i].issued = grants[i].issued
              /\ grants'[i].expires = grants[i].expires
              /\ grants'[i].consumed = IF i = k THEN calls[a].now ELSE grants[i].consumed
    BY <1>3, ConsumeMarks
  <2>3. ConsumedInTime'
    BY <2>1, <2>2 DEF ConsumedInTime
  <2>4. GrantWithinRevisions'
    BY <1>1, <2>2 DEF GrantWithinRevisions, Active
  <2>. QED  BY <2>3, <2>4
<1>4. CASE UNCHANGED grants
  BY <1>1, <1>4 DEF ConsumedInTime, GrantWithinRevisions, Active
<1>. QED  BY <1>2, <1>3, <1>4, Elsewhere

\* The first grant under an approval explains it; a later one finds it alive.
LEMMA ApprovalsStep ==
    ASSUME ControlTypeOK, ConsumingStands, ApprovalsExplained, [ControlNext]_controlVars
    PROVE  ApprovalsExplained'
<1>1. ASSUME NEW a \in Agents, Permit(a) PROVE ApprovalsExplained'
  <2>. DEFINE c == calls[a]
              n == Len(grants) + 1
  <2>1. PICK p \in Chosen(c), verifies \in BOOLEAN :
           /\ grants' = Append(grants, Grant(c, p, verifies))
           /\ Grant(c, p, verifies) \in ControlGrantRow
           /\ approvals' = IF Unapproved(c, p) THEN approvals \cup {Approval(c)} ELSE approvals
    BY <1>1, PermitAppends
  <2>. DEFINE g == Grant(c, p, verifies)
  <2>2. c \in AskingRow /\ ~Refusal(c)
    BY <1>1, PermitAppends
  <2>3. /\ g.engagement = c.engagement /\ g.asset = c.asset /\ g.request = c.request
        /\ g.profile = p /\ g.issued = c.now
    BY DEF Grant
  <2>4. /\ DOMAIN grants' = DOMAIN grants \cup {n}
        /\ \A i \in DOMAIN grants : grants'[i] = grants[i]
        /\ grants'[n] = g
    BY <2>1, Appended DEF ControlTypeOK
  <2>5. c.now \in Nat /\ c.engagement \in Manifests
    BY <2>2 DEF AskingRow
  <2>6. Unapproved(c, p) =>
           /\ p.risk >= R3
           /\ c.engagement.selfAttested
           /\ Approval(c).engagement = c.engagement.id
           /\ Approval(c).alias = c.asset.alias /\ Approval(c).revision = c.asset.revision
           /\ Approval(c).effects = c.request.effects
           /\ Approval(c).issued = c.now
           /\ Approval(c).expires <= c.engagement.expires
           /\ c.now < Approval(c).expires
    <3>1. Unapproved(c, p) => p.risk >= R3 /\ c.engagement.selfAttested
      BY <2>1, <2>2 DEF Unapproved, Refusal
    <3>2. Active(c.engagement, c.now)
      BY <2>2 DEF Refusal, StaticallyDenied
    <3>3. Approval(c).expires <= c.engagement.expires /\ c.now < Approval(c).expires
      BY <2>5, <3>2, ManifestTimes, LifetimesAreTimes DEF Active, Approval, Least
    <3>4. /\ Approval(c).engagement = c.engagement.id
          /\ Approval(c).alias = c.asset.alias /\ Approval(c).revision = c.asset.revision
          /\ Approval(c).effects = c.request.effects
          /\ Approval(c).issued = c.now
      BY DEF Approval
    <3>. QED  BY <3>1, <3>3, <3>4
  <2>7. (p.risk >= R3 /\ ~Unapproved(c, p)) =>
           \E ap \in approvals :
              /\ ap.engagement = c.engagement.id
              /\ ap.alias = c.asset.alias /\ ap.revision = c.asset.revision
              /\ c.request.effects \subseteq ap.effects
              /\ c.now < ap.expires
    BY <2>5 DEF Unapproved, Matches, ControlTypeOK
  <2>. HIDE DEF c, g, n
  <2>8. ASSUME NEW ap \in approvals'
        PROVE  \E i \in DOMAIN grants' :
                  /\ grants'[i].profile.risk >= R3
                  /\ grants'[i].engagement.id = ap.engagement
                  /\ grants'[i].engagement.selfAttested
                  /\ grants'[i].asset.alias = ap.alias /\ grants'[i].asset.revision = ap.revision
                  /\ grants'[i].issued = ap.issued
                  /\ ap.expires <= grants'[i].engagement.expires
    <3>1. CASE ap \in approvals
      BY <2>4, <3>1 DEF ApprovalsExplained
    <3>2. CASE ap \notin approvals
      <4>1. Unapproved(c, p) /\ ap = Approval(c)
        BY <2>1, <3>2
      <4>. QED  BY <2>3, <2>4, <2>6, <4>1
    <3>. QED  BY <3>1, <3>2
  <2>9. ASSUME NEW i \in DOMAIN grants', grants'[i].profile.risk >= R3
        PROVE  \E ap \in approvals' :
                  /\ ap.engagement = grants'[i].engagement.id
                  /\ ap.alias = grants'[i].asset.alias /\ ap.revision = grants'[i].asset.revision
                  /\ grants'[i].request.effects \subseteq ap.effects
                  /\ grants'[i].issued < ap.expires
    <3>1. CASE i \in DOMAIN grants
      <4>1. approvals \subseteq approvals'
        BY <2>1
      <4>. QED  BY <2>4, <2>9, <3>1, <4>1 DEF ApprovalsExplained
    <3>2. CASE i = n
      <4>1. CASE Unapproved(c, p)
        <5>1. Approval(c) \in approvals'
          BY <2>1, <4>1
        <5>. QED  BY <2>3, <2>4, <2>6, <3>2, <4>1, <5>1
      <4>2. CASE ~Unapproved(c, p)
        <5>1. approvals' = approvals
          BY <2>1, <4>2
        <5>. QED  BY <2>3, <2>4, <2>7, <2>9, <3>2, <4>2, <5>1
      <4>. QED  BY <4>1, <4>2
    <3>. QED  BY <2>4, <3>1, <3>2
  <2>. QED  BY <2>8, <2>9 DEF ApprovalsExplained
<1>2. ASSUME NEW a \in Agents, Consume(a) PROVE ApprovalsExplained'
  <2>1. /\ DOMAIN grants' = DOMAIN grants
        /\ UNCHANGED approvals
        /\ \A i \in DOMAIN grants :
              /\ grants'[i].engagement = grants[i].engagement
              /\ grants'[i].asset = grants[i].asset
              /\ grants'[i].request = grants[i].request
              /\ grants'[i].profile = grants[i].profile
              /\ grants'[i].issued = grants[i].issued
    BY <1>2, ConsumeMarks
  <2>. QED  BY <2>1 DEF ApprovalsExplained
<1>3. CASE UNCHANGED <<approvals, grants>>
  BY <1>3 DEF ApprovalsExplained
<1>. QED  BY <1>1, <1>2, <1>3, Elsewhere
--------------------------------------------------------------------------------
\* The grants a root task has paid for.
Charged(t) == {i \in DOMAIN grants : grants[i].request.root = t}

\* One more grant is one more call, within the limits of the engagement it is for.
LEMMA BudgetStep ==
    ASSUME ControlTypeOK, ConsumingStands, RootBudgetAccounts, [ControlNext]_controlVars
    PROVE  RootBudgetAccounts'
<1>1. ASSUME NEW a \in Agents, Permit(a) PROVE RootBudgetAccounts'
  <2>. DEFINE c == calls[a]
              n == Len(grants) + 1
  <2>1. PICK p \in Chosen(c), verifies \in BOOLEAN :
           /\ grants' = Append(grants, Grant(c, p, verifies))
           /\ Grant(c, p, verifies) \in ControlGrantRow
           /\ usage' = [usage EXCEPT ![c.request.root] =
                 [calls |-> @.calls + 1, runtime |-> @.runtime + c.request.timeout]]
    BY <1>1, PermitAppends
  <2>2. c \in AskingRow /\ ~Refusal(c)
    BY <1>1, PermitAppends
  <2>. DEFINE g == Grant(c, p, verifies)
  <2>3. g.engagement = c.engagement /\ g.request = c.request
    BY DEF Grant
  <2>4. /\ DOMAIN grants' = DOMAIN grants \cup {n}
        /\ \A i \in DOMAIN grants : grants'[i] = grants[i]
        /\ grants'[n] = g /\ n \notin DOMAIN grants
    BY <2>1, Appended DEF ControlTypeOK
  <2>5. PICK root \in Roots : root = c.request.root
    BY <2>2, ControlInputs DEF AskingRow, ControlRequestAssumption
  <2>6. /\ usage[root].calls + 1 <= c.engagement.maxCalls
        /\ usage[root].runtime + c.request.timeout
              <= c.engagement.maxRuntime * c.engagement.maxCalls
    BY <2>2, <2>5 DEF Refusal, WithinBudget
  <2>7. /\ usage'[root].calls = usage[root].calls + 1
        /\ usage'[root].runtime = usage[root].runtime + c.request.timeout
        /\ \A t \in Roots \ {root} : usage'[t] = usage[t]
    BY <2>1, <2>5 DEF ControlTypeOK
  <2>8. g.request.root = root
    BY <2>3, <2>5
  <2>. HIDE DEF c, g, n
  <2>9. /\ Charged(root)' = Charged(root) \cup {n}
        /\ n \notin Charged(root)
        /\ \A t \in Roots \ {root} : Charged(t)' = Charged(t)
    BY <2>4, <2>8 DEF Charged
  <2>10. IsFiniteSet(Charged(root))
    <3>1. DOMAIN grants = 1..Len(grants) /\ Len(grants) \in Nat
      BY DEF ControlTypeOK
    <3>2. Charged(root) \subseteq 1..Len(grants)
      BY <3>1 DEF Charged
    <3>3. IsFiniteSet(1..Len(grants))
      BY <3>1, FS_Interval
    <3>. QED  BY <3>2, <3>3, FS_Subset
  <2>11. Cardinality(Charged(root)') = Cardinality(Charged(root)) + 1
    BY <2>9, <2>10, FS_AddElement
  <2>12. ASSUME NEW t \in Roots
         PROVE  /\ usage'[t].calls = Cardinality(Charged(t)')
                /\ Charged(t)' # {} =>
                      \E i \in Charged(t)' :
                         /\ usage'[t].calls <= grants'[i].engagement.maxCalls
                         /\ usage'[t].runtime <=
                               grants'[i].engagement.maxRuntime * grants'[i].engagement.maxCalls
    <3>1. CASE t = root
      <4>1. usage'[t].calls = Cardinality(Charged(t)')
        BY <2>5, <2>7, <2>11, <3>1 DEF RootBudgetAccounts, Charged
      <4>2. n \in Charged(t)' /\ grants'[n].engagement = c.engagement
        BY <2>3, <2>4, <2>9, <3>1
      <4>3. /\ usage'[t].calls <= c.engagement.maxCalls
            /\ usage'[t].runtime <= c.engagement.maxRuntime * c.engagement.maxCalls
        BY <2>6, <2>7, <3>1
      <4>. QED  BY <4>1, <4>2, <4>3
    <3>2. CASE t # root
      <4>1. Charged(t)' = Charged(t) /\ usage'[t] = usage[t]
        BY <2>7, <2>9, <3>2
      <4>2. \A i \in Charged(t) : grants'[i] = grants[i]
        BY <2>4 DEF Charged
      <4>. QED  BY <4>1, <4>2 DEF RootBudgetAccounts, Charged
    <3>. QED  BY <3>1, <3>2
  <2>. QED  BY <2>12 DEF RootBudgetAccounts, Charged
<1>2. ASSUME NEW a \in Agents, Consume(a) PROVE RootBudgetAccounts'
  <2>1. /\ DOMAIN grants' = DOMAIN grants
        /\ UNCHANGED usage
        /\ \A i \in DOMAIN grants :
              /\ grants'[i].engagement = grants[i].engagement
              /\ grants'[i].request = grants[i].request
    BY <1>2, ConsumeMarks
  <2>2. \A t \in Roots : Charged(t)' = Charged(t)
    BY <2>1 DEF Charged
  <2>3. ASSUME NEW t \in Roots
        PROVE  /\ usage'[t].calls = Cardinality(Charged(t)')
               /\ Charged(t)' # {} =>
                     \E i \in Charged(t)' :
                        /\ usage'[t].calls <= grants'[i].engagement.maxCalls
                        /\ usage'[t].runtime <=
                              grants'[i].engagement.maxRuntime * grants'[i].engagement.maxCalls
    <3>1. \A i \in Charged(t) : grants'[i].engagement = grants[i].engagement
      BY <2>1 DEF Charged
    <3>. QED  BY <2>1, <2>2, <3>1 DEF RootBudgetAccounts, Charged
  <2>. QED  BY <2>3 DEF RootBudgetAccounts, Charged
<1>3. CASE UNCHANGED <<usage, grants>>
  BY <1>3 DEF RootBudgetAccounts
<1>. QED  BY <1>1, <1>2, <1>3, Elsewhere

--------------------------------------------------------------------------------
\* The invariant the theorems rest on.  What agents hold must be part of it: a grant is
\* written from what was read before the transaction, not from the tables.
ControlInv ==
    /\ RegistryInv
    /\ ControlTypeOK
    /\ AskingStands
    /\ ConsumingStands
    /\ ConsumedInTime
    /\ GrantWithinRevisions
    /\ ApprovalsExplained
    /\ RootBudgetAccounts

LEMMA ControlInvInit == ControlInit => ControlInv
<1>. SUFFICES ASSUME ControlInit PROVE ControlInv
  OBVIOUS
<1>1. RegistryInv
  BY RegistryInvInit DEF ControlInit
<1>2. ControlTypeOK /\ AskingStands /\ ConsumingStands
  BY <1>1 DEF ControlInit, RegistryInv, ControlTypeOK, AskingStands, ConsumingStands, At
<1>3. grants = <<>> /\ approvals = {} /\ \A t \in Roots : usage[t].calls = 0
  BY DEF ControlInit
<1>4. ConsumedInTime /\ GrantWithinRevisions /\ ApprovalsExplained
  BY <1>3 DEF ConsumedInTime, GrantWithinRevisions, ApprovalsExplained
<1>5. RootBudgetAccounts
  <2>1. {i \in DOMAIN grants : FALSE} = {} /\ DOMAIN grants = {}
    BY <1>3
  <2>. QED  BY <1>3, <2>1, FS_EmptySet DEF RootBudgetAccounts
<1>. QED  BY <1>1, <1>2, <1>4, <1>5 DEF ControlInv

LEMMA ControlInvStep ==
    ASSUME ControlInv, [ControlNext]_controlVars
    PROVE  ControlInv'
<1>. USE DEF ControlInv
<1>1. RegistryInv'
  BY RegistryStep, RegistryInvStep
<1>2. ControlTypeOK'
  BY ControlTypeStep
<1>3. AskingStands' /\ ConsumingStands'
  BY AskingStep, ConsumingStep
<1>4. ConsumedInTime' /\ GrantWithinRevisions'
  BY GrantStep
<1>5. ApprovalsExplained' /\ RootBudgetAccounts'
  BY ApprovalsStep, BudgetStep
<1>. QED  BY <1>1, <1>2, <1>3, <1>4, <1>5

\* Everything the theorems below need holds in every reachable state.
THEOREM ControlInvariant == ControlSpec => []ControlInv
BY ControlInvInit, ControlInvStep, PTL DEF ControlSpec

\* "revision must progress from ... to ..." (authorization.py:56 and 95): whatever
\* registrations interleave, fail or die, and whatever the policy engine does meanwhile,
\* the revisions of an engagement and of an alias are 1, 2, ... without gap or duplicate.
THEOREM RevisionsAlwaysGapFree == ControlSpec => []RevisionsGapFree
<1>1. ControlInv => RevisionsGapFree
  BY DEF ControlInv, RegistryInv
<1>. QED  BY <1>1, ControlInvariant, PTL

\* No asset revision ever stands without the engagement revision that declared it.
THEOREM AssetsAlwaysFollowEngagement == ControlSpec => []AssetsFollowEngagement
<1>1. ControlInv => AssetsFollowEngagement
  BY DEF ControlInv, RegistryInv
<1>. QED  BY <1>1, ControlInvariant, PTL

\* A grant stays within registered revisions that belong together and within the life of
\* its engagement, however long its caller slept on what it had read.
THEOREM GrantsStayWithinRevisions == ControlSpec => []GrantWithinRevisions
<1>1. ControlInv => GrantWithinRevisions
  BY DEF ControlInv
<1>. QED  BY <1>1, ControlInvariant, PTL

\* An approval is always explained by a grant that needed it, and a grant that needs
\* one by an approval that was alive: approval and grant are one transaction.
THEOREM ApprovalsAlwaysExplained == ControlSpec => []ApprovalsExplained
<1>1. ControlInv => ApprovalsExplained
  BY DEF ControlInv
<1>. QED  BY <1>1, ControlInvariant, PTL

\* No interleaving makes a budget row and the grants it counts disagree, or takes it
\* past what an engagement revision of one of them allows.
THEOREM RootBudgetAlwaysAccounts == ControlSpec => []RootBudgetAccounts
<1>1. ControlInv => RootBudgetAccounts
  BY DEF ControlInv
<1>. QED  BY <1>1, ControlInvariant, PTL

--------------------------------------------------------------------------------
\* The R4 windows.  A window row stands for an R4 grant until a later one of the same
\* engagement is more than an hour away.
WindowOf(i) ==
    [engagement |-> grants[i].engagement.id, at |-> grants[i].issued, row |-> i]

Outlived(i) ==
    \E k \in DOMAIN grants :
        /\ k > i
        /\ grants[k].profile.risk = R4
        /\ grants[k].engagement.id = grants[i].engagement.id
        /\ grants[i].issued + Hour < grants[k].issued

WindowsKept ==
    \A i \in DOMAIN grants : grants[i].profile.risk = R4 => WindowOf(i) \in windows \/ Outlived(i)

WindowInv == IsFiniteSet(windows) /\ WindowsKept /\ R4RateLimited

\* Only Permit writes windows, and what it writes.
LEMMA WindowsElsewhere ==
    ASSUME [ControlNext]_controlVars
    PROVE  (\E a \in Agents : Permit(a)) \/ UNCHANGED windows
BY DEF ControlNext, controlVars, controlTables, RegistryNext, StartAuthorize, Deny,
       RecordDenial, StartConsume, Consume, Abandon, Tick

LEMMA PermitWindows ==
    ASSUME ControlTypeOK, NEW a \in Agents, Permit(a)
    PROVE  \E p \in Chosen(calls[a]), verifies \in BOOLEAN :
              /\ grants' = Append(grants, Grant(calls[a], p, verifies))
              /\ Grant(calls[a], p, verifies) \in ControlGrantRow
              /\ p.risk = R4 => WithinWindow(calls[a])
              /\ windows' = IF p.risk = R4
                            THEN OpenWindows(calls[a]) \cup
                                    {[engagement |-> calls[a].engagement.id,
                                      at |-> calls[a].now, row |-> Len(grants) + 1]}
                            ELSE windows
<1>1. calls[a] \in AskingRow /\ ~Refusal(calls[a])
  BY CallIs DEF Permit
<1>2. GrantVerifies(calls[a]) \subseteq BOOLEAN
  BY DEF GrantVerifies, EffectsVerify
<1>3. PICK p \in Chosen(calls[a]), verifies \in BOOLEAN :
         /\ grants' = Append(grants, Grant(calls[a], p, verifies))
         /\ windows' = IF p.risk = R4
                       THEN OpenWindows(calls[a]) \cup
                               {[engagement |-> calls[a].engagement.id,
                                 at |-> calls[a].now, row |-> Len(grants) + 1]}
                       ELSE windows
  BY <1>2 DEF Permit
<1>4. p.risk = R4 => WithinWindow(calls[a])
  BY <1>1 DEF Refusal
<1>. QED  BY <1>1, <1>3, <1>4, GrantTyped

\* When an R4 grant is written, the hour before it holds at most the grants whose rows
\* were just counted.
LEMMA WindowCounts ==
    ASSUME ControlTypeOK, WindowInv, NEW c \in AskingRow, WithinWindow(c),
           NEW S \in SUBSET (DOMAIN grants),
           \A j \in S : /\ grants[j].profile.risk = R4
                        /\ grants[j].engagement.id = c.engagement.id
                        /\ grants[j].issued + Hour >= c.now,
           \A j \in DOMAIN grants :
               grants[j].profile.risk = R4 /\ grants[j].engagement.id = c.engagement.id
                   => grants[j].issued <= c.now
    PROVE  IsFiniteSet(S) /\ Cardinality(S) < R4LimitPerHour
<1>. DEFINE W == {w \in OpenWindows(c) : w.engagement = c.engagement.id}
            f == [j \in S |-> WindowOf(j)]
<1>1. IsFiniteSet(W) /\ Cardinality(W) < R4LimitPerHour
  <2>1. W \in SUBSET windows /\ IsFiniteSet(windows)
    BY DEF OpenWindows, WindowInv
  <2>. QED  BY <2>1, FS_Subset DEF WithinWindow
<1>2. ASSUME NEW j \in S PROVE WindowOf(j) \in W
  <2>1. j \in DOMAIN grants /\ grants[j] \in ControlGrantRow
    BY DEF ControlTypeOK
  <2>2. grants[j].issued \in Nat /\ c.now \in Nat /\ Hour \in Nat
    BY <2>1, WindowIsNumbers DEF ControlGrantRow, AskingRow
  <2>3. ~Outlived(j)
    <3>1. SUFFICES ASSUME NEW k \in DOMAIN grants, grants[k].profile.risk = R4,
                          grants[k].engagement.id = grants[j].engagement.id,
                          grants[j].issued + Hour < grants[k].issued
                   PROVE  FALSE
      BY DEF Outlived
    <3>2. grants[k].issued <= c.now /\ grants[j].issued + Hour >= c.now
      BY <3>1
    <3>3. grants[k] \in ControlGrantRow
      BY DEF ControlTypeOK
    <3>4. grants[k].issued \in Nat
      BY <3>3 DEF ControlGrantRow
    <3>. QED  BY <2>2, <3>1, <3>2, <3>4
  <2>4. WindowOf(j) \in windows
    BY <2>1, <2>3 DEF WindowInv, WindowsKept
  <2>5. WindowOf(j).engagement = c.engagement.id /\ WindowOf(j).at = grants[j].issued
    BY DEF WindowOf
  <2>. QED  BY <2>2, <2>4, <2>5 DEF OpenWindows, Expired
<1>3. f \in Injection(S, W)
  <2>1. f \in [S -> W]
    BY <1>2
  <2>2. ASSUME NEW j \in S, NEW k \in S, f[j] = f[k] PROVE j = k
    <3>1. WindowOf(j).row = j /\ WindowOf(k).row = k
      BY DEF WindowOf
    <3>. QED  BY <2>2, <3>1
  <2>. QED  BY <2>1, <2>2 DEF Injection, IsInjective
<1>4. IsFiniteSet(S) /\ Cardinality(S) <= Cardinality(W)
  BY <1>1, <1>3, FS_Injection
<1>5. Cardinality(S) \in Nat /\ Cardinality(W) \in Nat
  BY <1>1, <1>4, FS_CardinalityType
<1>. QED  BY <1>1, <1>4, <1>5, WindowIsNumbers


\* The rate at one grant.
RateAt(i) ==
    (/\ grants[i].profile.risk = R4
     /\ \A j \in R4Before(i) : grants[j].issued <= grants[i].issued) =>
        Cardinality({j \in R4Before(i) : grants[j].issued + Hour >= grants[i].issued})
            <= R4LimitPerHour

\* It depends on nothing of the grants up to that one that changes.
LEMMA RateStays ==
    ASSUME NEW i \in Nat, RateAt(i),
           \A j \in 1..i :
              /\ grants'[j].engagement = grants[j].engagement
              /\ grants'[j].profile = grants[j].profile
              /\ grants'[j].issued = grants[j].issued,
           i \in 1..i
    PROVE  RateAt(i)'
<1>1. \A j : j \in R4Before(i)' <=> j \in R4Before(i)
  BY DEF R4Before
<1>2. R4Before(i)' = R4Before(i)
  BY <1>1
<1>3. /\ grants'[i].profile.risk = grants[i].profile.risk
      /\ grants'[i].issued = grants[i].issued
  OBVIOUS
<1>4. (\A j \in R4Before(i)' : grants'[j].issued <= grants'[i].issued)
         => \A j \in R4Before(i) : grants[j].issued <= grants[i].issued
  BY <1>2, <1>3 DEF R4Before
<1>. DEFINE S == {j \in R4Before(i)' : grants'[j].issued + Hour >= grants'[i].issued}
            T == {j \in R4Before(i) : grants[j].issued + Hour >= grants[i].issued}
<1>5. \A j : j \in S <=> j \in T
  BY <1>2, <1>3 DEF R4Before
<1>6. S = T
  BY <1>5
<1>. QED  BY <1>3, <1>4, <1>6 DEF RateAt

\* Consumption and everything that writes no grant.
LEMMA WindowsStand ==
    ASSUME ControlTypeOK, WindowInv, UNCHANGED windows, DOMAIN grants' = DOMAIN grants,
           \A i \in DOMAIN grants :
              /\ grants'[i].engagement = grants[i].engagement
              /\ grants'[i].profile = grants[i].profile
              /\ grants'[i].issued = grants[i].issued
    PROVE  WindowInv'
<1>1. WindowsKept'
  BY DEF WindowInv, WindowsKept, WindowOf, Outlived
<1>2. R4RateLimited'
  <2>1. ASSUME NEW i \in DOMAIN grants PROVE RateAt(i)'
    <3>1. i \in Nat /\ i \in 1..i /\ 1..i \subseteq DOMAIN grants
      BY DEF ControlTypeOK
    <3>2. RateAt(i)
      BY DEF WindowInv, R4RateLimited, RateAt
    <3>. QED  BY <3>1, <3>2, RateStays
  <2>. QED  BY <2>1 DEF R4RateLimited, RateAt
<1>. QED  BY <1>1, <1>2 DEF WindowInv

\* A grant is written: an R4 one when its hour has room, and its row with it.
LEMMA WindowsPermit ==
    ASSUME ControlTypeOK, WindowInv, NEW a \in Agents, Permit(a)
    PROVE  WindowInv'
<1>. PICK c : c = calls[a]
  OBVIOUS
<1>. PICK l : l = Len(grants) + 1
  OBVIOUS
<1>1. PICK p \in Chosen(c), verifies \in BOOLEAN :
         /\ grants' = Append(grants, Grant(c, p, verifies))
         /\ Grant(c, p, verifies) \in ControlGrantRow
         /\ p.risk = R4 => WithinWindow(c)
         /\ windows' = IF p.risk = R4
                       THEN OpenWindows(c) \cup
                               {[engagement |-> c.engagement.id, at |-> c.now, row |-> l]}
                       ELSE windows
  BY PermitWindows
<1>. PICK g : g = Grant(c, p, verifies)
  OBVIOUS
<1>2. c \in AskingRow /\ c.now \in Nat
  BY PermitAppends DEF AskingRow
<1>3. /\ g.engagement = c.engagement /\ g.profile = p /\ g.issued = c.now
  BY DEF Grant
<1>4. /\ grants \in Seq(ControlGrantRow)
      /\ DOMAIN grants' = DOMAIN grants \cup {l}
      /\ \A i \in DOMAIN grants : grants'[i] = grants[i]
      /\ grants'[l] = g /\ l \notin DOMAIN grants
  BY <1>1, Appended DEF ControlTypeOK
<1>5. /\ l \in Nat /\ DOMAIN grants = 1..(l - 1) /\ DOMAIN grants' = 1..l
  BY <1>4
<1>6. IsFiniteSet(windows')
  <2>1. IsFiniteSet(windows)
    BY DEF WindowInv
  <2>2. IsFiniteSet(OpenWindows(c))
    BY <2>1, FS_Subset DEF OpenWindows
  <2>. QED  BY <1>1, <2>1, <2>2, FS_AddElement
<1>7. WindowsKept'
  <2>. SUFFICES ASSUME NEW i \in DOMAIN grants', grants'[i].profile.risk = R4
                PROVE  WindowOf(i)' \in windows' \/ Outlived(i)'
    BY DEF WindowsKept
  <2>1. CASE i = l
    BY <1>1, <1>3, <1>4, <2>1 DEF WindowOf
  <2>2. CASE i \in DOMAIN grants
    <3>1. WindowOf(i)' = WindowOf(i) /\ grants[i].profile.risk = R4
      BY <1>4, <2>2 DEF WindowOf
    <3>2. Outlived(i) => Outlived(i)'
      BY <1>4, <2>2 DEF Outlived
    <3>3. WindowOf(i) \in windows \/ Outlived(i)
      BY <2>2, <3>1 DEF WindowInv, WindowsKept
    <3>4. ASSUME WindowOf(i) \in windows, WindowOf(i) \notin windows' PROVE Outlived(i)'
      <4>1. p.risk = R4 /\ WindowOf(i) \notin OpenWindows(c)
        BY <1>1, <3>4
      <4>2. /\ grants[i].engagement.id = c.engagement.id
            /\ grants[i].issued + Hour < c.now
        BY <3>4, <4>1 DEF OpenWindows, Expired, WindowOf
      <4>3. l > i /\ l \in DOMAIN grants'
        BY <1>5, <2>2
      <4>. QED  BY <1>3, <1>4, <2>2, <4>1, <4>2, <4>3 DEF Outlived
    <3>. QED  BY <3>1, <3>2, <3>3, <3>4
  <2>. QED  BY <1>4, <2>1, <2>2
<1>8. R4RateLimited'
  <2>1. ASSUME NEW i \in DOMAIN grants PROVE RateAt(i)'
    <3>1. i \in Nat /\ i \in 1..i /\ 1..i \subseteq DOMAIN grants
      BY <1>5
    <3>2. RateAt(i)
      BY DEF WindowInv, R4RateLimited, RateAt
    <3>. QED  BY <1>4, <3>1, <3>2, RateStays
  <2>2. RateAt(l)'
    <3>. SUFFICES ASSUME p.risk = R4, NEW B, B = R4Before(l)',
                         \A j \in B : grants'[j].issued <= c.now
                  PROVE  Cardinality({j \in B : grants'[j].issued + Hour >= c.now}) <= R4LimitPerHour
      BY <1>3, <1>4 DEF RateAt
    <3>. DEFINE T == {j \in B : grants'[j].issued + Hour >= c.now}
                S == {j \in T : j \in DOMAIN grants}
    <3>1. B = {j \in 1..l : grants'[j].profile.risk = R4
                             /\ grants'[j].engagement.id = c.engagement.id}
      BY <1>3, <1>4 DEF R4Before
    <3>2. \A j \in S : /\ grants[j].profile.risk = R4
                       /\ grants[j].engagement.id = c.engagement.id
                       /\ grants[j].issued + Hour >= c.now
      BY <1>4, <3>1
    <3>3. ASSUME NEW j \in DOMAIN grants,
                 grants[j].profile.risk = R4, grants[j].engagement.id = c.engagement.id
          PROVE  grants[j].issued <= c.now
      <4>1. j \in B
        BY <1>4, <1>5, <3>1, <3>3
      <4>. QED  BY <1>4, <4>1
    <3>4. S \in SUBSET DOMAIN grants
      OBVIOUS
    <3>. HIDE DEF S
    <3>5. IsFiniteSet(S) /\ Cardinality(S) < R4LimitPerHour
      BY <1>1, <1>2, <3>2, <3>3, <3>4, WindowCounts
    <3>6. T \in SUBSET (S \cup {l})
      BY <1>5, <3>1 DEF S
    <3>. HIDE DEF T
    <3>7. IsFiniteSet(S \cup {l}) /\ Cardinality(S \cup {l}) <= Cardinality(S) + 1
      <4>1. /\ IsFiniteSet(S \cup {l})
            /\ Cardinality(S \cup {l}) = IF l \in S THEN Cardinality(S) ELSE Cardinality(S) + 1
        BY <3>5, FS_AddElement
      <4>2. Cardinality(S) \in Nat
        BY <3>5, FS_CardinalityType
      <4>. QED  BY <4>1, <4>2
    <3>8. IsFiniteSet(T) /\ Cardinality(T) <= Cardinality(S \cup {l})
      BY <3>6, <3>7, FS_Subset
    <3>9. /\ Cardinality(S) \in Nat /\ Cardinality(T) \in Nat
          /\ Cardinality(S \cup {l}) \in Nat
      BY <3>5, <3>7, <3>8, FS_CardinalityType
    <3>10. Cardinality(T) <= R4LimitPerHour
      BY <3>5, <3>7, <3>8, <3>9, WindowIsNumbers
    <3>. QED  BY <3>10 DEF T
  <2>. QED  BY <1>4, <2>1, <2>2 DEF R4RateLimited, RateAt
<1>. QED  BY <1>6, <1>7, <1>8 DEF WindowInv

LEMMA WindowStep ==
    ASSUME ControlInv, WindowInv, [ControlNext]_controlVars
    PROVE  WindowInv'
<1>0. ControlTypeOK /\ ConsumingStands
  BY DEF ControlInv
<1>1. ASSUME NEW a \in Agents, Permit(a) PROVE WindowInv'
  BY <1>0, <1>1, WindowsPermit
<1>2. ASSUME NEW a \in Agents, Consume(a), UNCHANGED windows PROVE WindowInv'
  BY <1>0, <1>2, ConsumeMarks, WindowsStand
<1>3. CASE UNCHANGED <<grants, windows>>
  BY <1>0, <1>3, WindowsStand
<1>4. ASSUME NEW a \in Agents, Consume(a) PROVE UNCHANGED windows
  BY <1>4 DEF Consume
<1>. QED  BY <1>1, <1>2, <1>3, <1>4, Elsewhere, WindowsElsewhere

\* "engagement R4 rate limit reached" (policy.py:361): however authorizations interleave
\* with times their callers read earlier, the hour before an R4 grant that is not
\* overtaken by time holds at most as many of its engagement as the limit.
THEOREM R4AlwaysRateLimited == ControlSpec => []R4RateLimited
<1>1. ControlInit => WindowInv
  BY FS_EmptySet DEF ControlInit, WindowInv, WindowsKept, R4RateLimited
<1>2. WindowInv => R4RateLimited
  BY DEF WindowInv
<1>. QED  BY <1>1, <1>2, WindowStep, ControlInvariant, PTL DEF ControlSpec


--------------------------------------------------------------------------------
\* The audit log.
AuditRow ==
    [engagement : {m.id : m \in Manifests},
     event : {"approval.auto_granted", "authorization.permitted", "authorization.denied",
              "execution_grant.consumed"},
     grant : Nat, prior : Nat]

\* A set of naturals has a least element: from the well-foundedness of inclusion among
\* finite sets, of which the intervals 0..n are an instance.
LEMMA LeastElement ==
    ASSUME NEW S \in SUBSET Nat, S # {}
    PROVE  \E m \in S : \A n \in S : m <= n
<1> DEFINE T == {0..n : n \in S}
<1>1. IsWellFoundedOn(StrictSubsetOrdering(Nat), FiniteSubsetsOf(Nat))
  BY FS_StrictSubsetOrderingWellFounded
<1>2. T \subseteq FiniteSubsetsOf(Nat)
  <2> SUFFICES ASSUME NEW n \in S PROVE 0..n \in FiniteSubsetsOf(Nat)
    OBVIOUS
  <2>1. IsFiniteSet(0..n)
    BY FS_Interval
  <2>2. QED
    BY <2>1 DEF FiniteSubsetsOf
<1>3. T # {}
  OBVIOUS
<1>4. PICK x \in T : \A y \in T : <<y, x>> \notin StrictSubsetOrdering(Nat)
  BY <1>1, <1>2, <1>3, WFMin
<1>5. PICK m \in S : x = 0..m
  OBVIOUS
<1>6. ASSUME NEW n \in S, n < m PROVE FALSE
  <2>1. 0..n \subseteq 0..m /\ m \in 0..m /\ m \notin 0..n
    BY <1>6
  <2>2. 0..n \subseteq Nat /\ 0..m \subseteq Nat
    OBVIOUS
  <2>3. 0..n # 0..m
    BY <2>1
  <2>4. <<0..n, 0..m>> \in StrictSubsetOrdering(Nat)
    BY <2>1, <2>2, <2>3 DEF StrictSubsetOrdering
  <2>5. QED
    BY <1>4, <1>5, <2>4
<1>7. QED
  BY <1>6

\* So a bounded one has a greatest.
LEMMA GreatestElement ==
    ASSUME NEW n \in Nat, NEW S \in SUBSET (1..n), S # {}
    PROVE  \E m \in S : \A k \in S : k <= m
<1>. DEFINE T == {n - k : k \in S}
<1>1. T \in SUBSET Nat /\ T # {}
  <2>1. \A k \in S : n - k \in Nat
    OBVIOUS
  <2>2. T \in SUBSET Nat
    BY <2>1
  <2>3. PICK k \in S : TRUE
    OBVIOUS
  <2>4. n - k \in T
    OBVIOUS
  <2>. QED  BY <2>2, <2>4
<1>2. PICK m \in T : \A k \in T : m <= k
  BY <1>1, LeastElement
<1>3. PICK k \in S : m = n - k
  BY <1>2
<1>4. ASSUME NEW j \in S PROVE j <= k
  <2>1. n - k <= n - j
    BY <1>2, <1>3
  <2>2. j \in Nat /\ k \in Nat
    OBVIOUS
  <2>. QED  BY <2>1, <2>2
<1>. QED  BY <1>3, <1>4

\* What the CHOOSE of LastEvent finds.
LEMMA LastEventIs ==
    ASSUME NEW log \in Seq(AuditRow), NEW e
    PROVE  /\ LastEvent(log, e) \in 0..Len(log)
           /\ \A j \in DOMAIN log : log[j].engagement = e => j <= LastEvent(log, e)
<1>. DEFINE own == {j \in DOMAIN log : log[j].engagement = e}
<1>1. CASE own = {}
  <2>1. LastEvent(log, e) = 0
    BY <1>1 DEF LastEvent
  <2>. QED  BY <1>1, <2>1
<1>2. CASE own # {}
  <2>1. Len(log) \in Nat /\ own \in SUBSET (1..Len(log))
    OBVIOUS
  <2>2. \E m \in own : \A k \in own : k <= m
    BY <1>2, <2>1, GreatestElement
  <2>3. LastEvent(log, e) = CHOOSE m \in own : \A k \in own : k <= m
    BY <1>2 DEF LastEvent
  <2>4. LastEvent(log, e) \in own /\ \A k \in own : k <= LastEvent(log, e)
    BY <2>2, <2>3
  <2>. QED  BY <2>4
<1>. QED  BY <1>1, <1>2

\* Each event carries the last one of its engagement before it.
Linked(log) ==
    \A i \in DOMAIN log :
        /\ log[i].prior < i
        /\ \A j \in DOMAIN log : j < i /\ log[j].engagement = log[i].engagement => j <= log[i].prior

EventsOf(log, event, g) == {i \in DOMAIN log : log[i].event = event /\ log[i].grant = g}

\* What the log tells of one grant: permitted once, and consumed once after that if it
\* is spent.
Story(log, g, spent) ==
    \E permitted \in DOMAIN log :
        /\ EventsOf(log, "authorization.permitted", g) = {permitted}
        /\ IF spent
           THEN \E i \in DOMAIN log :
                   i > permitted /\ EventsOf(log, "execution_grant.consumed", g) = {i}
           ELSE EventsOf(log, "execution_grant.consumed", g) = {}

Untold(log, g) ==
    /\ EventsOf(log, "authorization.permitted", g) = {}
    /\ EventsOf(log, "execution_grant.consumed", g) = {}

\* One more event, about one grant.
OneMore(log, next, event, grant) ==
    /\ next \in Seq(AuditRow)
    /\ Linked(next)
    /\ DOMAIN next = DOMAIN log \cup {Len(log) + 1}
    /\ EventsOf(next, event, grant) = EventsOf(log, event, grant) \cup {Len(log) + 1}
    /\ \A ev, g : ev # event \/ g # grant => EventsOf(next, ev, g) = EventsOf(log, ev, g)

LEMMA ChainedIs ==
    ASSUME NEW log \in Seq(AuditRow), Linked(log), NEW m \in Manifests,
           NEW event \in {"approval.auto_granted", "authorization.permitted",
                          "authorization.denied", "execution_grant.consumed"},
           NEW grant \in Nat, NEW next, next = Chained(log, m.id, event, grant)
    PROVE  OneMore(log, next, event, grant)
<1>. DEFINE x == [engagement |-> m.id, event |-> event, grant |-> grant,
                  prior |-> LastEvent(log, m.id)]
<1>. PICK l : l = Len(log) + 1
  OBVIOUS
<1>1. LastEvent(log, m.id) \in 0..Len(log)
  BY LastEventIs
<1>2. x \in AuditRow
  BY <1>1 DEF AuditRow
<1>3. next = Append(log, x)
  BY DEF Chained
<1>4. /\ x.engagement = m.id /\ x.event = event /\ x.grant = grant
      /\ x.prior = LastEvent(log, m.id)
  OBVIOUS
<1>. HIDE DEF x
<1>5. /\ next \in Seq(AuditRow)
      /\ DOMAIN next = DOMAIN log \cup {l}
      /\ \A i \in DOMAIN log : next[i] = log[i]
      /\ next[l] = x /\ l \notin DOMAIN log
  BY <1>2, <1>3, Appended
<1>6. l \in Nat /\ DOMAIN log = 1..(l - 1)
  OBVIOUS
<1>7. Linked(next)
  <2>1. ASSUME NEW i \in DOMAIN log
        PROVE  /\ next[i].prior < i
               /\ \A j \in DOMAIN next : j < i /\ next[j].engagement = next[i].engagement
                                            => j <= next[i].prior
    BY <1>5, <1>6 DEF Linked
  <2>2. /\ next[l].prior < l
        /\ \A j \in DOMAIN next : j < l /\ next[j].engagement = next[l].engagement
                                     => j <= next[l].prior
    <3>1. \A j \in DOMAIN log : log[j].engagement = m.id => j <= LastEvent(log, m.id)
      BY LastEventIs
    <3>. QED  BY <1>1, <1>4, <1>5, <1>6, <3>1
  <2>. QED  BY <1>5, <2>1, <2>2 DEF Linked
<1>8. EventsOf(next, event, grant) = EventsOf(log, event, grant) \cup {l}
  <2>1. \A j : j \in EventsOf(next, event, grant) <=> j \in EventsOf(log, event, grant) \cup {l}
    BY <1>4, <1>5 DEF EventsOf
  <2>. QED  BY <2>1
<1>9. ASSUME NEW ev, NEW g, ev # event \/ g # grant
      PROVE  EventsOf(next, ev, g) = EventsOf(log, ev, g)
  <2>1. \A j : j \in EventsOf(next, ev, g) <=> j \in EventsOf(log, ev, g)
    BY <1>4, <1>5, <1>9 DEF EventsOf
  <2>. QED  BY <2>1
<1>. QED  BY <1>5, <1>7, <1>8, <1>9 DEF OneMore

\* An event about something else changes no story.
LEMMA StoryStays ==
    ASSUME NEW log \in Seq(AuditRow), NEW next, DOMAIN log \subseteq DOMAIN next, NEW g,
           \A ev \in {"authorization.permitted", "execution_grant.consumed"} :
               EventsOf(next, ev, g) = EventsOf(log, ev, g)
    PROVE  /\ \A spent \in BOOLEAN : Story(log, g, spent) => Story(next, g, spent)
           /\ Untold(log, g) => Untold(next, g)
BY DEF Story, Untold


\* The log is typed and linked, tells the story of every grant, and of nothing else.
AuditInv ==
    /\ audit \in Seq(AuditRow)
    /\ Linked(audit)
    /\ \A g \in DOMAIN grants : Story(audit, g, grants[g].consumed # None)
    /\ \A g \in Nat \ DOMAIN grants : Untold(audit, g)

LEMMA AuditInvImplies ==
    ASSUME ControlTypeOK, ConsumedInTime, AuditInv
    PROVE  AuditTellsGrants
<1>1. ASSUME NEW i \in DOMAIN audit, NEW j \in DOMAIN audit,
             audit[i].engagement = audit[j].engagement, audit[i].prior = audit[j].prior
      PROVE  i = j
  <2>1. i \in Nat /\ j \in Nat /\ audit[i].prior \in Nat /\ audit[j].prior \in Nat
    <3>1. audit[i] \in AuditRow /\ audit[j] \in AuditRow
      BY DEF AuditInv
    <3>. QED  BY <3>1 DEF AuditInv, AuditRow
  <2>2. i < j => i <= audit[j].prior /\ audit[i].prior < i
    BY <1>1 DEF AuditInv, Linked
  <2>3. j < i => j <= audit[i].prior /\ audit[j].prior < j
    BY <1>1 DEF AuditInv, Linked
  <2>. QED  BY <1>1, <2>1, <2>2, <2>3
<1>2. ASSUME NEW g \in DOMAIN grants
      PROVE  \E permitted \in EventsOf(audit, "authorization.permitted", g) :
                /\ EventsOf(audit, "authorization.permitted", g) = {permitted}
                /\ Cardinality(EventsOf(audit, "execution_grant.consumed", g))
                      = IF grants[g].consumed = None THEN 0 ELSE 1
                /\ \A i \in EventsOf(audit, "execution_grant.consumed", g) :
                      i > permitted /\ grants[g].consumed < grants[g].expires
  <2>1. Story(audit, g, grants[g].consumed # None)
    BY DEF AuditInv
  <2>2. PICK permitted \in DOMAIN audit :
           /\ EventsOf(audit, "authorization.permitted", g) = {permitted}
           /\ IF grants[g].consumed # None
              THEN \E i \in DOMAIN audit :
                      /\ i > permitted
                      /\ EventsOf(audit, "execution_grant.consumed", g) = {i}
              ELSE EventsOf(audit, "execution_grant.consumed", g) = {}
    BY <2>1 DEF Story
  <2>3. CASE grants[g].consumed = None
    <3>1. EventsOf(audit, "execution_grant.consumed", g) = {}
      BY <2>2, <2>3
    <3>2. Cardinality(EventsOf(audit, "execution_grant.consumed", g)) = 0
      BY <3>1, FS_EmptySet
    <3>. QED  BY <2>2, <2>3, <3>1, <3>2
  <2>4. CASE grants[g].consumed # None
    <3>1. PICK i \in DOMAIN audit : /\ i > permitted
                                    /\ EventsOf(audit, "execution_grant.consumed", g) = {i}
      BY <2>2, <2>4
    <3>2. Cardinality({i}) = 1
      BY FS_Singleton
    <3>3. grants[g].consumed < grants[g].expires
      BY <2>4 DEF ConsumedInTime
    <3>. QED  BY <2>2, <2>4, <3>1, <3>2, <3>3
  <2>. QED  BY <2>3, <2>4
<1>. QED  BY <1>1, <1>2 DEF AuditTellsGrants, EventsOf

\* Nothing writes the log but these.
LEMMA AuditElsewhere ==
    ASSUME [ControlNext]_controlVars
    PROVE  \/ \E a \in Agents : Permit(a) \/ RecordDenial(a) \/ Consume(a)
           \/ UNCHANGED <<audit, grants>>
BY DEF ControlNext, controlVars, controlTables, RegistryNext, StartAuthorize, Deny,
       StartConsume, Abandon, Tick

\* A grant is written together with the event that permits it, and perhaps one of the
\* approval that was written for it.
LEMMA AuditPermit ==
    ASSUME ControlTypeOK, AuditInv, NEW a \in Agents, Permit(a)
    PROVE  AuditInv'
<1>. PICK c : c = calls[a]
  OBVIOUS
<1>. PICK l : l = Len(grants) + 1
  OBVIOUS
<1>1. c \in AskingRow /\ c.engagement \in Manifests
  BY PermitAppends DEF AskingRow
<1>2. PICK p \in Chosen(c), verifies \in GrantVerifies(c) :
         /\ grants' = Append(grants, Grant(c, p, verifies))
         /\ audit' = Chained(IF Unapproved(c, p)
                             THEN Chained(audit, c.engagement.id, "approval.auto_granted", l)
                             ELSE audit,
                             c.engagement.id, "authorization.permitted", l)
  BY DEF Permit
<1>3. verifies \in BOOLEAN
  BY DEF GrantVerifies, EffectsVerify
<1>. PICK g : g = Grant(c, p, verifies)
  OBVIOUS
<1>4. g \in ControlGrantRow /\ g.consumed = None
  BY <1>1, <1>3, GrantTyped DEF Grant
<1>5. /\ grants \in Seq(ControlGrantRow)
      /\ DOMAIN grants' = DOMAIN grants \cup {l}
      /\ \A i \in DOMAIN grants : grants'[i] = grants[i]
      /\ grants'[l] = g /\ l \notin DOMAIN grants
  BY <1>2, <1>4, Appended DEF ControlTypeOK
<1>6. l \in Nat
  BY <1>5
<1>. PICK first : first = IF Unapproved(c, p)
                          THEN Chained(audit, c.engagement.id, "approval.auto_granted", l)
                          ELSE audit
  OBVIOUS
<1>7. /\ first \in Seq(AuditRow)
      /\ Linked(first)
      /\ DOMAIN audit \subseteq DOMAIN first
      /\ \A ev \in {"authorization.permitted", "execution_grant.consumed"} :
            \A i : EventsOf(first, ev, i) = EventsOf(audit, ev, i)
  <2>1. CASE ~Unapproved(c, p)
    BY <2>1 DEF AuditInv
  <2>2. CASE Unapproved(c, p)
    <3>1. first = Chained(audit, c.engagement.id, "approval.auto_granted", l)
      BY <2>2
    <3>2. audit \in Seq(AuditRow) /\ Linked(audit)
      BY DEF AuditInv
    <3>3. OneMore(audit, first, "approval.auto_granted", l)
      BY <1>1, <1>6, <3>1, <3>2, ChainedIs
    <3>. QED  BY <3>3 DEF OneMore
  <2>. QED  BY <2>1, <2>2
<1>8. OneMore(first, audit', "authorization.permitted", l)
  <2>1. audit' = Chained(first, c.engagement.id, "authorization.permitted", l)
    BY <1>2
  <2>. QED  BY <1>1, <1>6, <1>7, <2>1, ChainedIs
<1>9. ASSUME NEW i, i # l
      PROVE  \A ev \in {"authorization.permitted", "execution_grant.consumed"} :
                 EventsOf(audit', ev, i) = EventsOf(audit, ev, i)
  BY <1>7, <1>8, <1>9 DEF OneMore
<1>10. DOMAIN audit \subseteq DOMAIN audit'
  BY <1>7, <1>8 DEF OneMore
<1>11. ASSUME NEW i \in DOMAIN grants PROVE Story(audit', i, grants'[i].consumed # None)
  <2>1. i # l
    BY <1>5
  <2>2. Story(audit, i, grants[i].consumed # None) /\ grants'[i] = grants[i]
    BY <1>5 DEF AuditInv
  <2>3. audit \in Seq(AuditRow)
    BY DEF AuditInv
  <2>. QED  BY <1>9, <1>10, <2>1, <2>2, <2>3, StoryStays
<1>12. Story(audit', l, grants'[l].consumed # None)
  <2>1. Untold(audit, l)
    BY <1>5, <1>6 DEF AuditInv
  <2>2. /\ EventsOf(audit', "authorization.permitted", l) = {Len(first) + 1}
        /\ EventsOf(audit', "execution_grant.consumed", l) = {}
    BY <1>7, <1>8, <2>1 DEF Untold, OneMore
  <2>. QED  BY <1>4, <1>5, <1>8, <2>2 DEF Story, OneMore
<1>13. ASSUME NEW i \in Nat \ DOMAIN grants' PROVE Untold(audit', i)
  <2>1. i # l /\ Untold(audit, i) /\ audit \in Seq(AuditRow)
    BY <1>5 DEF AuditInv
  <2>. QED  BY <1>9, <1>10, <2>1, StoryStays
<1>. QED  BY <1>5, <1>8, <1>11, <1>12, <1>13 DEF AuditInv, OneMore

\* A denial tells of no grant.
LEMMA AuditDenial ==
    ASSUME ControlTypeOK, AuditInv, NEW a \in Agents, RecordDenial(a)
    PROVE  AuditInv'
<1>. PICK m : m = calls[a].engagement
  OBVIOUS
<1>1. m \in Manifests
  <2>1. calls[a] \in AskingRow
    BY CallIs DEF RecordDenial
  <2>. QED  BY <2>1 DEF AskingRow
<1>2. /\ UNCHANGED grants
      /\ audit' = Chained(audit, m.id, "authorization.denied", 0)
  BY DEF RecordDenial
<1>3. audit \in Seq(AuditRow) /\ Linked(audit)
  BY DEF AuditInv
<1>. PICK next : next = audit'
  OBVIOUS
<1>4. OneMore(audit, next, "authorization.denied", 0)
  BY <1>1, <1>2, <1>3, ChainedIs
<1>5. ASSUME NEW i
      PROVE  /\ \A spent \in BOOLEAN : Story(audit, i, spent) => Story(next, i, spent)
             /\ Untold(audit, i) => Untold(next, i)
  <2>1. \A ev \in {"authorization.permitted", "execution_grant.consumed"} :
            EventsOf(next, ev, i) = EventsOf(audit, ev, i)
    BY <1>4 DEF OneMore
  <2>2. audit \in Seq(AuditRow) /\ DOMAIN audit \subseteq DOMAIN next
    BY <1>3, <1>4 DEF OneMore
  <2>. QED  BY <2>1, <2>2, StoryStays
<1>. QED  BY <1>2, <1>4, <1>5 DEF AuditInv, OneMore

\* A consumption is told once, after the permission.
LEMMA AuditConsume ==
    ASSUME ControlTypeOK, ConsumingStands, AuditInv, NEW a \in Agents, Consume(a)
    PROVE  AuditInv'
<1>. PICK k : k = calls[a].grant
  OBVIOUS
<1>1. /\ calls[a] \in ConsumingRow /\ k \in DOMAIN grants
      /\ grants[k].consumed = None
      /\ DOMAIN grants' = DOMAIN grants
      /\ \A i \in DOMAIN grants :
            grants'[i].consumed = IF i = k THEN calls[a].now ELSE grants[i].consumed
  BY ConsumeMarks
<1>2. calls[a].now # None
  BY <1>1, NoneIsNoTime DEF ConsumingRow
<1>. PICK m : m = grants[k].engagement
  OBVIOUS
<1>3. m \in Manifests /\ k \in Nat
  <2>1. grants[k] \in ControlGrantRow /\ k \in Nat
    BY <1>1 DEF ControlTypeOK
  <2>. QED  BY <2>1 DEF ControlGrantRow
<1>4. audit' = Chained(audit, m.id, "execution_grant.consumed", k)
  BY DEF Consume
<1>. PICK l : l = Len(audit) + 1
  OBVIOUS
<1>5. OneMore(audit, audit', "execution_grant.consumed", k)
  <2>1. audit \in Seq(AuditRow) /\ Linked(audit)
    BY DEF AuditInv
  <2>. QED  BY <1>3, <1>4, <2>1, ChainedIs
<1>6. audit \in Seq(AuditRow) /\ DOMAIN audit \subseteq DOMAIN audit'
  BY <1>5 DEF AuditInv, OneMore
<1>7. ASSUME NEW i, i # k
      PROVE  /\ \A spent \in BOOLEAN : Story(audit, i, spent) => Story(audit', i, spent)
             /\ Untold(audit, i) => Untold(audit', i)
  <2>1. \A ev \in {"authorization.permitted", "execution_grant.consumed"} :
            EventsOf(audit', ev, i) = EventsOf(audit, ev, i)
    BY <1>5, <1>7 DEF OneMore
  <2>. QED  BY <1>6, <2>1, StoryStays
<1>8. Story(audit', k, grants'[k].consumed # None)
  <2>1. Story(audit, k, FALSE)
    <3>1. Story(audit, k, grants[k].consumed # None)
      BY <1>1 DEF AuditInv
    <3>. QED  BY <1>1, <3>1 DEF Story
  <2>2. PICK permitted \in DOMAIN audit :
           /\ EventsOf(audit, "authorization.permitted", k) = {permitted}
           /\ EventsOf(audit, "execution_grant.consumed", k) = {}
    BY <2>1 DEF Story
  <2>3. /\ EventsOf(audit', "authorization.permitted", k) = {permitted}
        /\ EventsOf(audit', "execution_grant.consumed", k) = {l}
    BY <1>5, <2>2 DEF OneMore
  <2>4. l > permitted /\ l \in DOMAIN audit' /\ permitted \in DOMAIN audit'
    BY <1>5, <1>6 DEF OneMore
  <2>5. grants'[k].consumed # None
    BY <1>1, <1>2
  <2>. QED  BY <2>3, <2>4, <2>5 DEF Story
<1>9. ASSUME NEW i \in DOMAIN grants PROVE Story(audit', i, grants'[i].consumed # None)
  <2>1. Story(audit, i, grants[i].consumed # None)
    BY DEF AuditInv
  <2>2. i # k => grants'[i].consumed = grants[i].consumed
    BY <1>1
  <2>. QED  BY <1>7, <1>8, <2>1, <2>2
<1>10. ASSUME NEW i \in Nat \ DOMAIN grants PROVE Untold(audit', i)
  BY <1>1, <1>7 DEF AuditInv
<1>. QED  BY <1>1, <1>5, <1>9, <1>10 DEF AuditInv, OneMore

LEMMA AuditStep ==
    ASSUME ControlInv, AuditInv, [ControlNext]_controlVars
    PROVE  AuditInv'
<1>1. ControlTypeOK /\ ConsumingStands
  BY DEF ControlInv
<1>2. CASE UNCHANGED <<audit, grants>>
  BY <1>2 DEF AuditInv
<1>. QED  BY <1>1, <1>2, AuditPermit, AuditDenial, AuditConsume, AuditElsewhere

\* "append-only audit persistence" (policy.py:45): in every reachable state the events
\* of an engagement form one chain without forks, and every grant was permitted once and
\* is consumed once, later and in time, exactly when its row says so.
THEOREM AuditAlwaysTellsGrants == ControlSpec => []AuditTellsGrants
<1>1. ControlInit => AuditInv
  BY DEF ControlInit, AuditInv, Linked, Untold, EventsOf
<1>2. ControlInv /\ AuditInv => AuditTellsGrants
  BY AuditInvImplies DEF ControlInv
<1>. QED  BY <1>1, <1>2, AuditStep, ControlInvariant, PTL DEF ControlSpec

================================================================================
