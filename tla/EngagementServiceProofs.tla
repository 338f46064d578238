------------------------ MODULE EngagementServiceProofs ------------------------
(***************************************************************************)
(* Type correctness and the version-chain, token and audit invariants of   *)
(* the engagement service, for every set of processes, engagements,        *)
(* aliases, contents and manifests and every bound.                        *)
(***************************************************************************)
EXTENDS EngagementService, Sequences, TLAPS

\* The next revision of an alias is a positive number and its row fits the schema.
LEMMA NewRowType ==
    ASSUME TypeOK, NEW e \in Engagements, NEW a \in Aliases,
           NEW c \in Contents, NEW ok \in BOOLEAN
    PROVE  /\ NextRevision(a) \in Nat \ {0}
           /\ NewRow(e, a, c, ok) \in RevisionRow
<1>1. NextRevision(a) \in Nat \ {0}
  BY NoneIsNoRow DEF TypeOK, NextRevision, AliasRow
<1>2. QED
  BY <1>1 DEF NewRow, RevisionRow

\* The claims of a token bind every alias to a number.
LEMMA BindType ==
    ASSUME TypeOK, NEW m \in Manifests, NEW new,
           \A a \in DOMAIN m.scope : a \notin new => aliases[a] # None
    PROVE  Bind(m, new) \in [Aliases -> Nat]
<1>1. ASSUME NEW a \in Aliases, a \in DOMAIN m.scope, a \notin new
      PROVE  aliases[a].current \in Nat
  BY <1>1 DEF TypeOK, AliasRow
<1>2. ASSUME NEW a \in Aliases PROVE NextRevision(a) \in Nat
  BY NoneIsNoRow DEF TypeOK, NextRevision, AliasRow
<1>3. QED
  BY <1>1, <1>2 DEF Bind

\* Every step of the service keeps every table within its schema.
LEMMA TypeStep == TypeOK /\ [Next]_vars => TypeOK'
<1> SUFFICES ASSUME TypeOK, [Next]_vars PROVE TypeOK'
  OBVIOUS
<1> USE DEF tables
<1>1. ASSUME NEW p \in Procs, NEW m \in Manifests, BeginRegister(p, m) PROVE TypeOK'
  BY <1>1 DEF BeginRegister, TypeOK, Call
<1>2. ASSUME NEW p \in Procs, CommitRegister(p) PROVE TypeOK'
  <2> DEFINE m == pending[p].manifest
             new == Changed(m)
  <2>1. m \in Manifests /\ m.id \in Engagements /\ DOMAIN m.scope \subseteq Aliases
        /\ \A a \in DOMAIN m.scope : m.scope[a] \in Contents
    BY <1>2, ManifestsWellFormed DEF CommitRegister, TypeOK, Call, ManifestAssumption
  <2>2. new \subseteq DOMAIN m.scope /\ \A a \in DOMAIN m.scope : a \notin new => aliases[a] # None
    BY DEF Changed
  <2>3. \A a \in new : NewRow(m.id, a, m.scope[a], TRUE) \in RevisionRow /\ NextRevision(a) \in Nat \ {0}
    BY <2>1, <2>2, NewRowType
  <2>4. revisions' \subseteq RevisionRow
    BY <1>2, <2>3 DEF CommitRegister, TypeOK
  <2>5. aliases' \in [Aliases -> AliasRow \cup {None}]
    <3>1. \A a \in new : Owner(a, m.id) \in Engagements
      BY <2>1, <2>2 DEF Owner, TypeOK, AliasRow
    <3>2. QED
      BY <1>2, <2>3, <3>1 DEF CommitRegister, TypeOK, AliasRow
  <2>6. Bind(m, new) \in [Aliases -> Nat]
    BY <2>1, <2>2, BindType
  <2>7. tokens' \subseteq Token /\ audit' \subseteq AuditEvent
    BY <1>2, <2>1, <2>6 DEF CommitRegister, TypeOK, Token, AuditEvent
  <2>8. engagements' \subseteq EngagementRow
    <3>1. \A r \in EngagementRow : [r EXCEPT !.active = FALSE] \in EngagementRow
      BY DEF EngagementRow
    <3>2. Deactivate(m.id) \subseteq EngagementRow
      BY <3>1 DEF Deactivate, TypeOK
    <3>3. [manifest |-> m, active |-> TRUE] \in EngagementRow
      BY <2>1 DEF EngagementRow
    <3>4. QED
      BY <1>2, <3>2, <3>3 DEF CommitRegister
  <2>9. pending' \in [Procs -> Call \cup {None}] /\ clock' \in 0..MaxTime
    BY <1>2 DEF CommitRegister, TypeOK
  <2>10. QED
    BY <2>4, <2>5, <2>7, <2>8, <2>9 DEF TypeOK
<1>3. ASSUME NEW p \in Procs, BeginProgress(p) PROVE TypeOK'
  BY <1>3 DEF BeginProgress, TypeOK, Call, ActiveManifests, EngagementRow
<1>4. ASSUME NEW p \in Procs, NEW a \in Aliases, NEW c \in Contents, CommitProgress(p, a, c)
      PROVE TypeOK'
  <2> DEFINE m == pending[p].manifest
  <2>1. m \in Manifests /\ m.id \in Engagements
    BY <1>4, ManifestsWellFormed DEF CommitProgress, TypeOK, Call, ManifestAssumption
  <2>2. aliases[a] \in AliasRow /\ CurrentRow(a) \in revisions
    BY <1>4 DEF CommitProgress, Resolves, CurrentRow, TypeOK
  <2>3. CurrentRow(a).engagement \in Engagements
    BY <2>2 DEF TypeOK, RevisionRow
  <2>4. PICK ok \in BOOLEAN : revisions' = revisions \cup {NewRow(CurrentRow(a).engagement, a, c, ok)}
    BY <1>4 DEF CommitProgress, SignatureOutcomes
  <2>5. NextRevision(a) \in Nat \ {0} /\ revisions' \subseteq RevisionRow
    BY <2>3, <2>4, NewRowType DEF TypeOK
  <2>6. aliases' \in [Aliases -> AliasRow \cup {None}]
    BY <1>4, <2>2, <2>5 DEF CommitProgress, TypeOK, AliasRow
  <2>7. audit' \subseteq AuditEvent
    BY <1>4, <2>1, <2>5 DEF CommitProgress, TypeOK, AuditEvent
  <2>8. QED
    BY <1>4, <2>5, <2>6, <2>7 DEF CommitProgress, TypeOK
<1>5. ASSUME NEW p \in Procs, BeginIssue(p) PROVE TypeOK'
  BY <1>5 DEF BeginIssue, TypeOK, Call, ActiveManifests, EngagementRow
<1>6. ASSUME NEW p \in Procs, CommitIssue(p) PROVE TypeOK'
  <2> DEFINE m == pending[p].manifest
  <2>1. m \in Manifests
    BY <1>6 DEF CommitIssue, TypeOK, Call
  <2>2. Bind(m, {}) \in [Aliases -> Nat]
    BY <1>6, <2>1, BindType DEF CommitIssue, Resolves
  <2>3. QED
    BY <1>6, <2>1, <2>2 DEF CommitIssue, TypeOK, Token
<1>7. ASSUME NEW p \in Procs, Rollback(p) PROVE TypeOK'
  BY <1>7 DEF Rollback, TypeOK
<1>8. CASE Tick
  BY <1>8, MaxTimeIsNat DEF Tick, TypeOK
<1>9. CASE UNCHANGED vars
  BY <1>9 DEF vars, TypeOK
<1>10. QED
  BY <1>1, <1>2, <1>3, <1>4, <1>5, <1>6, <1>7, <1>8, <1>9 DEF Next

\* Type correctness: the reachable tables always fit the schema in
\* persistence/models.py.
THEOREM TypeCorrect == Spec => []TypeOK
<1>1. Init => TypeOK
  BY MaxTimeIsNat DEF Init, TypeOK
<1>2. QED
  BY <1>1, TypeStep, PTL DEF Spec

--------------------------------------------------------------------------------
\* The one shape every write of revisions and aliases has: the aliases of S gain one
\* revision each, owned by e, and nothing else changes.
Extension(S, e, rows) ==
    /\ revisions' = revisions \cup rows
    /\ \A r \in rows :
          /\ r.alias \in S
          /\ r.revision = NextRevision(r.alias)
          /\ r.engagement = e
          /\ r.parent = r.revision - 1
          /\ \A s \in rows : s.alias = r.alias => s = r
    /\ \A a \in S :
          /\ \E r \in rows : r.alias = a
          /\ aliases[a] # None => aliases[a].engagement = e
          /\ aliases'[a] # None
          /\ aliases'[a].engagement = e
          /\ aliases'[a].current = NextRevision(a)
    /\ \A a \in Aliases \ S : aliases'[a] = aliases[a]

\* A registration extends the aliases it changes, in the name of its engagement.
LEMMA RegisterExtends ==
    ASSUME TypeOK, NEW p \in Procs, CommitRegister(p)
    PROVE  LET m == pending[p].manifest
           IN  Extension(Changed(m), m.id,
                         {NewRow(m.id, a, m.scope[a], TRUE) : a \in Changed(m)})
<1> DEFINE m == pending[p].manifest
           new == Changed(m)
           rows == {NewRow(m.id, a, m.scope[a], TRUE) : a \in new}
<1>1. m \in Manifests /\ DOMAIN m.scope \subseteq Aliases
  BY ManifestsWellFormed DEF CommitRegister, TypeOK, Call, ManifestAssumption
<1>2. new \subseteq Aliases /\ new \subseteq DOMAIN m.scope
  BY <1>1 DEF Changed
<1>3. revisions' = revisions \cup rows
  BY DEF CommitRegister
<1>4. ASSUME NEW r \in rows
      PROVE  /\ r.alias \in new
             /\ r.revision = NextRevision(r.alias)
             /\ r.engagement = m.id
             /\ r.parent = r.revision - 1
             /\ \A s \in rows : s.alias = r.alias => s = r
  <2>1. PICK a \in new : r = NewRow(m.id, a, m.scope[a], TRUE)
    OBVIOUS
  <2>2. /\ r.alias = a
        /\ r.revision = NextRevision(a)
        /\ r.engagement = m.id
        /\ r.parent = NextRevision(a) - 1
    BY <2>1 DEF NewRow
  <2>3. ASSUME NEW s \in rows, s.alias = r.alias PROVE s = r
    <3>1. PICK b \in new : s = NewRow(m.id, b, m.scope[b], TRUE)
      OBVIOUS
    <3>2. s.alias = b
      BY <3>1 DEF NewRow
    <3>3. QED
      BY <2>1, <2>2, <2>3, <3>1, <3>2
  <2>4. QED
    BY <2>2, <2>3
<1>5. ASSUME NEW a \in new
      PROVE  /\ \E r \in rows : r.alias = a
             /\ aliases[a] # None => aliases[a].engagement = m.id
             /\ aliases'[a] # None
             /\ aliases'[a].engagement = m.id
             /\ aliases'[a].current = NextRevision(a)
  <2>1. \E r \in rows : r.alias = a
    <3>1. NewRow(m.id, a, m.scope[a], TRUE) \in rows
      OBVIOUS
    <3>2. NewRow(m.id, a, m.scope[a], TRUE).alias = a
      BY DEF NewRow
    <3>3. QED
      BY <3>1, <3>2
  <2>2. aliases[a] # None => aliases[a].engagement = m.id
    BY <1>2 DEF CommitRegister, RegisterAccepted, Registrable, Resolves
  <2>3. aliases'[a] = [engagement |-> Owner(a, m.id), current |-> NextRevision(a)]
    BY <1>2 DEF CommitRegister
  <2>4. Owner(a, m.id) = m.id
    BY <2>2 DEF Owner
  <2>5. m.id \in Engagements /\ NextRevision(a) \in Nat \ {0}
    BY <1>1, <1>2, NoneIsNoRow, ManifestsWellFormed
    DEF ManifestAssumption, TypeOK, NextRevision, AliasRow
  <2>6. aliases'[a] # None
    BY <2>3, <2>4, <2>5, NoneIsNoRow DEF AliasRow
  <2>7. aliases'[a].engagement = m.id /\ aliases'[a].current = NextRevision(a)
    BY <2>3, <2>4
  <2>8. QED
    BY <2>1, <2>2, <2>6, <2>7
<1>6. \A a \in Aliases \ new : aliases'[a] = aliases[a]
  BY DEF CommitRegister
<1>7. QED
  BY <1>3, <1>4, <1>5, <1>6 DEF Extension

\* A progression extends one alias, in the name of the engagement that owns it.
LEMMA ProgressExtends ==
    ASSUME TypeOK, VersionChain, NEW p \in Procs, NEW a \in Aliases, NEW c \in Contents,
           CommitProgress(p, a, c)
    PROVE  \E rows : Extension({a}, pending[p].manifest.id, rows)
<1> DEFINE e == pending[p].manifest.id
<1>1. aliases[a] \in AliasRow /\ aliases[a].engagement = e
  BY DEF CommitProgress, Resolves, TypeOK
<1>2. CurrentRow(a) \in revisions /\ CurrentRow(a).alias = a
  BY DEF CommitProgress, Resolves, CurrentRow
<1>3. CurrentRow(a).engagement = e
  BY <1>1, <1>2 DEF VersionChain
<1>4. PICK ok \in BOOLEAN : revisions' = revisions \cup {NewRow(e, a, c, ok)}
  BY <1>3 DEF CommitProgress, SignatureOutcomes
<1>5. NextRevision(a) \in Nat \ {0}
  BY <1>1, NoneIsNoRow DEF NextRevision, AliasRow
<1>6. aliases'[a] \in AliasRow /\ aliases'[a].engagement = e /\ aliases'[a].current = NextRevision(a)
  BY <1>1, <1>5 DEF CommitProgress, TypeOK, AliasRow
<1>7. \A b \in Aliases \ {a} : aliases'[b] = aliases[b]
  BY DEF CommitProgress, TypeOK
<1>8. Extension({a}, e, {NewRow(e, a, c, ok)})
  BY <1>1, <1>4, <1>6, <1>7, NoneIsNoRow DEF Extension, NewRow
<1>9. QED
  BY <1>8

\* Extending aliases by their next revision keeps every chain gapless, parented,
\* duplicate-free and with one owner.
LEMMA ExtensionKeepsChain ==
    ASSUME TypeOK, TypeOK', VersionChain, NEW S \in SUBSET Aliases, NEW e, NEW rows,
           Extension(S, e, rows)
    PROVE  VersionChain'
<1>1. \A a \in Aliases : aliases[a] # None =>
         /\ aliases'[a] # None
         /\ aliases'[a].engagement = aliases[a].engagement
         /\ aliases[a].current \in Nat \ {0}
         /\ aliases'[a].current \in Nat \ {0}
         /\ aliases'[a].current = IF a \in S THEN aliases[a].current + 1
                                             ELSE aliases[a].current
  BY DEF Extension, NextRevision, TypeOK, AliasRow
<1>2. \A r \in rows :
         /\ r.alias \in S
         /\ aliases'[r.alias] # None
         /\ r.revision = aliases'[r.alias].current
         /\ r.engagement = aliases'[r.alias].engagement
         /\ r.parent = r.revision - 1
         /\ r.revision \in Nat \ {0}
         /\ \A s \in rows : s.alias = r.alias => s = r
  <2>1. \A r \in rows : r \in RevisionRow
    BY DEF Extension, TypeOK
  <2>2. QED
    BY <2>1 DEF Extension, RevisionRow
<1>3. \A r \in revisions :
         /\ r.alias \in Aliases
         /\ r.revision \in Nat \ {0}
         /\ aliases[r.alias] # None
         /\ r.revision <= aliases[r.alias].current
         /\ r.engagement = aliases[r.alias].engagement
         /\ r.parent = r.revision - 1
         /\ \A s \in revisions : s.alias = r.alias /\ s.revision = r.revision => s = r
  BY DEF VersionChain, TypeOK, RevisionRow
<1>4. \A r \in revisions, s \in rows : r.alias = s.alias => r.revision # s.revision
  BY <1>1, <1>2, <1>3
<1>5. ASSUME NEW r \in revisions'
      PROVE  /\ aliases'[r.alias] # None
             /\ r.revision <= aliases'[r.alias].current
             /\ r.engagement = aliases'[r.alias].engagement
             /\ r.parent = r.revision - 1
             /\ \A s \in revisions' : s.alias = r.alias /\ s.revision = r.revision => s = r
  <2>0. revisions' = revisions \cup rows
    BY DEF Extension
  <2>1. CASE r \in revisions
    <3>1. /\ aliases'[r.alias] # None
          /\ r.revision <= aliases'[r.alias].current
          /\ r.engagement = aliases'[r.alias].engagement
          /\ r.parent = r.revision - 1
      BY <2>1, <1>1, <1>3
    <3>2. \A s \in revisions' : s.alias = r.alias /\ s.revision = r.revision => s = r
      BY <2>0, <2>1, <1>3, <1>4
    <3>3. QED
      BY <3>1, <3>2
  <2>2. CASE r \in rows
    <3>1. \A s \in revisions' : s.alias = r.alias /\ s.revision = r.revision => s = r
      BY <2>0, <2>2, <1>2, <1>4
    <3>2. QED
      BY <2>2, <1>2, <3>1
  <2>3. QED
    BY <2>0, <2>1, <2>2
<1>6. ASSUME NEW a \in Aliases, aliases'[a] # None, NEW n \in 1..aliases'[a].current
      PROVE  \E r \in revisions' : r.alias = a /\ r.revision = n
  <2>0. revisions' = revisions \cup rows
    BY DEF Extension
  <2>1. CASE aliases[a] # None /\ n <= aliases[a].current
    <3>1. n \in 1..aliases[a].current
      BY <1>1, <2>1
    <3>2. QED
      BY <2>0, <2>1, <3>1 DEF VersionChain
  <2>2. CASE ~(aliases[a] # None /\ n <= aliases[a].current)
    <3>1. a \in S
      BY <1>1, <1>6, <2>2 DEF Extension
    <3>2. n = aliases'[a].current
      <4>1. CASE aliases[a] = None
        BY <1>6, <3>1, <4>1 DEF Extension, NextRevision
      <4>2. CASE aliases[a] # None
        BY <1>1, <2>2, <3>1, <4>2
      <4>3. QED
        BY <4>1, <4>2
    <3>3. PICK r \in rows : r.alias = a
      BY <3>1 DEF Extension
    <3>4. QED
      BY <2>0, <3>2, <3>3, <1>2
  <2>3. QED
    BY <2>1, <2>2
<1>7. QED
  BY <1>5, <1>6 DEF VersionChain

\* What a step does to revisions and aliases: an extension, or nothing.
LEMMA StepShape ==
    ASSUME TypeOK, VersionChain, [Next]_vars
    PROVE  \/ UNCHANGED <<revisions, aliases>>
           \/ \E S \in SUBSET Aliases : \E e, rows : Extension(S, e, rows)
<1> USE DEF tables
<1>1. ASSUME NEW p \in Procs, CommitRegister(p)
      PROVE  \E S \in SUBSET Aliases : \E e, rows : Extension(S, e, rows)
  <2>1. Changed(pending[p].manifest) \subseteq Aliases
    BY <1>1, ManifestsWellFormed DEF CommitRegister, TypeOK, Call, Changed, ManifestAssumption
  <2>2. QED
    BY <1>1, <2>1, RegisterExtends
<1>2. ASSUME NEW p \in Procs, NEW a \in Aliases, NEW c \in Contents, CommitProgress(p, a, c)
      PROVE  \E S \in SUBSET Aliases : \E e, rows : Extension(S, e, rows)
  BY <1>2, ProgressExtends
<1>3. ASSUME NEW p \in Procs, NEW m \in Manifests, BeginRegister(p, m)
      PROVE  UNCHANGED <<revisions, aliases>>
  BY <1>3 DEF BeginRegister
<1>4. ASSUME NEW p \in Procs, BeginProgress(p) \/ BeginIssue(p) \/ CommitIssue(p) \/ Rollback(p)
      PROVE  UNCHANGED <<revisions, aliases>>
  BY <1>4 DEF BeginProgress, BeginIssue, CommitIssue, Rollback
<1>5. CASE Tick \/ UNCHANGED vars
  BY <1>5 DEF Tick, vars
<1>6. QED
  BY <1>1, <1>2, <1>3, <1>4, <1>5 DEF Next

\* Every step keeps the version chains.
LEMMA ChainStep == TypeOK /\ VersionChain /\ [Next]_vars => VersionChain'
<1> SUFFICES ASSUME TypeOK, VersionChain, [Next]_vars PROVE VersionChain'
  OBVIOUS
<1>1. TypeOK'
  BY TypeStep
<1>2. CASE UNCHANGED <<revisions, aliases>>
  BY <1>2 DEF VersionChain
<1>3. ASSUME NEW S \in SUBSET Aliases, NEW e, NEW rows, Extension(S, e, rows) PROVE VersionChain'
  BY <1>1, <1>3, ExtensionKeepsChain
<1>4. QED
  BY <1>2, <1>3, StepShape

\* "Immutable versioned asset identities": for any number of racing registrations
\* and progressions the rows of an alias stay a gapless chain with one owner.
THEOREM VersionChainAlways == Spec => []VersionChain
<1>1. Init => VersionChain
  BY DEF Init, VersionChain
<1>2. QED
  BY <1>1, TypeCorrect, ChainStep, PTL DEF Spec

--------------------------------------------------------------------------------
\* The manifests that have a row, active or not.
Registered == {r.manifest : r \in engagements}

\* What tokens rest on: a call that has read the active manifest holds one that is
\* registered, and an (id, revision) pair belongs to one registered manifest.
TokenInv ==
    /\ \A p \in Procs :
          pending[p] # None /\ pending[p].op \in {"progress", "issue"}
              => pending[p].manifest \in Registered
    /\ \A m, n \in Registered : m.id = n.id /\ m.revision = n.revision => m = n
    /\ \A t \in tokens :
          /\ t.manifest \in Registered
          /\ \A a \in DOMAIN t.manifest.scope :
                \E r \in revisions :
                    /\ r.alias = a
                    /\ r.revision = t.assets[a]
                    /\ r.engagement = t.manifest.id

\* A registration adds its manifest to the registered ones and forgets none.
LEMMA RegisterAdds ==
    ASSUME TypeOK, NEW p \in Procs, CommitRegister(p)
    PROVE  Registered' = Registered \cup {pending[p].manifest}
<1> DEFINE m == pending[p].manifest
<1>1. engagements' = Deactivate(m.id) \cup {[manifest |-> m, active |-> TRUE]}
  BY DEF CommitRegister
<1>2. \A r \in EngagementRow : [r EXCEPT !.active = FALSE].manifest = r.manifest
  BY DEF EngagementRow
<1>3. ASSUME NEW n PROVE n \in Registered' <=> n \in Registered \cup {m}
  <2>1. ASSUME n \in Registered PROVE n \in Registered'
    <3>1. PICK r \in engagements : n = r.manifest
      BY <2>1 DEF Registered
    <3>2. \E s \in Deactivate(m.id) : s.manifest = r.manifest
      BY <1>2 DEF Deactivate, TypeOK
    <3>3. QED
      BY <1>1, <3>1, <3>2 DEF Registered
  <2>2. m \in Registered'
    <3>1. [manifest |-> m, active |-> TRUE] \in engagements'
      BY <1>1
    <3>2. [manifest |-> m, active |-> TRUE].manifest = m
      OBVIOUS
    <3>3. QED
      BY <3>1, <3>2 DEF Registered
  <2>3. ASSUME n \in Registered', n # m PROVE n \in Registered
    <3>1. PICK s \in engagements' : n = s.manifest
      BY <2>3 DEF Registered
    <3>2. s # [manifest |-> m, active |-> TRUE]
      BY <2>3, <3>1
    <3>3. PICK r \in engagements : s = IF r.manifest.id = m.id THEN [r EXCEPT !.active = FALSE] ELSE r
      BY <1>1, <3>1, <3>2 DEF Deactivate
    <3>4. s.manifest = r.manifest
      BY <1>2, <3>3 DEF TypeOK
    <3>5. QED
      BY <3>1, <3>4 DEF Registered
  <2>4. QED
    BY <2>1, <2>2, <2>3
<1>4. QED
  BY <1>3

\* The claims a token gets name existing revisions of its engagement.
LEMMA BindExists ==
    ASSUME TypeOK, VersionChain, NEW m \in Manifests, NEW new, NEW a \in DOMAIN m.scope,
           a \notin new, Resolves(m.id, a)
    PROVE  \E r \in revisions : /\ r.alias = a
                                /\ r.revision = Bind(m, new)[a]
                                /\ r.engagement = m.id
<1>1. a \in Aliases
  BY ManifestsWellFormed DEF ManifestAssumption
<1>2. Bind(m, new)[a] = aliases[a].current
  BY <1>1 DEF Bind
<1>3. PICK r \in revisions : r.alias = a /\ r.revision = aliases[a].current
  BY DEF Resolves
<1>4. r.engagement = m.id
  BY <1>3 DEF VersionChain, Resolves
<1>5. QED
  BY <1>2, <1>3, <1>4

\* Asset revisions are never removed.
LEMMA RevisionsGrow ==
    ASSUME TypeOK, VersionChain, [Next]_vars PROVE revisions \subseteq revisions'
BY StepShape DEF Extension

\* Every step keeps what tokens rest on.
LEMMA TokenStep == TypeOK /\ VersionChain /\ TokenInv /\ [Next]_vars => TokenInv'
<1> SUFFICES ASSUME TypeOK, VersionChain, TokenInv, [Next]_vars PROVE TokenInv'
  OBVIOUS
<1>0. revisions \subseteq revisions'
  BY RevisionsGrow
<1> USE DEF tables
<1>1. ASSUME NEW p \in Procs, CommitRegister(p) PROVE TokenInv'
  <2> DEFINE m == pending[p].manifest
             new == Changed(m)
             t == [manifest |-> m, assets |-> Bind(m, new)]
  <2>1. m \in Manifests /\ DOMAIN m.scope \subseteq Aliases
    BY <1>1, ManifestsWellFormed DEF CommitRegister, TypeOK, Call, ManifestAssumption
  <2>2. Registered' = Registered \cup {m}
    BY <1>1, RegisterAdds
  <2>3. \A n \in Registered : ~(n.id = m.id /\ n.revision = m.revision)
    BY <1>1 DEF CommitRegister, RegisterAccepted, Unregistered, Registered
  <2>4. ASSUME NEW a \in DOMAIN m.scope
        PROVE  \E r \in revisions' : r.alias = a /\ r.revision = t.assets[a] /\ r.engagement = m.id
    <3>1. CASE a \in new
      <4>1. PICK rows : Extension(new, m.id, rows)
        BY <1>1, RegisterExtends
      <4>2. PICK r \in revisions' : r.alias = a /\ r.revision = NextRevision(a) /\ r.engagement = m.id
        BY <3>1, <4>1 DEF Extension
      <4>3. t.assets[a] = NextRevision(a)
        BY <2>1, <3>1 DEF Bind
      <4>4. QED
        BY <4>2, <4>3
    <3>2. CASE a \notin new
      <4>1. Resolves(m.id, a)
        BY <1>1, <3>2 DEF CommitRegister, RegisterAccepted, Registrable, Changed
      <4>2. \E r \in revisions : /\ r.alias = a
                                 /\ r.revision = Bind(m, new)[a]
                                 /\ r.engagement = m.id
        BY <2>1, <3>2, <4>1, BindExists
      <4>3. QED
        BY <1>0, <4>2
    <3>3. QED
      BY <3>1, <3>2
  <2>5. tokens' = tokens \cup {t}
    BY <1>1 DEF CommitRegister
  <2>6. \A u \in tokens' :
          /\ u.manifest \in Registered'
          /\ \A a \in DOMAIN u.manifest.scope :
                \E r \in revisions' :
                    r.alias = a /\ r.revision = u.assets[a] /\ r.engagement = u.manifest.id
    BY <1>0, <2>2, <2>4, <2>5 DEF TokenInv
  <2>7. \A n, o \in Registered' : n.id = o.id /\ n.revision = o.revision => n = o
    BY <2>2, <2>3 DEF TokenInv
  <2>8. \A q \in Procs : pending'[q] # None /\ pending'[q].op \in {"progress", "issue"}
                             => pending'[q].manifest \in Registered'
    BY <1>1, <2>2 DEF CommitRegister, TokenInv, TypeOK
  <2>9. QED
    BY <2>6, <2>7, <2>8 DEF TokenInv
<1>2. ASSUME NEW p \in Procs, CommitIssue(p) PROVE TokenInv'
  <2> DEFINE m == pending[p].manifest
             t == [manifest |-> m, assets |-> Bind(m, {})]
  <2>1. m \in Manifests /\ m \in Registered
    BY <1>2 DEF CommitIssue, TypeOK, Call, TokenInv
  <2>2. Registered' = Registered
    BY <1>2 DEF CommitIssue, Registered
  <2>3. \A a \in DOMAIN m.scope :
           \E r \in revisions : r.alias = a /\ r.revision = t.assets[a] /\ r.engagement = m.id
    BY <1>2, <2>1, BindExists DEF CommitIssue
  <2>4. tokens' = tokens \cup {t}
    BY <1>2 DEF CommitIssue
  <2>5. \A u \in tokens' :
          /\ u.manifest \in Registered'
          /\ \A a \in DOMAIN u.manifest.scope :
                \E r \in revisions' :
                    r.alias = a /\ r.revision = u.assets[a] /\ r.engagement = u.manifest.id
    BY <1>0, <2>1, <2>2, <2>3, <2>4 DEF TokenInv
  <2>6. \A q \in Procs : pending'[q] # None /\ pending'[q].op \in {"progress", "issue"}
                             => pending'[q].manifest \in Registered'
    BY <1>2, <2>2 DEF CommitIssue, TokenInv, TypeOK
  <2>7. QED
    BY <2>2, <2>5, <2>6 DEF TokenInv
<1>3. ASSUME UNCHANGED <<engagements, tokens>>,
             \A q \in Procs : \/ pending'[q] \in {pending[q], None}
                              \/ pending'[q].op = "register"
                              \/ pending'[q].manifest \in Registered
      PROVE  TokenInv'
  <2>1. Registered' = Registered
    BY <1>3 DEF Registered
  <2>2. QED
    BY <1>0, <1>3, <2>1 DEF TokenInv
<1>4. ASSUME NEW p \in Procs, NEW m \in Manifests, BeginRegister(p, m) PROVE TokenInv'
  BY <1>3, <1>4 DEF BeginRegister, TypeOK
<1>5. ASSUME NEW p \in Procs, BeginProgress(p) \/ BeginIssue(p) PROVE TokenInv'
  BY <1>3, <1>5 DEF BeginProgress, BeginIssue, TypeOK, ActiveManifests, Registered
<1>6. ASSUME NEW p \in Procs, NEW a \in Aliases, NEW c \in Contents, CommitProgress(p, a, c)
      PROVE TokenInv'
  BY <1>3, <1>6 DEF CommitProgress, TypeOK
<1>7. ASSUME NEW p \in Procs, Rollback(p) PROVE TokenInv'
  BY <1>3, <1>7 DEF Rollback, TypeOK
<1>8. CASE Tick \/ UNCHANGED vars
  BY <1>3, <1>8 DEF Tick, vars
<1>9. QED
  BY <1>1, <1>2, <1>4, <1>5, <1>6, <1>7, <1>8 DEF Next

\* A scope token names existing revisions owned by its engagement, and its claims
\* find its own manifest, for any interleaving of stale issue_scope calls.
THEOREM TokensAlwaysBind == Spec => []TokensBindExistingRevisions
<1>1. Init => TokenInv
  BY DEF Init, TokenInv, Registered
<1>2. TokenInv => TokensBindExistingRevisions
  BY DEF TokenInv, TokensBindExistingRevisions, Registered
<1>3. QED
  BY <1>1, <1>2, TypeCorrect, VersionChainAlways, TokenStep, PTL DEF Spec

--------------------------------------------------------------------------------
\* A manifest that has a row keeps one.
LEMMA RegisteredGrow == ASSUME TypeOK, [Next]_vars PROVE Registered \subseteq Registered'
<1>1. ASSUME NEW p \in Procs, CommitRegister(p) PROVE Registered \subseteq Registered'
  BY <1>1, RegisterAdds
<1>2. CASE engagements' = engagements
  BY <1>2 DEF Registered
<1>3. QED
  BY <1>1, <1>2 DEF Next, vars, tables, BeginRegister, BeginProgress, CommitProgress, BeginIssue,
     CommitIssue, Rollback, Tick

\* What a registration leaves of the rows: the new one, those of other engagements as
\* they were, and inactive ones of its own.
LEMMA DeactivatedRow ==
    ASSUME TypeOK, NEW p \in Procs, CommitRegister(p), NEW m, m = pending[p].manifest,
           NEW t \in engagements'
    PROVE  \/ t = [manifest |-> m, active |-> TRUE]
           \/ t \in engagements /\ t.manifest.id # m.id
           \/ t.manifest.id = m.id /\ ~t.active
<1>1. engagements' = Deactivate(m.id) \cup {[manifest |-> m, active |-> TRUE]}
  BY DEF CommitRegister
<1>2. \A r \in EngagementRow : LET d == [r EXCEPT !.active = FALSE]
                               IN d.manifest = r.manifest /\ ~d.active
  BY DEF EngagementRow
<1>3. CASE t \in Deactivate(m.id)
  <2>1. PICK r \in engagements : t = IF r.manifest.id = m.id THEN [r EXCEPT !.active = FALSE] ELSE r
    BY <1>3 DEF Deactivate
  <2>2. r \in EngagementRow
    BY DEF TypeOK
  <2>3. QED
    BY <1>2, <2>1, <2>2
<1>4. QED
  BY <1>1, <1>3

\* Every step leaves one active row to each engagement that has any.
LEMMA OneActiveStep == TypeOK /\ OneActiveManifest /\ [Next]_vars => OneActiveManifest'
<1> SUFFICES ASSUME TypeOK, OneActiveManifest, [Next]_vars PROVE OneActiveManifest'
  OBVIOUS
<1>1. ASSUME NEW p \in Procs, CommitRegister(p) PROVE OneActiveManifest'
  <2> DEFINE m == pending[p].manifest
             new == [manifest |-> m, active |-> TRUE]
  <2>1. new \in engagements' /\ new.manifest = m /\ new.active
    BY <1>1 DEF CommitRegister
  <2>2. ASSUME NEW r \in engagements', r.manifest.id = m.id
        PROVE  \A t \in engagements' : t.manifest.id = r.manifest.id /\ t.active => t = new
    BY <1>1, <2>2, DeactivatedRow
  <2>3. ASSUME NEW r \in engagements', r.manifest.id # m.id
        PROVE  \E s \in engagements' :
                   /\ s.manifest.id = r.manifest.id
                   /\ s.active
                   /\ \A t \in engagements' :
                         t.manifest.id = r.manifest.id /\ t.active => t = s
    <3>1. r \in engagements
      BY <1>1, <2>1, <2>3, DeactivatedRow
    <3>2. PICK s \in engagements :
              /\ s.manifest.id = r.manifest.id
              /\ s.active
              /\ \A t \in engagements : t.manifest.id = r.manifest.id /\ t.active => t = s
      BY <3>1 DEF OneActiveManifest
    <3>3. s \in engagements'
      BY <1>1, <2>3, <3>2 DEF CommitRegister, Deactivate
    <3>4. \A t \in engagements' : t.manifest.id = r.manifest.id => t \in engagements
      BY <1>1, <2>1, <2>3, DeactivatedRow
    <3>5. QED
      BY <3>2, <3>3, <3>4
  <2>4. QED
    BY <2>1, <2>2, <2>3 DEF OneActiveManifest
<1>2. CASE engagements' = engagements
  BY <1>2 DEF OneActiveManifest
<1>3. QED
  BY <1>1, <1>2 DEF Next, vars, tables, BeginRegister, BeginProgress, CommitProgress, BeginIssue,
     CommitIssue, Rollback, Tick

\* An engagement with a row has exactly one active manifest, whatever registrations race.
THEOREM OneActiveAlways == Spec => []OneActiveManifest
<1>1. Init => OneActiveManifest
  BY DEF Init, OneActiveManifest
<1>2. QED
  BY <1>1, TypeCorrect, OneActiveStep, PTL DEF Spec

--------------------------------------------------------------------------------
\* What UnverifiedRevisionsFrozen leans on: a token claims no revision that is yet to be
\* created, so the one a progression is about to commit is not bound.
ClaimsExist ==
    \A t \in tokens, a \in Aliases :
        t.assets[a] # 0 => aliases[a] # None /\ t.assets[a] <= aliases[a].current

FrozenInv == ClaimsExist /\ UnverifiedRevisionsFrozen

\* A revision that fails its signature check is the one a lookup of its alias finds.
LEMMA UnverifiedUnresolved ==
    ASSUME TypeOK, VersionChain, UnverifiedRevisionsFrozen,
           NEW r \in revisions, ~r.verifies, NEW e
    PROVE  r.alias \in Aliases /\ aliases[r.alias] # None /\ ~Resolves(e, r.alias)
<1>1. r.alias \in Aliases /\ aliases[r.alias] # None
  BY DEF TypeOK, RevisionRow, VersionChain
<1>2. r.revision = aliases[r.alias].current
  BY DEF UnverifiedRevisionsFrozen
<1>3. CurrentRow(r.alias) \in revisions /\ CurrentRow(r.alias).alias = r.alias
          /\ CurrentRow(r.alias).revision = r.revision
  BY <1>2 DEF CurrentRow
<1>4. CurrentRow(r.alias) = r
  BY <1>3 DEF VersionChain
<1>. QED
  BY <1>1, <1>4 DEF Resolves

\* A token that binds what it should leaves unverified revisions out.
LEMMA BoundClaims ==
    ASSUME TypeOK, NEW m \in Manifests, NEW new \in SUBSET Aliases, NEW a \in Aliases,
           \A b \in DOMAIN m.scope \ new : aliases[b] # None
    PROVE  /\ a \notin DOMAIN m.scope => Bind(m, new)[a] = 0
           /\ a \in DOMAIN m.scope /\ a \in new => Bind(m, new)[a] = NextRevision(a)
           /\ a \in DOMAIN m.scope /\ a \notin new =>
                 aliases[a] # None /\ Bind(m, new)[a] = aliases[a].current
BY DEF Bind

\* Every step leaves unverified revisions where they are.
LEMMA FrozenStep ==
    ASSUME TypeOK, TypeOK', VersionChain, VersionChain', FrozenInv, [Next]_vars
    PROVE  FrozenInv'
<1>. USE DEF tables
<1>1. ASSUME NEW p \in Procs, CommitRegister(p)  PROVE FrozenInv'
  <2>. DEFINE m == pending[p].manifest
              new == Changed(m)
              t == [manifest |-> m, assets |-> Bind(m, new)]
              rows == {NewRow(m.id, a, m.scope[a], TRUE) : a \in new}
  <2>1. m \in Manifests /\ new \subseteq Aliases /\ new \subseteq DOMAIN m.scope
            /\ DOMAIN m.scope \subseteq Aliases
    BY <1>1, ManifestsWellFormed DEF CommitRegister, TypeOK, Call, Changed, ManifestAssumption
  <2>2. Extension(new, m.id, rows)
    BY <1>1, RegisterExtends
  <2>3. tokens' = tokens \cup {t} /\ revisions' = revisions \cup rows
    BY <1>1 DEF CommitRegister
  <2>4. \A a \in DOMAIN m.scope \ new : aliases[a] # None
    BY DEF Changed
  <2>5. \A a \in Aliases : aliases[a] # None =>
           aliases'[a] # None /\ aliases[a].current <= aliases'[a].current
    <3>1. ASSUME NEW a \in new, aliases[a] # None
          PROVE  aliases'[a] # None /\ aliases[a].current <= aliases'[a].current
      <4>1. aliases'[a] # None /\ aliases'[a].current = aliases[a].current + 1
        BY <2>2, <3>1 DEF Extension, NextRevision
      <4>2. aliases[a].current \in Nat
        BY <2>1, <3>1 DEF TypeOK, AliasRow
      <4>. QED
        BY <4>1, <4>2
    <3>2. ASSUME NEW a \in Aliases \ new, aliases[a] # None
          PROVE  aliases'[a] # None /\ aliases[a].current <= aliases'[a].current
      <4>1. aliases'[a] = aliases[a] /\ aliases[a].current \in Nat
        BY <2>2, <3>2 DEF Extension, TypeOK, AliasRow
      <4>. QED
        BY <3>2, <4>1
    <3>. QED
      BY <3>1, <3>2
  <2>6. ASSUME NEW a \in Aliases, Bind(m, new)[a] # 0
        PROVE  aliases'[a] # None /\ Bind(m, new)[a] <= aliases'[a].current
    <3>1. a \in DOMAIN m.scope
      BY <2>1, <2>4, <2>6, BoundClaims
    <3>2. CASE a \in new
      <4>1. Bind(m, new)[a] = NextRevision(a)
        BY <2>1, <2>4, <3>1, <3>2, BoundClaims
      <4>2. aliases'[a] # None /\ aliases'[a].current = NextRevision(a)
        BY <2>2, <3>2 DEF Extension
      <4>3. aliases'[a].current \in Nat
        BY <4>2 DEF TypeOK, AliasRow
      <4>. QED
        BY <4>1, <4>2, <4>3
    <3>3. CASE a \notin new
      <4>1. aliases[a] # None /\ Bind(m, new)[a] = aliases[a].current
        BY <2>1, <2>4, <3>1, <3>3, BoundClaims
      <4>. QED
        BY <2>5, <4>1
    <3>. QED
      BY <3>2, <3>3
  <2>7. ClaimsExist'
    <3>1. ASSUME NEW u \in tokens, NEW a \in Aliases, u.assets[a] # 0
          PROVE  aliases'[a] # None /\ u.assets[a] <= aliases'[a].current
      <4>1. aliases[a] # None /\ u.assets[a] <= aliases[a].current
        BY <3>1 DEF FrozenInv, ClaimsExist
      <4>2. u.assets[a] \in Nat /\ aliases[a].current \in Nat /\ aliases'[a].current \in Nat
        BY <4>1, <2>5 DEF TypeOK, Token, AliasRow
      <4>. QED
        BY <2>5, <4>1, <4>2
    <3>2. t.assets = Bind(m, new)
      OBVIOUS
    <3>. QED
      BY <2>3, <2>6, <3>1, <3>2 DEF ClaimsExist
  <2>8. ASSUME NEW r \in revisions', ~r.verifies
        PROVE  /\ r.revision = aliases'[r.alias].current
               /\ r.revision > 1
               /\ \E x, y \in r.content.effects : x # y
               /\ \A u \in tokens' : u.assets[r.alias] # r.revision
    <3>1. r \in revisions
      BY <2>3, <2>8 DEF NewRow
    <3>2. /\ r.revision = aliases[r.alias].current
          /\ r.revision > 1
          /\ \E x, y \in r.content.effects : x # y
          /\ \A u \in tokens : u.assets[r.alias] # r.revision
      BY <2>8, <3>1 DEF FrozenInv, UnverifiedRevisionsFrozen
    <3>3. r.alias \in Aliases /\ aliases[r.alias] # None /\ ~Resolves(m.id, r.alias)
      BY <2>8, <3>1, UnverifiedUnresolved DEF FrozenInv
    <3>4. r.alias \notin DOMAIN m.scope
      BY <1>1, <3>3 DEF CommitRegister, RegisterAccepted, Registrable
    <3>5. aliases'[r.alias] = aliases[r.alias]
      BY <2>1, <2>2, <3>3, <3>4 DEF Extension
    <3>6. t.assets[r.alias] = 0
      BY <2>1, <2>4, <3>3, <3>4, BoundClaims
    <3>7. t.assets[r.alias] # r.revision
      BY <3>2, <3>6
    <3>. QED
      BY <2>3, <3>2, <3>5, <3>7
  <2>. QED
    BY <2>7, <2>8 DEF FrozenInv, UnverifiedRevisionsFrozen
<1>2. ASSUME NEW p \in Procs, CommitIssue(p)  PROVE FrozenInv'
  <2>. DEFINE m == pending[p].manifest
              t == [manifest |-> m, assets |-> Bind(m, {})]
  <2>1. m \in Manifests
    BY <1>2 DEF CommitIssue, TypeOK, Call
  <2>2. tokens' = tokens \cup {t} /\ UNCHANGED <<revisions, aliases>>
    BY <1>2 DEF CommitIssue
  <2>3. \A a \in DOMAIN m.scope : Resolves(m.id, a)
    BY <1>2 DEF CommitIssue
  <2>4. \A a \in Aliases : t.assets[a] # 0 =>
            /\ a \in DOMAIN m.scope
            /\ aliases[a] # None
            /\ t.assets[a] = aliases[a].current
    BY <2>1, <2>3, BoundClaims DEF Resolves
  <2>5. \A a \in Aliases : aliases[a] # None => aliases[a].current \in Nat
    BY DEF TypeOK, AliasRow
  <2>6. ClaimsExist'
    BY <2>2, <2>4, <2>5 DEF FrozenInv, ClaimsExist
  <2>7. ASSUME NEW r \in revisions, ~r.verifies  PROVE t.assets[r.alias] # r.revision
    <3>1. r.alias \in Aliases /\ r.alias \notin DOMAIN m.scope
      BY <2>3, <2>7, UnverifiedUnresolved DEF FrozenInv
    <3>2. r.revision > 1
      BY <2>7 DEF FrozenInv, UnverifiedRevisionsFrozen
    <3>. QED
      BY <2>4, <3>1, <3>2
  <2>. QED
    BY <2>2, <2>6, <2>7 DEF FrozenInv, UnverifiedRevisionsFrozen
<1>3. ASSUME NEW p \in Procs, NEW a \in Aliases, NEW c \in Contents, CommitProgress(p, a, c)
      PROVE  FrozenInv'
  <2>. DEFINE e == pending[p].manifest.id
  <2>1. /\ Resolves(e, a)
        /\ UNCHANGED tokens
        /\ aliases' = [aliases EXCEPT ![a].current = NextRevision(a)]
    BY <1>3 DEF CommitProgress
  <2>2. aliases[a] \in AliasRow /\ aliases[a] # None
    BY <2>1 DEF Resolves, TypeOK
  <2>3. /\ aliases[a].current \in Nat \ {0}
        /\ NextRevision(a) = aliases[a].current + 1
        /\ aliases'[a].current = NextRevision(a)
        /\ aliases'[a] # None
    <3>1. aliases'[a] = [aliases[a] EXCEPT !.current = NextRevision(a)]
      BY <2>1 DEF TypeOK
    <3>2. aliases[a].current \in Nat \ {0} /\ NextRevision(a) = aliases[a].current + 1
      BY <2>2 DEF AliasRow, NextRevision
    <3>3. aliases'[a] \in AliasRow /\ aliases'[a].current = NextRevision(a)
      BY <2>2, <3>1, <3>2 DEF AliasRow
    <3>. QED
      BY <3>2, <3>3, NoneIsNoRow
  <2>4. \A b \in Aliases \ {a} : aliases'[b] = aliases[b]
    BY <2>1 DEF TypeOK
  <2>5. PICK ok \in SignatureOutcomes(c) :
            revisions' = revisions \cup {NewRow(CurrentRow(a).engagement, a, c, ok)}
    BY <1>3 DEF CommitProgress
  <2>6. ClaimsExist'
    <3>1. \A t \in tokens, b \in Aliases : t.assets[b] \in Nat
      BY DEF TypeOK, Token
    <3>. QED
      BY <2>1, <2>2, <2>3, <2>4, <3>1 DEF FrozenInv, ClaimsExist
  <2>7. ASSUME NEW r \in revisions', ~r.verifies
        PROVE  /\ r.revision = aliases'[r.alias].current
               /\ r.revision > 1
               /\ \E x, y \in r.content.effects : x # y
               /\ \A u \in tokens' : u.assets[r.alias] # r.revision
    <3>1. CASE r \in revisions
      <4>1. r.alias \in Aliases \ {a}
        BY <2>1, <2>7, <3>1, UnverifiedUnresolved DEF FrozenInv
      <4>. QED
        BY <2>1, <2>4, <2>7, <3>1, <4>1 DEF FrozenInv, UnverifiedRevisionsFrozen
    <3>2. CASE r = NewRow(CurrentRow(a).engagement, a, c, ok)
      <4>1. r.alias = a /\ r.revision = NextRevision(a) /\ r.content = c /\ r.verifies = ok
        BY <3>2 DEF NewRow
      <4>2. \E x, y \in c.effects : x # y
        BY <2>5, <2>7, <4>1 DEF SignatureOutcomes
      <4>3. ASSUME NEW u \in tokens  PROVE u.assets[a] # NextRevision(a)
        <5>1. u.assets[a] \in Nat /\ (u.assets[a] # 0 => u.assets[a] <= aliases[a].current)
          BY DEF FrozenInv, ClaimsExist, TypeOK, Token
        <5>. QED
          BY <2>3, <5>1
      <4>. QED
        BY <2>1, <2>3, <4>1, <4>2, <4>3
    <3>. QED
      BY <2>5, <3>1, <3>2
  <2>. QED
    BY <2>6, <2>7 DEF FrozenInv, UnverifiedRevisionsFrozen
<1>4. CASE UNCHANGED <<revisions, aliases, tokens>>
  BY <1>4 DEF FrozenInv, ClaimsExist, UnverifiedRevisionsFrozen
<1>. QED
  BY <1>1, <1>2, <1>3, <1>4 DEF Next, vars, BeginRegister, BeginProgress, BeginIssue, Rollback, Tick

\* Whatever calls race, nothing is built on a revision that fails its own signature check
\* (service.py:153): it stays the last of its alias, and no token binds it.
THEOREM UnverifiedRevisionsAlwaysFrozen == Spec => []UnverifiedRevisionsFrozen
<1>1. Init => FrozenInv
  BY DEF Init, FrozenInv, ClaimsExist, UnverifiedRevisionsFrozen
<1>2. TypeOK /\ TypeOK' /\ VersionChain /\ VersionChain' /\ FrozenInv /\ [Next]_vars => FrozenInv'
  BY FrozenStep
<1>3. FrozenInv => UnverifiedRevisionsFrozen
  BY DEF FrozenInv
<1>. QED
  BY <1>1, <1>2, <1>3, TypeCorrect, VersionChainAlways, PTL DEF Spec

--------------------------------------------------------------------------------
\* A call of progress_asset holds a manifest that allowed progression when it was read.
ProgressAllowed ==
    \A p \in Procs :
        pending[p] # None /\ pending[p].op = "progress" => pending[p].manifest.progression

LEMMA ProgressAllowedStep == TypeOK /\ ProgressAllowed /\ [Next]_vars => ProgressAllowed'
<1> SUFFICES ASSUME TypeOK, ProgressAllowed, [Next]_vars PROVE ProgressAllowed'
  OBVIOUS
<1>1. pending \in [Procs -> Call \cup {None}]
  BY DEF TypeOK
<1>2. ASSUME NEW p \in Procs, NEW m \in Manifests, BeginRegister(p, m) PROVE ProgressAllowed'
  BY <1>1, <1>2 DEF BeginRegister, ProgressAllowed
<1>3. ASSUME NEW p \in Procs, BeginProgress(p) PROVE ProgressAllowed'
  BY <1>1, <1>3 DEF BeginProgress, ProgressAllowed
<1>4. ASSUME NEW p \in Procs, BeginIssue(p) PROVE ProgressAllowed'
  BY <1>1, <1>4 DEF BeginIssue, ProgressAllowed
<1>5. ASSUME NEW p \in Procs, pending' = [pending EXCEPT ![p] = None] PROVE ProgressAllowed'
  BY <1>1, <1>5 DEF ProgressAllowed
<1>6. CASE UNCHANGED pending
  BY <1>6 DEF ProgressAllowed
<1>7. QED
  BY <1>2, <1>3, <1>4, <1>5, <1>6
     DEF Next, vars, CommitRegister, CommitProgress, CommitIssue, Rollback, Tick

\* An alias that had an owner moves on in one of two ways.
LEMMA MovesAuthorized ==
    ASSUME TypeOK, ProgressAllowed, [Next]_vars, NEW a \in Aliases,
           aliases[a] # None, aliases'[a] # aliases[a]
    PROVE  \E p \in Procs :
               /\ pending[p] # None
               /\ pending[p].manifest.progression
               /\ pending[p].manifest.id = aliases[a].engagement
               /\ pending'[p] = None
<1>1. pending \in [Procs -> Call \cup {None}] /\ aliases \in [Aliases -> AliasRow \cup {None}]
  BY DEF TypeOK
<1>2. ASSUME NEW p \in Procs, CommitRegister(p)
      PROVE  /\ pending[p] # None
             /\ pending[p].manifest.progression
             /\ pending[p].manifest.id = aliases[a].engagement
             /\ pending'[p] = None
  <2> DEFINE m == pending[p].manifest
  <2>1. /\ pending[p] # None /\ RegisterAccepted(m)
        /\ pending' = [pending EXCEPT ![p] = None]
        /\ a \in Changed(m)
    BY <1>2 DEF CommitRegister
  <2>2. a \in DOMAIN m.scope
    BY <2>1 DEF Changed
  <2>3. Registrable(m, a)
    BY <2>1, <2>2 DEF RegisterAccepted
  <2>4. Resolves(m.id, a) /\ m.progression
    BY <2>1, <2>3 DEF Registrable
  <2>5. QED
    BY <1>1, <2>1, <2>4 DEF Resolves
<1>3. ASSUME NEW p \in Procs, NEW b \in Aliases, NEW c \in Contents, CommitProgress(p, b, c)
      PROVE  /\ pending[p] # None
             /\ pending[p].manifest.progression
             /\ pending[p].manifest.id = aliases[a].engagement
             /\ pending'[p] = None
  <2>1. /\ pending[p] # None /\ pending[p].op = "progress"
        /\ Resolves(pending[p].manifest.id, b)
        /\ aliases' = [aliases EXCEPT ![b].current = NextRevision(b)]
        /\ pending' = [pending EXCEPT ![p] = None]
    BY <1>3 DEF CommitProgress
  <2>2. a = b
    BY <1>1, <2>1
  <2>3. QED
    BY <1>1, <2>1, <2>2 DEF ProgressAllowed, Resolves
<1>4. ASSUME aliases' = aliases PROVE FALSE
  BY <1>4
<1>5. QED
  BY <1>2, <1>3, <1>4
     DEF Next, vars, tables, BeginRegister, BeginProgress, BeginIssue, CommitIssue, Rollback, Tick

\* "harness-managed progression" (service.py): an alias moves past its first revision
\* only in a call that holds a manifest of its owner which allows it, whatever was
\* registered since that manifest was read.
THEOREM ProgressionAlwaysAuthorized == Spec => ProgressionAuthorized
<1> DEFINE Moves ==
        \A a \in Aliases :
            aliases[a] # None /\ aliases'[a] # aliases[a] =>
                \E p \in Procs :
                    /\ pending[p] # None
                    /\ pending[p].manifest.progression
                    /\ pending[p].manifest.id = aliases[a].engagement
                    /\ pending'[p] = None
<1>1. Init => ProgressAllowed
  BY DEF Init, ProgressAllowed
<1>2. TypeOK /\ ProgressAllowed /\ [Next]_vars => [Moves]_vars
  BY MovesAuthorized
<1>3. Spec => []ProgressAllowed
  BY <1>1, TypeCorrect, ProgressAllowedStep, PTL DEF Spec
<1>4. Spec => [][Moves]_vars
  BY <1>2, <1>3, TypeCorrect, PTL DEF Spec
<1>5. QED
  BY <1>4 DEF ProgressionAuthorized

--------------------------------------------------------------------------------
\* What the two variables of VersionedAssets are here.
OwnerOf == [a \in Aliases |-> IF aliases[a] = None THEN None ELSE aliases[a].engagement]
Histories == [a \in Aliases |-> History(a)]

\* The one row of an alias and a number is the row a query for them returns.
LEMMA PickedRow ==
    ASSUME NEW R, NEW a, NEW n, NEW r \in R, r.alias = a, r.revision = n,
           \A s \in R : s.alias = a /\ s.revision = n => s = r
    PROVE  (CHOOSE s \in R : s.alias = a /\ s.revision = n) = r
  OBVIOUS

\* An alias that has an owner has one content for each of its revision numbers.
HistoriesComplete ==
    \A a \in Aliases : aliases[a] # None =>
        /\ aliases[a].current \in Nat \ {0}
        /\ History(a) \in Seq(Contents)
        /\ Len(History(a)) = aliases[a].current
        /\ \A r \in revisions : r.alias = a => History(a)[r.revision] = r.content

LEMMA ChainsGiveHistories == TypeOK /\ VersionChain => HistoriesComplete
<1> SUFFICES ASSUME TypeOK, VersionChain, NEW a \in Aliases, aliases[a] # None
             PROVE  /\ aliases[a].current \in Nat \ {0}
                    /\ History(a) \in Seq(Contents)
                    /\ Len(History(a)) = aliases[a].current
                    /\ \A r \in revisions :
                          r.alias = a => History(a)[r.revision] = r.content
  BY DEF HistoriesComplete
<1> DEFINE k == aliases[a].current
<1>1. k \in Nat \ {0}
  BY DEF TypeOK, AliasRow
<1>2. ASSUME NEW r \in revisions, r.alias = a
      PROVE  /\ r.revision \in 1..k /\ r.content \in Contents
             /\ (CHOOSE s \in revisions : s.alias = a /\ s.revision = r.revision) = r
  <2>1. r.revision \in Nat \ {0} /\ r.content \in Contents
    BY DEF TypeOK, RevisionRow
  <2>2. r.revision <= k
    BY <1>2 DEF VersionChain
  <2>3. \A s \in revisions : s.alias = a /\ s.revision = r.revision => s = r
    BY <1>2 DEF VersionChain
  <2>4. (CHOOSE s \in revisions : s.alias = a /\ s.revision = r.revision) = r
    BY <1>2, <2>3, PickedRow
  <2>5. QED
    BY <1>1, <2>1, <2>2, <2>4
<1>3. History(a) = [n \in 1..k |->
                       (CHOOSE r \in revisions : r.alias = a /\ r.revision = n).content]
  BY DEF History
<1>4. ASSUME NEW n \in 1..k PROVE History(a)[n] \in Contents
  <2>1. PICK r \in revisions : r.alias = a /\ r.revision = n
    BY DEF VersionChain
  <2>2. QED
    BY <1>2, <1>3, <2>1
<1>5. \A r \in revisions : r.alias = a => History(a)[r.revision] = r.content
  BY <1>2, <1>3
<1>6. History(a) \in [1..k -> Contents]
  BY <1>3, <1>4
<1>7. QED
  BY <1>1, <1>5, <1>6

\* Two histories of one length that agree on every number are one.
LEMMA SameHistory ==
    ASSUME NEW s \in Seq(Contents), NEW t \in Seq(Contents), Len(s) = Len(t),
           \A n \in 1..Len(s) : s[n] = t[n]
    PROVE  s = t
  OBVIOUS

\* An alias an extension leaves alone keeps its history.
LEMMA HistoryKept ==
    ASSUME VersionChain, HistoriesComplete, HistoriesComplete', NEW a \in Aliases,
           revisions \subseteq revisions', aliases'[a] = aliases[a]
    PROVE  History(a)' = History(a)
<1>1. CASE aliases[a] = None
  BY <1>1 DEF History
<1>2. CASE aliases[a] # None
  <2>1. /\ aliases[a].current \in Nat \ {0} /\ History(a) \in Seq(Contents)
        /\ Len(History(a)) = aliases[a].current
        /\ \A r \in revisions : r.alias = a => History(a)[r.revision] = r.content
    BY <1>2 DEF HistoriesComplete
  <2>2. /\ History(a)' \in Seq(Contents) /\ Len(History(a)') = aliases[a].current
        /\ \A r \in revisions' : r.alias = a => History(a)'[r.revision] = r.content
    BY <1>2 DEF HistoriesComplete
  <2>3. ASSUME NEW n \in 1..aliases[a].current PROVE History(a)'[n] = History(a)[n]
    <3>1. PICK r \in revisions : r.alias = a /\ r.revision = n
      BY <1>2 DEF VersionChain
    <3>2. QED
      BY <2>1, <2>2, <3>1
  <2>4. QED
    BY <2>1, <2>2, <2>3, SameHistory
<1>3. QED
  BY <1>1, <1>2

\* An alias that gains a row gains its content at the end of its history.
LEMMA HistoryGrows ==
    ASSUME TypeOK', VersionChain, HistoriesComplete, HistoriesComplete', NEW a \in Aliases,
           revisions \subseteq revisions', NEW r \in revisions', r.alias = a,
           r.revision = NextRevision(a), aliases'[a] # None,
           aliases'[a].current = NextRevision(a)
    PROVE  r.content \in Contents /\ History(a)' = Append(History(a), r.content)
<1>1. r.content \in Contents
  BY DEF TypeOK, RevisionRow
<1>2. /\ History(a)' \in Seq(Contents) /\ Len(History(a)') = NextRevision(a)
      /\ \A s \in revisions' : s.alias = a => History(a)'[s.revision] = s.content
  BY DEF HistoriesComplete
<1>3. CASE aliases[a] = None
  <2>1. History(a) = <<>> /\ NextRevision(a) = 1
    BY <1>3 DEF History, NextRevision
  <2>2. Append(History(a), r.content) = <<r.content>>
    BY <2>1
  <2>3. History(a)'[1] = r.content
    BY <1>2, <2>1
  <2>4. QED
    BY <1>1, <1>2, <2>1, <2>2, <2>3, SameHistory
<1>4. CASE aliases[a] # None
  <2> DEFINE k == aliases[a].current
  <2>1. /\ k \in Nat \ {0} /\ History(a) \in Seq(Contents) /\ Len(History(a)) = k
        /\ \A s \in revisions : s.alias = a => History(a)[s.revision] = s.content
    BY <1>4 DEF HistoriesComplete
  <2>2. NextRevision(a) = k + 1
    BY <1>4 DEF NextRevision
  <2>3. /\ Append(History(a), r.content) \in Seq(Contents)
        /\ Len(Append(History(a), r.content)) = k + 1
        /\ Append(History(a), r.content)[k + 1] = r.content
        /\ \A n \in 1..k : Append(History(a), r.content)[n] = History(a)[n]
    BY <1>1, <2>1
  <2>4. History(a)'[k + 1] = r.content
    BY <1>2, <2>2
  <2>5. ASSUME NEW n \in 1..k PROVE History(a)'[n] = History(a)[n]
    <3>1. PICK s \in revisions : s.alias = a /\ s.revision = n
      BY <1>4 DEF VersionChain
    <3>2. QED
      BY <1>2, <2>1, <3>1
  <2>6. ASSUME NEW n \in 1..(k + 1)
        PROVE  History(a)'[n] = Append(History(a), r.content)[n]
    <3>1. CASE n = k + 1
      BY <2>3, <2>4, <3>1
    <3>2. CASE n \in 1..k
      BY <2>3, <2>5, <3>2
    <3>3. QED
      BY <2>1, <3>1, <3>2
  <2>7. QED
    BY <1>1, <1>2, <2>2, <2>3, <2>6, SameHistory
<1>5. QED
  BY <1>1, <1>3, <1>4

\* An extension of the tables is an extension of the abstract histories.
LEMMA ExtensionRefines ==
    ASSUME TypeOK', VersionChain, HistoriesComplete, HistoriesComplete',
           NEW S \in SUBSET Aliases, NEW e, NEW rows, Extension(S, e, rows), S # {}
    PROVE  Abstract!Next
<1>1. /\ revisions' = revisions \cup rows
      /\ \A r \in rows : r.alias \in S /\ r.revision = NextRevision(r.alias)
      /\ \A r, s \in rows : s.alias = r.alias => s = r
      /\ \A a \in S :
            /\ \E r \in rows : r.alias = a
            /\ aliases[a] # None => aliases[a].engagement = e
            /\ aliases'[a] # None
            /\ aliases'[a].engagement = e
            /\ aliases'[a].current = NextRevision(a)
      /\ \A a \in Aliases \ S : aliases'[a] = aliases[a]
  BY DEF Extension
<1>2. e \in Engagements
  <2>1. PICK a \in S : TRUE
    OBVIOUS
  <2>2. aliases'[a] \in AliasRow /\ aliases'[a].engagement = e
    BY <1>1 DEF TypeOK
  <2>3. QED
    BY <2>2 DEF AliasRow
<1>3. PICK update : update = [a \in S |-> (CHOOSE r \in rows : r.alias = a).content]
  OBVIOUS
<1>4. ASSUME NEW a \in S
      PROVE  update[a] \in Contents /\ History(a)' = Append(History(a), update[a])
  <2>1. PICK r \in rows : r = (CHOOSE s \in rows : s.alias = a) /\ r.alias = a
    BY <1>1
  <2>2. update[a] = r.content
    BY <1>3, <2>1
  <2>3. r \in revisions' /\ r.revision = NextRevision(a)
    BY <1>1, <2>1
  <2>4. revisions \subseteq revisions'
    BY <1>1
  <2>5. QED
    BY <1>1, <2>1, <2>2, <2>3, <2>4, HistoryGrows
<1>5. update \in [S -> Contents]
  BY <1>3, <1>4
<1>6. \A a \in Aliases \ S : History(a)' = History(a)
  BY <1>1, HistoryKept
<1>7. DOMAIN update = S
  BY <1>3
<1>8. \A a \in DOMAIN update : OwnerOf[a] \in {None, e}
  BY <1>1, <1>7 DEF OwnerOf
<1>9. OwnerOf' = [a \in Aliases |-> IF a \in DOMAIN update THEN e ELSE OwnerOf[a]]
  BY <1>1, <1>7 DEF OwnerOf
<1>10. Histories' = [a \in Aliases |-> IF a \in DOMAIN update
                                      THEN Append(Histories[a], update[a])
                                      ELSE Histories[a]]
  BY <1>4, <1>6, <1>7 DEF Histories
<1>11. Abstract!Extend(e, update)
  BY <1>8, <1>9, <1>10 DEF Abstract!Extend, OwnerOf, Histories
<1>12. QED
  BY <1>2, <1>5, <1>11 DEF Abstract!Next

\* A step of the service extends the abstract histories or leaves them alone.
LEMMA AssetsStep ==
    TypeOK /\ TypeOK' /\ VersionChain /\ HistoriesComplete /\ HistoriesComplete'
        /\ [Next]_vars => [Abstract!Next]_<<OwnerOf, Histories>>
<1> SUFFICES ASSUME TypeOK, TypeOK', VersionChain, HistoriesComplete, HistoriesComplete',
                    [Next]_vars
             PROVE  [Abstract!Next]_<<OwnerOf, Histories>>
  OBVIOUS
<1>1. CASE UNCHANGED <<revisions, aliases>>
  BY <1>1 DEF OwnerOf, Histories, History
<1>2. ASSUME NEW S \in SUBSET Aliases, NEW e, NEW rows, Extension(S, e, rows)
      PROVE  [Abstract!Next]_<<OwnerOf, Histories>>
  <2>1. CASE S = {}
    <3>1. rows = {}
      BY <1>2, <2>1 DEF Extension
    <3>2. revisions' = revisions /\ \A a \in Aliases : aliases'[a] = aliases[a]
      BY <1>2, <2>1, <3>1 DEF Extension
    <3>3. \A a \in Aliases : History(a)' = History(a)
      BY <3>2, HistoryKept
    <3>4. QED
      BY <3>2, <3>3 DEF OwnerOf, Histories
  <2>2. CASE S # {}
    BY <1>2, <2>2, ExtensionRefines
  <2>3. QED
    BY <2>1, <2>2
<1>3. QED
  BY <1>1, <1>2, StepShape

\* "Immutable versioned asset identities" as a refinement: the alias and revision tables
\* implement append-only histories with one owner each, in which the assets of one
\* registration are versioned together, whatever calls race.
THEOREM ServiceImplementsVersionedAssets == Spec => ImplementsVersionedAssets
<1>1. Init => Abstract!Init
  BY DEF Init, Abstract!Init, History
<1>2. TypeOK /\ TypeOK' /\ VersionChain /\ HistoriesComplete /\ HistoriesComplete'
      /\ [Next]_vars
         => [Abstract!Next]_<<[a \in Aliases |-> IF aliases[a] = None THEN None
                                                 ELSE aliases[a].engagement],
                              [a \in Aliases |-> History(a)]>>
  BY AssetsStep DEF OwnerOf, Histories
<1>3. QED
  BY <1>1, <1>2, TypeCorrect, VersionChainAlways, ChainsGiveHistories, PTL
     DEF Spec, ImplementsVersionedAssets, Abstract!Spec

================================================================================
