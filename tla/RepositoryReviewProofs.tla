------------------------- MODULE RepositoryReviewProofs -------------------------
(***************************************************************************)
(* Theorems about FindingLifecycle, for any number of callers, findings    *)
(* and evidence records, and then about RepositoryReview, which is one of  *)
(* those callers, for any number of reviews, files and disturbances.       *)
(*                                                                         *)
(* FindingInv adds to the properties of the lifecycle what a suspended     *)
(* call may rely on: the finding it read still exists and has the same     *)
(* type, and everything it concluded from the evidence is still so,        *)
(* because evidence is only ever attached.                                 *)
(*                                                                         *)
(* What a review has done so far is what the steps before its own leave    *)
(* behind: nothing that another review, an edit or another caller does     *)
(* takes a content, a row or an attachment back.                           *)
(***************************************************************************)
EXTENDS RepositoryReview, FunctionTheorems, TLAPS

--------------------------------------------------------------------------------
Early == {"signal", "hypothesis"}

\* What is known of the finding a call has read.
ReadStands(h) ==
    h.step = "read" =>
        /\ findings[h.finding] # None
        /\ findings[h.finding].type = h.type
        /\ Confirmable(h.state) => findings[h.finding].state \notin Early

\* What is still known of the verdict a call has decided.
DecisionStands(h) ==
    h.step = "decided" =>
        /\ findings[h.finding] # None
        /\ findings[h.finding].type \in DOMAIN EvidencePolicies
        /\ LET policy == EvidencePolicies[findings[h.finding].type]
           IN /\ Missing(policy, EvidenceFor(h.finding)) \subseteq h.payload.missing
              /\ h.payload.oracle => OracleResult(policy.oracle, EvidenceFor(h.finding))
        /\ h.destination = "confirmed" => findings[h.finding].state \notin Early
        /\ h.payload.verdict = "rejected" => h.destination = "rejected"

CallsStand ==
    \A c \in Callers :
        verifying[c] # None => ReadStands(verifying[c]) /\ DecisionStands(verifying[c])

FindingInv == FindingTypeOK /\ CallsStand /\ VerdictsRestOnEvidence /\ RejectionStands

--------------------------------------------------------------------------------
\* The three oracles, the only ones a policy names.
Oracles == {"route_trace_verifier", "version_range_checker", "vault_cross_checker"}

\* Every policy names a known oracle and a set of required types.
LEMMA PolicyFacts ==
    ASSUME NEW t \in DOMAIN EvidencePolicies
    PROVE  /\ EvidencePolicies[t].oracle \in Oracles
           /\ EvidencePolicies[t].required
                 \in SUBSET UNION {EvidencePolicies[u].required : u \in DOMAIN EvidencePolicies}
<1>1. EvidencePolicies[t].oracle \in Oracles
  BY DEF EvidencePolicies, Policy, Oracles
<1>2. EvidencePolicies[t].required
         \in SUBSET UNION {EvidencePolicies[u].required : u \in DOMAIN EvidencePolicies}
  OBVIOUS
<1>. QED
  BY <1>1, <1>2

\* An oracle answers true or false.
LEMMA OracleIsBoolean ==
    ASSUME NEW o \in Oracles, NEW E
    PROVE  OracleResult(o, E) \in BOOLEAN
<1>1. CASE o = "route_trace_verifier"
  BY <1>1 DEF OracleResult
<1>2. CASE o = "version_range_checker"
  BY <1>2 DEF OracleResult
<1>3. CASE o = "vault_cross_checker"
  BY <1>3 DEF OracleResult
<1>. QED
  BY <1>1, <1>2, <1>3 DEF Oracles

\* More evidence leaves no more missing.
LEMMA MissingShrinks ==
    ASSUME NEW policy, NEW E, NEW F, E \subseteq F
    PROVE  Missing(policy, F) \subseteq Missing(policy, E)
BY DEF Missing, Types

\* More evidence never turns an oracle from true to false.
LEMMA OracleMonotone ==
    ASSUME NEW o \in Oracles, NEW E, NEW F, E \subseteq F, OracleResult(o, E)
    PROVE  OracleResult(o, F)
<1>1. CASE o = "route_trace_verifier"
  BY <1>1 DEF OracleResult, Types
<1>2. CASE o = "version_range_checker"
  BY <1>2 DEF OracleResult, Types
<1>3. CASE o = "vault_cross_checker"
  BY <1>3 DEF OracleResult, Types
<1>. QED
  BY <1>1, <1>2, <1>3 DEF Oracles

\* What is written to verification_json has its type.
LEMMA PayloadTyped ==
    ASSUME NEW t \in DOMAIN EvidencePolicies, NEW E, NEW v \in Verification
    PROVE  Payload(EvidencePolicies[t], E, v) \in StoredVerification
<1>1. Missing(EvidencePolicies[t], E) \subseteq EvidencePolicies[t].required
  BY DEF Missing
<1>2. OracleResult(EvidencePolicies[t].oracle, E) \in BOOLEAN
  BY PolicyFacts, OracleIsBoolean
<1>3. v.verdict \in Verdicts /\ v.claim \in BOOLEAN /\ v.impact \in BOOLEAN
  BY DEF Verification
<1>4. Missing(EvidencePolicies[t], E)
         \in SUBSET UNION {EvidencePolicies[u].required : u \in DOMAIN EvidencePolicies}
  BY <1>1, PolicyFacts
<1>. QED
  BY <1>2, <1>3, <1>4 DEF Payload, StoredVerification

\* A rejecting verification is never accepted.
LEMMA RejectionRejects ==
    ASSUME NEW policy, NEW E, NEW v, v.verdict = "rejected"
    PROVE  Destination(policy, E, v) = "rejected"
BY DEF Destination, Accepted, Supports

\* A verdict takes a finding to one of three states.
LEMMA DestinationTyped ==
    ASSUME NEW policy, NEW E, NEW v
    PROVE  Destination(policy, E, v) \in Verdicts
BY DEF Destination, Verdicts

--------------------------------------------------------------------------------
\* The rows that exist keep their type, and no finding returns to an early state.
LEMMA TypeStep ==
    ASSUME FindingTypeOK, CallsStand, [FindingNext]_findingVars
    PROVE  FindingTypeOK'
<1>. USE DEF FindingTypeOK
<1>1. ASSUME NEW f \in Findings, NEW type \in FindingTypes, CreateSignal(f, type)
      PROVE  FindingTypeOK'
  <2>1. Row(type, "signal", None) \in FindingRow
    BY DEF Row, FindingRow, States
  <2>. QED
    BY <1>1, <2>1 DEF CreateSignal
<1>2. ASSUME NEW f \in Findings, NEW e \in Records, AttachEvidence(f, e)
      PROVE  FindingTypeOK'
  BY <1>2 DEF AttachEvidence
<1>3. ASSUME NEW f \in Findings, NEW s \in States, Transition(f, s)
      PROVE  FindingTypeOK'
  <2>1. findings[f] \in FindingRow
    BY <1>3 DEF Transition
  <2>2. Row(findings[f].type, s, findings[f].verification) \in FindingRow
    BY <2>1 DEF Row, FindingRow
  <2>. QED
    BY <1>3, <2>2 DEF Transition
<1>4. ASSUME NEW c \in Callers, NEW f \in Findings, NEW v \in Verifications, BeginVerify(c, f, v)
      PROVE  FindingTypeOK'
  <2>1. findings[f] \in FindingRow /\ findings[f].type \in DOMAIN EvidencePolicies
    BY <1>4 DEF BeginVerify
  <2>2. v \in Verification
    BY VerificationsTyped
  <2>3. ReadCall(f, findings[f].type, findings[f].state, v) \in HeldCall
    BY <2>1, <2>2 DEF ReadCall, HeldCall, FindingRow
  <2>. QED
    BY <1>4, <2>3 DEF BeginVerify
<1>5. ASSUME NEW c \in Callers, Decide(c)
      PROVE  FindingTypeOK'
  <2>. DEFINE h == verifying[c]
              policy == EvidencePolicies[h.type]
              E == EvidenceFor(h.finding)
  <2>1. h \in HeldCall /\ h.step = "read"
    BY <1>5 DEF Decide
  <2>2. /\ h.finding \in Findings
        /\ h.type \in DOMAIN EvidencePolicies
        /\ h.verdict \in Verification
    BY <2>1 DEF HeldCall
  <2>3. Payload(policy, E, h.verdict) \in StoredVerification
    BY <2>2, PayloadTyped
  <2>4. Destination(policy, E, h.verdict) \in Verdicts
    BY DestinationTyped
  <2>5. DecidedCall(h.finding, Destination(policy, E, h.verdict), Payload(policy, E, h.verdict))
          \in HeldCall
    BY <2>2, <2>3, <2>4 DEF DecidedCall, HeldCall
  <2>. QED
    BY <1>5, <2>5 DEF Decide
<1>6. ASSUME NEW c \in Callers, WriteVerdict(c)
      PROVE  FindingTypeOK'
  <2>. DEFINE h == verifying[c]
  <2>1. h \in HeldCall /\ h.step = "decided"
    BY <1>6 DEF WriteVerdict
  <2>2. /\ h.finding \in Findings
        /\ h.destination \in Verdicts
        /\ h.payload \in StoredVerification
    BY <2>1 DEF HeldCall
  <2>3. findings[h.finding] # None
    BY <1>6, <2>1 DEF WriteVerdict, CallsStand, DecisionStands
  <2>4. findings[h.finding] \in FindingRow
    BY <2>2, <2>3
  <2>5. Row(findings[h.finding].type, h.destination, h.payload) \in FindingRow
    BY <2>2, <2>4 DEF Row, FindingRow, Verdicts, States
  <2>. QED
    BY <1>6, <2>2, <2>5 DEF WriteVerdict
<1>7. ASSUME NEW c \in Callers, GiveUp(c)
      PROVE  FindingTypeOK'
  BY <1>7 DEF GiveUp
<1>8. CASE UNCHANGED findingVars
  BY <1>8 DEF findingVars
<1>. QED
  BY <1>1, <1>2, <1>3, <1>4, <1>5, <1>6, <1>7, <1>8 DEF FindingNext

\* Evidence is only ever attached.
LEMMA EvidenceGrows ==
    ASSUME FindingTypeOK, CallsStand, [FindingNext]_findingVars, NEW f \in Findings
    PROVE  EvidenceFor(f) \subseteq EvidenceFor(f)'
<1>1. attached \subseteq attached'
  BY DEF FindingNext, findingVars, CreateSignal, AttachEvidence, Transition, BeginVerify,
         Decide, WriteVerdict, GiveUp
<1>. QED
  BY <1>1 DEF EvidenceFor

\* A finding that exists goes on existing, with its type, and does not return to an
\* early state.
LEMMA FindingPersists ==
    ASSUME FindingTypeOK, CallsStand, [FindingNext]_findingVars,
           NEW f \in Findings, findings[f] # None
    PROVE  /\ findings'[f] # None
           /\ findings'[f].type = findings[f].type
           /\ findings[f].state \notin Early => findings'[f].state \notin Early
<1>0. findings[f] \in FindingRow
  BY DEF FindingTypeOK
<1>1. ASSUME NEW g \in Findings, NEW s \in States, Transition(g, s)
      PROVE  findings[f].state \notin Early => findings'[f].state \notin Early
  <2>1. CASE g = f
    <3>1. s \in AllowedTransitions[findings[f].state]
      BY <1>1, <2>1 DEF Transition
    <3>2. findings'[f].state = s
      BY <1>1, <2>1 DEF Transition, FindingTypeOK, Row
    <3>3. findings[f].state \in States
      BY <1>0 DEF FindingRow
    <3>4. findings[f].state \notin Early => s \notin Early
      BY <3>1, <3>3 DEF AllowedTransitions, States, Early
    <3>. QED
      BY <3>2, <3>4
  <2>2. CASE g # f
    BY <1>1, <2>2 DEF Transition, FindingTypeOK
  <2>. QED
    BY <2>1, <2>2
<1>2. ASSUME NEW c \in Callers, WriteVerdict(c)
      PROVE  findings[f].state \notin Early => findings'[f].state \notin Early
  <2>. DEFINE h == verifying[c]
  <2>1. h \in HeldCall /\ h.step = "decided"
    BY <1>2 DEF WriteVerdict, FindingTypeOK
  <2>2. h.destination \in Verdicts
    BY <2>1 DEF HeldCall
  <2>3. CASE h.finding = f
    <3>1. findings'[f].state = h.destination
      BY <1>2, <2>3 DEF WriteVerdict, FindingTypeOK, Row
    <3>. QED
      BY <2>2, <3>1 DEF Verdicts, Early
  <2>4. CASE h.finding # f
    BY <1>2, <2>4 DEF WriteVerdict, FindingTypeOK
  <2>. QED
    BY <2>3, <2>4
<1>3. ASSUME NEW g \in Findings, NEW s \in States, Transition(g, s)
      PROVE  findings'[f].type = findings[f].type
  BY <1>3 DEF Transition, FindingTypeOK, Row
<1>4. ASSUME NEW c \in Callers, WriteVerdict(c)
      PROVE  findings'[f].type = findings[f].type
  BY <1>4 DEF WriteVerdict, FindingTypeOK, Row
<1>5. CASE findings'[f] = findings[f]
  BY <1>5
<1>6. CASE findings'[f] # findings[f]
  <2>1. \/ \E g \in Findings, s \in States : Transition(g, s)
        \/ \E c \in Callers : WriteVerdict(c)
    BY <1>6 DEF FindingNext, findingVars, CreateSignal, AttachEvidence, BeginVerify, Decide,
                GiveUp, FindingTypeOK
  <2>2. findings'[f].type = findings[f].type
    BY <2>1, <1>3, <1>4
  <2>3. findings[f].state \notin Early => findings'[f].state \notin Early
    BY <2>1, <1>1, <1>2
  <2>4. findings'[f] # None
    <3>1. \E s \in States, v \in StoredVerification \cup {None} :
             findings'[f] = Row(findings[f].type, s, v)
      <4>1. ASSUME NEW g \in Findings, NEW s \in States, Transition(g, s)
            PROVE  findings'[f] = Row(findings[f].type, s, findings[f].verification)
        BY <1>6, <4>1 DEF Transition, FindingTypeOK
      <4>2. ASSUME NEW c \in Callers, WriteVerdict(c)
            PROVE  /\ findings'[f] = Row(findings[f].type, verifying[c].destination,
                                         verifying[c].payload)
                   /\ verifying[c].destination \in States
                   /\ verifying[c].payload \in StoredVerification
        <5>1. verifying[c] \in HeldCall /\ verifying[c].step = "decided"
          BY <4>2 DEF WriteVerdict, FindingTypeOK
        <5>2. /\ verifying[c].destination \in States
              /\ verifying[c].payload \in StoredVerification
          BY <5>1 DEF HeldCall, Verdicts, States
        <5>. QED
          BY <1>6, <4>2, <5>2 DEF WriteVerdict, FindingTypeOK
      <4>3. findings[f].verification \in StoredVerification \cup {None}
        BY <1>0 DEF FindingRow
      <4>. QED
        BY <2>1, <4>1, <4>2, <4>3
    <3>2. PICK s \in States, v \in StoredVerification \cup {None} :
             findings'[f] = Row(findings[f].type, s, v)
      BY <3>1
    <3>3. Row(findings[f].type, s, v) \in FindingRow
      BY <1>0 DEF Row, FindingRow
    <3>. QED
      BY <3>2, <3>3, NoneIsNoFindingRow
  <2>. QED
    BY <2>2, <2>3, <2>4
<1>. QED
  BY <1>5, <1>6

\* What a suspended call relies on survives every step of the others.
LEMMA HeldStands ==
    ASSUME FindingInv, [FindingNext]_findingVars,
           NEW h \in HeldCall, ReadStands(h), DecisionStands(h)
    PROVE  ReadStands(h)' /\ DecisionStands(h)'
<1>1. FindingTypeOK /\ CallsStand
  BY DEF FindingInv
<1>2. h.finding \in Findings
  BY DEF HeldCall
<1>3. ReadStands(h)'
  BY <1>1, <1>2, FindingPersists DEF ReadStands
<1>4. ASSUME h.step = "decided"
      PROVE  DecisionStands(h)'
  <2>. DEFINE E == EvidenceFor(h.finding)
              policy == EvidencePolicies[findings[h.finding].type]
  <2>1. /\ findings[h.finding] # None
        /\ findings[h.finding].type \in DOMAIN EvidencePolicies
        /\ Missing(policy, E) \subseteq h.payload.missing
        /\ h.payload.oracle => OracleResult(policy.oracle, E)
        /\ h.destination = "confirmed" => findings[h.finding].state \notin Early
        /\ h.payload.verdict = "rejected" => h.destination = "rejected"
    BY <1>4 DEF DecisionStands
  <2>2. /\ findings'[h.finding] # None
        /\ findings'[h.finding].type = findings[h.finding].type
        /\ findings[h.finding].state \notin Early => findings'[h.finding].state \notin Early
    BY <1>1, <1>2, <2>1, FindingPersists
  <2>3. E \subseteq E'
    BY <1>1, <1>2, EvidenceGrows
  <2>4. Missing(policy, E') \subseteq Missing(policy, E)
    BY <2>3, MissingShrinks
  <2>5. OracleResult(policy.oracle, E) => OracleResult(policy.oracle, E')
    BY <2>1, <2>3, PolicyFacts, OracleMonotone
  <2>6. policy = EvidencePolicies[findings'[h.finding].type]
    BY <2>2
  <2>7. /\ Missing(policy, E') \subseteq h.payload.missing
        /\ h.payload.oracle => OracleResult(policy.oracle, E')
    BY <2>1, <2>4, <2>5
  <2>. QED
    BY <2>1, <2>2, <2>6, <2>7 DEF DecisionStands
<1>5. ASSUME h.step # "decided"
      PROVE  DecisionStands(h)'
  BY <1>5 DEF DecisionStands
<1>. QED
  BY <1>3, <1>4, <1>5

\* A call relies only on what is so, from its first read to its last.
LEMMA CallsStep ==
    ASSUME FindingInv, [FindingNext]_findingVars
    PROVE  CallsStand'
<1>. SUFFICES ASSUME NEW c \in Callers, verifying'[c] # None
              PROVE  ReadStands(verifying[c])' /\ DecisionStands(verifying[c])'
  BY DEF CallsStand
<1>1. FindingTypeOK /\ CallsStand
  BY DEF FindingInv
<1>2. CASE verifying'[c] = verifying[c]
  <2>1. verifying[c] \in HeldCall
    BY <1>1, <1>2 DEF FindingTypeOK
  <2>2. ReadStands(verifying[c]) /\ DecisionStands(verifying[c])
    BY <1>1, <1>2 DEF CallsStand
  <2>3. PICK h \in HeldCall : h = verifying[c]
    BY <2>1
  <2>4. ReadStands(h) /\ DecisionStands(h)
    BY <2>2, <2>3
  <2>5. ReadStands(h)' /\ DecisionStands(h)'
    BY <2>4, HeldStands
  <2>6. h = verifying'[c]
    BY <1>2, <2>3
  <2>. QED
    BY <2>5, <2>6 DEF ReadStands, DecisionStands
<1>3. CASE verifying'[c] # verifying[c]
  <2>1. \/ \E f \in Findings, v \in Verifications : BeginVerify(c, f, v)
        \/ Decide(c)
    <3>1. ASSUME NEW d \in Callers, NEW f \in Findings, NEW v \in Verifications,
                 BeginVerify(d, f, v)
          PROVE  d = c
      BY <1>1, <1>3, <3>1 DEF BeginVerify, FindingTypeOK
    <3>2. ASSUME NEW d \in Callers, Decide(d)
          PROVE  d = c
      BY <1>1, <1>3, <3>2 DEF Decide, FindingTypeOK
    <3>3. ASSUME NEW d \in Callers, WriteVerdict(d) \/ GiveUp(d)
          PROVE  FALSE
      BY <1>1, <1>3, <3>3 DEF WriteVerdict, GiveUp, FindingTypeOK
    <3>. QED
      BY <1>3, <3>1, <3>2, <3>3
         DEF FindingNext, findingVars, CreateSignal, AttachEvidence, Transition
  <2>2. ASSUME NEW f \in Findings, NEW v \in Verifications, BeginVerify(c, f, v)
        PROVE  ReadStands(verifying[c])' /\ DecisionStands(verifying[c])'
    <3>1. verifying'[c] = ReadCall(f, findings[f].type, findings[f].state, v)
      BY <1>1, <2>2 DEF BeginVerify, FindingTypeOK
    <3>2. findings[f] # None /\ findings' = findings
      BY <2>2 DEF BeginVerify
    <3>. QED
      BY <3>1, <3>2 DEF ReadStands, DecisionStands, ReadCall, Confirmable, Early
  <2>3. ASSUME Decide(c)
        PROVE  ReadStands(verifying[c])' /\ DecisionStands(verifying[c])'
    <3>. DEFINE h == verifying[c]
                policy == EvidencePolicies[h.type]
                E == EvidenceFor(h.finding)
                destination == Destination(policy, E, h.verdict)
                payload == Payload(policy, E, h.verdict)
    <3>1. h \in HeldCall /\ h.step = "read" /\ h.type \in DOMAIN EvidencePolicies
      BY <1>1, <2>3 DEF Decide, FindingTypeOK, HeldCall
    <3>2. /\ findings[h.finding] # None
          /\ findings[h.finding].type = h.type
          /\ Confirmable(h.state) => findings[h.finding].state \notin Early
      BY <1>1, <2>3, <3>1 DEF Decide, CallsStand, ReadStands
    <3>3. findings' = findings /\ attached' = attached
      BY <2>3 DEF Decide
    <3>4. /\ ~(destination = "confirmed" /\ ~Confirmable(h.state))
          /\ verifying'[c] = DecidedCall(h.finding, destination, payload)
      BY <1>1, <1>3, <2>3 DEF Decide, FindingTypeOK
    <3>5. destination = "confirmed" => findings[h.finding].state \notin Early
      BY <3>2, <3>4
    <3>6. payload.verdict = "rejected" => destination = "rejected"
      BY RejectionRejects DEF Payload
    <3>7. /\ Missing(policy, E) = payload.missing
          /\ OracleResult(policy.oracle, E) = payload.oracle
      BY DEF Payload
    <3>. HIDE DEF destination, payload
    <3>8. /\ verifying'[c].step = "decided"
          /\ verifying'[c].finding = h.finding
          /\ verifying'[c].destination = destination
          /\ verifying'[c].payload = payload
      BY <3>4 DEF DecidedCall
    <3>9. EvidenceFor(h.finding) = {e \in Records : <<h.finding, e>> \in attached'}
      BY <3>3 DEF EvidenceFor
    <3>10. ReadStands(verifying[c])'
      BY <3>8 DEF ReadStands
    <3>11. DecisionStands(verifying[c])'
      BY <3>1, <3>2, <3>3, <3>5, <3>6, <3>7, <3>8, <3>9 DEF DecisionStands, EvidenceFor
    <3>. QED
      BY <3>10, <3>11
  <2>. QED
    BY <2>1, <2>2, <2>3
<1>. QED
  BY <1>2, <1>3

\* A stored verification goes on being right about the evidence.
LEMMA VerdictsStep ==
    ASSUME FindingInv, [FindingNext]_findingVars
    PROVE  VerdictsRestOnEvidence' /\ RejectionStands'
<1>. SUFFICES ASSUME NEW f \in Findings, findings'[f] # None, findings'[f].verification # None
              PROVE  /\ findings'[f].type \in DOMAIN EvidencePolicies
                     /\ Missing(EvidencePolicies[findings'[f].type], EvidenceFor(f)')
                           \subseteq findings'[f].verification.missing
                     /\ findings'[f].verification.oracle =>
                           OracleResult(EvidencePolicies[findings'[f].type].oracle,
                                        EvidenceFor(f)')
                     /\ findings'[f].verification.verdict = "rejected" =>
                           findings'[f].state = "rejected"
  BY DEF VerdictsRestOnEvidence, RejectionStands
<1>. DEFINE E == EvidenceFor(f)
            policy == EvidencePolicies[findings[f].type]
<1>1. FindingTypeOK /\ CallsStand /\ VerdictsRestOnEvidence /\ RejectionStands
  BY DEF FindingInv
<1>2. E \subseteq E'
  BY <1>1, EvidenceGrows
<1>3. ASSUME findings[f] # None, findings[f].verification # None,
             findings'[f].verification = findings[f].verification,
             findings'[f].type = findings[f].type,
             findings[f].state = "rejected" => findings'[f].state = "rejected"
      PROVE  /\ findings'[f].type \in DOMAIN EvidencePolicies
             /\ Missing(EvidencePolicies[findings'[f].type], EvidenceFor(f)')
                   \subseteq findings'[f].verification.missing
             /\ findings'[f].verification.oracle =>
                   OracleResult(EvidencePolicies[findings'[f].type].oracle, EvidenceFor(f)')
             /\ findings'[f].verification.verdict = "rejected" => findings'[f].state = "rejected"
  <2>1. /\ findings[f].type \in DOMAIN EvidencePolicies
        /\ Missing(policy, E) \subseteq findings[f].verification.missing
        /\ findings[f].verification.oracle => OracleResult(policy.oracle, E)
    BY <1>1, <1>3 DEF VerdictsRestOnEvidence
  <2>2. findings[f].verification.verdict = "rejected" => findings[f].state = "rejected"
    BY <1>1, <1>3 DEF RejectionStands
  <2>3. Missing(policy, E') \subseteq Missing(policy, E)
    BY <1>2, MissingShrinks
  <2>4. OracleResult(policy.oracle, E) => OracleResult(policy.oracle, E')
    BY <1>2, <2>1, PolicyFacts, OracleMonotone
  <2>5. policy = EvidencePolicies[findings'[f].type]
    BY <1>3
  <2>. HIDE DEF policy, E
  <2>6. /\ Missing(policy, E') \subseteq findings'[f].verification.missing
        /\ findings'[f].verification.oracle => OracleResult(policy.oracle, E')
    BY <1>3, <2>1, <2>3, <2>4
  <2>7. findings'[f].verification.verdict = "rejected" => findings'[f].state = "rejected"
    BY <1>3, <2>2
  <2>. QED
    BY <1>3, <2>1, <2>5, <2>6, <2>7 DEF E
<1>4. CASE findings'[f] = findings[f]
  BY <1>3, <1>4
<1>5. ASSUME NEW type \in FindingTypes, CreateSignal(f, type)
      PROVE  FALSE
  BY <1>1, <1>5 DEF CreateSignal, FindingTypeOK, Row
<1>6. ASSUME NEW s \in States, Transition(f, s)
      PROVE  /\ findings[f] # None
             /\ findings'[f].verification = findings[f].verification
             /\ findings'[f].type = findings[f].type
             /\ findings[f].state # "rejected"
  <2>1. findings[f] # None /\ s \in AllowedTransitions[findings[f].state]
    BY <1>6 DEF Transition
  <2>2. findings[f].state # "rejected"
    BY <2>1 DEF AllowedTransitions
  <2>. QED
    BY <1>1, <1>6, <2>1, <2>2 DEF Transition, FindingTypeOK, Row
<1>7. ASSUME NEW c \in Callers, WriteVerdict(c), verifying[c].finding = f
      PROVE  /\ findings'[f].type \in DOMAIN EvidencePolicies
             /\ Missing(EvidencePolicies[findings'[f].type], EvidenceFor(f)')
                   \subseteq findings'[f].verification.missing
             /\ findings'[f].verification.oracle =>
                   OracleResult(EvidencePolicies[findings'[f].type].oracle, EvidenceFor(f)')
             /\ findings'[f].verification.verdict = "rejected" => findings'[f].state = "rejected"
  <2>1. verifying[c] # None /\ verifying[c].step = "decided" /\ attached' = attached
    BY <1>7 DEF WriteVerdict
  <2>2. DecisionStands(verifying[c])
    BY <1>1, <2>1 DEF CallsStand
  <2>3. findings'[f] = Row(findings[f].type, verifying[c].destination, verifying[c].payload)
    BY <1>1, <1>7 DEF WriteVerdict, FindingTypeOK
  <2>4. EvidenceFor(f)' = EvidenceFor(f)
    BY <2>1 DEF EvidenceFor
  <2>5. /\ findings'[f].type = findings[f].type
        /\ findings'[f].state = verifying[c].destination
        /\ findings'[f].verification = verifying[c].payload
    BY <2>3 DEF Row
  <2>. QED
    BY <1>7, <2>1, <2>2, <2>4, <2>5 DEF DecisionStands
<1>8. CASE findings'[f] # findings[f]
  <2>1. \/ \E type \in FindingTypes : CreateSignal(f, type)
        \/ \E s \in States : Transition(f, s)
        \/ \E c \in Callers : WriteVerdict(c) /\ verifying[c].finding = f
    <3>1. ASSUME NEW g \in Findings, NEW type \in FindingTypes, CreateSignal(g, type)
          PROVE  g = f
      BY <1>1, <1>8, <3>1 DEF CreateSignal, FindingTypeOK
    <3>2. ASSUME NEW g \in Findings, NEW s \in States, Transition(g, s)
          PROVE  g = f
      BY <1>1, <1>8, <3>2 DEF Transition, FindingTypeOK
    <3>3. ASSUME NEW c \in Callers, WriteVerdict(c)
          PROVE  verifying[c].finding = f
      BY <1>1, <1>8, <3>3 DEF WriteVerdict, FindingTypeOK
    <3>. QED
      BY <1>8, <3>1, <3>2, <3>3
         DEF FindingNext, findingVars, AttachEvidence, BeginVerify, Decide, GiveUp
  <2>2. CASE \E type \in FindingTypes : CreateSignal(f, type)
    <3>1. findings'[f].verification = None
      BY <1>1, <2>2 DEF CreateSignal, FindingTypeOK, Row
    <3>. QED
      BY <3>1
  <2>3. CASE \E s \in States : Transition(f, s)
    BY <1>3, <1>6, <2>3
  <2>4. CASE \E c \in Callers : WriteVerdict(c) /\ verifying[c].finding = f
    BY <1>7, <2>4
  <2>. QED
    BY <2>1, <2>2, <2>3, <2>4
<1>. QED
  BY <1>4, <1>8, <1>3

--------------------------------------------------------------------------------
\* The conjunction of the four is inductive.
LEMMA FindingInvariant == FindingSpec => []FindingInv
<1>1. FindingInit => FindingInv
  BY DEF FindingInit, FindingInv, FindingTypeOK, CallsStand, VerdictsRestOnEvidence,
         RejectionStands
<1>2. FindingInv /\ [FindingNext]_findingVars => FindingInv'
  <2>. SUFFICES ASSUME FindingInv, [FindingNext]_findingVars
                PROVE  FindingInv'
    OBVIOUS
  <2>1. FindingTypeOK'
    BY TypeStep DEF FindingInv
  <2>2. CallsStand'
    BY CallsStep
  <2>3. VerdictsRestOnEvidence' /\ RejectionStands'
    BY VerdictsStep
  <2>. QED
    BY <2>1, <2>2, <2>3 DEF FindingInv
<1>. QED
  BY <1>1, <1>2, PTL DEF FindingSpec

\* Whatever callers do and however they interleave, findings, links and calls keep
\* their types.
THEOREM FindingTypeCorrect == FindingSpec => []FindingTypeOK
<1>1. FindingInv => FindingTypeOK
  BY DEF FindingInv
<1>. QED
  BY <1>1, FindingInvariant, PTL

\* A verdict rests on evidence although it is written after other callers have had
\* their turn: what it called found stays found, in the table, for its own policy.
THEOREM VerdictsAlwaysRestOnEvidence == FindingSpec => []VerdictsRestOnEvidence
<1>1. FindingInv => VerdictsRestOnEvidence
  BY DEF FindingInv
<1>. QED
  BY <1>1, FindingInvariant, PTL

\* While a rejecting verification is on record the finding is rejected.
THEOREM RejectionAlwaysStands == FindingSpec => []RejectionStands
<1>1. FindingInv => RejectionStands
  BY DEF FindingInv
<1>. QED
  BY <1>1, FindingInvariant, PTL

\* No finding is confirmed out of signal or hypothesis, although the guard of
\* verify_and_finalize looks at a state that others may have changed since.
THEOREM SignalsAreNeverConfirmed == FindingSpec => SignalNeverConfirmed
<1>. DEFINE Step == \A f \in Findings :
                      /\ findings[f] # None
                      /\ findings[f].state \in {"signal", "hypothesis"}
                      => findings'[f].state # "confirmed"
<1>1. FindingInv /\ [FindingNext]_findingVars => [Step]_findingVars
  <2>. SUFFICES ASSUME FindingInv, [FindingNext]_findingVars, findingVars' # findingVars,
                       NEW f \in Findings, findings[f] # None,
                       findings[f].state \in {"signal", "hypothesis"}
                PROVE  findings'[f].state # "confirmed"
    BY DEF findingVars
  <2>0. FindingTypeOK /\ CallsStand
    BY DEF FindingInv
  <2>1. ASSUME NEW g \in Findings, NEW s \in States, Transition(g, s)
        PROVE  findings'[f].state # "confirmed"
    <3>1. CASE g = f
      <4>1. s \in AllowedTransitions[findings[f].state]
        BY <2>1, <3>1 DEF Transition
      <4>2. s # "confirmed"
        BY <4>1 DEF AllowedTransitions
      <4>. QED
        BY <2>0, <2>1, <3>1, <4>2 DEF Transition, FindingTypeOK, Row
    <3>2. CASE g # f
      BY <2>0, <2>1, <3>2 DEF Transition, FindingTypeOK
    <3>. QED
      BY <3>1, <3>2
  <2>2. ASSUME NEW c \in Callers, WriteVerdict(c)
        PROVE  findings'[f].state # "confirmed"
    <3>1. CASE verifying[c].finding = f
      <4>1. DecisionStands(verifying[c]) /\ verifying[c].step = "decided"
        BY <2>0, <2>2 DEF WriteVerdict, CallsStand
      <4>2. verifying[c].destination # "confirmed"
        BY <3>1, <4>1 DEF DecisionStands, Early
      <4>. QED
        BY <2>0, <2>2, <3>1, <4>2 DEF WriteVerdict, FindingTypeOK, Row
    <3>2. CASE verifying[c].finding # f
      BY <2>0, <2>2, <3>2 DEF WriteVerdict, FindingTypeOK
    <3>. QED
      BY <3>1, <3>2
  <2>3. CASE findings'[f] = findings[f]
    BY <2>3
  <2>4. CASE findings'[f] # findings[f]
    <3>1. \/ \E g \in Findings, s \in States : Transition(g, s)
          \/ \E c \in Callers : WriteVerdict(c)
      BY <2>0, <2>4 DEF FindingNext, findingVars, CreateSignal, AttachEvidence, BeginVerify,
                        Decide, GiveUp, FindingTypeOK
    <3>. QED
      BY <3>1, <2>1, <2>2
  <2>. QED
    BY <2>3, <2>4
<1>. QED
  BY <1>1, FindingInvariant, PTL DEF FindingSpec, SignalNeverConfirmed

--------------------------------------------------------------------------------
StoredNames == Texts \cup VaultItems

ReviewState ==
    [step : Steps \cup Ended, plan : Seq(Kinds), signal : Files \cup {None},
     content : Contents \cup {None}, todo : SUBSET Files, told : SUBSET Findings]

SignalRange == {SignalKinds[i] : i \in DOMAIN SignalKinds}

Recording == {"persist", "index", "vault", "insert"}

\* A review that makes a record, of the repository or of the signal it is at.
PlanStands(r) ==
    LET v == reviewing[r]
    IN /\ v.step \in Recording \cup {"attach"} => v.plan # <<>>
       /\ v.signal # None => v.content \in Contents
       /\ v.signal = None =>
             /\ v.step \notin {"create", "attach", "hypothesis", "verify", "verifying"}
             /\ \A i \in 1..Len(v.plan) : v.plan[i] \notin SignalRange
       /\ v.signal # None => \A i \in 1..Len(v.plan) : v.plan[i] \in SignalRange

ReviewTypeOK ==
    /\ shown \in [StoredNames -> {"none", "complete"}]
    /\ reviewing \in [Reviews -> ReviewState]
    /\ \A r \in Reviews : PlanStands(r)

\* What the stores hold for a review that is in the middle of record_text.
StoresStand(r) ==
    /\ reviewing[r].step \in {"index", "vault", "insert"} => shown[TextOf(r)] = "complete"
    /\ reviewing[r].step \in {"vault", "insert"} => TextOf(r) \in recorded
    /\ reviewing[r].step = "insert" => \A v \in CandidatesOf(r) : shown[v] = "complete"

EvidenceTyped == \A e \in evidence : e.artifact \in StoredNames /\ e.refs \subseteq StoredNames

StoreInv ==
    /\ ReviewTypeOK
    /\ file \in [Files -> Contents \cup {None}]
    /\ \A r \in Reviews : StoresStand(r)
    /\ EvidenceTyped
    /\ EvidenceBacked

\* What a review is about to find out about its signal.
RowFor(r, kind) == EvidenceRow(r, kind, reviewing[r].signal, reviewing[r].content)

ToDo(r) == {reviewing[r].plan[i] : i \in 1..Len(reviewing[r].plan)}

\* The rows of the signal a review is at, but for the ones still to do.
RowsStand(r) ==
    reviewing[r].signal # None =>
        \A k \in SignalRange :
            RowFor(r, k) \in evidence \/ (reviewing[r].step \in Recording /\ k \in ToDo(r))

\* Its finding, and the rows attached to it, but for the ones still to do.
FindingStands(r) ==
    reviewing[r].step \in {"attach", "hypothesis", "verify", "verifying"} =>
        /\ findings[FindingOf(r)] # None
        /\ \A k \in SignalRange :
              \/ <<FindingOf(r), RowFor(r, k)>> \in attached
              \/ (reviewing[r].step = "attach" /\ k \in ToDo(r))

\* The call of verify_and_finalize it is inside of is about its finding.
CallStands(r) ==
    (reviewing[r].step = "verifying" /\ verifying[r] # None) =>
        verifying[r].finding = FindingOf(r)

LinksStand == \A f \in Findings : EvidenceFor(f) \subseteq evidence

TellInv ==
    /\ StoreInv
    /\ FindingInv
    /\ \A r \in Reviews : RowsStand(r) /\ FindingStands(r) /\ CallStands(r)
    /\ LinksStand
    /\ ReportsRestOnFindings

--------------------------------------------------------------------------------
\* The facts about sequences that plans need.
LEMMA PlanFacts ==
    ASSUME NEW S, NEW p \in Seq(S), p # <<>>
    PROVE  /\ Head(p) \in S
           /\ Head(p) = p[1]
           /\ 1 \in 1..Len(p)
           /\ Tail(p) \in Seq(S)
           /\ Len(Tail(p)) = Len(p) - 1
           /\ \A i \in 1..Len(Tail(p)) : i + 1 \in 1..Len(p) /\ Tail(p)[i] = p[i + 1]
OBVIOUS

\* SignalKinds are four kinds of record, and none of them is one of the repository.
LEMMA KindFacts ==
    /\ SignalKinds \in Seq(Kinds)
    /\ SignalKinds # <<>>
    /\ \A i \in 1..Len(SignalKinds) : SignalKinds[i] \in SignalRange
    /\ RepositoryKinds \in Seq(Kinds)
    /\ RepositoryKinds # <<>>
    /\ \A i \in 1..Len(RepositoryKinds) : RepositoryKinds[i] \notin SignalRange
    /\ SignalRange \subseteq Kinds
<1>1. DOMAIN SignalKinds = 1..4 /\ Len(SignalKinds) = 4
  BY DEF SignalKinds
<1>2. SignalRange = {"source_location", "secret_pattern_match", "vault_confirmation",
                     "counterevidence_search"}
  BY <1>1 DEF SignalRange, SignalKinds
<1>3. Kinds = {"repository_inventory", "dependency_record"} \cup SignalRange
  BY DEF Kinds, SignalRange
<1>4. SignalKinds \in Seq(Kinds) /\ SignalKinds # <<>>
  BY <1>2, <1>3 DEF SignalKinds
<1>5. \A i \in 1..Len(SignalKinds) : SignalKinds[i] \in SignalRange
  BY <1>1 DEF SignalRange
<1>6. RepositoryKinds = <<"repository_inventory", "dependency_record">>
         \/ RepositoryKinds = <<"repository_inventory">>
  BY DependenciesAssumption DEF RepositoryKinds
<1>7. /\ RepositoryKinds \in Seq(Kinds)
      /\ RepositoryKinds # <<>>
      /\ \A i \in 1..Len(RepositoryKinds) : RepositoryKinds[i] \notin SignalRange
  <2>1. CASE RepositoryKinds = <<"repository_inventory", "dependency_record">>
    BY <2>1, <1>2, <1>3
  <2>2. CASE RepositoryKinds = <<"repository_inventory">>
    BY <2>2, <1>2, <1>3
  <2>. QED
    BY <1>6, <2>1, <2>2
<1>. QED
  BY <1>3, <1>4, <1>5, <1>7

\* The text of a record is a name of the artifact store, and what is taken out of it has
\* names in the vault.
LEMMA TextTyped ==
    ASSUME ReviewTypeOK, NEW r \in Reviews, reviewing[r].step \in Recording
    PROVE  /\ TextOf(r) \in StoredNames
           /\ CandidatesOf(r) \subseteq StoredNames
<1>1. /\ reviewing[r] \in ReviewState
      /\ PlanStands(r)
  BY DEF ReviewTypeOK
<1>2. reviewing[r].plan \in Seq(Kinds) /\ reviewing[r].plan # <<>>
  BY <1>1 DEF ReviewState, PlanStands
<1>3. Kind(r) \in Kinds /\ Kind(r) = reviewing[r].plan[1] /\ 1 \in 1..Len(reviewing[r].plan)
  BY <1>2, PlanFacts DEF Kind
<1>4. /\ reviewing[r].signal \in Files \cup {None}
      /\ reviewing[r].content \in Contents \cup {None}
  BY <1>1 DEF ReviewState
<1>5. TextOf(r) \in Texts
  <2>1. \A k \in Kinds, s \in Files \cup {None}, c \in Contents \cup {None} : Text(k, s, c) \in Texts
    BY DEF Texts
  <2>. QED
    BY <1>3, <1>4, <2>1 DEF TextOf
<1>6. CandidatesOf(r) \subseteq VaultItems
  <2>1. CASE Kind(r) # "secret_pattern_match"
    BY <2>1 DEF CandidatesOf, Candidates
  <2>2. CASE Kind(r) = "secret_pattern_match"
    <3>1. Kind(r) \in SignalRange
      BY <2>2 DEF SignalRange, SignalKinds
    <3>2. reviewing[r].content \in Contents
      BY <1>1, <1>3, <3>1 DEF PlanStands
    <3>. QED
      BY <2>2, <3>2, SecretsInContents DEF CandidatesOf, Candidates
  <2>. QED
    BY <2>1, <2>2
<1>. QED
  BY <1>5, <1>6 DEF StoredNames

--------------------------------------------------------------------------------
\* Steps that only a running review makes leave every other review alone.
LEMMA OnlyMine ==
    ASSUME ReviewTypeOK, NEW r \in Reviews, NEW w, reviewing' = [reviewing EXCEPT ![r] = w]
    PROVE  /\ reviewing'[r] = w
           /\ \A q \in Reviews \ {r} : reviewing'[q] = reviewing[q]
BY DEF ReviewTypeOK

LEMMA GotoStep ==
    ASSUME ReviewTypeOK, NEW r \in Reviews, NEW step, Goto(r, step)
    PROVE  /\ reviewing' = [reviewing EXCEPT ![r] = [reviewing[r] EXCEPT !.step = step]]
           /\ reviewing'[r] = [reviewing[r] EXCEPT !.step = step]
           /\ reviewing'[r].step = step
           /\ reviewing'[r].plan = reviewing[r].plan
           /\ reviewing'[r].signal = reviewing[r].signal
           /\ reviewing'[r].content = reviewing[r].content
           /\ reviewing'[r].told = reviewing[r].told
           /\ \A q \in Reviews \ {r} : reviewing'[q] = reviewing[q]
<1>1. reviewing[r] \in ReviewState
  BY DEF ReviewTypeOK
<1>2. reviewing' = [reviewing EXCEPT ![r] = [reviewing[r] EXCEPT !.step = step]]
  BY DEF Goto
<1>3. /\ reviewing'[r] = [reviewing[r] EXCEPT !.step = step]
      /\ \A q \in Reviews \ {r} : reviewing'[q] = reviewing[q]
  BY <1>2, OnlyMine
<1>. QED
  BY <1>1, <1>2, <1>3 DEF ReviewState

\* What reviews know is of its kind after a review has moved to a state of its kind.
LEMMA MovedTyped ==
    ASSUME ReviewTypeOK, NEW r \in Reviews, NEW w \in ReviewState,
           reviewing' = [reviewing EXCEPT ![r] = w],
           PlanStands(r)', shown' \in [StoredNames -> {"none", "complete"}]
    PROVE  ReviewTypeOK'
<1>1. reviewing' \in [Reviews -> ReviewState]
  BY DEF ReviewTypeOK
<1>2. ASSUME NEW q \in Reviews PROVE PlanStands(q)'
  <2>1. CASE q = r
    BY <2>1
  <2>2. CASE q # r
    BY <2>2, OnlyMine DEF PlanStands, ReviewTypeOK
  <2>. QED
    BY <2>1, <2>2
<1>. QED
  BY <1>1, <1>2 DEF ReviewTypeOK

\* A review that leaves knows nothing any more.
LEMMA LeaveTyped ==
    ASSUME ReviewTypeOK, NEW r \in Reviews, NEW step \in Ended, Leave(r, step),
           shown' \in [StoredNames -> {"none", "complete"}]
    PROVE  ReviewTypeOK'
<1>. DEFINE w == Review(step, <<>>, None, None, {}, {})
<1>1. w \in ReviewState
  BY DEF Review, ReviewState
<1>2. reviewing'[r] = w
  BY OnlyMine DEF Leave
<1>3. PlanStands(r)'
  BY <1>2 DEF PlanStands, Review, Ended, Recording
<1>. QED
  BY <1>1, <1>3, MovedTyped DEF Leave

\* The stores only grow.
LEMMA StoresGrow ==
    ASSUME ReviewTypeOK, [ReviewNext]_reviewVars
    PROVE  /\ shown' \in [StoredNames -> {"none", "complete"}]
           /\ \A n \in StoredNames : shown[n] = "complete" => shown'[n] = "complete"
           /\ recorded \subseteq recorded'
<1>0. shown \in [StoredNames -> {"none", "complete"}]
  BY DEF ReviewTypeOK
<1>1. ASSUME NEW n \in StoredNames, Store!Keep(n)
      PROVE  /\ shown' \in [StoredNames -> {"none", "complete"}]
             /\ \A m \in StoredNames : shown[m] = "complete" => shown'[m] = "complete"
             /\ recorded \subseteq recorded'
  BY <1>0, <1>1 DEF Store!Keep
<1>2. ASSUME NEW r \in Reviews, PersistArtifact(r)
      PROVE  \E n \in StoredNames : Store!Keep(n)
  BY <1>2, TextTyped DEF PersistArtifact, In, Recording
<1>3. ASSUME NEW r \in Reviews, StoreCandidate(r)
      PROVE  \E n \in StoredNames : Store!Keep(n)
  <2>1. PICK v \in Unkept(r) : Store!Keep(v)
    BY <1>3 DEF StoreCandidate
  <2>. QED
    BY <1>3, <2>1, TextTyped DEF StoreCandidate, In, Recording, Unkept
<1>4. ASSUME NEW r \in Reviews, IndexArtifact(r)
      PROVE  shown' = shown /\ recorded \subseteq recorded'
  BY <1>4 DEF IndexArtifact, Store!Index
<1>5. ASSUME ~ \E r \in Reviews : PersistArtifact(r) \/ StoreCandidate(r) \/ IndexArtifact(r)
      PROVE  shown' = shown /\ recorded' = recorded
  BY <1>5 DEF ReviewNext, ReviewStep, reviewVars, storeVars, Scan, StoredCandidates,
              InsertEvidence, TakeSignal, Create, Attach, Suppose, Verify, Finalize,
              OpenReport, WriteReport, Die, Edit, OtherCaller
<1>. QED
  BY <1>0, <1>1, <1>2, <1>3, <1>4, <1>5

\* A step that changes nothing but where a review is keeps what is known of the review.
LEMMA GotoTyped ==
    ASSUME ReviewTypeOK, NEW r \in Reviews, NEW step \in Steps \cup Ended, Goto(r, step),
           step \in Recording \cup {"attach"} => reviewing[r].step \in Recording \cup {"attach"},
           step \in {"create", "attach", "hypothesis", "verify", "verifying"}
              => reviewing[r].step \in {"create", "attach", "hypothesis", "verify", "verifying"},
           shown' \in [StoredNames -> {"none", "complete"}]
    PROVE  ReviewTypeOK'
<1>1. reviewing[r] \in ReviewState /\ PlanStands(r)
  BY DEF ReviewTypeOK
<1>2. [reviewing[r] EXCEPT !.step = step] \in ReviewState
  BY <1>1 DEF ReviewState
<1>3. PlanStands(r)'
  <2>1. /\ reviewing'[r].step = step
        /\ reviewing'[r].plan = reviewing[r].plan
        /\ reviewing'[r].signal = reviewing[r].signal
        /\ reviewing'[r].content = reviewing[r].content
    BY GotoStep
  <2>. QED
    BY <1>1, <2>1 DEF PlanStands
<1>. QED
  BY <1>2, <1>3, GotoStep, MovedTyped

LEMMA InsertTyped ==
    ASSUME ReviewTypeOK, NEW r \in Reviews, InsertEvidence(r)
    PROVE  ReviewTypeOK'
<1>. DEFINE v == reviewing[r]
            rest == Tail(v.plan)
            next == IF rest # <<>> THEN "persist" ELSE IF v.signal = None THEN "next" ELSE "create"
            w == [v EXCEPT !.plan = rest, !.step = next]
<1>1. v \in ReviewState /\ PlanStands(r) /\ v.step = "insert"
  BY DEF ReviewTypeOK, InsertEvidence, In
<1>2. /\ v.plan \in Seq(Kinds)
      /\ v.plan # <<>>
  BY <1>1 DEF ReviewState, PlanStands, Recording
<1>3. /\ rest \in Seq(Kinds)
      /\ \A i \in 1..Len(rest) : i + 1 \in 1..Len(v.plan) /\ rest[i] = v.plan[i + 1]
  BY <1>2, PlanFacts
<1>4. next \in Steps
  BY DEF Steps
<1>5. w \in ReviewState
  BY <1>1, <1>3, <1>4 DEF ReviewState
<1>6. reviewing' = [reviewing EXCEPT ![r] = w]
  BY <1>1 DEF InsertEvidence, ReviewTypeOK
<1>7. /\ reviewing'[r].plan = rest
      /\ reviewing'[r].step = next
      /\ reviewing'[r].signal = v.signal
      /\ reviewing'[r].content = v.content
  <2>1. reviewing'[r] = w
    BY <1>6, OnlyMine
  <2>. HIDE DEF rest, next
  <2>. QED
    BY <1>1, <2>1 DEF ReviewState
<1>8. PlanStands(r)'
  <2>1. next \in Recording \cup {"attach"} => rest # <<>>
    BY DEF Recording
  <2>2. v.signal = None => next \notin {"create", "attach", "hypothesis", "verify", "verifying"}
    OBVIOUS
  <2>3. v.signal = None => \A i \in 1..Len(rest) : rest[i] \notin SignalRange
    BY <1>1, <1>3 DEF PlanStands
  <2>4. v.signal # None => \A i \in 1..Len(rest) : rest[i] \in SignalRange
    BY <1>1, <1>3 DEF PlanStands
  <2>5. v.signal # None => v.content \in Contents
    BY <1>1 DEF PlanStands
  <2>. HIDE DEF rest, next
  <2>. QED
    BY <1>7, <2>1, <2>2, <2>3, <2>4, <2>5 DEF PlanStands
<1>9. shown' = shown
  BY DEF InsertEvidence, storeVars
<1>. HIDE DEF w
<1>. QED
  BY <1>5, <1>6, <1>8, <1>9, MovedTyped DEF ReviewTypeOK

LEMMA AttachTyped ==
    ASSUME ReviewTypeOK, NEW r \in Reviews, Attach(r)
    PROVE  ReviewTypeOK'
<1>. DEFINE v == reviewing[r]
            rest == Tail(v.plan)
            next == IF rest = <<>> THEN "hypothesis" ELSE "attach"
            w == [v EXCEPT !.plan = rest, !.step = next]
<1>1. v \in ReviewState /\ PlanStands(r) /\ v.step = "attach"
  BY DEF ReviewTypeOK, Attach, In
<1>2. /\ v.plan \in Seq(Kinds)
      /\ v.plan # <<>>
      /\ v.signal # None
  BY <1>1 DEF ReviewState, PlanStands, Recording
<1>3. /\ rest \in Seq(Kinds)
      /\ \A i \in 1..Len(rest) : i + 1 \in 1..Len(v.plan) /\ rest[i] = v.plan[i + 1]
  BY <1>2, PlanFacts
<1>4. next \in Steps
  BY DEF Steps
<1>5. w \in ReviewState
  BY <1>1, <1>3, <1>4 DEF ReviewState
<1>6. reviewing' = [reviewing EXCEPT ![r] = w]
  BY <1>1 DEF Attach, ReviewTypeOK, AttachedNext
<1>7. /\ reviewing'[r].plan = rest
      /\ reviewing'[r].step = next
      /\ reviewing'[r].signal = v.signal
      /\ reviewing'[r].content = v.content
  <2>1. reviewing'[r] = w
    BY <1>6, OnlyMine
  <2>. HIDE DEF rest, next
  <2>. QED
    BY <1>1, <2>1 DEF ReviewState
<1>8. PlanStands(r)'
  <2>1. next \in Recording \cup {"attach"} => rest # <<>>
    BY DEF Recording
  <2>2. \A i \in 1..Len(rest) : rest[i] \in SignalRange
    BY <1>1, <1>2, <1>3 DEF PlanStands
  <2>3. v.content \in Contents
    BY <1>1, <1>2 DEF PlanStands
  <2>. HIDE DEF rest, next
  <2>. QED
    BY <1>2, <1>7, <2>1, <2>2, <2>3 DEF PlanStands
<1>9. shown' = shown
  BY DEF Attach, storeVars
<1>. HIDE DEF w
<1>. QED
  BY <1>5, <1>6, <1>8, <1>9, MovedTyped DEF ReviewTypeOK

\* Taking up a signal, or leaving the review when its file is gone.
LEMMA TakeTyped ==
    ASSUME ReviewTypeOK, file \in [Files -> Contents \cup {None}], NEW r \in Reviews,
           TakeSignal(r)
    PROVE  ReviewTypeOK'
<1>1. shown' = shown /\ shown \in [StoredNames -> {"none", "complete"}]
  BY DEF TakeSignal, storeVars, ReviewTypeOK
<1>2. reviewing[r] \in ReviewState
  BY DEF ReviewTypeOK
<1>3. PICK s \in reviewing[r].todo :
         IF file[s] = None
         THEN Unreadable(r)
         ELSE reviewing' = [reviewing EXCEPT ![r] =
                  Review("persist", SignalKinds, s, file[s], reviewing[r].todo \ {s},
                         reviewing[r].told)]
  BY DEF TakeSignal
<1>4. CASE file[s] = None
  BY <1>1, <1>3, <1>4, LeaveTyped DEF Unreadable, Ended
<1>5. CASE file[s] # None
  <2>. DEFINE w == Review("persist", SignalKinds, s, file[s], reviewing[r].todo \ {s},
                          reviewing[r].told)
  <2>1. s \in Files /\ file[s] \in Contents
    BY <1>2, <1>5 DEF ReviewState
  <2>2. w \in ReviewState
    BY <1>2, <2>1, KindFacts DEF Review, ReviewState, Steps
  <2>3. reviewing' = [reviewing EXCEPT ![r] = w]
    BY <1>3, <1>5
  <2>4. reviewing'[r] = w
    BY <2>3, OnlyMine
  <2>5. PlanStands(r)'
    BY <2>1, <2>4, KindFacts, NoneIsNoContent DEF PlanStands, Review
  <2>. HIDE DEF w
  <2>. QED
    BY <1>1, <2>2, <2>3, <2>5, MovedTyped
<1>. QED
  BY <1>4, <1>5

LEMMA ReviewTypeStep ==
    ASSUME ReviewTypeOK, file \in [Files -> Contents \cup {None}],
           [ReviewNext]_reviewVars
    PROVE  ReviewTypeOK' /\ file' \in [Files -> Contents \cup {None}]
<1>0. shown' \in [StoredNames -> {"none", "complete"}]
  BY StoresGrow
<1>1. ASSUME NEW r \in Reviews, Scan(r) PROVE ReviewTypeOK' /\ file' = file
  <2>. DEFINE todo == {s \in Files : file[s] # None /\ SecretsIn[file[s]] # {}}
              w == Review("persist", RepositoryKinds, None, None, todo, {})
  <2>1. w \in ReviewState
    BY KindFacts DEF Review, ReviewState, Steps
  <2>2. reviewing' = [reviewing EXCEPT ![r] = w] /\ file' = file
    BY <1>1 DEF Scan
  <2>3. reviewing'[r] = w
    BY <2>2, OnlyMine
  <2>4. PlanStands(r)'
    BY <2>3, KindFacts DEF PlanStands, Review
  <2>. HIDE DEF w
  <2>. QED
    BY <1>0, <2>1, <2>2, <2>4, MovedTyped
<1>2. ASSUME NEW r \in Reviews, PersistArtifact(r) PROVE ReviewTypeOK' /\ file' = file
  BY <1>0, <1>2, GotoTyped DEF PersistArtifact, In, Steps, Recording
<1>3. ASSUME NEW r \in Reviews, IndexArtifact(r) PROVE ReviewTypeOK' /\ file' = file
  BY <1>0, <1>3, GotoTyped DEF IndexArtifact, In, Steps, Recording
<1>4. ASSUME NEW r \in Reviews, StoredCandidates(r) PROVE ReviewTypeOK' /\ file' = file
  BY <1>0, <1>4, GotoTyped DEF StoredCandidates, In, Steps, Recording
<1>5. ASSUME NEW r \in Reviews, InsertEvidence(r) PROVE ReviewTypeOK' /\ file' = file
  BY <1>5, InsertTyped DEF InsertEvidence
<1>6. ASSUME NEW r \in Reviews, TakeSignal(r) PROVE ReviewTypeOK' /\ file' = file
  BY <1>6, TakeTyped DEF TakeSignal
<1>7. ASSUME NEW r \in Reviews, Create(r) PROVE ReviewTypeOK' /\ file' = file
  <2>. DEFINE w == [reviewing[r] EXCEPT !.step = "attach", !.plan = SignalKinds]
  <2>1. reviewing[r] \in ReviewState /\ PlanStands(r) /\ reviewing[r].step = "create"
    BY <1>7 DEF ReviewTypeOK, Create, In
  <2>2. w \in ReviewState
    BY <2>1, KindFacts DEF ReviewState, Steps
  <2>3. reviewing' = [reviewing EXCEPT ![r] = w] /\ file' = file
    BY <1>7 DEF Create, ReviewTypeOK
  <2>4. reviewing'[r] = w
    BY <2>3, OnlyMine
  <2>5. /\ reviewing'[r].plan = SignalKinds
        /\ reviewing'[r].step = "attach"
        /\ reviewing'[r].signal = reviewing[r].signal
        /\ reviewing'[r].content = reviewing[r].content
    BY <2>1, <2>4 DEF ReviewState
  <2>6. PlanStands(r)'
    BY <2>1, <2>5, KindFacts DEF PlanStands
  <2>. HIDE DEF w
  <2>. QED
    BY <1>0, <2>2, <2>3, <2>6, MovedTyped
<1>8. ASSUME NEW r \in Reviews, Attach(r) PROVE ReviewTypeOK' /\ file' = file
  BY <1>8, AttachTyped DEF Attach
<1>9. ASSUME NEW r \in Reviews, Suppose(r) PROVE ReviewTypeOK' /\ file' = file
  <2>1. In(r, "hypothesis") /\ (Goto(r, "verify") \/ Leave(r, "raised")) /\ file' = file
    BY <1>9 DEF Suppose
  <2>2. ASSUME Goto(r, "verify") PROVE ReviewTypeOK'
    BY <1>0, <2>1, <2>2, GotoTyped DEF In, Steps, Recording
  <2>3. ASSUME Leave(r, "raised") PROVE ReviewTypeOK'
    BY <1>0, <2>3, LeaveTyped DEF Ended
  <2>. QED
    BY <2>1, <2>2, <2>3
<1>10. ASSUME NEW r \in Reviews, Verify(r) PROVE ReviewTypeOK' /\ file' = file
  BY <1>0, <1>10, GotoTyped DEF Verify, In, Steps, Recording
<1>11. ASSUME NEW r \in Reviews, Finalize(r), reviewing' # reviewing
       PROVE  ReviewTypeOK' /\ file' = file
  <2>. DEFINE w == Review("next", <<>>, None, None, reviewing[r].todo,
                          reviewing[r].told \cup {FindingOf(r)})
  <2>1. reviewing[r] \in ReviewState /\ PlanStands(r) /\ reviewing[r].step = "verifying"
    BY <1>11 DEF ReviewTypeOK, Finalize, In
  <2>2. FindingOf(r) \in Findings
    BY <2>1, FindingOfEachSignal DEF PlanStands, FindingOf, ReviewState
  <2>3. w \in ReviewState
    BY <2>1, <2>2 DEF Review, ReviewState, Steps
  <2>4. reviewing' = [reviewing EXCEPT ![r] = w] /\ file' = file
    BY <1>11 DEF Finalize
  <2>5. reviewing'[r] = w
    BY <2>4, OnlyMine
  <2>6. PlanStands(r)'
    BY <2>5 DEF PlanStands, Review, Recording
  <2>. HIDE DEF w
  <2>. QED
    BY <1>0, <2>3, <2>4, <2>6, MovedTyped
<1>12. ASSUME NEW r \in Reviews, OpenReport(r) PROVE ReviewTypeOK' /\ file' = file
  BY <1>0, <1>12, GotoTyped DEF OpenReport, In, Steps, Recording
<1>13. ASSUME NEW r \in Reviews, WriteReport(r) PROVE ReviewTypeOK' /\ file' = file
  BY <1>0, <1>13, GotoTyped DEF WriteReport, In, Ended, Recording
<1>14. ASSUME NEW r \in Reviews, Die(r) PROVE ReviewTypeOK' /\ file' = file
  BY <1>0, <1>14, LeaveTyped DEF Die, Ended
<1>15. ASSUME reviewing' = reviewing PROVE ReviewTypeOK'
  BY <1>0, <1>15 DEF ReviewTypeOK, PlanStands
<1>16. CASE Edit
  BY <1>15, <1>16 DEF Edit
<1>17. CASE OtherCaller
  BY <1>15, <1>17 DEF OtherCaller
<1>18. ASSUME NEW r \in Reviews, StoreCandidate(r) PROVE ReviewTypeOK' /\ file' = file
  BY <1>15, <1>18 DEF StoreCandidate
<1>19. ASSUME NEW r \in Reviews, Finalize(r) PROVE ReviewTypeOK' /\ file' = file
  BY <1>11, <1>15, <1>19 DEF Finalize
<1>20. CASE UNCHANGED reviewVars
  BY <1>15, <1>20 DEF reviewVars
<1>. QED
  BY <1>1, <1>2, <1>3, <1>4, <1>5, <1>6, <1>7, <1>8, <1>9, <1>10, <1>12, <1>13, <1>14, <1>16,
     <1>17, <1>18, <1>19, <1>20 DEF ReviewNext, ReviewStep

--------------------------------------------------------------------------------
\* A review that is not where it was has taken a step of its own.
LEMMA OwnStep ==
    ASSUME ReviewTypeOK, [ReviewNext]_reviewVars, NEW q \in Reviews, reviewing'[q] # reviewing[q]
    PROVE  ReviewStep(q) \/ Die(q)
<1>1. ASSUME NEW r \in Reviews, r # q, ReviewStep(r) \/ Die(r)
      PROVE  reviewing'[q] = reviewing[q]
  <2>1. \/ reviewing' = reviewing
        \/ \E w : reviewing' = [reviewing EXCEPT ![r] = w]
    BY <1>1 DEF ReviewStep, Scan, PersistArtifact, IndexArtifact, StoreCandidate,
          StoredCandidates, InsertEvidence, TakeSignal, Unreadable, Create, Attach,
          Suppose, Verify, Finalize, OpenReport, WriteReport, Die, Goto, Leave, ReviewTypeOK
  <2>. QED
    BY <1>1, <2>1, OnlyMine
<1>. QED
  BY <1>1 DEF ReviewNext, reviewVars, Edit, OtherCaller

\* What the stores hold for a review that stays where it is, it still holds.
LEMMA StoresStandElsewhere ==
    ASSUME StoreInv, [ReviewNext]_reviewVars, NEW q \in Reviews, reviewing'[q] = reviewing[q]
    PROVE  StoresStand(q)'
<1>1. /\ TextOf(q)' = TextOf(q)
      /\ CandidatesOf(q)' = CandidatesOf(q)
      /\ reviewing'[q].step = reviewing[q].step
  BY DEF TextOf, CandidatesOf, Kind
<1>2. StoresStand(q) /\ ReviewTypeOK
  BY DEF StoreInv
<1>3. reviewing[q].step \in {"index", "vault", "insert"}
         => TextOf(q) \in StoredNames /\ CandidatesOf(q) \subseteq StoredNames
  BY <1>2, TextTyped DEF Recording
<1>. QED
  BY <1>1, <1>2, <1>3, StoresGrow DEF StoresStand

\* A step that leaves a review where no store matters to it.
LEMMA StoresStandNot ==
    ASSUME NEW q, reviewing'[q].step \notin {"index", "vault", "insert"}
    PROVE  StoresStand(q)'
BY DEF StoresStand

LEMMA StoresStandStep ==
    ASSUME StoreInv, [ReviewNext]_reviewVars, NEW q \in Reviews
    PROVE  StoresStand(q)'
<1>0. ReviewTypeOK /\ StoresStand(q) /\ reviewing[q] \in ReviewState
  BY DEF StoreInv, ReviewTypeOK
<1>1. CASE reviewing'[q] = reviewing[q]
  BY <1>1, StoresStandElsewhere
<1>2. CASE reviewing'[q] # reviewing[q]
  <2>1. ReviewStep(q) \/ Die(q)
    BY <1>0, <1>2, OwnStep
  <2>2. CASE PersistArtifact(q)
    <3>1. /\ Store!Keep(TextOf(q))
          /\ Goto(q, "index")
          /\ reviewing[q].step = "persist"
      BY <2>2 DEF PersistArtifact, In
    <3>2. TextOf(q) \in StoredNames
      BY <1>0, <3>1, TextTyped DEF Recording
    <3>3. shown'[TextOf(q)] = "complete"
      BY <1>0, <3>1, <3>2 DEF Store!Keep, ReviewTypeOK
    <3>4. TextOf(q)' = TextOf(q) /\ reviewing'[q].step = "index"
      BY <1>0, <3>1, GotoStep DEF TextOf, Kind
    <3>. QED
      BY <3>3, <3>4 DEF StoresStand
  <2>3. CASE IndexArtifact(q)
    <3>1. /\ Store!Index(TextOf(q))
          /\ Goto(q, "vault")
          /\ reviewing[q].step = "index"
      BY <2>3 DEF IndexArtifact, In
    <3>2. shown' = shown /\ shown[TextOf(q)] = "complete" /\ TextOf(q) \in recorded'
      BY <3>1 DEF Store!Index
    <3>3. TextOf(q)' = TextOf(q) /\ reviewing'[q].step = "vault"
      BY <1>0, <3>1, GotoStep DEF TextOf, Kind
    <3>. QED
      BY <3>2, <3>3 DEF StoresStand
  <2>4. CASE StoredCandidates(q)
    <3>1. /\ shown' = shown /\ recorded' = recorded
          /\ Unkept(q) = {}
          /\ Goto(q, "insert")
          /\ reviewing[q].step = "vault"
      BY <2>4 DEF StoredCandidates, In, storeVars
    <3>2. /\ TextOf(q)' = TextOf(q)
          /\ CandidatesOf(q)' = CandidatesOf(q)
          /\ reviewing'[q].step = "insert"
      BY <1>0, <3>1, GotoStep DEF TextOf, CandidatesOf, Kind
    <3>3. \A v \in CandidatesOf(q) : shown[v] = "complete"
      BY <3>1 DEF Unkept
    <3>4. shown[TextOf(q)] = "complete" /\ TextOf(q) \in recorded
      BY <1>0, <3>1 DEF StoresStand
    <3>. QED
      BY <3>1, <3>2, <3>3, <3>4 DEF StoresStand
  <2>5. ASSUME NEW w, reviewing' = [reviewing EXCEPT ![q] = w],
               w.step \notin {"index", "vault", "insert"}
        PROVE  StoresStand(q)'
    BY <1>0, <2>5, OnlyMine, StoresStandNot
  <2>6. ASSUME NEW step, step \notin {"index", "vault", "insert"}, Goto(q, step) \/ Leave(q, step)
        PROVE  StoresStand(q)'
    <3>1. CASE Goto(q, step)
      BY <1>0, <2>6, <3>1, GotoStep, StoresStandNot
    <3>2. CASE Leave(q, step)
      BY <1>0, <2>5, <2>6, <3>2 DEF Leave, Review
    <3>. QED
      BY <2>6, <3>1, <3>2
  <2>7. CASE Scan(q)
    BY <2>5, <2>7 DEF Scan, Review
  <2>8. CASE InsertEvidence(q) \/ Create(q) \/ Attach(q)
    <3>1. reviewing'[q].step \in {"persist", "next", "create", "attach", "hypothesis"}
      BY <1>0, <2>8 DEF InsertEvidence, Create, Attach, ReviewTypeOK, ReviewState
    <3>. QED
      BY <3>1, StoresStandNot
  <2>9. CASE TakeSignal(q) \/ Finalize(q)
    <3>1. \/ Leave(q, "raised")
          \/ \E s, c, todo, told : reviewing' =
                [reviewing EXCEPT ![q] = Review("persist", SignalKinds, s, c, todo, told)]
          \/ \E todo, told : reviewing' =
                [reviewing EXCEPT ![q] = Review("next", <<>>, None, None, todo, told)]
      BY <1>2, <2>9 DEF TakeSignal, Finalize, Unreadable
    <3>. QED
      BY <2>5, <2>6, <3>1 DEF Review
  <2>10. CASE Suppose(q) \/ Verify(q) \/ OpenReport(q) \/ WriteReport(q) \/ Die(q)
    <3>1. \/ \E step \in {"verify", "verifying", "writing", "reported"} : Goto(q, step)
          \/ \E step \in {"raised", "dead"} : Leave(q, step)
      BY <2>10 DEF Suppose, Verify, OpenReport, WriteReport, Die
    <3>. QED
      BY <2>6, <3>1
  <2>11. ~ StoreCandidate(q)
    BY <1>2 DEF StoreCandidate
  <2>. QED
    BY <2>1, <2>2, <2>3, <2>4, <2>7, <2>8, <2>9, <2>10, <2>11 DEF ReviewStep
<1>. QED
  BY <1>1, <1>2

\* The evidence rows that exist stay backed, and a new one is.
LEMMA BackedStep ==
    ASSUME StoreInv, [ReviewNext]_reviewVars
    PROVE  EvidenceTyped' /\ EvidenceBacked'
<1>0. ReviewTypeOK /\ EvidenceBacked /\ EvidenceTyped
  BY DEF StoreInv
<1>1. ASSUME NEW e \in evidence
      PROVE  /\ e.artifact \in StoredNames /\ e.refs \subseteq StoredNames
             /\ e.artifact \in recorded' /\ shown'[e.artifact] = "complete"
             /\ \A v \in e.refs : shown'[v] = "complete"
  BY <1>0, <1>1, StoresGrow DEF EvidenceTyped, EvidenceBacked
<1>2. CASE evidence' = evidence
  BY <1>1, <1>2 DEF EvidenceTyped, EvidenceBacked
<1>3. CASE evidence' # evidence
  <2>1. PICK r \in Reviews : InsertEvidence(r)
    BY <1>3 DEF ReviewNext, ReviewStep, reviewVars, Scan, PersistArtifact, IndexArtifact,
                StoreCandidate, StoredCandidates, TakeSignal, Create, Attach, Suppose, Verify,
                Finalize, OpenReport, WriteReport, Die, Edit, OtherCaller
  <2>2. /\ reviewing[r].step = "insert"
        /\ evidence' = evidence \cup {RowOf(r)}
        /\ shown' = shown /\ recorded' = recorded
    BY <2>1 DEF InsertEvidence, In, storeVars
  <2>3. RowOf(r).artifact = TextOf(r) /\ RowOf(r).refs = CandidatesOf(r)
    BY DEF RowOf, EvidenceRow, TextOf, CandidatesOf
  <2>4. TextOf(r) \in StoredNames /\ CandidatesOf(r) \subseteq StoredNames
    BY <1>0, <2>2, TextTyped DEF Recording
  <2>5. /\ TextOf(r) \in recorded /\ shown[TextOf(r)] = "complete"
        /\ \A v \in CandidatesOf(r) : shown[v] = "complete"
    BY <2>2 DEF StoreInv, StoresStand
  <2>. QED
    BY <1>1, <2>2, <2>3, <2>4, <2>5 DEF EvidenceTyped, EvidenceBacked
<1>. QED
  BY <1>2, <1>3

LEMMA StoreInvariant == ReviewSpec => []StoreInv
<1>1. ReviewInit => StoreInv
  <2>. SUFFICES ASSUME ReviewInit PROVE StoreInv
    OBVIOUS
  <2>1. /\ shown \in [StoredNames -> {"none", "complete"}]
        /\ file \in [Files -> Contents \cup {None}]
        /\ evidence = {}
    BY DEF ReviewInit, Store!Init, StoredNames
  <2>2. ASSUME NEW r \in Reviews
        PROVE  /\ reviewing[r] = Review("scan", <<>>, None, None, {}, {})
               /\ reviewing[r] \in ReviewState /\ PlanStands(r) /\ StoresStand(r)
    BY <2>2 DEF ReviewInit, ReviewState, Review, PlanStands, StoresStand, Steps, Recording
  <2>3. reviewing \in [Reviews -> ReviewState]
    BY <2>2 DEF ReviewInit
  <2>. QED
    BY <2>1, <2>2, <2>3 DEF StoreInv, ReviewTypeOK, EvidenceTyped, EvidenceBacked
<1>2. StoreInv /\ [ReviewNext]_reviewVars => StoreInv'
  <2>. SUFFICES ASSUME StoreInv, [ReviewNext]_reviewVars PROVE StoreInv'
    OBVIOUS
  <2>1. ReviewTypeOK' /\ file' \in [Files -> Contents \cup {None}]
    BY ReviewTypeStep DEF StoreInv
  <2>2. \A r \in Reviews : StoresStand(r)'
    BY StoresStandStep
  <2>3. EvidenceTyped' /\ EvidenceBacked'
    BY BackedStep
  <2>. QED
    BY <2>1, <2>2, <2>3 DEF StoreInv
<1>. QED
  BY <1>1, <1>2, PTL DEF ReviewSpec

\* Evidence rows are backed by the stores however many reviews write them and wherever
\* each of them dies: record_text keeps the artifact and every vault item before the row.
THEOREM EvidenceAlwaysBacked == ReviewSpec => []EvidenceBacked
<1>1. StoreInv => EvidenceBacked
  BY DEF StoreInv
<1>. QED
  BY <1>1, StoreInvariant, PTL

--------------------------------------------------------------------------------
\* To the finding tables a review is one more caller of the lifecycle.
LEMMA FindingStep ==
    ASSUME ReviewTypeOK, [ReviewNext]_reviewVars
    PROVE  [FindingNext]_findingVars
<1>1. ASSUME NEW r \in Reviews, reviewing[r].step \in {"create", "attach", "hypothesis", "verify"}
      PROVE  FindingOf(r) \in Findings
  BY <1>1, FindingOfEachSignal DEF ReviewTypeOK, ReviewState, PlanStands, FindingOf
<1>2. ASSUME NEW r \in Reviews, Create(r) PROVE FindingNext
  BY <1>1, <1>2, SecretExposureIsType DEF Create, In, FindingNext
<1>3. ASSUME NEW r \in Reviews, Attach(r) PROVE FindingNext
  <2>1. reviewing[r] \in ReviewState /\ PlanStands(r) /\ reviewing[r].step = "attach"
    BY <1>3 DEF ReviewTypeOK, Attach, In
  <2>2. /\ reviewing[r].plan \in Seq(Kinds) /\ reviewing[r].plan # <<>>
        /\ reviewing[r].signal \in Files /\ reviewing[r].content \in Contents
    BY <2>1 DEF ReviewState, PlanStands
  <2>3. Kind(r) \in SignalRange
    BY <2>1, <2>2, PlanFacts DEF Kind, PlanStands
  <2>4. RowOf(r) \in Records
    BY <2>2, <2>3, RecordOfEachText DEF RowOf, SignalRange
  <2>. QED
    BY <1>1, <1>3, <2>1, <2>4 DEF Attach, FindingNext
<1>4. ASSUME NEW r \in Reviews, Suppose(r) PROVE [FindingNext]_findingVars
  BY <1>1, <1>4 DEF Suppose, In, FindingNext, States
<1>5. ASSUME NEW r \in Reviews, Verify(r) PROVE FindingNext
  BY <1>1, <1>5, ReviewsCall, VerificationOfReviews DEF Verify, In, FindingNext
<1>6. ASSUME NEW r \in Reviews, Finalize(r) PROVE FindingNext
  BY <1>6, ReviewsCall DEF Finalize, FindingNext
<1>7. ASSUME NEW r \in Reviews, Die(r) PROVE [FindingNext]_findingVars
  BY <1>7, ReviewsCall DEF Die, FindingNext
<1>8. CASE OtherCaller
  BY <1>8 DEF OtherCaller, FindingNext
<1>9. ASSUME UNCHANGED findingVars PROVE [FindingNext]_findingVars
  BY <1>9
<1>10. ASSUME NEW r \in Reviews,
              Scan(r) \/ PersistArtifact(r) \/ IndexArtifact(r) \/ StoreCandidate(r)
                \/ StoredCandidates(r) \/ InsertEvidence(r) \/ TakeSignal(r) \/ OpenReport(r)
                \/ WriteReport(r)
       PROVE  UNCHANGED findingVars
  BY <1>10 DEF Scan, PersistArtifact, IndexArtifact, StoreCandidate, StoredCandidates,
               InsertEvidence, TakeSignal, OpenReport, WriteReport
<1>11. CASE UNCHANGED reviewVars \/ Edit
  BY <1>11 DEF reviewVars, Edit
<1>. QED
  BY <1>2, <1>3, <1>4, <1>5, <1>6, <1>7, <1>8, <1>9, <1>10, <1>11 DEF ReviewNext, ReviewStep

\* Reviews, with everybody who moves and verifies findings meanwhile, implement
\* FindingLifecycle: every theorem about it holds of them.
THEOREM ReviewImplementsFindings == ReviewSpec => FindingSpec
<1>1. ReviewInit => FindingInit
  BY DEF ReviewInit
<1>2. StoreInv /\ [ReviewNext]_reviewVars => [FindingNext]_findingVars
  BY FindingStep DEF StoreInv
<1>. QED
  BY <1>1, <1>2, StoreInvariant, PTL DEF ReviewSpec, FindingSpec

--------------------------------------------------------------------------------
\* Evidence rows, attachments, findings and their verifications are there to stay.
LEMMA TablesGrow ==
    ASSUME TellInv, [ReviewNext]_reviewVars
    PROVE  /\ evidence \subseteq evidence'
           /\ attached \subseteq attached'
           /\ \A f \in Findings : findings[f] # None => findings'[f] # None
<1>1. evidence \subseteq evidence'
  BY DEF ReviewNext, ReviewStep, reviewVars, Scan, PersistArtifact, IndexArtifact,
         StoreCandidate, StoredCandidates, InsertEvidence, TakeSignal, Create, Attach, Suppose,
         Verify, Finalize, OpenReport, WriteReport, Die, Edit, OtherCaller
<1>2. [FindingNext]_findingVars /\ FindingTypeOK /\ CallsStand
  BY FindingStep DEF TellInv, StoreInv, FindingInv
<1>3. attached \subseteq attached'
  BY <1>2 DEF FindingNext, findingVars, CreateSignal, AttachEvidence, Transition, BeginVerify,
              Decide, WriteVerdict, GiveUp
<1>. QED
  BY <1>1, <1>2, <1>3, FindingPersists

LEMMA VerificationPersists ==
    ASSUME TellInv, [ReviewNext]_reviewVars, NEW f \in Findings,
           findings[f] # None, findings[f].verification # None
    PROVE  findings'[f].verification # None
<1>1. [FindingNext]_findingVars /\ FindingTypeOK
  BY FindingStep DEF TellInv, StoreInv, FindingInv
<1>2. findings \in [Findings -> FindingRow \cup {None}] /\ verifying \in [Callers -> HeldCall \cup {None}]
  BY <1>1 DEF FindingTypeOK
<1>3. ASSUME NEW g \in Findings, NEW type \in FindingTypes, CreateSignal(g, type)
      PROVE  findings'[f] = findings[f]
  BY <1>2, <1>3 DEF CreateSignal
<1>4. ASSUME NEW g \in Findings, NEW s \in States, Transition(g, s)
      PROVE  findings'[f].verification # None
  <2>1. CASE f = g
    BY <1>2, <1>4, <2>1 DEF Transition, Row
  <2>2. CASE f # g
    BY <1>2, <1>4, <2>2 DEF Transition
  <2>. QED
    BY <2>1, <2>2
<1>5. ASSUME NEW c \in Callers, WriteVerdict(c)
      PROVE  findings'[f].verification # None
  <2>1. verifying[c] \in HeldCall /\ verifying[c].step = "decided"
    BY <1>2, <1>5 DEF WriteVerdict
  <2>2. verifying[c].payload \in StoredVerification
    BY <2>1 DEF HeldCall
  <2>3. CASE f = verifying[c].finding
    BY <1>2, <1>5, <2>2, <2>3, NoneIsNoVerification DEF WriteVerdict, Row
  <2>4. CASE f # verifying[c].finding
    BY <1>2, <1>5, <2>4 DEF WriteVerdict
  <2>. QED
    BY <2>3, <2>4
<1>6. ASSUME UNCHANGED findings
      PROVE  findings'[f].verification # None
  BY <1>6
<1>. QED
  BY <1>1, <1>3, <1>4, <1>5, <1>6 DEF FindingNext, findingVars, AttachEvidence, BeginVerify,
                                      Decide, GiveUp

\* A finding that can be told of can be told of for ever.
LEMMA ToldPersists ==
    ASSUME TellInv, [ReviewNext]_reviewVars, NEW f \in Findings,
           findings[f] # None, findings[f].verification # None,
           findings[f].state \notin {"signal", "hypothesis"}, FullyAttached(f), LinksStand'
    PROVE  /\ findings'[f] # None
           /\ findings'[f].verification # None
           /\ findings'[f].state \notin {"signal", "hypothesis"}
           /\ FullyAttached(f)'
<1>1. [FindingNext]_findingVars /\ FindingTypeOK /\ CallsStand
  BY FindingStep DEF TellInv, StoreInv, FindingInv
<1>2. findings'[f] # None /\ findings'[f].state \notin {"signal", "hypothesis"}
  BY <1>1, FindingPersists DEF Early
<1>3. EvidenceFor(f) \subseteq EvidenceFor(f)'
  BY <1>1, EvidenceGrows
<1>4. FullyAttached(f)'
  BY <1>3 DEF FullyAttached, LinksStand
<1>. QED
  BY <1>2, <1>4, VerificationPersists

\* Attachments are made to rows that were inserted before.
LEMMA LinksStep ==
    ASSUME TellInv, [ReviewNext]_reviewVars
    PROVE  LinksStand'
<1>1. ASSUME attached' = attached PROVE LinksStand'
  BY <1>1, TablesGrow DEF TellInv, LinksStand, EvidenceFor
<1>2. ASSUME attached' # attached PROVE \E r \in Reviews : Attach(r)
  BY <1>2 DEF ReviewNext, ReviewStep, reviewVars, findingVars, Scan, PersistArtifact,
              IndexArtifact, StoreCandidate, StoredCandidates, InsertEvidence, TakeSignal,
              Create, CreateSignal, Suppose, Transition, Verify, BeginVerify, Finalize, Decide,
              WriteVerdict, OpenReport, WriteReport, Die, GiveUp, Edit, OtherCaller
<1>3. ASSUME NEW r \in Reviews, Attach(r) PROVE LinksStand'
  <2>1. /\ reviewing[r] \in ReviewState
        /\ PlanStands(r)
        /\ reviewing[r].step = "attach"
        /\ RowsStand(r)
    BY <1>3 DEF TellInv, StoreInv, ReviewTypeOK, Attach, In
  <2>2. reviewing[r].plan \in Seq(Kinds) /\ reviewing[r].plan # <<>> /\ reviewing[r].signal # None
    BY <2>1 DEF ReviewState, PlanStands
  <2>3. Kind(r) \in SignalRange
    BY <2>1, <2>2, PlanFacts DEF Kind, PlanStands
  <2>4. RowOf(r) \in evidence
    BY <2>1, <2>2, <2>3 DEF RowsStand, RowFor, RowOf, Recording
  <2>5. attached' = attached \cup {<<FindingOf(r), RowOf(r)>>} /\ evidence' = evidence
    BY <1>3 DEF Attach, AttachEvidence
  <2>. QED
    BY <2>4, <2>5 DEF TellInv, LinksStand, EvidenceFor
<1>. QED
  BY <1>1, <1>2, <1>3

--------------------------------------------------------------------------------
\* A kind of a plan is its first or one of the rest.
LEMMA ToDoShrinks ==
    ASSUME NEW p \in Seq(Kinds), p # <<>>, NEW i \in 1..Len(p)
    PROVE  p[i] = Head(p) \/ \E j \in 1..Len(Tail(p)) : Tail(p)[j] = p[i]
<1>1. CASE i = 1
  BY <1>1
<1>2. CASE i # 1
  <2>1. i - 1 \in 1..Len(Tail(p)) /\ Tail(p)[i - 1] = p[i]
    BY <1>2
  <2>. QED
    BY <2>1
<1>. QED
  BY <1>1, <1>2

\* What is known of a review about its signal, given that it keeps the signal.
LEMMA SameSignal ==
    ASSUME NEW r, reviewing'[r].signal = reviewing[r].signal,
           reviewing'[r].content = reviewing[r].content
    PROVE  /\ FindingOf(r)' = FindingOf(r)
           /\ \A k : RowFor(r, k)' = RowFor(r, k)
BY DEF FindingOf, RowFor

LEMMA FindingTyped ==
    ASSUME ReviewTypeOK, NEW r \in Reviews,
           reviewing[r].step \in {"create", "attach", "hypothesis", "verify", "verifying"}
    PROVE  FindingOf(r) \in Findings /\ reviewing[r].signal # None
BY FindingOfEachSignal DEF ReviewTypeOK, ReviewState, PlanStands, FindingOf

\* A review that keeps its signal and its plan, and goes no further than its records.
LEMMA KeptStands ==
    ASSUME TellInv, [ReviewNext]_reviewVars, NEW r \in Reviews,
           reviewing'[r].signal = reviewing[r].signal,
           reviewing'[r].content = reviewing[r].content,
           reviewing'[r].plan = reviewing[r].plan,
           reviewing[r].step \in Recording => reviewing'[r].step \in Recording,
           reviewing'[r].step \in {"attach", "hypothesis", "verify", "verifying"}
              => /\ reviewing[r].step \in {"attach", "hypothesis", "verify", "verifying"}
                 /\ reviewing[r].step = "attach" => reviewing'[r].step = "attach"
    PROVE  RowsStand(r)' /\ FindingStands(r)'
<1>1. /\ RowsStand(r) /\ FindingStands(r)
      /\ evidence \subseteq evidence' /\ attached \subseteq attached'
  BY TablesGrow DEF TellInv
<1>2. /\ FindingOf(r)' = FindingOf(r)
      /\ \A k : RowFor(r, k)' = RowFor(r, k)
      /\ ToDo(r)' = ToDo(r)
  BY SameSignal DEF ToDo
<1>3. RowsStand(r)'
  <2>. SUFFICES ASSUME reviewing'[r].signal # None, NEW k \in SignalRange
                PROVE  RowFor(r, k)' \in evidence' \/ (reviewing'[r].step \in Recording /\ k \in ToDo(r)')
    BY DEF RowsStand
  <2>1. RowFor(r, k) \in evidence \/ (reviewing[r].step \in Recording /\ k \in ToDo(r))
    BY <1>1 DEF RowsStand
  <2>. QED
    BY <1>1, <1>2, <2>1
<1>4. FindingStands(r)'
  <2>. SUFFICES ASSUME reviewing'[r].step \in {"attach", "hypothesis", "verify", "verifying"}
                PROVE  /\ findings'[FindingOf(r)'] # None
                       /\ \A k \in SignalRange :
                             \/ <<FindingOf(r)', RowFor(r, k)'>> \in attached'
                             \/ (reviewing'[r].step = "attach" /\ k \in ToDo(r)')
    BY DEF FindingStands
  <2>1. /\ findings[FindingOf(r)] # None
        /\ \A k \in SignalRange :
              \/ <<FindingOf(r), RowFor(r, k)>> \in attached
              \/ (reviewing[r].step = "attach" /\ k \in ToDo(r))
    BY <1>1 DEF FindingStands
  <2>2. FindingOf(r) \in Findings
    BY FindingTyped DEF TellInv, StoreInv
  <2>3. findings'[FindingOf(r)] # None
    BY <2>1, <2>2, TablesGrow
  <2>. QED
    BY <1>1, <1>2, <2>1, <2>3
<1>. QED
  BY <1>3, <1>4

\* A review without a signal has nothing to show.
LEMMA NothingStands ==
    ASSUME NEW r, reviewing'[r].signal = None,
           reviewing'[r].step \notin {"attach", "hypothesis", "verify", "verifying"}
    PROVE  RowsStand(r)' /\ FindingStands(r)'
BY DEF RowsStand, FindingStands

LEMMA InsertStands ==
    ASSUME TellInv, [ReviewNext]_reviewVars, NEW r \in Reviews, InsertEvidence(r)
    PROVE  RowsStand(r)' /\ FindingStands(r)'
<1>1. reviewing[r] \in ReviewState /\ PlanStands(r) /\ reviewing[r].step = "insert" /\ RowsStand(r)
  BY DEF TellInv, StoreInv, ReviewTypeOK, InsertEvidence, In
<1>2. reviewing[r].plan \in Seq(Kinds) /\ reviewing[r].plan # <<>>
  BY <1>1 DEF ReviewState, PlanStands, Recording
<1>3. /\ reviewing'[r].signal = reviewing[r].signal
      /\ reviewing'[r].content = reviewing[r].content
      /\ reviewing'[r].plan = Tail(reviewing[r].plan)
      /\ reviewing'[r].step = IF Tail(reviewing[r].plan) # <<>> THEN "persist"
                              ELSE IF reviewing[r].signal = None THEN "next"
                              ELSE "create"
  BY <1>1 DEF InsertEvidence, ReviewState, TellInv, StoreInv, ReviewTypeOK
<1>4. evidence' = evidence \cup {RowOf(r)}
  BY DEF InsertEvidence
<1>5. \A k : RowFor(r, k)' = RowFor(r, k)
  BY <1>3, SameSignal
<1>6. RowOf(r) = RowFor(r, Head(reviewing[r].plan))
  BY DEF RowOf, RowFor, Kind
<1>7. ASSUME reviewing[r].signal # None, NEW k \in SignalRange
      PROVE  RowFor(r, k)' \in evidence' \/ (reviewing'[r].step \in Recording /\ k \in ToDo(r)')
  <2>0. RowFor(r, k)' = RowFor(r, k)
    BY <1>5
  <2>1. RowFor(r, k) \in evidence \/ k \in ToDo(r)
    BY <1>1, <1>7 DEF RowsStand
  <2>2. CASE RowFor(r, k) \in evidence
    BY <1>4, <2>0, <2>2
  <2>3. CASE k \in ToDo(r)
    <3>1. PICK i \in 1..Len(reviewing[r].plan) : reviewing[r].plan[i] = k
      BY <2>3 DEF ToDo
    <3>2. CASE k = Head(reviewing[r].plan)
      BY <1>4, <1>6, <2>0, <3>2
    <3>3. CASE \E j \in 1..Len(Tail(reviewing[r].plan)) : Tail(reviewing[r].plan)[j] = k
      <4>1. k \in ToDo(r)'
        BY <1>3, <3>3 DEF ToDo
      <4>2. Tail(reviewing[r].plan) # <<>>
        BY <1>2, <3>3, Tail(reviewing[r].plan) \in Seq(Kinds)
      <4>. QED
        BY <1>3, <4>1, <4>2 DEF Recording
    <3>. QED
      BY <1>2, <3>1, <3>2, <3>3, ToDoShrinks
  <2>. QED
    BY <2>1, <2>2, <2>3
<1>. QED
  BY <1>3, <1>7 DEF RowsStand, FindingStands

LEMMA AttachStands ==
    ASSUME TellInv, [ReviewNext]_reviewVars, NEW r \in Reviews, Attach(r)
    PROVE  RowsStand(r)' /\ FindingStands(r)'
<1>1. /\ reviewing[r] \in ReviewState /\ PlanStands(r) /\ reviewing[r].step = "attach"
      /\ RowsStand(r) /\ FindingStands(r)
  BY DEF TellInv, StoreInv, ReviewTypeOK, Attach, In
<1>2. reviewing[r].plan \in Seq(Kinds) /\ reviewing[r].plan # <<>>
  BY <1>1 DEF ReviewState, PlanStands
<1>3. /\ reviewing'[r].signal = reviewing[r].signal
      /\ reviewing'[r].content = reviewing[r].content
      /\ reviewing'[r].plan = Tail(reviewing[r].plan)
      /\ reviewing'[r].step = IF Tail(reviewing[r].plan) = <<>> THEN "hypothesis" ELSE "attach"
  BY <1>1 DEF Attach, AttachedNext, ReviewState, TellInv, StoreInv, ReviewTypeOK
<1>4. attached' = attached \cup {<<FindingOf(r), RowOf(r)>>} /\ evidence' = evidence
  BY DEF Attach, AttachEvidence
<1>5. FindingOf(r)' = FindingOf(r) /\ \A k : RowFor(r, k)' = RowFor(r, k)
  BY <1>3, SameSignal
<1>6. RowOf(r) = RowFor(r, Head(reviewing[r].plan))
  BY DEF RowOf, RowFor, Kind
<1>7. RowsStand(r)'
  BY <1>1, <1>3, <1>4, <1>5 DEF RowsStand, Recording
<1>8. findings'[FindingOf(r)'] # None
  BY <1>1, <1>5, TablesGrow, FindingTyped DEF FindingStands, TellInv, StoreInv
<1>9. ASSUME NEW k \in SignalRange
      PROVE  \/ <<FindingOf(r)', RowFor(r, k)'>> \in attached'
             \/ (reviewing'[r].step = "attach" /\ k \in ToDo(r)')
  <2>1. <<FindingOf(r), RowFor(r, k)>> \in attached \/ k \in ToDo(r)
    BY <1>1, <1>9 DEF FindingStands
  <2>2. CASE <<FindingOf(r), RowFor(r, k)>> \in attached
    BY <1>4, <1>5, <2>2
  <2>3. CASE k \in ToDo(r)
    <3>1. PICK i \in 1..Len(reviewing[r].plan) : reviewing[r].plan[i] = k
      BY <2>3 DEF ToDo
    <3>2. CASE k = Head(reviewing[r].plan)
      BY <1>4, <1>5, <1>6, <3>2
    <3>3. CASE \E j \in 1..Len(Tail(reviewing[r].plan)) : Tail(reviewing[r].plan)[j] = k
      <4>1. k \in ToDo(r)'
        BY <1>3, <3>3 DEF ToDo
      <4>2. Tail(reviewing[r].plan) # <<>>
        BY <1>2, <3>3, Tail(reviewing[r].plan) \in Seq(Kinds)
      <4>. QED
        BY <1>3, <4>1, <4>2
    <3>. QED
      BY <1>2, <3>1, <3>2, <3>3, ToDoShrinks
  <2>. QED
    BY <2>1, <2>2, <2>3
<1>. QED
  BY <1>7, <1>8, <1>9 DEF FindingStands

LEMMA CreateStands ==
    ASSUME TellInv, [ReviewNext]_reviewVars, NEW r \in Reviews, Create(r)
    PROVE  RowsStand(r)' /\ FindingStands(r)'
<1>1. /\ reviewing[r] \in ReviewState /\ reviewing[r].step = "create"
      /\ RowsStand(r) /\ ReviewTypeOK /\ FindingTypeOK
  BY DEF TellInv, StoreInv, FindingInv, ReviewTypeOK, Create, In
<1>2. /\ reviewing'[r].signal = reviewing[r].signal
      /\ reviewing'[r].content = reviewing[r].content
      /\ reviewing'[r].plan = SignalKinds
      /\ reviewing'[r].step = "attach"
  BY <1>1 DEF Create, ReviewState, ReviewTypeOK
<1>3. FindingOf(r)' = FindingOf(r) /\ \A k : RowFor(r, k)' = RowFor(r, k)
  BY <1>2, SameSignal
<1>4. RowsStand(r)'
  BY <1>1, <1>2, <1>3, TablesGrow DEF RowsStand, Recording
<1>5. ToDo(r)' = SignalRange
  <2>1. DOMAIN SignalKinds = 1..Len(SignalKinds)
    BY KindFacts
  <2>. QED
    BY <1>2, <2>1 DEF ToDo, SignalRange
<1>6. findings'[FindingOf(r)] # None
  <2>1. FindingOf(r) \in Findings
    BY <1>1, FindingTyped
  <2>2. findings' = [findings EXCEPT ![FindingOf(r)] = Row("secret_exposure", "signal", None)]
    BY DEF Create, CreateSignal
  <2>3. Row("secret_exposure", "signal", None) \in FindingRow
    BY SecretExposureIsType DEF Row, FindingRow, States
  <2>. QED
    BY <1>1, <2>1, <2>2, <2>3, NoneIsNoFindingRow DEF FindingTypeOK
<1>. QED
  BY <1>2, <1>3, <1>4, <1>5, <1>6 DEF FindingStands

LEMMA TakeStands ==
    ASSUME TellInv, [ReviewNext]_reviewVars, NEW r \in Reviews, TakeSignal(r)
    PROVE  RowsStand(r)' /\ FindingStands(r)'
<1>0. ReviewTypeOK /\ reviewing[r] \in ReviewState
  BY DEF TellInv, StoreInv, ReviewTypeOK
<1>1. PICK s \in reviewing[r].todo :
         IF file[s] = None
         THEN Unreadable(r)
         ELSE reviewing' = [reviewing EXCEPT ![r] =
                  Review("persist", SignalKinds, s, file[s], reviewing[r].todo \ {s},
                         reviewing[r].told)]
  BY DEF TakeSignal
<1>2. CASE file[s] = None
  <2>1. reviewing'[r] = Review("raised", <<>>, None, None, {}, {})
    BY <1>0, <1>1, <1>2, OnlyMine DEF Unreadable, Leave
  <2>. QED
    BY <2>1, NothingStands DEF Review
<1>3. CASE file[s] # None
  <2>1. reviewing'[r] = Review("persist", SignalKinds, s, file[s], reviewing[r].todo \ {s},
                               reviewing[r].told)
    BY <1>0, <1>1, <1>3, OnlyMine
  <2>2. reviewing'[r].step = "persist" /\ reviewing'[r].plan = SignalKinds
    BY <2>1 DEF Review
  <2>3. ToDo(r)' = SignalRange
    <3>1. DOMAIN SignalKinds = 1..Len(SignalKinds)
      BY KindFacts
    <3>. QED
      BY <2>2, <3>1 DEF ToDo, SignalRange
  <2>. QED
    BY <2>2, <2>3 DEF RowsStand, FindingStands, Recording
<1>. QED
  BY <1>2, <1>3

LEMMA StandStep ==
    ASSUME TellInv, [ReviewNext]_reviewVars, NEW q \in Reviews
    PROVE  RowsStand(q)' /\ FindingStands(q)'
<1>0. ReviewTypeOK /\ reviewing[q] \in ReviewState
  BY DEF TellInv, StoreInv, ReviewTypeOK
<1>1. CASE reviewing'[q] = reviewing[q]
  BY <1>1, KeptStands
<1>2. CASE reviewing'[q] # reviewing[q]
  <2>1. CASE Scan(q)
    <3>1. \E todo : reviewing'[q] = Review("persist", RepositoryKinds, None, None, todo, {})
      BY <1>0, <2>1, OnlyMine DEF Scan
    <3>. QED
      BY <3>1, NothingStands DEF Review
  <2>2. CASE PersistArtifact(q) \/ IndexArtifact(q) \/ StoredCandidates(q)
    <3>1. /\ reviewing[q].step \in Recording
          /\ \E step \in Recording : Goto(q, step)
      BY <2>2 DEF PersistArtifact, IndexArtifact, StoredCandidates, In, Recording
    <3>2. PICK step \in Recording : Goto(q, step)
      BY <3>1
    <3>. QED
      BY <1>0, <3>1, <3>2, GotoStep, KeptStands DEF Recording
  <2>3. CASE Suppose(q) \/ Verify(q) \/ OpenReport(q) \/ WriteReport(q)
    <3>1. \/ /\ reviewing[q].step \in {"hypothesis", "verify"}
             /\ Goto(q, "verify") \/ Goto(q, "verifying")
          \/ /\ reviewing[q].step \in {"next", "writing"}
             /\ Goto(q, "writing") \/ Goto(q, "reported")
          \/ Leave(q, "raised")
      BY <2>3 DEF Suppose, Verify, OpenReport, WriteReport, In
    <3>2. CASE /\ reviewing[q].step \in {"hypothesis", "verify"}
               /\ Goto(q, "verify") \/ Goto(q, "verifying")
      BY <1>0, <3>2, GotoStep, KeptStands DEF Recording
    <3>3. CASE /\ reviewing[q].step \in {"next", "writing"}
               /\ Goto(q, "writing") \/ Goto(q, "reported")
      <4>1. PICK step \in {"writing", "reported"} : Goto(q, step)
        BY <3>3
      <4>. QED
        BY <1>0, <3>3, <4>1, GotoStep, KeptStands DEF Recording
    <3>4. CASE Leave(q, "raised")
      <4>1. reviewing'[q] = Review("raised", <<>>, None, None, {}, {})
        BY <1>0, <3>4, OnlyMine DEF Leave
      <4>. QED
        BY <4>1, NothingStands DEF Review
    <3>. QED
      BY <3>1, <3>2, <3>3, <3>4
  <2>4. CASE Finalize(q)
    <3>1. \E todo, told : reviewing'[q] = Review("next", <<>>, None, None, todo, told)
      BY <1>0, <1>2, <2>4, OnlyMine DEF Finalize
    <3>. QED
      BY <3>1, NothingStands DEF Review
  <2>5. CASE Die(q)
    <3>1. reviewing'[q] = Review("dead", <<>>, None, None, {}, {})
      BY <1>0, <2>5, OnlyMine DEF Die, Leave
    <3>. QED
      BY <3>1, NothingStands DEF Review
  <2>6. ~ StoreCandidate(q)
    BY <1>2 DEF StoreCandidate
  <2>. QED
    BY <1>0, <1>2, <2>1, <2>2, <2>3, <2>4, <2>5, <2>6, OwnStep, InsertStands, AttachStands,
       CreateStands, TakeStands DEF ReviewStep
<1>. QED
  BY <1>1, <1>2

--------------------------------------------------------------------------------
\* Nobody else touches the call a review is inside of.
LEMMA CallKept ==
    ASSUME TellInv, [ReviewNext]_reviewVars, NEW q \in Reviews,
           ~ Verify(q), ~ Finalize(q), ~ Die(q)
    PROVE  verifying'[q] = verifying[q]
<1>0. verifying \in [Callers -> HeldCall \cup {None}] /\ q \in Callers
  BY ReviewsCall DEF TellInv, FindingInv, FindingTypeOK
<1>1. ASSUME verifying' = verifying PROVE verifying'[q] = verifying[q]
  BY <1>1
<1>2. ASSUME NEW c \in Callers, c # q, NEW w, verifying' = [verifying EXCEPT ![c] = w]
      PROVE  verifying'[q] = verifying[q]
  BY <1>0, <1>2
<1>3. ASSUME NEW c \in Callers, c # q,
             \/ \E f, v : BeginVerify(c, f, v)
             \/ Decide(c)
             \/ WriteVerdict(c)
             \/ GiveUp(c)
      PROVE  verifying'[q] = verifying[q]
  <2>1. \E w : verifying' = [verifying EXCEPT ![c] = w]
    BY <1>3 DEF BeginVerify, Decide, WriteVerdict, GiveUp
  <2>. QED
    BY <1>2, <1>3, <2>1
<1>4. ASSUME NEW r \in Reviews, r # q, Verify(r) \/ Finalize(r) \/ Die(r)
      PROVE  verifying'[q] = verifying[q]
  BY <1>1, <1>3, <1>4, ReviewsCall DEF Verify, Finalize, Die, findingVars
<1>5. CASE OtherCaller
  BY <1>1, <1>3, <1>5 DEF OtherCaller, Transition
<1>6. ASSUME NEW r \in Reviews, ReviewStep(r), ~ Verify(r), ~ Finalize(r)
      PROVE  verifying' = verifying
  BY <1>6 DEF ReviewStep, Scan, PersistArtifact, IndexArtifact, StoreCandidate,
              StoredCandidates, InsertEvidence, TakeSignal, Create, CreateSignal, Attach,
              AttachEvidence, Suppose, Transition, OpenReport, WriteReport, findingVars
<1>7. CASE Edit \/ UNCHANGED reviewVars
  BY <1>7 DEF Edit, reviewVars, findingVars
<1>. QED
  BY <1>1, <1>4, <1>5, <1>6, <1>7 DEF ReviewNext, ReviewStep

LEMMA MyCall ==
    ASSUME FindingTypeOK, NEW c \in Callers, NEW w, verifying' = [verifying EXCEPT ![c] = w]
    PROVE  verifying'[c] = w
BY DEF FindingTypeOK

LEMMA CallStandsNot ==
    ASSUME NEW q, reviewing'[q].step # "verifying"
    PROVE  CallStands(q)'
BY DEF CallStands

LEMMA CallStep ==
    ASSUME TellInv, [ReviewNext]_reviewVars, NEW q \in Reviews
    PROVE  CallStands(q)'
<1>0. /\ ReviewTypeOK /\ reviewing[q] \in ReviewState /\ CallStands(q)
      /\ FindingTypeOK
      /\ q \in Callers
  BY ReviewsCall DEF TellInv, StoreInv, FindingInv, ReviewTypeOK
<1>1. CASE Verify(q)
  <2>1. /\ Goto(q, "verifying")
        /\ BeginVerify(q, FindingOf(q), ReviewVerification)
    BY <1>1 DEF Verify
  <2>2. PICK type, state :
           verifying' = [verifying EXCEPT ![q] =
                            ReadCall(FindingOf(q), type, state, ReviewVerification)]
    BY <2>1 DEF BeginVerify
  <2>3. verifying'[q] = ReadCall(FindingOf(q), type, state, ReviewVerification)
    BY <1>0, <2>2, MyCall
  <2>4. FindingOf(q)' = FindingOf(q)
    BY <1>0, <2>1, GotoStep DEF FindingOf
  <2>. QED
    BY <2>3, <2>4 DEF CallStands, ReadCall
<1>2. CASE Finalize(q)
  <2>1. CASE Decide(q) /\ UNCHANGED reviewing
    <3>1. /\ verifying[q] # None
          /\ \E w : /\ verifying' = [verifying EXCEPT ![q] = w]
                    /\ w = None \/ w.finding = verifying[q].finding
      <4>. DEFINE h == verifying[q]
                  policy == EvidencePolicies[h.type]
                  E == EvidenceFor(h.finding)
                  destination == Destination(policy, E, h.verdict)
                  w == IF destination = "confirmed" /\ ~Confirmable(h.state) THEN None
                       ELSE DecidedCall(h.finding, destination, Payload(policy, E, h.verdict))
      <4>1. verifying[q] # None /\ verifying' = [verifying EXCEPT ![q] = w]
        BY <2>1 DEF Decide
      <4>2. w = None \/ w.finding = verifying[q].finding
        BY DEF DecidedCall
      <4>. HIDE DEF w
      <4>. QED
        BY <4>1, <4>2
    <3>2. PICK w : /\ verifying' = [verifying EXCEPT ![q] = w]
                   /\ w = None \/ w.finding = verifying[q].finding
      BY <3>1
    <3>3. verifying'[q] = None \/ verifying'[q].finding = verifying[q].finding
      BY <1>0, <3>2, MyCall
    <3>4. FindingOf(q)' = FindingOf(q) /\ reviewing'[q].step = reviewing[q].step
      BY <2>1 DEF FindingOf
    <3>. QED
      BY <1>0, <3>1, <3>3, <3>4 DEF CallStands
  <2>2. CASE WriteVerdict(q)
    <3>1. PICK todo, told : reviewing' = [reviewing EXCEPT ![q] =
                                Review("next", <<>>, None, None, todo, told)]
      <4>1. /\ WriteVerdict(q) /\ verifying[q].step = "decided"
        BY <2>2 DEF WriteVerdict
      <4>. QED
        BY <1>2, <4>1 DEF Finalize, Decide
    <3>2. reviewing'[q] = Review("next", <<>>, None, None, todo, told)
      BY <1>0, <3>1, OnlyMine
    <3>. QED
      BY <3>2, CallStandsNot DEF Review
  <2>. QED
    BY <1>2, <2>1, <2>2 DEF Finalize
<1>3. CASE verifying'[q] = verifying[q] /\ reviewing'[q] = reviewing[q]
  BY <1>0, <1>3 DEF CallStands, FindingOf
<1>4. ASSUME NEW step, step # "verifying", Goto(q, step) \/ Leave(q, step)
      PROVE  CallStands(q)'
  <2>1. CASE Goto(q, step)
    BY <1>0, <1>4, <2>1, GotoStep, CallStandsNot
  <2>2. CASE Leave(q, step)
    <3>1. reviewing'[q] = Review(step, <<>>, None, None, {}, {})
      BY <1>0, <2>2, OnlyMine DEF Leave
    <3>. QED
      BY <1>4, <3>1, CallStandsNot DEF Review
  <2>. QED
    BY <1>4, <2>1, <2>2
<1>5. CASE Scan(q)
  <2>1. PICK todo : reviewing' = [reviewing EXCEPT ![q] =
                        Review("persist", RepositoryKinds, None, None, todo, {})]
    BY <1>5 DEF Scan
  <2>2. reviewing'[q] = Review("persist", RepositoryKinds, None, None, todo, {})
    BY <1>0, <2>1, OnlyMine
  <2>. QED
    BY <2>2, CallStandsNot DEF Review
<1>6. CASE InsertEvidence(q) \/ Create(q) \/ Attach(q)
  <2>1. reviewing'[q].step \in {"persist", "next", "create", "attach", "hypothesis"}
    BY <1>0, <1>6 DEF InsertEvidence, Create, Attach, ReviewTypeOK, ReviewState
  <2>. QED
    BY <2>1, CallStandsNot
<1>7. CASE TakeSignal(q)
  <2>1. CASE Leave(q, "raised")
    BY <1>4, <2>1
  <2>2. ASSUME NEW s, NEW todo, NEW told,
               reviewing' = [reviewing EXCEPT ![q] =
                   Review("persist", SignalKinds, s, file[s], todo, told)]
        PROVE  CallStands(q)'
    <3>1. reviewing'[q] = Review("persist", SignalKinds, s, file[s], todo, told)
      BY <1>0, <2>2, OnlyMine
    <3>. QED
      BY <3>1, CallStandsNot DEF Review
  <2>. QED
    BY <1>7, <2>1, <2>2 DEF TakeSignal, Unreadable
<1>8. CASE PersistArtifact(q) \/ IndexArtifact(q) \/ StoredCandidates(q) \/ Suppose(q)
             \/ OpenReport(q) \/ WriteReport(q) \/ Die(q)
  <2>1. \/ \E step \in {"index", "vault", "insert", "verify", "writing", "reported"} : Goto(q, step)
        \/ \E step \in {"raised", "dead"} : Leave(q, step)
    BY <1>8 DEF PersistArtifact, IndexArtifact, StoredCandidates, Suppose, OpenReport,
                WriteReport, Die
  <2>. QED
    BY <1>4, <2>1
<1>9. ASSUME ~ Verify(q), ~ Finalize(q), ~ Die(q), reviewing'[q] = reviewing[q]
      PROVE  CallStands(q)'
  BY <1>3, <1>9, CallKept
<1>. QED
  BY <1>0, <1>1, <1>2, <1>5, <1>6, <1>7, <1>8, <1>9, OwnStep DEF ReviewStep, StoreCandidate

--------------------------------------------------------------------------------
\* A verdict gives the finding of a review a verification and takes it out of its early
\* states.
LEMMA VerdictWritten ==
    ASSUME TellInv, NEW r \in Reviews, WriteVerdict(r), reviewing[r].step = "verifying"
    PROVE  /\ findings'[FindingOf(r)] # None
           /\ findings'[FindingOf(r)].verification # None
           /\ findings'[FindingOf(r)].state \notin {"signal", "hypothesis"}
<1>1. /\ FindingTypeOK /\ CallStands(r) /\ ReviewTypeOK /\ r \in Callers
  BY ReviewsCall DEF TellInv, StoreInv, FindingInv
<1>2. /\ verifying[r] \in HeldCall
      /\ verifying[r].step = "decided"
      /\ verifying[r].finding = FindingOf(r)
  BY <1>1 DEF WriteVerdict, CallStands, FindingTypeOK
<1>3. verifying[r].destination \in Verdicts /\ verifying[r].payload \in StoredVerification
  BY <1>2 DEF HeldCall
<1>4. FindingOf(r) \in Findings
  BY <1>1, FindingTyped
<1>5. findings'[FindingOf(r)] =
         Row(findings[FindingOf(r)].type, verifying[r].destination, verifying[r].payload)
  BY <1>1, <1>2, <1>4 DEF WriteVerdict, FindingTypeOK
<1>6. findings'[FindingOf(r)] # None
  <2>1. findings[FindingOf(r)] \in FindingRow
    BY <1>1, <1>2, <1>4 DEF TellInv, FindingInv, CallsStand, DecisionStands, FindingTypeOK, WriteVerdict
  <2>2. findings'[FindingOf(r)] \in FindingRow
    BY <1>3, <1>5, <2>1 DEF Row, FindingRow, Verdicts, States
  <2>. QED
    BY <2>2, NoneIsNoFindingRow
<1>. QED
  BY <1>3, <1>5, <1>6, NoneIsNoVerification DEF Row, Verdicts

LEMMA TellStep ==
    ASSUME TellInv, [ReviewNext]_reviewVars, LinksStand'
    PROVE  ReportsRestOnFindings'
<1>. SUFFICES ASSUME NEW r \in Reviews, NEW f \in reviewing'[r].told
              PROVE  /\ findings'[f] # None
                     /\ findings'[f].verification # None
                     /\ findings'[f].state \notin {"signal", "hypothesis"}
                     /\ FullyAttached(f)'
  BY DEF ReportsRestOnFindings
<1>0. ReviewTypeOK /\ reviewing[r] \in ReviewState
  BY DEF TellInv, StoreInv, ReviewTypeOK
<1>1. CASE f \in reviewing[r].told
  <2>1. f \in Findings
    BY <1>0, <1>1 DEF ReviewState
  <2>2. /\ findings[f] # None
        /\ findings[f].verification # None
        /\ findings[f].state \notin {"signal", "hypothesis"}
        /\ FullyAttached(f)
    BY <1>1 DEF TellInv, ReportsRestOnFindings
  <2>. QED
    BY <2>1, <2>2, ToldPersists
<1>2. CASE f \notin reviewing[r].told
  <2>1. Finalize(r) /\ f = FindingOf(r) /\ ~ Decide(r)
    <3>0. reviewing'[r] # reviewing[r]
      BY <1>2
    <3>1. ASSUME NEW w, reviewing' = [reviewing EXCEPT ![r] = w], w.told \subseteq reviewing[r].told
          PROVE  FALSE
      BY <1>0, <1>2, <3>1, OnlyMine
    <3>2. ASSUME NEW step, Goto(r, step) \/ Leave(r, step) PROVE FALSE
      <4>1. CASE Goto(r, step)
        BY <1>0, <1>2, <4>1, GotoStep
      <4>2. CASE Leave(r, step)
        <5>1. reviewing'[r] = Review(step, <<>>, None, None, {}, {})
          BY <1>0, <4>2, OnlyMine DEF Leave
        <5>. QED
          BY <5>1 DEF Review
      <4>. QED
        BY <3>2, <4>1, <4>2
    <3>3. ~ Scan(r)
      <4>1. ASSUME Scan(r) PROVE reviewing'[r].told = {}
        <5>1. PICK todo : reviewing' = [reviewing EXCEPT ![r] =
                              Review("persist", RepositoryKinds, None, None, todo, {})]
          BY <4>1 DEF Scan
        <5>2. reviewing'[r] = Review("persist", RepositoryKinds, None, None, todo, {})
          BY <1>0, <5>1, OnlyMine
        <5>. QED
          BY <5>2 DEF Review
      <4>. QED
        BY <4>1
    <3>4. ~ (InsertEvidence(r) \/ Create(r) \/ Attach(r))
      <4>1. ASSUME InsertEvidence(r) \/ Create(r) \/ Attach(r)
            PROVE  reviewing'[r].told = reviewing[r].told
        BY <1>0, <4>1 DEF InsertEvidence, Create, Attach, ReviewTypeOK, ReviewState
      <4>. QED
        BY <1>2, <4>1
    <3>5. ~ TakeSignal(r)
      <4>1. ASSUME TakeSignal(r), ~ Leave(r, "raised")
            PROVE  reviewing'[r].told = reviewing[r].told
        <5>1. PICK s, todo : reviewing' = [reviewing EXCEPT ![r] =
                  Review("persist", SignalKinds, s, file[s], todo, reviewing[r].told)]
          BY <4>1 DEF TakeSignal, Unreadable
        <5>2. reviewing'[r] =
                  Review("persist", SignalKinds, s, file[s], todo, reviewing[r].told)
          BY <1>0, <5>1, OnlyMine
        <5>. QED
          BY <5>2 DEF Review
      <4>. QED
        BY <1>2, <3>2, <4>1
    <3>6. ~ (PersistArtifact(r) \/ IndexArtifact(r) \/ StoredCandidates(r) \/ Suppose(r)
               \/ Verify(r) \/ OpenReport(r) \/ WriteReport(r) \/ Die(r))
      <4>1. ASSUME PersistArtifact(r) \/ IndexArtifact(r) \/ StoredCandidates(r) \/ Suppose(r)
                     \/ Verify(r) \/ OpenReport(r) \/ WriteReport(r) \/ Die(r)
            PROVE  \E step : Goto(r, step) \/ Leave(r, step)
        BY <4>1 DEF PersistArtifact, IndexArtifact, StoredCandidates, Suppose, Verify,
                    OpenReport, WriteReport, Die
      <4>. QED
        BY <3>2, <4>1
    <3>7. Finalize(r)
      BY <1>0, <3>0, <3>3, <3>4, <3>5, <3>6, OwnStep DEF ReviewStep, StoreCandidate
    <3>8. reviewing' = [reviewing EXCEPT ![r] =
              Review("next", <<>>, None, None, reviewing[r].todo,
                     reviewing[r].told \cup {FindingOf(r)})]
      BY <3>0, <3>7 DEF Finalize
    <3>9. reviewing'[r].told = reviewing[r].told \cup {FindingOf(r)}
      <4>1. reviewing'[r] = Review("next", <<>>, None, None, reviewing[r].todo,
                                   reviewing[r].told \cup {FindingOf(r)})
        BY <1>0, <3>8, OnlyMine
      <4>. QED
        BY <4>1 DEF Review
    <3>10. ~ Decide(r)
      <4>1. WriteVerdict(r)
        BY <3>0, <3>7 DEF Finalize
      <4>. QED
        BY <4>1 DEF WriteVerdict, Decide
    <3>. QED
      BY <1>2, <3>7, <3>9, <3>10
  <2>2. WriteVerdict(r) /\ reviewing[r].step = "verifying"
    BY <2>1 DEF Finalize, In
  <2>3. f \in Findings
    BY <1>0, <2>1, <2>2, FindingTyped
  <2>4. FullyAttached(f)
    <3>1. /\ \A k \in SignalRange : <<FindingOf(r), RowFor(r, k)>> \in attached
          /\ reviewing[r].signal # None
      BY <1>0, <2>2, FindingTyped DEF TellInv, FindingStands
    <3>2. attached \subseteq Findings \X Records
      BY DEF TellInv, FindingInv, FindingTypeOK
    <3>3. ASSUME NEW i \in DOMAIN SignalKinds
          PROVE  \E e \in EvidenceFor(f) : e.type = SignalKinds[i] /\ e.task = f[1]
      <4>1. SignalKinds[i] \in SignalRange
        BY DEF SignalRange
      <4>2. RowFor(r, SignalKinds[i]) \in EvidenceFor(f)
        BY <2>1, <3>1, <3>2, <4>1 DEF EvidenceFor
      <4>3. RowFor(r, SignalKinds[i]).type = SignalKinds[i] /\ RowFor(r, SignalKinds[i]).task = r
        BY DEF RowFor, EvidenceRow
      <4>4. f[1] = r
        BY <2>1 DEF FindingOf
      <4>. QED
        BY <4>2, <4>3, <4>4
    <3>. QED
      BY <2>3, <3>3 DEF FullyAttached, TellInv, LinksStand
  <2>5. FullyAttached(f)'
    <3>1. EvidenceFor(f) \subseteq EvidenceFor(f)'
      BY <2>3, FindingStep, EvidenceGrows DEF TellInv, StoreInv, FindingInv
    <3>. QED
      BY <2>3, <2>4, <3>1 DEF FullyAttached, LinksStand
  <2>. QED
    BY <2>1, <2>2, <2>5, VerdictWritten
<1>. QED
  BY <1>1, <1>2

LEMMA TellInvariant == ReviewSpec => []TellInv
<1>1. ReviewInit => (StoreInv /\ FindingInv => TellInv)
  <2>. SUFFICES ASSUME ReviewInit, StoreInv, FindingInv PROVE TellInv
    OBVIOUS
  <2>1. ASSUME NEW r \in Reviews
        PROVE  /\ reviewing[r].step = "scan"
               /\ reviewing[r].signal = None
               /\ reviewing[r].told = {}
    BY <2>1 DEF ReviewInit, Review
  <2>2. \A r \in Reviews : RowsStand(r) /\ FindingStands(r) /\ CallStands(r)
    BY <2>1 DEF RowsStand, FindingStands, CallStands
  <2>3. LinksStand
    BY DEF ReviewInit, FindingInit, LinksStand, EvidenceFor
  <2>4. ReportsRestOnFindings
    BY <2>1 DEF ReportsRestOnFindings
  <2>. QED
    BY <2>2, <2>3, <2>4 DEF TellInv
<1>2. TellInv /\ [ReviewNext]_reviewVars => (StoreInv' /\ FindingInv' => TellInv')
  <2>. SUFFICES ASSUME TellInv, [ReviewNext]_reviewVars, StoreInv', FindingInv' PROVE TellInv'
    OBVIOUS
  <2>1. \A r \in Reviews : RowsStand(r)' /\ FindingStands(r)' /\ CallStands(r)'
    BY StandStep, CallStep
  <2>2. LinksStand'
    BY LinksStep
  <2>3. ReportsRestOnFindings'
    BY <2>2, TellStep
  <2>. QED
    BY <2>1, <2>2, <2>3 DEF TellInv
<1>3. ReviewSpec => []FindingInv
  BY ReviewImplementsFindings, FindingInvariant, PTL
<1>. QED
  BY <1>1, <1>2, <1>3, StoreInvariant, PTL DEF ReviewSpec

\* What a report tells rests on the tables: however other callers move and verify the
\* findings of a review and whatever becomes of the files it reads, each finding it tells
\* of was verified and has all four records of its own task attached.
THEOREM ReportsAlwaysRestOnFindings == ReviewSpec => []ReportsRestOnFindings
<1>1. TellInv => ReportsRestOnFindings
  BY DEF TellInv
<1>. QED
  BY <1>1, TellInvariant, PTL

\* The guarantees of the lifecycle hold in the middle of reviews: a verdict rests on the
\* evidence although a review attaches more meanwhile.
THEOREM ReviewedVerdictsRestOnEvidence == ReviewSpec => []VerdictsRestOnEvidence
BY ReviewImplementsFindings, VerdictsAlwaysRestOnEvidence, PTL

\* The vault cross-check looks at rows only, and is right about the vault all the same.
THEOREM CheckedSecretsAlwaysKept == ReviewSpec => []CheckedSecretsKept
<1>1. TellInv => CheckedSecretsKept
  <2>. SUFFICES ASSUME TellInv, NEW f \in Findings, findings[f] # None,
                       findings[f].type = "secret_exposure", findings[f].verification # None,
                       findings[f].verification.oracle
                PROVE  \E e \in EvidenceFor(f) :
                          e.refs # {} /\ \A v \in e.refs : shown[v] = "complete"
    BY DEF CheckedSecretsKept
  <2>1. EvidencePolicies["secret_exposure"].oracle = "vault_cross_checker"
    BY DEF EvidencePolicies, Policy
  <2>2. OracleResult("vault_cross_checker", EvidenceFor(f))
    BY <2>1 DEF TellInv, FindingInv, VerdictsRestOnEvidence
  <2>3. PICK e \in EvidenceFor(f) : e.refs # {}
    BY <2>2 DEF OracleResult
  <2>4. e \in evidence
    BY DEF TellInv, LinksStand
  <2>. QED
    BY <2>3, <2>4 DEF TellInv, StoreInv, EvidenceBacked
<1>. QED
  BY <1>1, TellInvariant, PTL
================================================================================
