---------------------------- MODULE FindingLifecycle ----------------------------
(***************************************************************************)
(* The life of a finding (src/src/cyberkimi/findings.py) and the typed     *)
(* evidence policies that decide about it (src/src/cyberkimi/evidence.py). *)
(*                                                                         *)
(* transition reads and writes the state in one transaction.               *)
(* verify_and_finalize does not: it reads the finding, then reads the      *)
(* evidence, each in a connection of its own, decides, and then writes the *)
(* verdict in a transaction that looks at nothing.  Other callers run in   *)
(* between.                                                                *)
(***************************************************************************)
EXTENDS Naturals, FiniteSets

CONSTANTS
    Callers,        \* processes inside verify_and_finalize
    Findings,       \* finding ids
    FindingTypes,   \* any string may be a finding type
    Records,        \* rows of the evidence table: id, type, class, matched, refs
    Verifications,  \* blind verifications: verdict, claim and impact supported
    None

Verdicts == {"confirmed", "rejected", "unresolved"}

Verification == [verdict : Verdicts, claim : BOOLEAN, impact : BOOLEAN]

\* "matched" is payload["matched"] is True, "refs" payload["vault_refs"].
ASSUME RecordsAreRows ==
    \A e \in Records : e.type \in STRING /\ e.class \in STRING /\ e.matched \in BOOLEAN
ASSUME VerificationsTyped == Verifications \subseteq Verification

States ==
    {"signal", "hypothesis", "supported", "reproduced", "confirmed", "rejected",
     "disputed", "unresolved"}

\* Broken variant: a rejected finding may be taken up again.
AllowedTransitionsReopening ==
    [signal     |-> {"hypothesis", "rejected"},
     hypothesis |-> {"supported", "rejected", "unresolved"},
     supported  |-> {"reproduced", "confirmed", "disputed", "rejected"},
     reproduced |-> {"confirmed", "disputed", "rejected"},
     disputed   |-> {"confirmed", "rejected", "unresolved"},
     unresolved |-> {"supported", "rejected"},
     confirmed  |-> {},
     rejected   |-> {"hypothesis"}]

AllowedTransitions ==
    [signal     |-> {"hypothesis", "rejected"},
     hypothesis |-> {"supported", "rejected", "unresolved"},
     supported  |-> {"reproduced", "confirmed", "disputed", "rejected"},
     reproduced |-> {"confirmed", "disputed", "rejected"},
     disputed   |-> {"confirmed", "rejected", "unresolved"},
     unresolved |-> {"supported", "rejected"},
     confirmed  |-> {},
     rejected   |-> {}]

Policy(required, oracle) == [required |-> required, classes |-> 2, oracle |-> oracle]

EvidencePolicies ==
    [authorization_inconsistency |->
        Policy({"source_location", "route_to_handler", "missing_enforcement",
                "counterevidence_search"}, "route_trace_verifier"),
     dependency_advisory |->
        Policy({"dependency_record", "advisory_record", "version_match",
                "counterevidence_search"}, "version_range_checker"),
     secret_exposure |->
        Policy({"source_location", "secret_pattern_match", "vault_confirmation",
                "counterevidence_search"}, "vault_cross_checker")]

VARIABLES
    findings,    \* table findings
    attached,    \* table finding_evidence: pairs of a finding and an evidence row
    verifying    \* the verify_and_finalize call each caller is inside of

findingVars == <<findings, attached, verifying>>

--------------------------------------------------------------------------------
EvidenceFor(f) == {e \in Records : <<f, e>> \in attached}

Types(E) == {e.type : e \in E}

\* ORACLES
OracleResult(oracle, E) ==
    CASE oracle = "route_trace_verifier" ->
            {"route_to_handler", "missing_enforcement"} \subseteq Types(E)
      [] oracle = "version_range_checker" ->
            \E e \in E : e.type = "version_match" /\ e.matched
      [] oracle = "vault_cross_checker" ->
            (\E e \in E : e.refs # {}) /\ "vault_confirmation" \in Types(E)

Missing(policy, E) == policy.required \ Types(E)

Supports(v) == v.verdict = "confirmed" /\ v.claim /\ v.impact

\* EvidencePolicy.evaluate
Accepted(policy, E, v) ==
    /\ Missing(policy, E) = {}
    /\ Cardinality({e.class : e \in E}) >= policy.classes
    /\ OracleResult(policy.oracle, E)
    /\ Supports(v)

\* Where verify_and_finalize wants to take a finding.
Destination(policy, E, v) ==
    IF Accepted(policy, E, v) THEN "confirmed"
    ELSE IF v.verdict = "rejected" THEN "rejected"
    ELSE "unresolved"

\* Broken variant: a hypothesis will do.
ConfirmableEarly(state) == state \in {"hypothesis", "supported", "reproduced", "disputed"}

\* The states verify_and_finalize confirms from.
Confirmable(state) == state \in {"supported", "reproduced", "disputed"}

\* Broken variant: the blind verification's word for the oracle's.
PayloadTrusting(policy, E, v) ==
    [verdict |-> v.verdict, claim |-> v.claim, impact |-> v.impact,
     oracle |-> v.claim, missing |-> Missing(policy, E)]

\* verification_json
Payload(policy, E, v) ==
    [verdict |-> v.verdict, claim |-> v.claim, impact |-> v.impact,
     oracle |-> OracleResult(policy.oracle, E), missing |-> Missing(policy, E)]

Row(type, state, verification) ==
    [type |-> type, state |-> state, verification |-> verification]

\* What a caller holds after its first read, and after it has decided.
ReadCall(f, type, state, v) ==
    [step |-> "read", finding |-> f, type |-> type, state |-> state, verdict |-> v]

DecidedCall(f, destination, payload) ==
    [step |-> "decided", finding |-> f, destination |-> destination, payload |-> payload]

--------------------------------------------------------------------------------
FindingInit ==
    /\ findings = [f \in Findings |-> None]
    /\ attached = {}
    /\ verifying = [c \in Callers |-> None]

CreateSignal(f, type) ==
    /\ findings[f] = None
    /\ findings' = [findings EXCEPT ![f] = Row(type, "signal", None)]
    /\ UNCHANGED <<attached, verifying>>

\* INSERT OR IGNORE; the foreign key wants both rows.  Nothing ties the evidence to
\* the task or the asset of the finding.
AttachEvidence(f, e) ==
    /\ findings[f] # None
    /\ attached' = attached \cup {<<f, e>>}
    /\ UNCHANGED <<findings, verifying>>

\* Read, check and update in one transaction; verification_json stays.
Transition(f, destination) ==
    /\ findings[f] # None
    /\ destination \in AllowedTransitions[findings[f].state]
    /\ findings' = [findings EXCEPT ![f] =
                       Row(findings[f].type, destination, findings[f].verification)]
    /\ UNCHANGED <<attached, verifying>>

\* verify_and_finalize: the finding is read; without a policy for its type the call
\* raises.
BeginVerify(c, f, v) ==
    /\ verifying[c] = None
    /\ findings[f] # None
    /\ findings[f].type \in DOMAIN EvidencePolicies
    /\ verifying' = [verifying EXCEPT ![c] =
                        ReadCall(f, findings[f].type, findings[f].state, v)]
    /\ UNCHANGED <<findings, attached>>

\* verify_and_finalize: the evidence is read and the verdict decided, from the state
\* read before.
Decide(c) ==
    /\ verifying[c] # None
    /\ verifying[c].step = "read"
    /\ LET h           == verifying[c]
           policy      == EvidencePolicies[h.type]
           E           == EvidenceFor(h.finding)
           destination == Destination(policy, E, h.verdict)
       IN verifying' = [verifying EXCEPT ![c] =
              IF destination = "confirmed" /\ ~Confirmable(h.state) THEN None
              ELSE DecidedCall(h.finding, destination, Payload(policy, E, h.verdict))]
    /\ UNCHANGED <<findings, attached>>

\* verify_and_finalize: the verdict is written whatever the state is by now.
WriteVerdict(c) ==
    /\ verifying[c] # None
    /\ verifying[c].step = "decided"
    /\ LET h == verifying[c]
       IN findings' = [findings EXCEPT ![h.finding] =
                          Row(findings[h.finding].type, h.destination, h.payload)]
    /\ verifying' = [verifying EXCEPT ![c] = None]
    /\ UNCHANGED attached

\* The caller dies, or a read or the transaction fails.
GiveUp(c) ==
    /\ verifying[c] # None
    /\ verifying' = [verifying EXCEPT ![c] = None]
    /\ UNCHANGED <<findings, attached>>

FindingNext ==
    \/ \E f \in Findings :
          \/ \E type \in FindingTypes : CreateSignal(f, type)
          \/ \E e \in Records : AttachEvidence(f, e)
          \/ \E s \in States : Transition(f, s)
          \/ \E c \in Callers, v \in Verifications : BeginVerify(c, f, v)
    \/ \E c \in Callers : Decide(c) \/ WriteVerdict(c) \/ GiveUp(c)

FindingSpec == FindingInit /\ [][FindingNext]_findingVars

--------------------------------------------------------------------------------
StoredVerification ==
    [verdict : Verdicts, claim : BOOLEAN, impact : BOOLEAN, oracle : BOOLEAN,
     missing : SUBSET UNION {EvidencePolicies[t].required : t \in DOMAIN EvidencePolicies}]

FindingRow ==
    [type : FindingTypes, state : States, verification : StoredVerification \cup {None}]

ASSUME NoneIsNoFindingRow == None \notin FindingRow

HeldCall ==
    [step : {"read"}, finding : Findings, type : DOMAIN EvidencePolicies, state : States,
     verdict : Verification]
        \cup
    [step : {"decided"}, finding : Findings, destination : Verdicts,
     payload : StoredVerification]

\* Findings, links and calls in progress are of their kinds.
FindingTypeOK ==
    /\ findings \in [Findings -> FindingRow \cup {None}]
    /\ attached \subseteq Findings \X Records
    /\ verifying \in [Callers -> HeldCall \cup {None}]

\* A verdict rests on evidence although it is written long after the evidence was
\* read: whatever was attached, transitioned or decided meanwhile, a stored
\* verification that calls nothing missing and the oracle satisfied is still right
\* about the evidence attached now, for the policy of the finding's own type.
VerdictsRestOnEvidence ==
    \A f \in Findings :
        (findings[f] # None /\ findings[f].verification # None) =>
            LET row    == findings[f]
                policy == EvidencePolicies[row.type]
            IN /\ row.type \in DOMAIN EvidencePolicies
               /\ Missing(policy, EvidenceFor(f)) \subseteq row.verification.missing
               /\ row.verification.oracle => OracleResult(policy.oracle, EvidenceFor(f))

\* "a scanner signal cannot transition directly to confirmed" (findings.py:141): no
\* finding is confirmed out of signal or hypothesis, although the state that
\* verify_and_finalize looked at may be long gone when it writes.
SignalNeverConfirmed ==
    [][\A f \in Findings :
          /\ findings[f] # None
          /\ findings[f].state \in {"signal", "hypothesis"}
          => findings'[f].state # "confirmed"]_findingVars

\* A rejecting verification is not argued away by the calls around it: while it is
\* the one on record, the finding is rejected.  Only another verdict replaces both.
RejectionStands ==
    \A f \in Findings :
        (findings[f] # None /\ findings[f].verification # None) =>
            (findings[f].verification.verdict = "rejected" => findings[f].state = "rejected")

================================================================================
