\* Two verifications of one finding race with attachments and transitions.
SPECIFICATION FindingSpec
\* Confirmed and rejected findings that nobody verifies again stay as they are.
CHECK_DEADLOCK FALSE
CONSTANTS
    None = None
    Callers = {c1, c2}
    Findings = {f1}
    FindingTypes = {"secret_exposure", "unlisted"}
    Records <- SecretRecords
    Verifications <- MCVerifications
SYMMETRY Symmetry
INVARIANTS
    VerdictsRestOnEvidence
    RejectionStands
PROPERTIES
    SignalNeverConfirmed
