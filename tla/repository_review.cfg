\* A review of a repository that is edited meanwhile, and another caller of the lifecycle.
SPECIFICATION FairReviewSpec
\* Every review runs once.
CHECK_DEADLOCK FALSE
CONSTANTS
    None = None
    clean = clean
    leaky = leaky
    v1 = v1
    v2 = v2
    Callers = {r1, c1}
    Reviews = {r1}
    Files = {s1, s2}
    Contents = {clean, leaky}
    SecretsIn <- MCSecretsIn
    VaultItems = {v1, v2}
    FindingTypes = {"secret_exposure"}
    Findings <- MCFindings
    Records <- MCRecords
    Verifications <- MCVerifications
    Dependencies = TRUE
    MaxDisturbances = 2
INVARIANTS
    EvidenceBacked
    ReportsRestOnFindings
PROPERTIES
    ReviewsEnd
