\* One agent authorizes and two operators execute while the engagement is
\* re-registered and the clock runs.
SPECIFICATION FairToolSpec
\* The bounds on clock and revisions end every behaviour.
CHECK_DEADLOCK FALSE
CONSTANTS
    g1 = g1
    o1 = o1
    o2 = o2
    p1 = p1
    e1 = e1
    a1 = a1
    t1 = t1
    x1 = x1
    x2 = x2
    probe = probe
    reader = reader
    read_only = read_only
    active = active
    None = None
    Procs = {p1}
    Agents = {g1}
    Engagements = {e1}
    Aliases = {a1}
    Contents <- MCContents
    Manifests <- MCManifests
    MaxRevision = 1
    MaxTime = 1
    Actions = {x1, x2}
    Tasks = {t1}
    TaskSpec <- MCTaskSpec
    Tools = {probe, reader}
    ToolManifest <- MCToolManifest
    Requests <- MCRequests
    BudgetNames = {"default"}
    R4Limit <- MCR4Limit
    GrantTTL = 1
    ApprovalTTL = 1
    Operators = {o1, o2}
    Handled = {probe}
    Outputs <- MCOutputs
INVARIANTS
    SpentGrantsAccounted
    RunsRestOnEvidence
    RunsWithinGrants
PROPERTIES
    AuthorizeReturns
    ConsumptionsAnswered
