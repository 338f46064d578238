\* One agent authorizes and consumes while the engagement is re-registered, its
\* asset progresses and the clock runs.
SPECIFICATION PolicySpec
\* The bounds on clock and revisions end every behaviour.
CHECK_DEADLOCK FALSE
CONSTANTS
    g1 = g1
    g2 = g2
    p1 = p1
    e1 = e1
    a1 = a1
    t1 = t1
    t2 = t2
    x1 = x1
    x2 = x2
    x3 = x3
    probe = probe
    reader = reader
    read_only = read_only
    active = active
    None = None
    Procs = {p1}
    Agents = {g1}
    Engagements = {e1}
    Aliases = {a1}
    Contents <- MCContents
    Manifests <- DriftManifests
    MaxRevision = 2
    MaxTime = 1
    Actions = {x1, x2, x3}
    Tasks = {t1, t2}
    TaskSpec <- MCTaskSpec
    Tools = {probe, reader}
    ToolManifest <- MCToolManifest
    Requests <- DriftRequests
    BudgetNames = {"default", "extended"}
    R4Limit <- MCR4Limit
    GrantTTL = 1
    ApprovalTTL = 1
INVARIANTS
    GrantWithinScope
    ApprovalCovers
    FallbackAudited
PROPERTIES
    ImplementsGrantLedger
