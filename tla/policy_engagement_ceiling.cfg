\* Splitting work into tasks stays under a ceiling of the engagement: there is none.
SPECIFICATION PolicySpec
\* The bounds on clock and revisions end every behaviour.
CHECK_DEADLOCK FALSE
CONSTANTS
    g1 = g1
    g2 = g2
    p1 = p1
    e1 = e1
    a1 = a1
    t1 = t1
    t2 = t2
    x1 = x1
    x2 = x2
    x3 = x3
    probe = probe
    reader = reader
    read_only = read_only
    active = active
    None = None
    Procs = {p1}
    Agents = {g1}
    Engagements = {e1}
    Aliases = {a1}
    Contents <- MCContents
    Manifests <- RaceManifests
    MaxRevision = 1
    MaxTime = 0
    Actions = {x1, x2, x3}
    Tasks = {t1, t2}
    TaskSpec <- MCTaskSpec
    Tools = {probe, reader}
    ToolManifest <- MCToolManifest
    Requests <- RaceRequests
    BudgetNames = {"default", "extended"}
    R4Limit <- MCR4Limit
    GrantTTL = 1
    ApprovalTTL = 1
INVARIANTS
    EngagementCeiling
