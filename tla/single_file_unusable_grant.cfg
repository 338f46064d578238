\* What authorize signs under a UTC clock does not verify.
SPECIFICATION ControlSpec
\* The bounds on clock, revisions and events end every behaviour.
CHECK_DEADLOCK FALSE
CONSTANTS
    e1 = e1
    a1 = a1
    t1 = t1
    read = read
    active = active
    g1 = g1
    g2 = g2
    p1 = p1
    p2 = p2
    None = None
    Registrars = {p1, p2}
    EngagementIds = {e1}
    Aliases = {a1}
    Manifests <- MCManifests
    Agents = {g1, g2}
    Roots <- MCRoots
    Requests <- MCRequests
    ToolManifest <- MCToolManifest
    Zone = "utc"
    GrantTTL = 2
    ApprovalTTL = 1
    Hour = 1
    R4LimitPerHour = 1
    MaxTime = 2
    MaxEvents = 4
SYMMETRY Symmetry
INVARIANTS
    GrantsVerify
