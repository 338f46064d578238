\* Two agents authorize and execute while the kill switch is armed and cleared.
SPECIFICATION FairProcessSpec
\* The bounds on clock, events and armings end every behaviour.
CHECK_DEADLOCK FALSE
CONSTANTS
    e1 = e1
    a1 = a1
    t1 = t1
    read = read
    g1 = g1
    g2 = g2
    p1 = p1
    None = None
    Registrars = {p1}
    EngagementIds = {e1}
    Aliases = {a1}
    Manifests <- MCManifests
    Agents = {g1, g2}
    Roots = {t1}
    Requests <- MCRequests
    ToolManifest <- MCToolManifest
    Zone = "offset"
    GrantTTL = 1
    ApprovalTTL = 1
    Hour = 1
    R4LimitPerHour = 1
    MaxTime = 1
    MaxEvents = 1
    Commands <- MCCommands
    MaxArmings = 2
INVARIANTS
    KillSwitchHonoured
    ProcessesAccounted
PROPERTIES
    ExecutionsEnd
