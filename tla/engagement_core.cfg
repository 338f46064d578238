\* Safety of registration, progression and token issue, two concurrent callers.
SPECIFICATION Spec
\* The bounds on clock and revisions end every behaviour.
CHECK_DEADLOCK FALSE
CONSTANTS
    p1 = p1
    p2 = p2
    e1 = e1
    e2 = e2
    a1 = a1
    a2 = a2
    file_read = file_read
    file_search = file_search
    Procs = {p1, p2}
    Engagements = {e1, e2}
    Aliases = {a1, a2}
    Contents <- MCContents
    Manifests <- MCManifests
    MaxRevision = 3
    MaxTime = 1
    None = None
SYMMETRY Symmetry
INVARIANTS
    OneActiveManifest
    VersionChain
    TokensBindExistingRevisions
    UnverifiedRevisionsFrozen
PROPERTIES
    ImplementsVersionedAssets
    ProgressionAuthorized
