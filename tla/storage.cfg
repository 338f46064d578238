\* Three calls of the stores of both generations share names, raise and die.
SPECIFICATION FairStorageSpec
\* Every call runs once.
CHECK_DEADLOCK FALSE
CONSTANTS
    None = None
    Calls = {c1, c2, c3}
    Digests = {d1, d2}
    Secrets = {s1, s2}
    Packaged = {d1, s1}
INVARIANTS
    TruncationExplained
    VaultRowsReadable
PROPERTIES
    CallsEnd
    ImplementsContentStore
