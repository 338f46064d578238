\* Starts of both generations on one state directory each, in every interleaving.
SPECIFICATION KeySpec
\* Every start ends: it runs, raises or dies.
CHECK_DEADLOCK FALSE
CONSTANTS
    None = None
    Starts = {s1, s2, c1, c2, c3}
    Packaged = {c1, c2, c3}
    Creators = {s1, s2, c1, c2}
INVARIANT
    SingleFileKeysAgree
PROPERTY
    SettledKeysStay
