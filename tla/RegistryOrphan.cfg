SPECIFICATION Safety
CONSTANTS
    Requests = {r1, r2, r3}
    Names = {n1, n2}
    Hashes = {h1, h2}
    Kinds = {"dynamic", "te"}
    Overwrites = {FALSE}
    AllowDestructive = FALSE
    MaxLoaded = 2
    None = None
SYMMETRY Symmetry
INVARIANT NoOrphanTables
