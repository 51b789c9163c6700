SPECIFICATION Safety
CONSTANTS
    Requests = {r1, r2, r3}
    Names = {n1, n2}
    Hashes = {h1, h2}
    Kinds = {"dynamic", "delete", "rows"}
    Overwrites = {FALSE, TRUE}
    AllowDestructive = TRUE
    MaxLoaded = 2
    None = None
SYMMETRY Symmetry
INVARIANTS NoOrphanTables RowsCounted PlainUploadsKeepTables
PROPERTIES DuplicateIsReal CommitLeavesTable 
