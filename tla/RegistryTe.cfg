SPECIFICATION Spec
CONSTANTS
    Requests = {r1, r2}
    Names = {n1, n2}
    Hashes = {h1, h2}
    Kinds = {"dynamic", "te", "delete"}
    Overwrites = {FALSE, TRUE}
    AllowDestructive = TRUE
    MaxLoaded = 2
    None = None
INVARIANT RegistryInv
PROPERTIES ImplementsFileStore EveryRequestAnswered
