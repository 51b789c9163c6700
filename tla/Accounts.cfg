SPECIFICATION Spec
CONSTANTS
    Requests = {r1, r2}
    Kinds = {"login", "change", "reset", "operator", "oidc", "logout"}
    Passwords = {p, q}
    Earlier = Earlier
    None = None
    Never = Never
    MaxTime = 2
    MaxFailures = 2
    Window = 2
INVARIANTS AccountsInv
PROPERTIES ImplementsLockout OthersEnd LockLifted RequestEnds
