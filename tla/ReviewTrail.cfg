SPECIFICATION Spec
CONSTANTS
    Writers = {w1, w2, w3}
    Rows = {r1}
    Cells = {c1}
    Values = {v0, v1}
    Uploaded = v0
    Changes <- MCChanges
    MaxRows = 0
    None = None
INVARIANTS ReviewInv VersionsAudited OldValueExisted
PROPERTIES ImplementsAuditLog EveryChangeEnds
