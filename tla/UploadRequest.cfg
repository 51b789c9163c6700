SPECIFICATION Spec
CONSTANTS
    n1 = n1 n2 = n2 c1 = c1 c2 = c2
    Requests = {r1, r2}
    Names = {n1, n2}
    Contents = {c1, c2}
    Uploads <- MCUploads
    MaxFaults = 2
SYMMETRY MCSymmetry
INVARIANTS Accounted 
CHECK_DEADLOCK FALSE
