SPECIFICATION LimiterSpec
CONSTANTS
    r1 = r1 r2 = r2 w = w
    Keys <- MCKeys
    Budget <- MCBudget
    Window = 3
    Second = 2
    MaxTracked = 2
    Never = Never
    MaxTime = 6
    MaxGrants = 3
INVARIANTS WithinBudget 
SYMMETRY Symmetry
