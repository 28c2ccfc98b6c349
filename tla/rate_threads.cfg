SPECIFICATION Spec
CONSTANTS
    c1 = c1  c2 = c2  k1 = k1  k2 = k2
    Callers <- TwoCallers
    Keys <- OneKey
    Minute = 4
    PerMinute = 2
    Burst = 0
    MaxTime = 7
    MaxCalls = 7
SYMMETRY CallerSymmetry
INVARIANTS WithinBudget SoonServedAgain
PROPERTY RefusedOverBudget
