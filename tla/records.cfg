\* Three versions of a policy, a dated and an undated release, two test results.
CONSTANTS
    dated = dated  undated = undated
    NVersions = 3
    MaxDay = 3
    Items <- TwoItems
    Undated = {undated}
    Weekend = {3}
    Months <- SomeMonths
    MaxTests = 2
    MaxChanges = 3
SPECIFICATION Spec
INVARIANTS TypeOK CurrentIsInForce PastAnswersStand ManifestCoversPeriod GapFloorIsSound FiledAtMostTwice
CHECK_DEADLOCK FALSE
