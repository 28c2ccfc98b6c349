SPECIFICATION Spec
CONSTANTS
    ann = ann  bea = bea  cy = cy
    nameA = nameA  nameB = nameB  nameC = nameC  nameD = nameD
    d1 = d1  t1 = t1  t2 = t2  None = None
    Persons <- Staff
    Approvers <- ApproverGroup
    Names <- StaffNames
    FirstName <- FirstNames
    Drafts <- OneDraft
    Indexes <- OneDraft
    Processes <- TwoTerminals
    MaxAttempts = 1
    MaxRenames = 0
    MaxDeaths = 1
INVARIANT EveryDecisionRecorded
