SPECIFICATION Spec
CONSTANTS
    ann = ann  bea = bea  cy = cy
    nameA = nameA  nameB = nameB  nameC = nameC  nameD = nameD
    d1 = d1  t1 = t1  t2 = t2  None = None
    Persons <- Staff
    Approvers <- ApproverGroup
    Names <- AllNames
    FirstName <- FirstNames
    Drafts <- OneDraft
    Indexes <- OneDraft
    Processes <- TwoTerminals
    MaxAttempts = 3
    MaxRenames = 1
    MaxDeaths = 1
SYMMETRY TerminalSymmetry
INVARIANTS RecordsAreTrue ExportedStaysApproved FourEyesUnlessRenamed RecordedUnlessDied
PROPERTY ImplementsLifecycle
