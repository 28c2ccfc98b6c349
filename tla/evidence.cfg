\* One index, one mapping, two fetchers, one policy beside one GRC file.
SPECIFICATION Spec
CONSTANTS
    d1 = d1  r1 = r1  f1 = f1  f2 = f2  None = None
    Releases <- OneRelease
    Fetchers <- TwoFetchers
    Drafts <- OneDraft
    Keep = 0
    LockWait = 1
    Second <- HalfSeconds
    MaxFetches = 2
    MaxTime = 2
    MaxFiles = 2
    MaxPurges = 1
    NPolicies = 1
    NFiles = 2
    MaxEdits = 2
    MaxStops = 1
    MaxExports = 1
    MaxEvents = 4
SYMMETRY FetcherSymmetry
INVARIANTS PackMatchesManifest PackNotOlderThanIndex QuotedReleasesStay RecordsOutliveRows PurgedAreOldest
CHECK_DEADLOCK FALSE
