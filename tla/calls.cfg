\* Two worker threads, a sync job that replaces users.json, one load and one
\* audit write that raise.
SPECIFICATION Spec
CONSTANTS
    t1 = t1  t2 = t2  ann = ann  None = None
    Threads <- TwoThreads
    Callers <- OneCaller
    Ttl = 1
    MaxTime = 2
    MaxEdits = 3
    MaxFaults = 1
    MaxCalls = 2
    MaxWriteFaults = 1
SYMMETRY ThreadSymmetry
INVARIANTS NoEditSkipped FreshUnlessLoading CitesNoNewerSnapshot AnswersAreRecorded DraftsAreRecorded
CHECK_DEADLOCK FALSE
