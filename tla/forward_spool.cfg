CONSTANTS
    server = server
    export = export
    w1 = w1
    Processes <- Both
    Writers <- OneThread
    Home <- OneAtServer
    Supervised <- Alone
    MaxBackoff = 2
    MaxRecords = 2
    MaxExits = 1
    MaxLost = 1
SPECIFICATION FairSpec
INVARIANT SleepsOnlyWithoutWork
INVARIANT NothingLost
INVARIANT FewCopies
PROPERTY DeliveredUnlessSenderDied
CHECK_DEADLOCK FALSE
