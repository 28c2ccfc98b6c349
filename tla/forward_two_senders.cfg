CONSTANTS
    server = server
    export = export
    w1 = w1
    Processes <- Both
    Writers <- OneThread
    Home <- OneAtServer
    Supervised <- Alone
    MaxBackoff = 2
    MaxRecords = 2
    MaxExits = 1
    MaxLost = 0
SPECIFICATION FairSpec
PROPERTY EveryRecordDelivered
CHECK_DEADLOCK FALSE
