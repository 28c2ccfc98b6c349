\* Server and CLI append and rotate at once, and one of them may die.
CONSTANTS
    t1 = t1  t3 = t3  server = server  cli = cli  None = None
    Threads = {t1, t3}
    Procs = {server, cli}
    ProcOf <- OneThreadEach
    Forwarding = {server}
    RotateAt = 4
    AnchorEvery = 2
    MaxWrites = 5
    MaxCrashes = 1
SPECIFICATION FairCrashSpec
INVARIANTS VerifiesBelowRotation AnchorCadence
PROPERTIES WriteReturns
