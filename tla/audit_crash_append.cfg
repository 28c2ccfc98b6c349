\* The server dies inside an append.
CONSTANTS
    t1 = t1  t3 = t3  server = server  cli = cli  None = None
    Threads = {t1}
    Procs = {server}
    ProcOf <- OneThread
    Forwarding = {server}
    RotateAt = 2
    AnchorEvery = 2
    MaxWrites = 3
    MaxCrashes = 1
SPECIFICATION CrashSpec
INVARIANTS TailReadable
