\* Server and CLI rotate at once: the chain breaks.
CONSTANTS
    t1 = t1  t3 = t3  server = server  cli = cli  None = None
    Threads = {t1, t3}
    Procs = {server, cli}
    ProcOf <- OneThreadEach
    Forwarding = {server}
    RotateAt = 2
    AnchorEvery = 2
    MaxWrites = 4
    MaxCrashes = 0
SPECIFICATION Spec
INVARIANTS VerifiesAtRest
