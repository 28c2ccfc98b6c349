\* One AuditLog instance, two threads, a rotation after every second record,
\* killed at any statement and restarted; a verification beside it.
CONSTANTS
    t1 = t1  t2 = t2  server = server  None = None
    Threads = {t1, t2}
    Procs = {server}
    ProcOf <- OneInstance
    Forwarding = {server}
    RotateAt = 2
    AnchorEvery = 2
    MaxWrites = 4
    MaxCrashes = 1
SPECIFICATION ReaderSpec
INVARIANTS TypeOK VerifiesAlways EveryRecordForwarded ForwardedIsDurable OnlyRestartsBreakLinks VerdictStands
PROPERTIES RecordsPersist ImplementsChain WriteReturns
