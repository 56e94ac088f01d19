SPECIFICATION Spec
CONSTANTS
    server = server
    cli = cli
    r1 = r1
    r2 = r2
    d1 = d1
    d2 = d2
    Procs = {server}
    Refreshes = {r1, r2}
    Reads = {d1}
    ProcOf <- MCProcOf
    Durable = TRUE
    MaxTime = 2
    Nil = Nil
    Garbage = Garbage
SYMMETRY ThreadSymmetry
INVARIANTS
    TypeOK
    RefreshesSerialised
    SourceWindow
    FreshAsAsked
    ServedOnceRefreshed
    WarmServesLatest
    AckedIsDurable
PROPERTIES
    StoredNeverOlder
    OnlyColdReadsRegress
