SPECIFICATION ServerSpec
CONSTANTS
    server = server
    Procs = {server}
    Refreshes = {r1, r2}
    Reads = {d1}
    ProcOf <- MCProcOf
    Durable = TRUE
    MaxTime = 1
    Nil = Nil
    Garbage = Garbage
    FromFile = FALSE
    StaleAfter = 0
    WriteTimeout = 0
SYMMETRY RefreshSymmetry
INVARIANTS
    RefreshedMeansStored
    NoSnapshotYetIsTrue
    NeverOlderThanShown
    HealthyMeansServing
    StaleFlagIsRight
