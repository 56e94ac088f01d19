SPECIFICATION Spec
CONSTANTS
    server = server
    cli = cli
    r1 = r1
    r2 = r2
    d1 = d1
    d2 = d2
    Procs = {server, cli}
    Refreshes = {r1, r2}
    Reads = {d1}
    ProcOf <- MCProcOf
    Durable = TRUE
    MaxTime = 2
    Nil = Nil
    Garbage = Garbage
PROPERTY TriggersCannotRaceToWrite
