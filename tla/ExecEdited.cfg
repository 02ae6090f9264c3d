\* A runner and a request that edits the graph, in one process, no faults.
CONSTANTS
    g1 = g1  A = A  B = B  e1 = e1  e2 = e2  c1 = c1  c2 = c2  c3 = c3
    server = server  cli = cli
    Graphs = {g1}
    Codes = {A, B}
    Clients = {c1, c2}
    Runners = {c1}
    Processes = {server, cli}
    ProcessOf <- OneProcess
    Mortal = {}
    Forked = {g1}
    MaxVersion = 2
    None = None
    Execs = {e1}
    Kinds = {"engine", "scheduler"}
    Budgets = {1, 2}
    NodeCount = 3
    MaxTimes = 2
    Faults = {}
SPECIFICATION FairExclusiveSpec
CHECK_DEADLOCK FALSE
INVARIANT ResumesItsVersion
PROPERTY PausedCompletes
