\* Two runners of every kind on one execution, each a process that may be killed.
CONSTANTS
    g1 = g1  A = A  B = B  e1 = e1  e2 = e2  c1 = c1  c2 = c2  c3 = c3
    server = server  cli = cli
    Graphs = {g1}
    Codes = {A}
    Clients = {c1, c2}
    Runners = {c1, c2}
    Processes = {c1, c2}
    ProcessOf <- OwnProcess
    Mortal = {c1, c2}
    Forked = {}
    MaxVersion = 1
    None = None
    Execs = {e1}
    Kinds = {"engine", "unaudited", "scheduler"}
    Budgets = {1, 2}
    NodeCount = 3
    MaxTimes = 2
    Faults = {"node", "env"}
SPECIFICATION ExecSpec
SYMMETRY RunnerSymmetry
CHECK_DEADLOCK FALSE
INVARIANTS ExecTypeOK NothingSkipped RestsSafely OnceEach
PROPERTY TerminalStays
