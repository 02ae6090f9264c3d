\* Two requests of the server and a CLI command on one graph, all killed at any
\* statement.
CONSTANTS
    g1 = g1  A = A  B = B  c1 = c1  c2 = c2  c3 = c3  server = server  cli = cli
    Graphs = {g1}
    Codes = {A, B}
    Clients = {c1, c2, c3}
    Processes = {server, cli}
    ProcessOf <- ServerAndCommand
    Mortal = {server, cli}
    Forked = {g1}
    MaxVersion = 2
    None = None
SPECIFICATION Spec
SYMMETRY StoreSymmetry
CHECK_DEADLOCK FALSE
INVARIANTS VersionPlanRight CurrentStored ActiveStored
PROPERTIES VersionsKept
