\* One request that changes graphs and one that executes a graph.
CONSTANTS
    g1 = g1  g2 = g2  A = A  B = B  D = D  P = P  Q = Q   S = S
    a1 = a1  a2 = a2  v1 = v1  c1 = c1  x = x  i1 = i1
    Graphs = {g1, g2}
    Codes = {P, Q, S}
    NameOf <- TwoNames
    MaxVersion = 2
    None = None
    MetaOf <- Metas
    Paths = {x}
    Methods = {"GET", "DELETE"}
    Inputs = {i1}
    Admins = {a1}
    Boot = Boot
    Visitors = {v1}
    Callers = {c1}
    CallsOf <- Calls
    NeedsOf <- Needs
    Environment <- OneSet
    MaxRecursion = 2
    MaxDepth = 3
    DynCodes <- Sources
    HashOf <- Hashes
    Capacity = 2
    Runners = {v1, c1}
    Focuses = {"routes", "calls", "code"}
SPECIFICATION Spec
CHECK_DEADLOCK FALSE
INVARIANT StoredPlanCurrent
