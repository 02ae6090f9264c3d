SPECIFICATION FairSpec
CONSTANTS
    w1 = w1  w2 = w2  w3 = w3  a = a  m1 = m1  m2 = m2
    Workers = {w1}
    Calls = {c1, c2}
    Tools = {a}
    BlankTool = BlankTool
    Nobody = Nobody
    Machines = {m1, m2}
    Offerings <- OneTool
    MachineOf <- SameMachine
    QueueCap = 1
PROPERTIES KeepsPromise EveryCallReturns FailFast
CHECK_DEADLOCK FALSE
