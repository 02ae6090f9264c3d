SPECIFICATION Spec
CONSTANTS
    w1 = w1  w2 = w2  w3 = w3  a = a  m1 = m1  m2 = m2
    Workers = {w1, w2}
    Calls = {}
    Tools = {a}
    BlankTool = BlankTool
    Nobody = Nobody
    Machines = {m1, m2}
    Offerings <- OneTool
    MachineOf <- SameMachine
    QueueCap = 1
INVARIANT ListingTrue
CHECK_DEADLOCK FALSE
