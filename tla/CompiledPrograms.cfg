\* Programs through the compiler and the VM, paused anywhere.
SPECIFICATION SpecPaused
CONSTANTS
    None = None
    Plans <- ProgramPlans
    MaxBound = 2
    NodeBudget = 22
INVARIANTS
    PausedTypeOK
    PlanInOrder
    FollowsSource
PROPERTIES
    PauseTransparent
    EveryRunEnds
CHECK_DEADLOCK FALSE
