\* The value of a sum, and the comment on the test of sums.
SPECIFICATION Spec
CONSTANTS
    None = None
    NoReport = None
    MaxNumber = 11
    MaxExact = 8
    MaxAttempts = 1
    Answers <- AnswersAt
    Inputs <- Context
    Fault <- ResponseFault
    Runs <- ResponseRuns
    Result <- ResponseResult
INVARIANTS
    SumsAreNumbers
CHECK_DEADLOCK FALSE
