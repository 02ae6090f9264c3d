\* Programs of every statement and expression, from an LLM's answer to a run.
SPECIFICATION Spec
CONSTANTS
    None = None
    NoReport = None
    MaxNumber = 11
    MaxExact = 8
    MaxAttempts = 3
    Answers <- AnswersAt
    Inputs <- Context
    Fault <- ResponseFault
    Runs <- ResponseRuns
    Result <- ResponseResult
INVARIANTS
    AcceptedIsTranslated
    ChecksAgree
    ViewLeadsWherePlanDoes
    MeansWhatItSays
PROPERTIES
    PromptTellsWhy
CHECK_DEADLOCK FALSE
