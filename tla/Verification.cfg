\* Two attempts for a request; a rate stays fresh for one of two ticks.
CONSTANTS
    None = None
    Installations <- MCInstallations
    Answers <- MCAnswers
    RpcAnswers <- MCRpcAnswers
    HttpRates <- MCHttpRates
    MaxAttempts = 2
    RateTtl = 1
    ProbeAmount = 100
    PriorityFee = 1
    MaxClock = 2
SPECIFICATION Spec
INVARIANT AssembledFinds
PROPERTIES
    VerdictsRestOnKnown
    BlameIsFair
    VerificationEnds
CHECK_DEADLOCK FALSE
