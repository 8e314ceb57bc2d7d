CONSTANTS
    None = None
    Installations <- MCInstallations
    Answers <- MCAnswers
    RpcAnswers <- MCRpcAnswers
    HttpRates <- MCHttpRates
    MaxAttempts = 2
    RateTtl = 1
    ProbeAmount = 100
    PriorityFee = 1
    MaxClock = 2
SPECIFICATION Spec
PROPERTY GasChargedInFull
CHECK_DEADLOCK FALSE
