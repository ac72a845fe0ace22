SPECIFICATION Routes
CONSTANTS
    MinTimeoutInvoke = 2
    CheckTimeoutInterval = 2
    FrequenceFailInvoke = 2
    MinFrequenceFailTime = 1
    TryTimeInterval = 2
    MaxCalls = 2
    RegistryNodes = {1, 2}
    Services = {a, b}
    Nodes = {n1}
    AGENT_FAIL_THRESHOLD = 3
    NormalExpire = 2
    ShortExpire = 1
    LongExpire = 3
INVARIANTS UnavailableHasReason
PROPERTIES ShieldSurvivesRefresh AnswersAreFresh AgentIsFoundAgain
