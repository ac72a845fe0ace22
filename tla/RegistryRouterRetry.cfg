SPECIFICATION FairSpec
CONSTANTS
    MinTimeoutInvoke = 2
    CheckTimeoutInterval = 2
    FrequenceFailInvoke = 2
    MinFrequenceFailTime = 1
    TryTimeInterval = 2
    Nodes = {1, 2}
    NormalExpire = 2
    ShortExpire = 1
    MaxCalls = 2
PROPERTY ShieldedIsRetried
