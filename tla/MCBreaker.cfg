SPECIFICATION Breakers
CONSTANTS
    MinTimeoutInvoke = 2
    CheckTimeoutInterval = 4
    FrequenceFailInvoke = 3
    MinFrequenceFailTime = 2
    TryTimeInterval = 3
    MaxCalls = 6
    MaxRun = 6
    Ips = {1, 2, 3}
    UpdateInterval = 1
    IpCheckTimeout = 2
    IpFailInvoke = 2
    IpFailTime = 1
    IpTryTime = 1
INVARIANTS DeadNodeIsShielded
PROPERTIES ProbesAreSpaced ShieldIsKept LiveServerIsFound
