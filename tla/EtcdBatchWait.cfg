SPECIFICATION EtcdFairSpec
CONSTANTS
    Ops = {"add"}
    Nodes = {n1}
    Callbacks = {c1}
    Caller = caller
    MaxTry = 3
PROPERTY WaiterIsWoken
CHECK_DEADLOCK FALSE
