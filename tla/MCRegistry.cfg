SPECIFICATION Registry
CONSTANTS
    Ips = {1, 2, 3}
    NetOf <- Nets
    Worlds <- Contents
    Queries <- Questions
    Down = Down
    NoSet = NoSet
    NoName = NoName
    NoQuery = NoQuery
    NoAnswer = NoAnswer
    Readers = {r1, r2}
    None = None
    LoadInterval = 5
    HeartBeatInterval = 6
    Ttl = 11
    MaxTurn = 2
    MaxRead = 2
    Ops = {"add", "update", "delete", "keepalive"}
    Nodes = {n1, n2}
    Callbacks = {c1, c2}
    Caller = caller
    MaxTry = 2
INVARIANTS CacheFitsTogether StaysRegistered CountsAreExact
PROPERTIES AnswersAreRight CacheConverges BatchIsAnswered
CHECK_DEADLOCK FALSE
