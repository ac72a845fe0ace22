SPECIFICATION Spec
CONSTANTS
    Keys = {"k1", "k2"}
    Groups = {"g"}
    None = None
    MaxOps = 3
    MaxCalls = 2
PROPERTY ListAskedOnce
CHECK_DEADLOCK FALSE
