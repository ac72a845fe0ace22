SPECIFICATION Loader
CONSTANTS
    Scripts = {"a", "b"}
    Styles = {"s"}
    Comps = {"p", "q"}
    MaxRequests = 2
    Absent = Absent
    Components = {"d", "m"}
    Filed = {"m"}
    Null = Null
    MaxCalls = 3
    MaxTasks = 1
    Dialogs = {a, b}
    Large = {a}
    MaxZ = 6
    Ids = {"i1"}
    NoId = NoId
    MaxMessages = 2
INVARIANTS SucceedsOnceWithAll CallsRunInOrder LayersHaveDialogs
PROPERTIES EveryCallSucceeds EveryCallRuns DialogsAnswerAgain TasksRunAfterCalls
CHECK_DEADLOCK FALSE
