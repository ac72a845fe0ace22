SPECIFICATION Pages
CONSTANTS
    None = None
    Keys = {"k1", "k2"}
    Groups = {"g"}
    MaxOps = 3
    MaxCalls = 2
    MaxRows = 2
    MaxAsks = 2
    MaxPosts = 1
    MaxVersion = 1
    Machines = {"m1", "m2", "m3"}
    Os <- System
    Page <- System
    Charged = {"m1", "m3"}
    GrayVer = {"m1", "m3"}
    Queries = {{"m1", "m2", "m3"}, {"m2"}}
    Columns = {"c1"}
    DefaultHideTh = {"c1"}
    MaxLoads = 2
    Stored = {"p1", "p2"}
    Types = {"t1"}
    MaxUploads = 2
    Depth = 3
    Children <- Options
    MaxAsked = 3
    RowCount = 5
    Sizes = {1, 3}
    MaxNum = 6
    VisiblePages = 3
    MaxRequests = 2
INVARIANTS
    PageShowsStore
    PostedAsGiven
    OnlyAgreedGoOffline
    MaskedWhileCalled
    ChildrenFollow
    RowsMatchPage
CHECK_DEADLOCK FALSE
