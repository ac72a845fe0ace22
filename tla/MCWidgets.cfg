SPECIFICATION Widgets
CONSTANTS
    None = None
    Undef = Undef
    Tabs = {"t1", "t2", "t3"}
    MaxTabs = 3
    MaxMoves = 1
    Choices = {i1, i2}
    Words = {f}
    MaxAsked = 3
    Pictures = 3
    Eles = {"a", "b"}
    Screen = 120
    Places = {0, 20, 40, 60, 80, 100}
    EleSizes = {20}
    BoxSizes = {20, 40, 80, 140}
    Forms = {{"a", "b"}, {"b", "c"}}
    Fields = {"f", "g"}
    LastDay = 2
    Today = 1
    Multi = {"f"}
    PerYear = 2
    BeginYear = 1
    EndYear = 2
    MinDate = 3
    MaxDate = 4
    Now = 5
    Ids = {"i1", "i2"}
    MaxMasks = 3
    Items = {"a", "b", "c", "d"}
    Parent <- Tree
    Full = 2
    MaxBars = 2
INVARIANTS
    RecentTabFollows
    FieldsAgree
    MovesInSight
    NoTipStaysBehind
    OpensInSight
    MessagesAreTrue
    RangesAreWhole
    AnswersWhatWasRead
    DisabledWhileMasked
    HoverFollows
CHECK_DEADLOCK FALSE
