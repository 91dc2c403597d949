SPECIFICATION MCSpec
CONSTANTS
    Keys = {"theme", "emails"}
    AccountKeys = {"emails"}
    OtherKeys = {"theme"}
    Values = {"default", "v"}
    Default = "default"
    Absent = "absent"
    Foreign = "foreign"
    MaxPosts = 2
    InitialBytes = 2
    Newlines = {1}
    MaxLength = 3
    MaxFiles = 2
    MaxReadFailures = 1
    Listeners = {"page", "panel"}
    MaxCheckFailures = 1
    End <- MCEnd
    MaxSeeks = 4
    UserNames = {"ISP"}
    side_color_count = 2
    MaxReferences = 2
    MaxCopies = 0
    Tiles = {1, 2, 3}
    MAX_TILES = 2
    MaxFetches = 3
    Commits = {"c1", "c2", "c3"}
    Builds = {"build"}
    Links = {}
    LS_MAX_COMMITS = 2
    MaxRequests = 2
    Ids = {"a", "b"}
    Labels = {"old", "new"}
    MaxActions = 2
    Texts = {"old", "mine", "theirs"}
    NoText = "none"
    MaxSaves = 2
    MaxActs = 5
    MaxOthers = 1
INVARIANTS
    ShapesOK
    NothingForgotten QuietMeansSaved
    NoHoleNothingTwice
    PollsWhileWatched FinalIsTrue
    SameFrameWhenSettled
    PointerIsServed NeverStuckLoading ShownIsSaved
    DraftsSurvive OverwritesKnown
PROPERTIES
    OnlyChoicesAreSent
    LiveLogIsFollowed
    EndIsSeen
    ColorsFollow NamesStay
CHECK_DEADLOCK FALSE
