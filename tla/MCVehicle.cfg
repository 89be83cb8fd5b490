CONSTANTS
    web1 = web1
    r1 = r1
    yaml = yaml
    txt = txt
    broken = broken
    Client = {web1}
    Refreshing = {web1}
    EditRequest = {r1}
    File = {yaml, txt}
    TextFile = {txt}
    Launch = yaml
    Id = {1}
    Kind = {"fixed", "other", "sizeless"}
    BrokenFile = broken
    MaxVersion = 3
    MaxCalls = 1
    Plugin = {"p1"}
    NoPlugin = "nobody"
    Mark = {1, 2}
    Side = {1, 2}
    MarkerDict = {"4X4", "5X5", "huge"}
    KnownDict = {"4X4", "5X5"}
    NoDict = "none"
    MaxMapEdits = 2
    nan = nan
    NaN = nan
    Beacon = {1, 2}
    Sight = {1, nan}
    Place = {0, 3}
    JumpReset = 2
    GapReset = 1
    Counters = 2
    MaxStamp = 3
    Width = {2, 3}
    RoiSide = {0, 1, 3}
    LongestGap = 2
    MaxTime = 4
    WordSize = 8
    MaxPictures = 4
    Threshold <- Percents
    Full = 3
    WarnDefault = 2
    ErrorDefault = 1
    NoOverride = 9
    LongestBatch = 2
    FcuClient = {"c1"}
    Provider = {"h1", "h2", "h3"}
    Telemetry = {"odometry"}
    Needed = {"sonar"}
    MaxInjections = 2
    Reaction = {"notes", "throws", "commands"}
    Columns = 3
    Pages = 2
    Picture <- PanelPictures
    LedCount = 2
    Frame <- Frames
    Brightness = {0, 1, 3, 4}
    MaxWrites = 3
SPECIFICATION Spec
INVARIANTS FlightSideSound
PROPERTIES MapSound ClientsGetMap DetectionsTrue VisionContinuous FlowsTile
CHECK_DEADLOCK FALSE
