CONSTANTS
    StatusName = {"power", "cpu", "sensor"}
    CpuStatus = {"cpu"}
    SensorStatus = {"sensor"}
    Ignored = {"cpu", "sensor"}
    Reacting = {"power"}
    Text = {"t1", "t2"}
    Severity <- Severities
    Published <- Statuses
    TopicDepth = 1
    MaxStatuses = 3
    MaxReadings = 1
    MaxLedRequests = 3
    LedInboxSize = 2
    Leaf = {"l1", "l2"}
    Group = {"g1", "g2"}
    GroupOf <- Groups
    Setting = {"s1", "s2"}
    Fits <- Fitting
    Default <- Defaults
    MaxInodes = 2
    MaxEdits = 2
    Report <- Reports
    MaxKeys = 3
    MarkerId = {0, 1}
    Info = {"i0", "i1"}
    NewInfo = "i0"
    Place = {"p0", "p1"}
    NewPlace = "p0"
    Formula = {"f0", "f1", "fid"}
    Literal <- Literals
    Resolves <- Formulas
    MaxChanges = 2
    MaxSaves = 1
    Field = {"l1", "l2"}
    Value = {"s1", "s2"}
    DefaultOf <- Originals
    MaxTyped = 2
    MaxPuts = 2
    Topic = {"a", "b"}
    Rosout = "/rosout"
    MaxClicks = 3
    MaxFaults = 1
    MaxCalls = 3
    MaxAttempts = 3
    Package = {"clover2", "clover2_ui"}
    Reference = "clover2"
    Bump = {"minor", "patch"}
    MaxMerges = 1
    MaxJobs = 3
    PatchCount = 3
    MaxInput = 3
    TermSize = {"t80", "t120"}
    LineWidth = 3
    KeyByte = {"a", "lead", "cont"}
    FieldText <- FieldTexts
    PasteText <- PasteTexts
    HistorySize = 2
    MaxLineInput = 4
    MaxBytes = 6
SPECIFICATION Spec
INVARIANTS EventsReachOutputs StripAccountedFor TerminalSound PagesSound
PROPERTIES ScreenReachesDisplay AnimationsPlay AskersTold
CHECK_DEADLOCK FALSE
