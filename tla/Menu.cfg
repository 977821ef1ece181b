SPECIFICATION Spec
CONSTANTS
    Sections = {s1}
    Items = {i1, i2}
    Types = {t1, t2}
    Sizes = {z1, z2}
    Addons = {a1}
    WholeMenu = wholeMenu
    Days <- MCDays
    Minutes <- MCMinutes
    Timings <- MCTimings
    MaxSchedules = 2
    MaxDeletions = 1
    d1 = d1
    d2 = d2
    d3 = d3
    d4 = d4
    d5 = d5
    d6 = d6
    DraftRows <- MCDraftRows
    DraftParent <- MCDraftParent
    DraftKind <- MCDraftKind
    NoId = noId
    TargetModes = {"menu", "sections", "subgroup", "item"}
    EditorTimings <- MCEditorTimings
    Titles = {noTitle, x}
    NoTitle = noTitle
    MaxSaves = 2
    Spare = {i2}
    None = none
    MaxLoads = 1
    MaxChanges = 2
SYMMETRY MenuSymmetry
INVARIANTS
    ShownIffOrderable
    PreviewIsPublic
    BadgesTellTheTruth
    SavedIsComplete
    BulkMeansAll
PROPERTIES
    SchedulesHaveOwners
    ScheduledAsShown
    OnlyMovesMove
CHECK_DEADLOCK FALSE
