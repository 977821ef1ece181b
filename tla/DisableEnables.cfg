SPECIFICATION Spec
CONSTANTS
    Sections = {s1}
    Items = {i1, i2}
    Types = {t1, t2}
    Sizes = {z1, z2}
    Addons = {a1}
    WholeMenu = wholeMenu
    Days <- MCDays
    Minutes <- MCMinutes
    Timings <- MCTimings
    MaxSchedules = 0
    MaxDeletions = 1
    d1 = d1
    d2 = d2
    d3 = d3
    d4 = d4
    d5 = d5
    d6 = d6
    DraftRows <- MCDraftRows
    DraftParent <- MCDraftParent
    DraftKind <- MCDraftKind
    NoId = noId
    TargetModes = {"item"}
    EditorTimings = {}
    Titles = {noTitle}
    NoTitle = noTitle
    MaxSaves = 0
    Spare = {i2}
    None = none
    MaxLoads = 1
    MaxChanges = 2
INVARIANT
    AlertSaysWhatIsDone
CHECK_DEADLOCK FALSE
