SPECIFICATION Spec
CONSTANTS
    WeekDays = 2
    DayLength = 3
    Openings <- MCOpenings
    DayOff = DayOff
    NoHours = NoHours
    Never = Never
    MaxAsked = 2
    MaxDelay = 1
    None = None
    drinks = drinks
    latte = latte
    cake = cake
    hot = hot
    plainLatte = plainLatte
    milkLatte = milkLatte
    slice = slice
    Entries = {drinks, latte, cake}
    Subgroups = {hot}
    ChildrenOf <- MCChildren
    Variations = {plainLatte, milkLatte, slice}
    KeysOf <- MCKeys
    PriceOf <- MCPrices
    Carts <- MCCarts
    Customers <- MCCustomers
    DeliveryFee = 100
    Rows <- MCRows
    Beside <- MCBeside
    Values <- MCValues
    Counts <- MCCounts
    MaxRequests = 2
    MaxEdits = 2
    Nothing = Nothing
    Idle = Idle
    small = small
    cup = cup
    syrup = syrup
    near = near
    far = far
    inner = inner
    outer = outer
    Sizes = {small}
    TypeOf <- MCType
    AddonsOf <- MCAddons
    AddonPrice = 1
    SizeRows <- MCSizeRows
    MaxUnits = 4
    MaxQuantity = 2
    Bands = {inner, outer}
    Admins = {ada}
    BandRows <- MCBandRows
    BandValues <- MCBandValues
    Places = {near, far}
    Distance <- MCDistance
    Stores <- MCStores
    MaxQuotes = 2
    MaxPlacements = 1
INVARIANTS
    PhoneFollowsHours
    EnabledIsAccepted
    FeeShownIsCharged
    ActiveBandsDisjoint
PROPERTIES
    MoreOffersNeverCostMore
    SavedAsShown
CHECK_DEADLOCK FALSE
