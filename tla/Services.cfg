SPECIFICATION Spec
CONSTANTS
    Requests = {g1, g2}
    Ttl = 2
    ReadTime = 1
    Callers = {k1}
    Window = 3
    LimitOf <- MCLimits
    PruneAt = 2
    Sockets = {s1, s2, s3}
    Broadcasts = {b1, b2}
    Client = client
    Driver = driver
    Users = {client, driver}
    RoleOf <- MCRoles
    Tokens = {t1, t2}
    Dispatches = {d1}
    Nobody = nobody
    People = {boss, p1, p2}
    Intl = intl
    Local = local
    Desk = desk
    Phones = {intl, local, desk}
    IdentityOf <- MCIdentity
    BypassAccounts <- MCBypass
    KioskPhone = desk
    Purchases = {o1, o2}
    Handlers = {h1, h2}
    MaxServed = 3
    NoOne = noone
INVARIANTS
    StalenessBounded
    EditsReachTheCache
    LimitedPerWindow
    CompletedReachesAll
    RegisteredStaysReachable
    OneWelcomePerPhone
    HistoryKept
PROPERTIES
    DeletionHolds
CHECK_DEADLOCK FALSE
