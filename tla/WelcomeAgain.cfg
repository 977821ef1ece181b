SPECIFICATION AccountsSpec
CONSTANTS
    People = {boss, p1, p2}
    Intl = intl
    Local = local
    Desk = desk
    Phones = {intl, local, desk}
    IdentityOf <- MCIdentity
    BypassAccounts <- MCBypass
    KioskPhone = desk
    Purchases = {o1, o2}
    Handlers = {h1}
    MaxServed = 4
    NoOne = noone
PROPERTIES
    DeletedCannotReclaim
CHECK_DEADLOCK FALSE
