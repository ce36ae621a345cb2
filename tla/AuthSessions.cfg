CONSTANTS
    a = a
    u = u
    c1 = c1
    c2 = c2
    x1 = x1
    x2 = x2
    x3 = x3
    p1 = p1
    None = None
    Users = {a, u}
    SysAdmins = {}
    Admins = {a}
    Calls = {c1, c2}
    Uuids = {x1, x2, x3}
    Passwords = {p1}
    MaxDraws = 3
    Operations = {"login", "revalidate", "logout", "revoke", "verify"}
    Faults = {"error", "crash"}
SPECIFICATION FairSpec
INVARIANTS TypeOK NoRevival DeliveredTokensAreTracked SessionsAreOfVerifiedUsers
PROPERTIES LockoutIsFinal ImplementsSessions DeactivationSettles
