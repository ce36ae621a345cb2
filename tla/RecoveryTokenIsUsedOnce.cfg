CONSTANTS
    a = a
    u = u
    c1 = c1
    c2 = c2
    x1 = x1
    x2 = x2
    x3 = x3
    p1 = p1
    p2 = p2
    None = None
    Users = {u}
    SysAdmins = {}
    Admins = {}
    Calls = {c1, c2}
    Uuids = {x1, x2, x3}
    Passwords = {p1, p2}
    MaxDraws = 3
    Operations = {"recover", "reset"}
    Faults = {}
SPECIFICATION HSpec
PROPERTY RecoveryTokenIsUsedOnce
CHECK_DEADLOCK FALSE
