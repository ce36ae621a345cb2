CONSTANTS
    a = a
    u = u
    c1 = c1
    c2 = c2
    x1 = x1
    x2 = x2
    x3 = x3
    p1 = p1
    p2 = p2
    None = None
    Users = {a, u}
    SysAdmins = {}
    Admins = {a}
    Calls = {c1, c2}
    Uuids = {x1, x2, x3}
    Passwords = {p1}
    MaxDraws = 3
    Operations = {"revoke", "verify"}
    Faults = {}
SPECIFICATION Spec
PROPERTY DeactivationIsKept
CHECK_DEADLOCK FALSE
