CONSTANTS
    a = a
    u = u
    c1 = c1
    c2 = c2
    x1 = x1
    x2 = x2
    p1 = p1
    p2 = p2
    None = None
    Users = {a, u}
    SysAdmins = {}
    Admins = {a}
    Calls = {c1, c2}
    Uuids = {x1, x2}
    Passwords = {p1, p2}
    MaxDraws = 2
    Operations = {"login", "recover", "reset", "verify"}
    Faults = {"expiry"}
SPECIFICATION Spec
PROPERTIES RedeemedTokenIsRemoved PasswordsChangeByOwnToken
SYMMETRY Symmetry
CHECK_DEADLOCK FALSE
