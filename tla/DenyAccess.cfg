CONSTANTS
    a = a
    u = u
    c1 = c1
    c2 = c2
    x1 = x1
    x2 = x2
    p1 = p1
    b1 = b1
    None = None
    Users = {a, u}
    SysAdmins = {a}
    Admins = {}
    Calls = {c1, c2}
    Uuids = {x1, x2}
    Passwords = {p1}
    Guests = {}
    Browsers = {b1}
    MaxDraws = 2
    Operations = {"login", "denyAccess"}
    Faults = {}
SPECIFICATION GSpec
INVARIANTS SysAdminsMayDenyAccess
SYMMETRY Symmetry
