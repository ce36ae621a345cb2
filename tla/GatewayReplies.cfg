CONSTANTS
    u = u
    c1 = c1
    c2 = c2
    x1 = x1
    p1 = p1
    p2 = p2
    b1 = b1
    None = None
    Users = {u}
    SysAdmins = {}
    Admins = {}
    Calls = {c1, c2}
    Uuids = {x1}
    Passwords = {p1, p2}
    Guests = {u}
    Browsers = {b1}
    MaxDraws = 1
    Operations = {"signup", "login", "recover", "reset", "verify", "write", "delete"}
    Faults = {"error"}
SPECIFICATION GFairSpec
INVARIANTS GTypeOK ResetAnswered
PROPERTIES EveryRequestEnds
