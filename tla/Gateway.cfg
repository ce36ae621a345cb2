CONSTANTS
    u = u
    v = v
    c1 = c1
    c2 = c2
    x1 = x1
    x2 = x2
    p1 = p1
    b1 = b1
    b2 = b2
    None = None
    Users = {u, v}
    SysAdmins = {}
    Admins = {}
    Calls = {c1, c2}
    Uuids = {x1, x2}
    Passwords = {p1}
    Guests = {}
    Browsers = {b1, b2}
    MaxDraws = 2
    Operations = {"login", "revalidate", "logout", "write"}
    Faults = {"expiry", "crash"}
SPECIFICATION GSpec
INVARIANTS SingleDevice
PROPERTIES ImplementsAuthService LogoutShutsOut ImplementsDevices
SYMMETRY SymmetryOfUsers
