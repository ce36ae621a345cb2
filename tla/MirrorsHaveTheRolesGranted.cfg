CONSTANTS
    c1 = c1
    c2 = c2
    e1 = e1
    e2 = e2
    n1 = n1
    n2 = n2
    None = None
    Emails = {e1, e2}
    Usernames = {n1, n2}
    Calls = {c1, c2}
    AgentRoles = {{"admin"}}
    RoleChoices = {{"sys_admin"}}
    MaxAckPending = 2
    MaxEvents = 3
    MaxIds = 4
    Operations = {"create"}
    Faults = {}
    Crashing = {}
SPECIFICATION Spec
INVARIANTS MirrorsHaveTheRolesGranted
SYMMETRY Symmetry
CHECK_DEADLOCK FALSE
