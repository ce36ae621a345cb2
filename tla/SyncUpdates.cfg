CONSTANTS
    c1 = c1
    c2 = c2
    e1 = e1
    e2 = e2
    n1 = n1
    n2 = n2
    None = None
    Emails = {e1}
    Usernames = {n1}
    Calls = {c1, c2}
    AgentRoles = {{"admin"}, {"sys_admin"}}
    RoleChoices = {None, {"sys_admin"}}
    MaxAckPending = 2
    MaxEvents = 3
    MaxIds = 3
    Operations = {"signup", "create", "update", "deactivate", "delete"}
    Faults = {"publish", "error", "slow"}
    Crashing = {"main"}
SPECIFICATION Spec
PROPERTIES GoneIsFinal SysAdminsAreMadeBySysAdmins DroppedOnlyByItsHook ImplementsWorkQueue ImplementsMirrors
SYMMETRY Symmetry
CHECK_DEADLOCK FALSE
