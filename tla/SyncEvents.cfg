CONSTANTS
    c1 = c1
    c2 = c2
    e1 = e1
    e2 = e2
    n1 = n1
    n2 = n2
    None = None
    Emails = {e1, e2}
    Usernames = {n1, n2}
    Calls = {c1, c2}
    AgentRoles = {{"sys_admin"}}
    RoleChoices = {{"user"}}
    MaxAckPending = 1
    MaxEvents = 2
    MaxIds = 3
    Operations = {"signup", "create", "update"}
    Faults = {"publish", "slow"}
    Crashing = {"main"}
SPECIFICATION FairSpec
INVARIANTS TypeOK MirrorsHaveSources
PROPERTIES DroppedOnlyByItsHook SignupEventsSettle ImplementsMirrors
CHECK_DEADLOCK FALSE
