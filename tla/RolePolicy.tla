------------------------------- MODULE RolePolicy -------------------------------
(***************************************************************************)
(* Who may do what to a user, and which roles result: the checks of        *)
(* utils/index.ts and the role helpers of UserService, the same text in    *)
(* auth-ms and main-api.  A list of roles is the set of its members; None  *)
(* is a list that was not sent, and the result of a call that throws.      *)
(***************************************************************************)
CONSTANT None

UserRole == {"guest", "user", "admin", "sys_admin"}
RoleLists == {None} \cup SUBSET UserRole

ASSUME RoleAssumption == \A roles \in SUBSET UserRole : roles # None

ROLES_NOT_ALLOWED_FOR_ADMINS == {"sys_admin"}

checkAllowedActionOn_User(user, agent) ==
    /\ agent.active
    /\ \/ "sys_admin" \in agent.roles
       \/ "admin" \in agent.roles /\ user.roles \cap {"admin", "sys_admin"} = {}
       \/ user.id = agent.id

\* Own roles: an admin may change them, without making himself a sys_admin; the
\* roles of others: a sys_admin any, an admin all but that one.
checkAllowed_User_UpdateAction(user, agent, roles) ==
    IF roles = None
    THEN checkAllowedActionOn_User(user, agent)
    ELSE /\ agent.active
         /\ \/ /\ user.id = agent.id
               /\ "admin" \in user.roles
               /\ roles \cap ROLES_NOT_ALLOWED_FOR_ADMINS = {}
            \/ /\ user.id # agent.id
               /\ \/ "sys_admin" \in agent.roles
                  \/ "admin" \in agent.roles /\ "sys_admin" \notin roles

checkAllowed_User_CreateAction(agent) ==
    /\ agent.active
    /\ agent.roles \cap {"user", "guest"} = {}

\* RoleService: the rows of the table of roles, which the seed fills, that are asked
\* for (a role that is not there is an error of the database).
findRoles(roles) == {role \in UserRole : role \in roles}

\* Mutant: admins are not held back.
parseUnfilteredRoles(roles, agent) == IF roles = None THEN None ELSE findRoles(roles)

parseAllowedRoles(roles, agent) ==
    IF roles = None THEN None
    ELSE IF agent = None \/ "sys_admin" \in agent.roles THEN findRoles(roles)
    ELSE IF "admin" \in agent.roles THEN findRoles(roles \ {"sys_admin"})
    ELSE None

updateTargetUserRoles(user, roles) ==
    IF roles = None THEN user.roles
    ELSE findRoles(IF roles = {} THEN {"guest"} ELSE roles)
================================================================================
