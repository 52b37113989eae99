SPECIFICATION MCIdentitySpec
CONSTANTS
    UserIds = {1, 2, 3}
    Admins = {c1, c2}
    RoleChoices <- MCRoleChoices
    PermissionChoices <- MCPermissionChoices
    MaxChanges = 3
    RecentChanges = 2
    MaxLogins = 2
INVARIANTS SessionCurrent OwnerRemains
PROPERTY EveryChangeEnds
CHECK_DEADLOCK FALSE
