SPECIFICATION PermissionsSpec
CONSTANTS
    Perms = {administrator, view, send}
    Administrator = administrator
    View = view
    ReadHistory = view
    DefaultPerms = {view}
    Roles = {r1, r2}
    Everyone = guild
    Member = member
    MaxEdits = 4
INVARIANTS PermissionsInv
PROPERTIES RoleTakesNothing
CHECK_DEADLOCK FALSE
