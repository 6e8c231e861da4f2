CONSTANTS
    u1 = u1
    u2 = u2
    u3 = u3
    Users = {u1, u2, u3}
    Clients = {c1}
    Ops = {"found", "dissolve", "remove", "role", "leave", "accept", "erase", "join"}
    Founders <- JustOne
    Staff <- Nobody
    Invites <- OneInvited
    PluginRechecks = FALSE
    StaleSessions = FALSE
    AuditFails = TRUE
SPECIFICATION Spec
INVARIANTS
    TypeOK
    AlwaysAnOwner
    AuditedChangesAreReal
CHECK_DEADLOCK FALSE
