CONSTANTS
    u1 = u1
    u2 = u2
    u3 = u3
    Users = {u1, u2, u3}
    Clients = {c1, c2}
    Ops = {"erase"}
    Founders <- Two
    Staff <- Nobody
    Invites <- Nobody
    PluginRechecks = TRUE
    StaleSessions = FALSE
    AuditFails = FALSE
SPECIFICATION Spec
SYMMETRY Alike
INVARIANTS
    AlwaysAnOwner
CHECK_DEADLOCK FALSE
