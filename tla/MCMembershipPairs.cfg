CONSTANTS
    u1 = u1
    u2 = u2
    u3 = u3
    Users = {u1, u2, u3}
    Clients = {c1, c2}
    Ops = {"remove", "leave", "erase"}
    Founders <- JustOne
    Staff <- Second
    Invites <- Nobody
    PluginRechecks = FALSE
    StaleSessions = TRUE
    AuditFails = FALSE
SPECIFICATION Spec
SYMMETRY Alike
INVARIANTS
    NoTombstoneMembers
    RoomsFollowMembership
CHECK_DEADLOCK FALSE
