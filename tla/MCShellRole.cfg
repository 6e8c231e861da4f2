CONSTANTS
    Spaces = {1, 2, 3}
    MaxSwitches = 1
SPECIFICATION ShellSpec
INVARIANTS RoleIsOfActiveSpace
CHECK_DEADLOCK FALSE
