\* Three units are deployed, elected and removed in any order; no failures.
SPECIFICATION Spec
CONSTANTS
    None = None
    u1 = u1
    u2 = u2
    u3 = u3
    Units = {u1, u2, u3}
    MinSize = 2
    Handover = "member"
    Removable = "but leader_node"
    Unprompted = {}
    HooksFail = FALSE
SYMMETRY Symmetry
CHECK_DEADLOCK FALSE
INVARIANTS
    TypeOK
    OneCluster
    JoinsOnce
    ReadyIsComplete
