\* As MCCluster, and the unit whose node is stored as the leader's is removed too.
SPECIFICATION Spec
CONSTANTS
    None = None
    u1 = u1
    u2 = u2
    u3 = u3
    Units = {u1, u2, u3}
    MinSize = 2
    Handover = "member"
    Removable = "any"
    Unprompted = {}
    HooksFail = FALSE
SYMMETRY Symmetry
CHECK_DEADLOCK FALSE
INVARIANTS
    JoinsOnce
