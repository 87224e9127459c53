\* Two units; hooks fail and are run again, other hooks come in between.
SPECIFICATION FairSpec
CONSTANTS
    None = None
    u1 = u1
    u2 = u2
    Units = {u1, u2}
    MinSize = 2
    Handover = "member"
    Removable = "but leader_node"
    Unprompted = {"upgrade-charm", "other"}
    HooksFail = TRUE
CHECK_DEADLOCK FALSE

    
PROPERTIES
    ClusterForms
