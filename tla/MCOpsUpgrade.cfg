\* A change of the package source, the hooks that use the locks, no failures.
SPECIFICATION Spec
CONSTANTS
    Units = {1, 2}
    HookKinds <- WiredHooks
    Actions = {}
    Options = {"source"}
    MaxVersion = 1
    HooksFail = FALSE
INVARIANTS
    UpgradeHappensHere
