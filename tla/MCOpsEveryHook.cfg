\* Changes of file content only; every hook of the charm, no failures.
SPECIFICATION Spec
CONSTANTS
    Units = {1, 2}
    HookKinds <- AllHookKinds
    Actions = {}
    Options = {"content"}
    MaxVersion = 1
    HooksFail = FALSE
INVARIANTS
    NoLostRestart
