\* Changes of file content only, hooks that use the locks, no failures.
SPECIFICATION FairSpec
CONSTANTS
    Units = {1, 2}
    HookKinds <- WiredHooks
    Actions = {"pause", "resume"}
    Options = {"content"}
    MaxVersion = 2
    HooksFail = FALSE
INVARIANTS
    NoLostRestart
PROPERTIES
    ConfigReachesBrokers
    ImplementsSerialLock
