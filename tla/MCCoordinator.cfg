\* Three units competing for one lock, one request each.
SPECIFICATION Spec
CONSTANTS
    Units = {1, 2, 3}
    Locks = {"restart"}
    MaxTime = 1
    Handover = "informed"
INVARIANTS
    TypeOK
    MutualExclusion
PROPERTIES
    ImplementsSerialLock
