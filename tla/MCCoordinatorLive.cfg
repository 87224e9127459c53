\* Two units, repeated requests for one lock, with fairness.
SPECIFICATION FairSpec
CONSTANTS
    Units = {1, 2}
    Locks = {"restart"}
    MaxTime = 3
    Handover = "informed"
INVARIANTS
    IInv
PROPERTIES
    RequestKept
    GrantStands
    EveryRequestServed
