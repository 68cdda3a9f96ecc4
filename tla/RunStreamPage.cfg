\* A page that follows one run over connections that drop.
SPECIFICATION StreamFairSpec
CONSTANTS
    MaxBatch = 2
    MaxEvents = 5
    MaxDrops = 2
INVARIANTS
    AppliedInOrder
    ClosesComplete
PROPERTIES
    PageCatchesUp
CHECK_DEADLOCK FALSE
