\* One document with an upload and one more request, what the worker queues
\* itself, two deletions and one fault, in any order.
CONSTANTS
    Doc = {d1}
    MaxRequests = 2
    MaxDeletions = 2
    MaxFaults = 1
SPECIFICATION Spec
INVARIANTS
    OneGeneration
    NothingStuck
PROPERTIES
    IndexedWhenDone
CHECK_DEADLOCK FALSE
