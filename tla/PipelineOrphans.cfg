\* README.md:109 against a worker that indexes while the document is deleted.
CONSTANTS
    Doc = {d1}
    MaxRequests = 1
    MaxDeletions = 1
    MaxFaults = 0
SPECIFICATION Spec
INVARIANT DeletedLeavesNothing
CHECK_DEADLOCK FALSE
