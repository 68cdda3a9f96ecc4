\* Documents are deleted while nobody works on them; a store may fail then.
CONSTANTS
    Doc = {d1}
    MaxRequests = 3
    MaxDeletions = 2
    MaxFaults = 1
SPECIFICATION QuietSpec
INVARIANT DeletedLeavesNothing
PROPERTIES
    JobsEnd
    UploadSettles
CHECK_DEADLOCK FALSE
