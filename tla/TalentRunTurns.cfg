\* Two turns of one conversation, with failing store writes and a restart.
SPECIFICATION Spec
CONSTANTS
    Run = {r1, r2}
    Conversation = {c1}
    NoConversation = NoConversation
    MaxRevisions = 0
    MaxBranches = 1
    MaxStoreFailures = 1
    MaxRestarts = 1
SYMMETRY RunSymmetry
INVARIANTS
    OneActiveRun
    LogTellsStatus
    WaitingIsAnswerable
    StoredOutcomeIsTrue
    ConversationShowsLatest
    PageAgreesWithHistory
PROPERTIES
    EndedIsFinal
CHECK_DEADLOCK FALSE
