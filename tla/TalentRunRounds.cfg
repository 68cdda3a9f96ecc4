\* One run through every branch of the graph and two rounds of revision,
\* with store writes failing twice, the second time while the first failure
\* is being reported.
SPECIFICATION FairSpec
CONSTANTS
    Run = {r1}
    Conversation = {c1}
    NoConversation = NoConversation
    MaxRevisions = 2
    MaxBranches = 2
    MaxStoreFailures = 2
    MaxRestarts = 1
INVARIANTS
    ReportedRunIsWhole
    PageFollowsRun
PROPERTIES
    ImplementsLifecycle
    RunsEndOrAsk
CHECK_DEADLOCK FALSE
