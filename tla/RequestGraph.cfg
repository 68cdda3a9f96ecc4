\* Four messages, a window of two, in as many turns and revisions as that takes.
CONSTANTS
    Job = {j1, j2}
    Text = {t1}
    None = None
    previous_turn_limit = 1
    MaxMessages = 4
SPECIFICATION Spec
INVARIANTS
    PlanIsOfLastText
    AnswersAreAccepted
    TurnIsUnderstood
CHECK_DEADLOCK FALSE
