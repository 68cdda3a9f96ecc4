\* Two calls of one key; two judges, two confirmers, a replay, one id each.
SPECIFICATION Spec
CONSTANTS
    Calls = {c1, c2}
    key <- MCkey
    Judges = {j1, j2}
    Confirmers = {k1, k2}
    Replays = {r1}
    Scores = {3}
    MaxBatch = 1
    None = None
SYMMETRY MCSymmetry
INVARIANTS
    CasesNumbered
    AnnotatedOnce
    ConfirmedIsInDataset
    CallsGoOn
CHECK_DEADLOCK FALSE
