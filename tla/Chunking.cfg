SPECIFICATION ChunkingSpec
CONSTANTS
    Elements <- MCElements
    MaxElements = 5
    chunk_size = 5
    MaxParts = 3
CHECK_DEADLOCK FALSE
INVARIANTS
    PiecesFit
    TextsInOrder
    SectionsKept
    TreeHoldsPieces
