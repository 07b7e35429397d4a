SPECIFICATION FairSpec
CONSTANT MaxChunks = 2
INVARIANTS NilMeansBothComplete EofIsComplete
PROPERTY Released
CHECK_DEADLOCK FALSE
