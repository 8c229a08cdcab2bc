SPECIFICATION FairSpec
CONSTANTS
    HeaderLength = 4
    ParameterLengths = {0, 1, 3}
    Cuts = {1, 2, 3}
    Ahead = 1
    MaxCommands = 4
INVARIANTS TypeOK ProcessedOnceWhole
PROPERTIES CommandsAreProcessed
CHECK_DEADLOCK FALSE
