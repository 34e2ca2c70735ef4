SPECIFICATION FairSpec
CONSTANT Settings <- MCSettings
CHECK_DEADLOCK FALSE
INVARIANTS
    OneLastRound
    LoopsLast
PROPERTY ShutdownQuiesces
