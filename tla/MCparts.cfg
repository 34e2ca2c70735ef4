SPECIFICATION PartsSpec
CONSTANTS
    h1 = h1
    h2 = h2
    b1 = b1
    b2 = b2
    MinHumans = 1
    Player <- MCPlayer
    Human <- MCHuman
    Config <- MCConfig
    Unset = Unset
    IdleLimit = 2
    Horizon = 4
    p1 = p1
    p2 = p2
    p3 = p3
    c1 = c1
    c2 = c2
    human_general = human_general
    bot_general = bot_general
    Seats = 2
    PlayerRating <- MCPlayerRating
    Quality = {0, 100}
    Bonus = {0}
    MaxSeated = 2
    MaxOffered = 2
    MaxPlayers = 5
    RatedPlayer <- MCRatedPlayer
    MaxEntries = 2
    Rater <- MCRater
    StorageHorizon = 2
    StatsKey <- MCStatsKey
    MaxKeys = 1
    Sample = {1, 3, 7}
    WaitConfigs <- MCWaitConfigs
    MaxSamples = 3
    WaitHorizon = 2
SYMMETRY Symmetry
CHECK_DEADLOCK FALSE
INVARIANTS
    FirstComeFirstServed
    TimeoutTracksQueue
    WaitBounded
    CleanupSparesActive
    FirstOfTheBest
    OutcomesPossible
    StorageBounded
    WaitWithinBounds
