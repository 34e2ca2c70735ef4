SPECIFICATION FocusedSpec
CONSTANTS
    h1 = h1
    h2 = h2
    b1 = b1
    b2 = b2
    l1 = l1
    l2 = l2
    Player <- MCPlayer
    Human <- MCHuman
    Config <- MCConfig
    Places = 2
    SharedTime = 1
    Unset = Unset
    IdleLimit = 9
    LobbyId = {l1, l2}
    MinHumans = 1
    MaxBots = 2
    Cooldown = 1
    ExtendedWait = 0
    Manual = TRUE
    Leavers <- MCPlayer
    Withdrawals <- MCBot
    Horizon = 3
SYMMETRY Symmetry
INVARIANTS
    BotsExclusive
    ReservationsCounted
PROPERTIES
    BackfillFits
    BackfillsSpaced
