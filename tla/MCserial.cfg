SPECIFICATION Spec
CONSTANTS
    h1 = h1
    h2 = h2
    b1 = b1
    b2 = b2
    Player <- MCPlayer
    Human <- MCHuman
    Config <- MCConfig
    None = None
    LobbyId = {l1, l2, l3, l4}
    Request = {r1, r2, r3, r4}
    Offers <- TwoHumansOneBot
    Leavers <- Humans
    Idlers = {l1}
    MaxConcurrent = 1
    PublishMayFail = FALSE
    MatcherMayDecline = FALSE
SYMMETRY RequestSymmetry
INVARIANTS
    AnnouncedBeforeStart
    OneOpenLobby
