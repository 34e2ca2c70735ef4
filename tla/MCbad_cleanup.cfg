SPECIFICATION Spec
CONSTANTS
    h1 = h1
    h2 = h2
    b1 = b1
    b2 = b2
    Player <- MCPlayer
    Human <- MCHuman
    Config <- MCConfig
    None = None
    LobbyId = {l1, l2, l3}
    Request = {r1, r2, r3}
    Offers <- TwoHumans
    Leavers <- Nobody
    Idlers = {l1, l2, l3}
    MaxConcurrent = 1
    PublishMayFail = FALSE
    MatcherMayDecline = FALSE
PROPERTY CleanupRemovesOnlyStale
