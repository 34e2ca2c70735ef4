SPECIFICATION TimedSpec
CONSTANTS
    h1 = h1
    h2 = h2
    b1 = b1
    b2 = b2
    Player <- MCPlayer
    Human <- MCHuman
    Config <- MCConfig
    None = None
    LobbyId = {l1, l2, l3}
    Request = {r1, r2}
    Offers <- HumansAnywhere
    Leavers <- JustH1
    Idlers = {l1, l2}
    MaxConcurrent = 2
    PublishMayFail = FALSE
    MatcherMayDecline = TRUE
PROPERTIES
    RequestsAnswered
    ReadyLobbyStarts
    EventuallyReclaimed
