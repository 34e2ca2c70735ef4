SPECIFICATION Spec
CONSTANTS
    h1 = h1
    h2 = h2
    b1 = b1
    b2 = b2
    Player <- MCPlayer
    Human <- MCHuman
    Config <- MCConfig
    None = None
    LobbyId = {l1, l2, l3}
    Request = {r1, r2, r3}
    Offers <- TwoHumansOneBot
    Leavers <- JustH1
    Idlers = {l1, l2, l3}
    MaxConcurrent = 3
    PublishMayFail = TRUE
    MatcherMayDecline = FALSE
SYMMETRY Symmetry
INVARIANTS
    TypeOK
    StartedOnce
    QueuesInOrder
    StatesMatchQueues
    TotalsExact
    ActiveLobbiesNearlyExact
    ReadyHasStarter
    JoinersListed
    PlayersAnnounced
PROPERTIES
    StartedLobbyClosed
    KeepsPromise
