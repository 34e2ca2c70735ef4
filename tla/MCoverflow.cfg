SPECIFICATION Spec
CONSTANTS
    h1 = h1
    h2 = h2
    b1 = b1
    b2 = b2
    Player <- MCPlayer
    Human <- MCHuman
    Config <- MCConfig
    None = None
    LobbyId = {l1, l2, l3, l4}
    Request = {r1, r2, r3, r4}
    Offers <- MixedOffers
    Leavers <- Nobody
    Idlers = {}
    MaxConcurrent = 2
    PublishMayFail = TRUE
    MatcherMayDecline = TRUE
SYMMETRY Symmetry
INVARIANTS
    OverflowBounded
    GamesArePlayable
