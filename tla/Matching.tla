------------------------------ MODULE Matching ------------------------------
(***************************************************************************)
(* RatingBasedLobbyMatcher (src/lobby/matching.rs): which of the lobbies   *)
(* it is offered a player enters.  LobbyManager has a choice of any        *)
(* joinable lobby in its place; this module computes the scores.           *)
(*                                                                         *)
(* Scores are the code's times 10 * Seats, so that they are integers.      *)
(* What the rating library computes - the quality of a match and the bonus *)
(* for an even one - is a choice over its range; which players are         *)
(* compatible is computed from the ratings.                                *)
(***************************************************************************)
EXTENDS Integers, Sequences

CONSTANTS
    Seats,           \* the capacity of the lobbies: all that are offered have one type
    PlayerRating,    \* the ratings players may have: [rating, uncertainty]
    Quality,         \* what calculate_match_quality may return, in hundredths
    Bonus,           \* what an even match may add
    MaxSeated,       \* how many players a lobby that is offered holds: a bound
    MaxOffered       \* how many lobbies are offered at most: a bound

ASSUME MatchingAssumption ==
    /\ Seats \in Nat \ {0}
    /\ PlayerRating \subseteq [rating : Int, uncertainty : Nat]
    /\ Quality \subseteq 0..100
    /\ Bonus \subseteq 0..20
    /\ MaxSeated \in Nat /\ MaxOffered \in Nat

PlayerType == {"Human", "Bot"}
OfferedType == {"AllBot", "General"}

\* MatchingConfig::default.
MaxRatingDifference == 300
WaitThreshold == 30

Scale == 10 * Seats

\* A lobby as the matcher sees it, with what the library says of the seeker in it.
Offered == [lobby_type : OfferedType,
            state : {"WaitingForPlayers", "ReadyToStart", "Starting", "GameStarted",
                     "Abandoned"},
            players : UNION {[1..n -> PlayerRating] : n \in 0..MaxSeated},
            quality : Quality,
            bonus : Bonus]

Seeker == [type : PlayerType, rating : PlayerRating]

IsEmpty(l) == l.players = <<>>

\* is_lobby_eligible
IsEligible(p, l) ==
    /\ l.lobby_type = "AllBot" => p.type = "Bot"
    /\ l.state \in {"WaitingForPlayers", "ReadyToStart"}

\* can_player_join_lobby
CanJoin(p, l) == IsEligible(p, l) /\ Len(l.players) < Seats

\* lobby_type_score of an eligible player.
TypeScore(p, l) ==
    CASE p.type = "Bot" /\ l.lobby_type = "AllBot" -> 100
      [] p.type = "Human" /\ l.lobby_type = "General" -> 90
      [] p.type = "Bot" /\ l.lobby_type = "General" -> 80
      [] OTHER -> 0

\* fullness_score, times Seats.
FullnessScore(l) ==
    CASE IsEmpty(l) -> 10 * Seats
      [] ~IsEmpty(l) /\ Len(l.players) < Seats -> 50 * Seats + 40 * Len(l.players)
      [] OTHER -> 0

\* wait_time_score
WaitTimeScore(l) ==
    CASE l.state = "ReadyToStart" -> 20
      [] l.state = "WaitingForPlayers" -> 10
      [] OTHER -> 0

\* are_players_compatible, with a tolerance of max_rating_difference / 200 times the
\* mean uncertainty.
Compatible(a, b) ==
    LET diff == IF a.rating >= b.rating THEN a.rating - b.rating ELSE b.rating - a.rating
    IN  400 * diff <= MaxRatingDifference * (a.uncertainty + b.uncertainty)

CompatibleWithAll(p, l) ==
    \A i \in 1..Len(l.players) : Compatible(p.rating, l.players[i])

\* rating_compatibility_score: quality, a bonus of up to 20, and a penalty.
RatingScore(p, l) ==
    IF IsEmpty(l) THEN 50
    ELSE l.quality + l.bonus - (IF CompatibleWithAll(p, l) THEN 0 ELSE 50)

\* calculate_lobby_score, times Scale.
LobbyScore(p, l) ==
    IF ~IsEligible(p, l) THEN 0
    ELSE Scale * TypeScore(p, l) + 8 * FullnessScore(l)
         + 6 * Seats * WaitTimeScore(l) + 12 * Seats * RatingScore(p, l)

VARIABLES
    seeker,    \* the player
    offered,   \* available_lobbies
    position,  \* how many of them the loop has seen
    best,      \* best_lobby by its place in the sequence, 0 for None
    decision   \* the MatchingResult

matchVars == <<seeker, offered, position, best, decision>>

Undecided == [result |-> "None"]
Matched(i) == [result |-> "MatchedToLobby", lobby |-> i]
CreateNewLobby == [result |-> "CreateNewLobby"]
ShouldWait == [result |-> "ShouldWait"]

Score(i) == LobbyScore(seeker, offered[i])

\* The lobbies that the loop does not skip.
Considered(i) ==
    /\ CanJoin(seeker, offered[i])
    /\ Score(i) < Scale * WaitThreshold => IsEmpty(offered[i])

MatchInit ==
    /\ seeker \in Seeker
    /\ offered \in UNION {[1..n -> Offered] : n \in 0..MaxOffered}
    /\ position = 0
    /\ best = 0
    /\ decision = Undecided

Examine_LastWins ==
    /\ position < Len(offered)
    /\ position' = position + 1
    /\ best' = IF Considered(position + 1) /\ (best # 0 => Score(position + 1) >= Score(best))
               THEN position + 1 ELSE best
    /\ UNCHANGED <<seeker, offered, decision>>

\* One round of the loop of find_lobby_for_player.
Examine ==
    /\ position < Len(offered)
    /\ position' = position + 1
    /\ best' = IF Considered(position + 1) /\ (best # 0 => Score(position + 1) > Score(best))
               THEN position + 1 ELSE best
    /\ UNCHANGED <<seeker, offered, decision>>

\* The result after the loop.
Decide ==
    /\ position = Len(offered) /\ decision = Undecided
    /\ decision' = IF best # 0 /\ Score(best) > 0 THEN Matched(best)
                   ELSE IF \E i \in 1..Len(offered) : ~IsEmpty(offered[i]) THEN ShouldWait
                   ELSE CreateNewLobby
    /\ UNCHANGED <<seeker, offered, position, best>>

MatchNext == Examine \/ Decide

MatchSpec == MatchInit /\ [][MatchNext]_matchVars
-----------------------------------------------------------------------------
MatchTypeOK ==
    /\ seeker \in Seeker
    /\ offered \in Seq(Offered)
    /\ position \in 0..Len(offered)
    /\ best \in 0..position
    /\ decision \in {Undecided, CreateNewLobby, ShouldWait} \cup
                    {Matched(i) : i \in 1..Len(offered)}

\* A player who may enter one of the lobbies is sent to one that it may enter: with the
\* default configuration no score of a joinable lobby lies below wait_threshold, so that
\* neither it nor max_rating_difference ever turns a player away.  A new lobby is made
\* exactly when there is none to enter.  This is why MatchedWithinDifference fails for
\* all ratings, and not only for those of the run that shows it.
MatchesWheneverJoinable ==
    decision # Undecided =>
        IF \E i \in 1..Len(offered) : CanJoin(seeker, offered[i])
        THEN /\ decision = Matched(best)
             /\ CanJoin(seeker, offered[best])
        ELSE decision \in {ShouldWait, CreateNewLobby}

\* The lobby found is the first of those with the best score.
FirstOfTheBest ==
    best # 0 => \A i \in 1..position :
        Considered(i) =>
            /\ Score(i) <= Score(best)
            /\ i < best => Score(i) < Score(best)
-----------------------------------------------------------------------------
(* What the documentation says of the matcher and the code does not do.    *)

\* No player is matched to a lobby with somebody too far from it.  matching.rs:25 calls
\* max_rating_difference the "Maximum rating difference allowed for matching", and
\* tests/integration/lobby_lifecycle.rs:444 asserts "Should create separate lobbies for
\* different skill levels".  The distance is measured as the code measures it.
MatchedWithinDifference ==
    decision.result = "MatchedToLobby" =>
        CompatibleWithAll(seeker, offered[decision.lobby])
=============================================================================
