--------------------------- MODULE RatingScenarios ---------------------------
(***************************************************************************)
(* The rating scenarios of a GameStarting event: calculate_rating_scenarios*)
(* and create_balanced_rankings of src/lobby/manager.rs, and what          *)
(* calculate_rating_changes of src/rating/weng_lin.rs asks of a ranking.   *)
(* For every player of the game and every rank one ranking of all players  *)
(* is made up and rated.  The players are the places 1..size of the game;  *)
(* the numbers that come back are external and left out.                   *)
(***************************************************************************)
EXTENDS Integers

CONSTANT MaxPlayers   \* how large a game is: a bound

ASSUME ScenarioAssumption == MaxPlayers \in Nat

VARIABLES
    size,      \* how many players the game has
    target,    \* the player of the outer loop
    rank,      \* the rank of the inner loop
    rankings,  \* the ranking that was rated last, by player
    rated      \* the (player, rank) pairs that have a scenario

scenarioVars == <<size, target, rank, rankings, rated>>

Roster == 1..size

AvailableRank_Unfiltered(r, k) == k

\* available_ranks: the k-th rank, in ascending order, of those without r.
AvailableRank(r, k) == IF k < r THEN k ELSE k + 1

\* create_balanced_rankings: player t at rank r, the others in the order of the roster
\* at the ranks that are left.
BalancedRankings(t, r) ==
    [p \in Roster |-> IF p = t THEN r
                      ELSE AvailableRank(r, IF p < t THEN p ELSE p - 1)]

ScenarioInit ==
    /\ size \in 0..MaxPlayers
    /\ target = 1 /\ rank = 1
    /\ rankings = [p \in Roster |-> p]
    /\ rated = {}

\* calculate_rating_changes answers when there are players and each has a rank; its
\* numbers are external.
Answered(ranking) == Roster # {} /\ Roster \subseteq DOMAIN ranking

\* One round of the inner loop: the target's own change becomes the scenario, and an
\* error leaves it out and is only logged.
Rate ==
    /\ target <= size
    /\ rankings' = BalancedRankings(target, rank)
    /\ rated' = IF Answered(BalancedRankings(target, rank))
                THEN rated \cup {<<target, rank>>} ELSE rated
    /\ IF rank < size THEN rank' = rank + 1 /\ UNCHANGED target
                      ELSE rank' = 1 /\ target' = target + 1
    /\ UNCHANGED size

ScenarioSpec == ScenarioInit /\ [][Rate]_scenarioVars
-----------------------------------------------------------------------------
ScenarioTypeOK ==
    /\ size \in 0..MaxPlayers
    /\ target \in 1..(size + 1)
    /\ rank \in 1..(size + 1)
    /\ rankings \in [Roster -> Int]
    /\ rated \subseteq Roster \X Roster

\* Every ranking that is rated gives each player one rank and each rank one player,
\* and when the table is complete every player has been rated at every rank: nothing
\* is predicted for an outcome that no game can have.
OutcomesPossible ==
    /\ \A p \in Roster : rankings[p] \in Roster
    /\ \A p, q \in Roster : p # q => rankings[p] # rankings[q]
    /\ target > size => rated = Roster \X Roster
=============================================================================
