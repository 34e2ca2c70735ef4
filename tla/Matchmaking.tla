---------------------------- MODULE Matchmaking ----------------------------
(***************************************************************************)
(* What LobbyManager promises to the players: lobbies are opened, entered, *)
(* left and closed with a team, and the game of a team is announced.  No   *)
(* queue, handler, lock or cleanup pass appears here; LobbyManager is      *)
(* shown to implement this.                                                *)
(***************************************************************************)
EXTENDS Naturals, FiniteSets

CONSTANTS
    Player,       \* the ids players and bots enter under
    Human,        \* the ids of the humans
    LobbyId,      \* the lobbies there may ever be
    Kind,         \* the kinds of lobby
    BotsOnly,     \* the kinds that admit no human
    HumansFirst,  \* the kinds that seat humans before bots
    TeamSize,     \* the players in a game of each kind
    HumansNeeded  \* the humans in a game of each kind, at least

VARIABLES
    phase,     \* whether a lobby exists and can be entered
    kind,      \* the kind of every lobby
    members,   \* the players in every lobby
    team,      \* the players of the game a lobby was closed for
    announced  \* the lobbies whose game was announced

vars == <<phase, kind, members, team, announced>>

Live(l) == phase[l] \in {"open", "closed"}

Init ==
    /\ phase = [l \in LobbyId |-> "none"]
    /\ kind \in [LobbyId -> Kind]
    /\ members = [l \in LobbyId |-> {}]
    /\ team = [l \in LobbyId |-> {}]
    /\ announced = {}

\* A new, empty lobby of some kind.
OpenLobby(l) ==
    /\ phase[l] = "none"
    /\ phase' = [phase EXCEPT ![l] = "open"]
    /\ \E k \in Kind : kind' = [kind EXCEPT ![l] = k]
    /\ UNCHANGED <<members, team, announced>>

\* Only an open lobby is entered, once, and by those its kind admits.
Enter(l, p) ==
    /\ phase[l] = "open"
    /\ p \notin members[l]
    /\ kind[l] \in BotsOnly => p \notin Human
    /\ members' = [members EXCEPT ![l] = @ \cup {p}]
    /\ UNCHANGED <<phase, kind, team, announced>>

\* A player may leave at any time, which does not change a team once chosen.
Leave(l, p) ==
    /\ Live(l)
    /\ p \in members[l]
    /\ members' = [members EXCEPT ![l] = @ \ {p}]
    /\ UNCHANGED <<phase, kind, team, announced>>

\* T can play a game of lobby l: it has the right size and enough humans, and
\* no bot in it keeps a human of the lobby out.
Playable(l, T) ==
    /\ T \subseteq members[l]
    /\ Cardinality(T) = TeamSize[kind[l]]
    /\ Cardinality(T \cap Human) >= HumansNeeded[kind[l]]
    /\ kind[l] \in HumansFirst => T \subseteq Human \/ members[l] \cap Human \subseteq T

\* The lobby is closed for good and its team chosen, in one step.
Close(l) ==
    /\ phase[l] = "open"
    /\ phase' = [phase EXCEPT ![l] = "closed"]
    /\ \E T \in SUBSET members[l] : Playable(l, T) /\ team' = [team EXCEPT ![l] = T]
    /\ UNCHANGED <<kind, members, announced>>

\* The game of the team is announced, at most once ...
Announce(l) ==
    /\ team[l] # {}
    /\ l \notin announced
    /\ announced' = announced \cup {l}
    /\ UNCHANGED <<phase, kind, members, team>>

\* ... or never, when the announcement fails.
Forfeit(l) ==
    /\ team[l] # {}
    /\ l \notin announced
    /\ team' = [team EXCEPT ![l] = {}]
    /\ UNCHANGED <<phase, kind, members, announced>>

\* Some lobbies are removed, whatever their phase.
Discard(S) ==
    /\ \A l \in S : Live(l)
    /\ phase' = [l \in LobbyId |-> IF l \in S THEN "gone" ELSE phase[l]]
    /\ UNCHANGED <<kind, members, team, announced>>

Next ==
    \/ \E l \in LobbyId :
          \/ OpenLobby(l) \/ Close(l) \/ Announce(l) \/ Forfeit(l)
          \/ \E p \in Player : Enter(l, p) \/ Leave(l, p)
    \/ \E S \in SUBSET LobbyId : Discard(S)

Spec == Init /\ [][Next]_vars
=============================================================================
