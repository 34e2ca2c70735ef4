--------------------------- MODULE MCLobbyManager ---------------------------
(***************************************************************************)
(* LobbyManager on small instances: two humans and two bots, lobbies of    *)
(* two places, the rest of the configurations as the code's defaults.      *)
(***************************************************************************)
EXTENDS LobbyManager

CONSTANTS h1, h2, b1, b2

MCPlayer == {h1, h2, b1, b2}
MCHuman  == {h1, h2}

MCConfig ==
    [t \in LobbyType |->
        [(IF t = "AllBot" THEN AllBotConfig ELSE GeneralConfig) EXCEPT !.capacity = 2]]

\* What the requests may ask for: General lobbies only, or either type.
TwoHumans == [player : MCHuman, lobby_type : {"General"}]
HumansAnywhere == [player : MCHuman, lobby_type : {"General", "AllBot"}]
TwoHumansOneBot == [player : {h1, h2, b1}, lobby_type : {"General"}]
MixedOffers ==
    [player : {h1, b1, b2}, lobby_type : {"General"}] \cup
    [player : {h1, b2}, lobby_type : {"AllBot"}]

Nobody   == {}
JustH1   == {h1}
Humans   == {h1, h2}

\* The ids are interchangeable; so are the humans when both of them may leave.
Symmetry == Permutations(Request) \cup Permutations(LobbyId)
RequestSymmetry == Permutations(Request) \cup Permutations(MCHuman)
=============================================================================
