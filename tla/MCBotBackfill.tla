--------------------------- MODULE MCBotBackfill ---------------------------
(***************************************************************************)
(* BotBackfill on small instances: two lobbies that share the bots, both   *)
(* in use at first, and one of them in use for as long as the clock runs.  *)
(***************************************************************************)
EXTENDS BotBackfill

CONSTANTS h1, h2, b1, b2, l1, l2,
    Places,     \* of a lobby
    SharedTime  \* how long both lobbies are in use: a bound

MCPlayer == {h1, h2, b1, b2}
MCHuman  == {h1, h2}
MCBot    == {b1, b2}

MCConfig ==
    [t \in LobbyType |->
        IF t = "AllBot" THEN AllBotConfig
        ELSE [GeneralConfig EXCEPT !.capacity = Places, !.base_wait_time_seconds = 0]]

Symmetry ==
    Permutations(MCHuman) \cup Permutations(MCBot) \cup Permutations(LobbyId)

\* A lobby nobody has been in.
Untouched(l) == lobby[l] = NewInstance("General", 0) /\ op.lobby # l

\* After SharedTime only one of the lobbies has been used.
Focused == now > SharedTime => \E l \in LobbyId : \A k \in LobbyId \ {l} : Untouched(k)

FocusedSpec == Init /\ [][Next /\ Focused']_vars
=============================================================================
