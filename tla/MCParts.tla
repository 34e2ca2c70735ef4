-------------------------------- MODULE MCParts --------------------------------
(***************************************************************************)
(* The parts of the program that keep to themselves, on small instances:   *)
(* one lobby with its clock, the matcher, the rating scenarios, the rating *)
(* storage and the wait times.  None of them meets another here, so that a *)
(* behaviour exercises one, the subject, while the others stay where they  *)
(* start.                                                                  *)
(*                                                                         *)
(* The lobby has two places, for two humans and two bots, and needs        *)
(* MinHumans humans if it is General.                                      *)
(***************************************************************************)
EXTENDS LobbyInstance, Matching, RatingScenarios, RatingStorage, WaitTime

CONSTANTS h1, h2, b1, b2, MinHumans, p1, p2, p3, c1, c2, human_general, bot_general

VARIABLE subject

MCPlayer == {h1, h2, b1, b2}
MCHuman  == {h1, h2}

MCConfig ==
    [t \in LobbyType |->
        IF t = "AllBot"
        THEN [AllBotConfig EXCEPT !.capacity = 2]
        ELSE [GeneralConfig EXCEPT !.capacity = 2, !.base_wait_time_seconds = 1,
                                   !.min_human_players = MinHumans]]

Symmetry == Permutations(MCHuman) \cup Permutations(MCPlayer \ MCHuman)

MCRatedPlayer == {p1, p2, p3}
MCRater == {c1, c2}

\* The beginner and the expert of tests/integration/lobby_lifecycle.rs:413-436: 800 apart,
\* where the tolerance is 300.
MCPlayerRating ==
    {[rating |-> 1200, uncertainty |-> 300], [rating |-> 2000, uncertainty |-> 100]}

MCStatsKey == {human_general, bot_general}

Configured(low, high, percent, count, default) ==
    [min_wait_seconds |-> low, max_wait_seconds |-> high, std_dev_multiplier |-> percent,
     min_samples_for_dynamic |-> count, default_wait_seconds |-> default,
     max_stats_age_seconds |-> 1]

\* Two valid configurations and four that are not.
MCWaitConfigs ==
    {Configured(2, 4, 100, 2, 3), Configured(3, 6, 50, 1, 3), Configured(2, 4, 100, 2, 5),
     Configured(4, 2, 100, 2, 3), Configured(2, 4, -50, 2, 3), Configured(2, 4, 100, 0, 3)}

Subjects == {"instance", "matcher", "scenarios", "storage", "waits"}

PartsInit ==
    /\ subject \in Subjects
    /\ Init /\ (subject # "instance" => lobby.type = "General")
    /\ ScenarioInit /\ (subject # "scenarios" => size = 0)
    /\ StorageInit
    /\ WaitInit /\ (subject # "waits" => config = Configured(2, 4, 100, 2, 3))
    /\ IF subject = "matcher" THEN MatchInit
       ELSE /\ seeker = CHOOSE p \in Seeker : TRUE
            /\ offered = <<>> /\ position = 0 /\ best = 0 /\ decision = Undecided

PartsNext ==
    \/ /\ subject = "instance" /\ Next
       /\ UNCHANGED <<subject, matchVars, scenarioVars, storageVars, waitVars>>
    \/ /\ subject = "matcher" /\ MatchNext
       /\ UNCHANGED <<subject, vars, scenarioVars, storageVars, waitVars>>
    \/ /\ subject = "scenarios" /\ Rate
       /\ UNCHANGED <<subject, vars, matchVars, storageVars, waitVars>>
    \/ /\ subject = "storage" /\ StorageNext
       /\ UNCHANGED <<subject, vars, matchVars, scenarioVars, waitVars>>
    \/ /\ subject = "waits" /\ WaitNext
       /\ UNCHANGED <<subject, vars, matchVars, scenarioVars, storageVars>>

PartsSpec ==
    PartsInit /\ [][PartsNext]_<<subject, vars, matchVars, scenarioVars, storageVars, waitVars>>
=============================================================================
