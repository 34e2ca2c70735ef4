------------------------------- MODULE WaitTime -------------------------------
(***************************************************************************)
(* How long a player is made to wait before bots come in (src/wait_time):  *)
(* the statistics of past waits per kind of lobby and player, the          *)
(* calculator that estimates from them, and the provider in front of both. *)
(* Recording takes the lock of the statistics twice, to add the sample and *)
(* to clean up; reading and configuring take it once.                      *)
(*                                                                         *)
(* Seconds are whole numbers here and fractions of them in the code: the   *)
(* estimate is rounded down before it is clamped.  The multiplier of the   *)
(* standard deviation is in percent.                                       *)
(***************************************************************************)
EXTENDS Integers, FiniteSets, Functions

CONSTANTS
    StatsKey,      \* the kinds of waits, by lobby type and player type
    MaxKeys,       \* max_entries of the statistics
    Sample,        \* the waits that may be recorded, in seconds
    WaitConfigs,   \* the configurations that update_config may be given
    MaxSamples,    \* how many samples are recorded: a bound
    WaitHorizon    \* the last moment of a behaviour: a bound

WaitTimeConfig ==
    [min_wait_seconds : Nat, max_wait_seconds : Nat, std_dev_multiplier : Int,
     min_samples_for_dynamic : Nat, default_wait_seconds : Nat,
     max_stats_age_seconds : Nat]

ASSUME WaitTimeAssumption ==
    /\ Sample \subseteq Nat
    /\ WaitConfigs \subseteq WaitTimeConfig
    /\ MaxKeys \in Nat /\ MaxSamples \in Nat /\ WaitHorizon \in Nat

ValidWaitConfig_AnyDefault(c) ==
    /\ c.min_wait_seconds < c.max_wait_seconds
    /\ c.std_dev_multiplier >= 0
    /\ c.min_samples_for_dynamic > 0

\* WaitTimeConfig::validate
ValidWaitConfig(c) ==
    /\ c.min_wait_seconds < c.max_wait_seconds
    /\ c.std_dev_multiplier >= 0
    /\ c.min_samples_for_dynamic > 0
    /\ c.default_wait_seconds \in c.min_wait_seconds..c.max_wait_seconds

VARIABLES
    waits,     \* the statistics: [the known categories -> WaitStats]
    config,    \* the configuration of the calculator
    trimming,  \* whether a record_wait_time is before its cleanup_if_needed
    recorded,  \* how many samples were recorded, bounded by MaxSamples
    moment     \* the clock

waitVars == <<waits, config, trimming, recorded, moment>>

WaitStats == [sample_count : Nat, sum_seconds : Nat, sum_squared_seconds : Nat,
              last_updated : 0..WaitHorizon]

NoSamples == [sample_count |-> 0, sum_seconds |-> 0, sum_squared_seconds |-> 0,
              last_updated |-> 0]

WaitInit ==
    /\ waits = [k \in {} |-> NoSamples]
    /\ config \in {c \in WaitConfigs : ValidWaitConfig(c)}
    /\ trimming = FALSE
    /\ recorded = 0 /\ moment = 0

\* add_sample
WithSample(s, seconds) ==
    [s EXCEPT !.sample_count = @ + 1, !.sum_seconds = @ + seconds,
              !.sum_squared_seconds = @ + seconds * seconds, !.last_updated = moment]

\* record_wait_time, up to the release of the lock.
RecordWait(k, seconds) ==
    /\ recorded < MaxSamples
    /\ waits' = [c \in DOMAIN waits \cup {k} |->
                    IF c # k THEN waits[c]
                    ELSE WithSample(IF k \in DOMAIN waits THEN waits[k] ELSE NoSamples,
                                    seconds)]
    /\ trimming' = TRUE
    /\ recorded' = recorded + 1
    /\ UNCHANGED <<config, moment>>

\* cleanup_if_needed: the categories updated longest ago go.
TrimWaits ==
    /\ trimming
    /\ trimming' = FALSE
    /\ IF Cardinality(DOMAIN waits) > MaxKeys
       THEN \E V \in SUBSET DOMAIN waits :
                /\ Cardinality(V) = Cardinality(DOMAIN waits) - MaxKeys
                /\ \A v \in V, k \in DOMAIN waits \ V :
                    waits[v].last_updated <= waits[k].last_updated
                /\ waits' = Restrict(waits, DOMAIN waits \ V)
       ELSE UNCHANGED waits
    /\ UNCHANGED <<config, recorded, moment>>

\* clear_statistics
ClearWaits(k) ==
    /\ k \in DOMAIN waits
    /\ waits' = Restrict(waits, DOMAIN waits \ {k})
    /\ UNCHANGED <<config, trimming, recorded, moment>>

\* update_config: an invalid configuration is refused and the old one stays.
UpdateWaitConfig(c) ==
    /\ config' = IF ValidWaitConfig(c) THEN c ELSE config
    /\ UNCHANGED <<waits, trimming, recorded, moment>>

WaitTick ==
    /\ moment < WaitHorizon
    /\ moment' = moment + 1
    /\ UNCHANGED <<waits, config, trimming, recorded>>

WaitNext ==
    \/ \E k \in StatsKey : ClearWaits(k) \/ \E s \in Sample : RecordWait(k, s)
    \/ TrimWaits \/ WaitTick
    \/ \E c \in WaitConfigs : UpdateWaitConfig(c)

WaitSpec == WaitInit /\ [][WaitNext]_waitVars
-----------------------------------------------------------------------------
(***************************************************************************)
(* The estimate: calculate_wait_time.                                      *)
(***************************************************************************)

SquareRoot(x) == CHOOSE r \in 0..x : r * r <= x /\ x < (r + 1) * (r + 1)

\* standard_deviation times sample_count: none for a single sample.
Spread(s) ==
    LET variance == s.sample_count * s.sum_squared_seconds - s.sum_seconds * s.sum_seconds
    IN  IF s.sample_count <= 1 \/ variance < 0 THEN 0 ELSE SquareRoot(variance)

\* mean + std_dev_multiplier * standard_deviation
TargetWait(s) ==
    (100 * s.sum_seconds + config.std_dev_multiplier * Spread(s)) \div (100 * s.sample_count)

\* The bounds of calculate_dynamic_wait_time.
Clamped(x) ==
    IF x < config.min_wait_seconds THEN config.min_wait_seconds
    ELSE IF x > config.max_wait_seconds THEN config.max_wait_seconds ELSE x

\* has_sufficient_samples and are_stats_fresh: the age is that of the latest sample.
Usable(s) ==
    /\ s.sample_count >= config.min_samples_for_dynamic
    /\ moment - s.last_updated <= config.max_stats_age_seconds

\* get_wait_time
WaitTimeFor(k) ==
    IF k \in DOMAIN waits /\ Usable(waits[k]) THEN Clamped(TargetWait(waits[k]))
    ELSE config.default_wait_seconds
-----------------------------------------------------------------------------
\* Whatever was recorded, cleared, evicted and configured, in any order, and however
\* old it is: the wait that is answered lies within the bounds configured now.
WaitWithinBounds ==
    \A k \in StatsKey : WaitTimeFor(k) \in config.min_wait_seconds..config.max_wait_seconds
=============================================================================
